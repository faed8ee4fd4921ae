------------------------------ MODULE Channel ------------------------------
(***************************************************************************)
(* The channels between Dart and the compositor: the messages the          *)
(* compositor builds, and the calls of Dart with their replies             *)
(* (engine_cb_platform_message and the decoders of messages.c).  The       *)
(* platform thread builds one message or answers one call at a time.       *)
(*                                                                         *)
(* A method is its name in the source; Spell gives the bytes that stand    *)
(* for the name in a message.  What a handler does with its arguments is   *)
(* the business of the other modules.                                      *)
(***************************************************************************)
EXTENDS StandardCodec

CONSTANTS
  Spell,      \* the bytes of names, keys and texts of this module
  ArgValues,  \* what Dart gives: functions from the names of arguments to values
  SocketPaths,\* the values of wl_socket
  Kinds,      \* the cursor kinds Flutter asks for
  Answers     \* values a channel handler of a plugin answers with

VARIABLES
  call,       \* history: the call Dart makes, or NoCall
  request,    \* its bytes
  taken,      \* the arguments as the handler uses them, by name
  answer,     \* history: the reply the handler means to give
  reply       \* the bytes that were sent for it

callVars == <<call, request, taken, answer, reply>>
channelVars == <<builderVars, callVars>>

Text(s) == <<Part(kValueString, s, 0)>>
Null == <<Part(kValueNull, << >>, 0)>>
List(values) == <<Part(kValueList, << >>, Len(values))>> \o values

NoCall == [channel |-> "none", method |-> "none", args |-> << >>]
NoAnswer == [kind |-> "none", values |-> << >>]
NoReply == [size |-> 0, bytes |-> << >>]

-----------------------------------------------------------------------------
(* What Dart sends: the names of the arguments of a method, in order.      *)

PointerArgs ==
  <<"handle", "buttons", "double", "double", "int", "double", "bool", "embedderId", "kind",
    "double", "double", "localX", "localY", "bool", "double", "platformData", "pointer",
    "positionX", "positionY", "double", "double", "double", "double", "bool", "double",
    "timestamp", "eventType", "sizeX", "sizeY", "scrollX", "scrollY">>

Handle == <<"handle">>

DartArgs ==
  [ surface_toplevel_set_size |-> <<"handle", "width", "height">>,
    surface_toplevel_set_maximized |-> <<"handle", "maximized">>,
    surface_toplevel_close |-> Handle,
    surface_focus |-> Handle,
    surface_clear_focus |-> Handle,
    surface_set_position |-> <<"handle", "x", "y">>,
    surface_request_resize |-> <<"handle", "width", "height", "requestId">>,
    surface_end_resize |-> Handle,
    set_direct_input_mode |-> <<"enabled", "handle">>,
    surface_keyboard_key |-> <<"handle", "keycode", "status", "timestamp">>,
    surface_pointer_event |-> PointerArgs,
    popup_pointer_event |-> PointerArgs,
    set_primary_output |-> <<"outputId">>,
    set_vsync_output |-> <<"outputId">>,
    set_vsync_rate_limit |-> <<"maxHz">>,
    set_output_mode |-> <<"outputId", "width", "height", "refresh">>,
    set_output_position |-> <<"outputId", "x", "y">>,
    set_output_scale |-> <<"outputId", "scale">> ]

\* Methods that are called with no argument, which Dart sends as null.
BareMethods == {"get_socket_paths", "is_compositor", "compositor_ready"}

CursorMethods == {"activateSystemCursor", "createSystemCursor", "deleteSystemCursor"}

\* The arguments that are doubles, those that are bools and, of the others,
\* the integers that may be negative.
DoubleArgs == {"double", "localX", "localY", "positionX", "positionY", "sizeX", "sizeY",
               "scrollX", "scrollY", "scale"}
BoolArgs == {"bool", "enabled"}
SignedArgs == {"x", "y"}

\* Dart sends an integer in as many bytes as it needs.
Sendable(name) ==
  {p \in Parts :
     CASE name \in DoubleArgs -> p.tag = kValueFloat64
       [] name \in BoolArgs -> p.tag \in {kValueTrue, kValueFalse}
       [] OTHER -> \/ p.tag = kValueInt64
                   \/ p.tag = kValueInt32 /\ (name \in SignedArgs \/ p.data[4] < 128)}

-----------------------------------------------------------------------------
(* What the C side reads: of each argument the index, the type, and the    *)
(* bytes of it that are used.                                              *)

Field(name, index, type, bytes) ==
  [name |-> name, index |-> index, type |-> type, bytes |-> bytes]
\* Mutant: integers are used as they were read, in all of their bytes.
WordWide(name, index) == Field(name, index, "dvInteger", 8)

Word(name, index) == Field(name, index, "dvInteger", 4)
Long(name, index) == Field(name, index, "dvInteger", 8)
Float(name, index) == Field(name, index, "dvFloat64", 8)

PointerFields ==
  {Word("handle", 0), Long("buttons", 1), Long("embedderId", 7),
   Field("kind", 8, "dvInteger", 1), Float("localX", 11), Float("localY", 12),
   Long("platformData", 15), Long("pointer", 16), Float("positionX", 17),
   Float("positionY", 18), Long("timestamp", 25), Field("eventType", 26, "dvInteger", 1),
   Float("sizeX", 27), Float("sizeY", 28), Float("scrollX", 29), Float("scrollY", 30)}

\* The decoders of messages.c: the arguments are a list of this length.
Decoders ==
  [ surface_toplevel_set_size |->
      [length |-> 3, fields |-> {Word("handle", 0), Word("width", 1), Word("height", 2)}],
    surface_toplevel_set_maximized |->
      [length |-> 2, fields |-> {Word("handle", 0), Long("maximized", 1)}],
    surface_toplevel_close |-> [length |-> 1, fields |-> {Word("handle", 0)}],
    surface_focus |-> [length |-> 1, fields |-> {Word("handle", 0)}],
    surface_begin_move |-> [length |-> 1, fields |-> {Word("handle", 0)}],
    surface_begin_resize |->
      [length |-> 2, fields |-> {Word("handle", 0), Word("edges", 1)}],
    surface_set_position |->
      [length |-> 3, fields |-> {Word("handle", 0), Word("x", 1), Word("y", 2)}],
    surface_keyboard_key |->
      [length |-> 4, fields |-> {Word("handle", 0), Word("keycode", 1),
                                 Field("status", 2, "dvInteger", 1), Long("timestamp", 3)}],
    surface_pointer_event |-> [length |-> 31, fields |-> PointerFields],
    popup_pointer_event |-> [length |-> 31, fields |-> PointerFields] ]

\* The methods whose arguments are read where they are dispatched or in their
\* handler: a list of at least this length, and zero for what has another type.
\* (A scale is taken from an integer as well; Dart sends it as a double.)
Inline ==
  [ surface_request_resize |->
      [length |-> 4, fields |-> {Word("handle", 0), Word("width", 1), Word("height", 2),
                                 Long("requestId", 3)}],
    surface_end_resize |-> [length |-> 1, fields |-> {Word("handle", 0)}],
    set_direct_input_mode |->
      [length |-> 2, fields |-> {Field("enabled", 0, "dvBool", 1), Word("handle", 1)}],
    set_vsync_output |-> [length |-> 1, fields |-> {Word("outputId", 0)}],
    set_vsync_rate_limit |-> [length |-> 1, fields |-> {Word("maxHz", 0)}],
    set_output_mode |->
      [length |-> 4, fields |-> {Word("outputId", 0), Word("width", 1), Word("height", 2),
                                 Word("refresh", 3)}],
    set_output_position |->
      [length |-> 3, fields |-> {Word("outputId", 0), Word("x", 1), Word("y", 2)}],
    set_output_scale |-> [length |-> 2, fields |-> {Word("outputId", 0), Float("scale", 1)}] ]

\* A list too short for these is answered with success, or null, or an error.
ShortIsFine == {"set_direct_input_mode", "set_vsync_output", "set_vsync_rate_limit"}
Refusable == {"set_output_mode", "set_output_position", "set_output_scale"}

\* The names the source spells out.
Spelled ==
  UNION {DOMAIN DartArgs, BareMethods, CursorMethods, DOMAIN Decoders, DOMAIN Inline,
         {"unknown", "error", "Failed", "wayland", "x", "device", "kind"}}

\* Different names are spelled differently; they are shorter than 254 bytes.
\* The length of what Dart sends is one that can be written.
ASSUME ChannelAssumption ==
  /\ \A s \in Spelled : Spell[s] \in Seq(Byte) /\ Len(Spell[s]) \in 1..253
  /\ \A s, t \in Spelled : Spell[s] = Spell[t] => s = t
  /\ \A values \in ArgValues, m \in DOMAIN DartArgs :
       \A i \in DOMAIN DartArgs[m] : values[DartArgs[m][i]] \in Sendable(DartArgs[m][i])
  /\ SocketPaths \subseteq Seq(Byte)
  /\ Kinds \subseteq Seq(Byte) /\ \A kind \in Kinds : Sized(Len(kind))
  /\ Answers \subseteq Seq(Parts)

Named(fields, name) == CHOOSE f \in fields : f.name = name
FieldNames(fields) == {f.name : f \in fields}

\* A value of args, which are flat; the first is the list itself.
Arg(args, f) == args[f.index + 2]
Used(args, f) == SubSeq(Arg(args, f).data, 1, f.bytes)

Decodes(args, d) ==
  /\ args[1].type = "dvList" /\ args[1].length = d.length
  /\ \A f \in d.fields : Arg(args, f).type = f.type

Taken(args, fields) ==
  [name \in FieldNames(fields) |->
     LET f == Named(fields, name)
     IN IF Arg(args, f).type = f.type THEN Used(args, f) ELSE [i \in 1..f.bytes |-> 0]]

LongEnough(args, d) == args[1].type = "dvList" /\ args[1].length >= d.length

-----------------------------------------------------------------------------
(* Replies.                                                                *)

Success == [kind |-> "success", values |-> Null]
Missing == [kind |-> "missing", values |-> << >>]
Error(details) ==
  [kind |-> "error", values |-> Text(Spell["error"]) \o Text(Spell["Failed"]) \o details]

\* method_call_null_success.
NullSuccess == [size |-> 2, bytes |-> <<0, 0>>]

Send(what, by) ==
  /\ answer' = what
  /\ reply' = by

RespondNullSuccess == Send(Success, NullSuccess)
RespondNull == Send(Missing, NoReply)
platch_respond(what) == Send(what, platch_encode(what.kind = "success", what.values))

SocketMap(path) ==
  <<Part(kValueMap, << >>, 2)>> \o Text(Spell["wayland"]) \o Text(path)
    \o Text(Spell["x"]) \o Text(<< >>)

-----------------------------------------------------------------------------
(* Dart calls.                                                             *)

Idle == stage = "none" /\ call = NoCall

Invoke(channel, method, args) ==
  /\ Idle
  /\ call' = [channel |-> channel, method |-> method, args |-> args]
  /\ request' = Image(Image(<< >>, Text(Spell[method])), args)
  /\ UNCHANGED <<builderVars, taken, answer, reply>>

InvokeWithArgs ==
  \E method \in DOMAIN DartArgs :
    \E values \in ArgValues :
      Invoke("wlroots", method,
             List([i \in DOMAIN DartArgs[method] |-> values[DartArgs[method][i]]]))

InvokeBare == \E method \in BareMethods : Invoke("wlroots", method, Null)

InvokeUnknown == Invoke("wlroots", "unknown", Null)

CursorArgs(kind) ==
  <<Part(kValueMap, << >>, 2)>> \o Text(Spell["device"]) \o <<Part(kValueInt32, <<1, 0, 0, 0>>, 0)>>
    \o Text(Spell["kind"]) \o Text(kind)

InvokeCursor ==
  \E method \in CursorMethods, kind \in Kinds :
    Invoke("flutter/mousecursor", method, CursorArgs(kind))

InvokePlugin == Invoke("plugin", "unknown", Null)

\* A channel nobody handles; its message may be in any format.
InvokeOther == Invoke("other", "unknown", Null)

-----------------------------------------------------------------------------
(* engine_cb_platform_message.                                             *)

Asked == call /= NoCall /\ answer = NoAnswer

Name == message_read(request, 0)
Args == message_read(request, Name.offset)

\* The method that Dart's name is compared with in the end.
IsMethod(m) == Name.ok /\ Args.ok /\ Name.values = <<DartValue("dvString", Spell[m], 0, 0)>>

DispatchUndecodable ==
  /\ Asked /\ call.channel = "wlroots"
  /\ \/ ~Name.ok \/ ~Args.ok
     \/ \A m \in DOMAIN Decoders \cup DOMAIN Inline \cup BareMethods
                   \cup {"surface_clear_focus", "set_primary_output"} : ~IsMethod(m)
  /\ RespondNull
  /\ UNCHANGED <<builderVars, call, request, taken>>

\* A handler with a decoder: null for what it does not decode.
DispatchDecoded ==
  /\ Asked /\ call.channel = "wlroots"
  /\ \E m \in DOMAIN Decoders :
       /\ IsMethod(m)
       /\ IF Decodes(Args.values, Decoders[m])
            THEN taken' = Taken(Args.values, Decoders[m].fields) /\ RespondNullSuccess
            ELSE taken' = taken /\ RespondNull
  /\ UNCHANGED <<builderVars, call, request>>

\* The outputs refuse a mode, a position or a scale at will.
DispatchInline ==
  /\ Asked /\ call.channel = "wlroots"
  /\ \E m \in DOMAIN Inline, refused \in BOOLEAN :
       /\ IsMethod(m)
       /\ IF LongEnough(Args.values, Inline[m])
            THEN taken' = Taken(Args.values, Inline[m].fields)
            ELSE taken' = taken
       /\ CASE m \in Refusable ->
                 IF refused \/ ~LongEnough(Args.values, Inline[m])
                   THEN platch_respond(Error(Null)) ELSE RespondNullSuccess
            [] m \in ShortIsFine -> RespondNullSuccess
            [] OTHER -> IF LongEnough(Args.values, Inline[m])
                          THEN RespondNullSuccess ELSE RespondNull
  /\ UNCHANGED <<builderVars, call, request>>

\* Methods that read no arguments.
DispatchBare ==
  /\ Asked /\ call.channel = "wlroots"
  /\ \/ /\ \E m \in (BareMethods \ {"get_socket_paths"})
                      \cup {"surface_clear_focus", "set_primary_output"} : IsMethod(m)
        /\ RespondNullSuccess
     \/ /\ IsMethod("get_socket_paths")
        /\ \E path \in SocketPaths :
             platch_respond([kind |-> "success", values |-> SocketMap(path)])
  /\ UNCHANGED <<builderVars, call, request, taken>>

\* cursor_handle_message, the handler of Flutter's cursor channel.
cursor_handle_message ==
  /\ Asked /\ call.channel = "flutter/mousecursor"
  /\ LET name == platch_decode_value_std(request, 0)
         arg == platch_decode_value_std(request, name.offset)
         Is(m) == name.values = Text(Spell[m])
         kind == IF arg.values[1].tag = kValueMap
                   THEN stdmap_get_str(arg.values, Spell["kind"]) ELSE << >>
     IN IF name.ok /\ arg.ok /\ \E m \in CursorMethods : Is(m)
          THEN /\ platch_respond(Success)
               /\ taken' = IF /\ Is("activateSystemCursor") /\ kind /= << >>
                               /\ kind[1].tag = kValueString
                             THEN [n \in {"kind"} |-> kind[1].data] ELSE taken
          ELSE RespondNull /\ UNCHANGED taken
  /\ UNCHANGED <<builderVars, call, request>>

\* The handler of another plugin, outside the repository: the channel API
\* lets it answer with any value, or with an error that has it as its details.
PluginAnswers ==
  /\ Asked /\ call.channel = "plugin"
  /\ \E v \in Answers :
       \/ platch_respond([kind |-> "success", values |-> v])
       \/ platch_respond(Error(v))
  /\ UNCHANGED <<builderVars, call, request, taken>>

DispatchOther ==
  /\ Asked /\ call.channel = "other"
  /\ RespondNull
  /\ UNCHANGED <<builderVars, call, request, taken>>

DartReceivesReply ==
  /\ answer /= NoAnswer
  /\ call' = NoCall /\ request' = << >> /\ taken' = << >>
  /\ answer' = NoAnswer /\ reply' = NoReply
  /\ UNCHANGED builderVars

\* Dart takes the message that was built; the buffer is freed.
DartReceivesMessage ==
  /\ stage = "finished"
  /\ buffer' = << >> /\ capacity' = 0 /\ segments' = << >> /\ sent' = << >>
  /\ stage' = "none"
  /\ UNCHANGED callVars

Build == call = NoCall /\ BuilderNext /\ UNCHANGED callVars

Init ==
  /\ BuilderInit
  /\ call = NoCall /\ request = << >> /\ taken = << >>
  /\ answer = NoAnswer /\ reply = NoReply

Next ==
  \/ Build \/ DartReceivesMessage
  \/ InvokeWithArgs \/ InvokeBare \/ InvokeUnknown
  \/ InvokeCursor \/ InvokePlugin \/ InvokeOther
  \/ DispatchUndecodable \/ DispatchDecoded \/ DispatchInline \/ DispatchBare
  \/ cursor_handle_message \/ PluginAnswers \/ DispatchOther
  \/ DartReceivesReply

Spec == Init /\ [][Next]_channelVars

-----------------------------------------------------------------------------

\* The types: of the builder's state, and bytes wherever bytes are sent.
TypeOK ==
  /\ BuilderTypeOK
  /\ request \in Seq(Byte)
  /\ reply.bytes \in Seq(Byte) /\ reply.size \in Nat
  /\ answer.kind \in {"none", "success", "error", "missing"}

\* What Dart reads of a finished message is what was pushed, and nothing else
\* is behind it, if all of its strings, lists and maps have less than 254 bytes
\* or members: doubles stand where Dart looks for them, at multiples of eight.
ShortMessagesRead ==
  stage = "finished" =>
    ((\A i \in DOMAIN sent : Count(sent[i]) < 254) => buffer = Image(<< >>, sent))

\* A longer title or application id ruins the whole message: its length is in
\* the first two bytes, which tell Dart to read the name of the method.
LongLengthsAtStart ==
  stage = "finished" =>
    \A i \in DOMAIN sent :
      (/\ Count(sent[i]) >= 254
       /\ \A j \in DOMAIN sent : j > i => Count(sent[j]) < 254)
      => SubSeq(buffer, 1, 2) = LE16(Count(sent[i]))

\* The number a part of a call stands for, in eight bytes.
Meant(p) ==
  CASE p.tag = kValueInt32 -> p.data \o [i \in 1..4 |-> IF p.data[4] >= 128 THEN 255 ELSE 0]
    [] p.tag = kValueTrue -> <<1>>
    [] p.tag = kValueFalse -> <<0>>
    [] OTHER -> p.data

\* A handler of the wlroots channel that Dart calls gets what Dart means: by
\* name each argument it uses, in as many bytes as it uses, and no call of
\* Dart's is turned away.  The cursor's handler gets the kind.  An argument's
\* place and type are written down in Dart and again in C, and negative ones
\* are right only because their handlers take four of the bytes.
ArgumentsArrive ==
  /\ (answer /= NoAnswer /\ call.method \in DOMAIN DartArgs) =>
    LET names == DartArgs[call.method]
    IN /\ answer.kind /= "missing"
       /\ (call.method \in DOMAIN Decoders \cup DOMAIN Inline) => DOMAIN taken /= {}
       /\ \A name \in DOMAIN taken :
            \E i \in DOMAIN names :
              /\ names[i] = name
              /\ taken[name] = SubSeq(Meant(call.args[i + 1]), 1, Len(taken[name]))
  /\ (answer /= NoAnswer /\ call.method = "activateSystemCursor") =>
       taken = [name \in {"kind"} |-> call.args[5].data]

\* Dart reads a reply as what the handler means: the bytes fill what was
\* allocated for them and are the image of the answer, or there are none.
ReplyUnderstood ==
  answer /= NoAnswer =>
    /\ reply.size = Len(reply.bytes)
    /\ reply.bytes =
         CASE answer.kind = "missing" -> << >>
           [] answer.kind = "success" -> Image(<<0>>, answer.values)
           [] answer.kind = "error" -> Image(<<1>>, answer.values)
=============================================================================
