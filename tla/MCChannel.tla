----------------------------- MODULE MCChannel -----------------------------
(* Channel for TLC: one name of one byte, two doubles, client strings on    *)
(* both sides of the length 254, and for Dart's calls three choices of the  *)
(* arguments: small numbers, negative ones, numbers of more than 31 bits.   *)
EXTENDS Channel

Bytes(n) == [i \in 1..8 |-> IF i = 1 THEN n ELSE 0]
Minus(n) == [i \in 1..8 |-> IF i = 1 THEN 256 - n ELSE 255]
Half == [i \in 1..8 |-> IF i = 7 THEN 224 ELSE IF i = 8 THEN 63 ELSE 0]
Letters(n) == [i \in 1..n |-> 97]

MCInt64s == {Minus(5)}
MCDoubles == {Half}
MCNames == {<<109>>}
MCTexts == {<< >>, Letters(253), Letters(254)}
MCSizes == {0, 1, 2}
MCGarbage == {<<0, 0, 0, 0>>, <<44, 1, 7, 7>>}

\* Names of two bytes, by number.
Order ==
  <<"surface_toplevel_set_size", "surface_toplevel_set_maximized", "surface_toplevel_close",
    "surface_focus", "surface_clear_focus", "surface_set_position", "surface_request_resize",
    "surface_end_resize", "set_direct_input_mode", "surface_keyboard_key",
    "surface_pointer_event", "popup_pointer_event", "set_primary_output", "set_vsync_output",
    "set_vsync_rate_limit", "set_output_mode", "set_output_position", "set_output_scale",
    "get_socket_paths", "is_compositor", "compositor_ready", "surface_begin_move",
    "surface_begin_resize", "unknown", "activateSystemCursor", "createSystemCursor",
    "deleteSystemCursor", "error", "Failed", "wayland", "x", "device", "kind">>

MCSpell ==
  [s \in {Order[i] : i \in DOMAIN Order} |-> <<115, CHOOSE i \in DOMAIN Order : Order[i] = s>>]

I32(b) == Part(kValueInt32, SubSeq(b, 1, 4), 0)
I64(b) == Part(kValueInt64, b, 0)
F64 == Part(kValueFloat64, Half, 0)
Bool(b) == Part(IF b THEN kValueTrue ELSE kValueFalse, << >>, 0)

ArgNames == UNION {{DartArgs[m][i] : i \in DOMAIN DartArgs[m]} : m \in DOMAIN DartArgs}

Arguments(int, place, clock, bool) ==
  [name \in ArgNames |->
     CASE name \in DoubleArgs -> F64
       [] name \in BoolArgs -> Bool(bool)
       [] name \in SignedArgs -> place
       [] name = "timestamp" -> clock
       [] OTHER -> int]

Past31Bits == [i \in 1..8 |-> IF i = 4 THEN 128 ELSE i]

MCArgValues ==
  {Arguments(I32(Bytes(7)), I32(Bytes(3)), I32(Bytes(9)), TRUE),
   Arguments(I32(Bytes(200)), I32(Minus(40)), I64(Past31Bits), FALSE),
   Arguments(I32(Bytes(0)), I64(Past31Bits), I64(Past31Bits), TRUE)}

MCSocketPaths == {Letters(3), Letters(300)}
MCKinds == {Letters(4), Letters(5), Letters(300)}

Array(tag, n) == <<Part(tag, [i \in 1..(n * Width(tag)) |-> 5], 0)>>
OneOf == {<<I32(Minus(1))>>, <<I64(Past31Bits)>>, <<F64>>, Text(Letters(2)), Text(Letters(254)),
          Null, <<Bool(TRUE)>>}
           \cup {Array(tag, n) : tag \in Arrays, n \in {0, 3}}

\* Numbers, strings and arrays, alone, as members of lists, and as the value
\* of a key at another alignment.
MCAnswers ==
  OneOf \cup {<<Part(kValueList, << >>, 2)>> \o v \o w : v \in OneOf, w \in OneOf}
        \cup {<<Part(kValueMap, << >>, 1)>> \o Text(Letters(4)) \o v : v \in OneOf}
=============================================================================
