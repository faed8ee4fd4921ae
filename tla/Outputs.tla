------------------------------- MODULE Outputs -------------------------------
(***************************************************************************)
(* Monitors and Flutter's frame pacing: src/src/output.c with the output   *)
(* mirror of compositor_dart.dart.  Outputs come and go at run time; one   *)
(* of them, vsync_output, answers the engine's vsync requests.  A request  *)
(* is a baton the engine's UI thread leaves in vsync_baton and the         *)
(* platform thread hands back through OnVsync, once.                       *)
(*                                                                         *)
(* The list instance->outputs is newest first and ids only grow, so the    *)
(* list is the set of its ids, read in descending order.                   *)
(***************************************************************************)
EXTENDS Integers, Sequences, FiniteSets

CONSTANTS
  Refreshes,    \* refresh rates of modes, in mHz
  MaxRefresh,   \* the largest an int32_t holds
  MaxOutputs,   \* bound: outputs ever plugged in
  MaxSwitches,  \* bound: reconfigurations requested from Dart
  MaxBatons     \* bound: vsync requests of the engine

ASSUME ConstantsAssumption ==
  /\ MaxRefresh \in Nat /\ Refreshes \subseteq 1 .. MaxRefresh /\ Refreshes # {}
  /\ MaxOutputs \in Nat /\ MaxSwitches \in Nat /\ MaxBatons \in Nat

VARIABLES
  outputs,      \* ids in instance->outputs
  refresh,      \* current mode's refresh rate
  nextId,       \* next_output_id
  vsyncOutput,  \* id of vsync_output, 0 for NULL
  switches,     \* reconfigurations so far
  scheduled,    \* outputs with a frame event to come
  handling,     \* output whose frame or present event is handled, 0 for none
  isFrame,      \* it is the frame event
  held,         \* baton taken out of vsync_baton by the handler
  baton,        \* instance->vsync_baton
  waiting,      \* the request the engine waits for, 0 for none
  requests,     \* requests so far
  dart,         \* "off", "booting" or "listening"
  readyPending, \* Dart's compositor_ready is under way
  chan,         \* messages under way to Dart
  known         \* ids in Dart's Compositor.outputs

vsyncVars == <<handling, isFrame, held, baton, waiting, requests>>
dartVars == <<dart, readyPending, chan, known>>
vars == <<outputs, refresh, nextId, vsyncOutput, switches,
          scheduled, vsyncVars, dartVars>>

Ids == 1 .. MaxOutputs
\* An id no output ever had.
UnknownId == MaxOutputs + 1

Message == [type : {"output_added", "output_removed"}, id : Ids]

TypeOK ==
  /\ outputs \in SUBSET Ids
  /\ refresh \in [Ids -> Refreshes]
  /\ nextId \in 0 .. MaxOutputs
  /\ vsyncOutput \in Ids \cup {0}
  /\ switches \in Nat
  /\ scheduled \in SUBSET Ids
  /\ handling \in Ids \cup {0}
  /\ isFrame \in BOOLEAN
  /\ held \in Nat /\ baton \in Nat /\ waiting \in Nat /\ requests \in Nat
  /\ dart \in {"off", "booting", "listening"}
  /\ readyPending \in BOOLEAN
  /\ chan \in Seq(Message)
  /\ known \in SUBSET Ids

\* The backend starts before the engine: outputs are announced to no one.
Init ==
  /\ outputs = {}
  /\ refresh \in [Ids -> Refreshes]
  /\ nextId = 0
  /\ vsyncOutput = 0
  /\ switches = 0
  /\ scheduled = {}
  /\ handling = 0 /\ isFrame = FALSE /\ held = 0
  /\ baton = 0 /\ waiting = 0 /\ requests = 0
  /\ dart = "off" /\ readyPending = FALSE /\ chan = <<>> /\ known = {}

-----------------------------------------------------------------------------
(* Choosing the vsync output *)

\* fwr_select_highest_refresh_output: the first of the fastest in the list,
\* that is the newest; NULL when there is no output.
Highest(S, rate) ==
  LET best == {o \in S : \A p \in S :
                 rate[p] < rate[o] \/ (rate[p] = rate[o] /\ p <= o)}
  IN IF best = {} THEN 0 ELSE CHOOSE o \in best : TRUE

\* Mutant: the id is trusted.
ChosenUnchecked(id) == id

\* fwr_set_vsync_output: 0 and unknown ids select automatically.
ChosenOutput(id) == IF id \in outputs THEN id ELSE Highest(outputs, refresh)

-----------------------------------------------------------------------------
(* Messages to Dart; without an engine they are dropped *)

Send(msgs) == chan' = IF dart = "off" THEN chan ELSE chan \o msgs

Added(id) == [type |-> "output_added", id |-> id]
Removed(id) == [type |-> "output_removed", id |-> id]

\* Handlers of the platform thread run one at a time.
Idle == handling = 0

-----------------------------------------------------------------------------
(* Hotplug *)

\* fwr_server_new_output: the new output may turn out not to work.
NewOutput(rate) ==
  /\ Idle
  /\ nextId < MaxOutputs
  /\ nextId' = nextId + 1
  /\ \/ /\ outputs' = outputs \cup {nextId'}
        /\ refresh' = [refresh EXCEPT ![nextId'] = rate]
        /\ vsyncOutput' = Highest(outputs', refresh')
        /\ Send(<<Added(nextId')>>)
        /\ scheduled' = scheduled \cup {nextId'}
     \/ UNCHANGED <<outputs, refresh, vsyncOutput, chan, scheduled>>
  /\ UNCHANGED <<switches, vsyncVars, dart, readyPending, known>>

\* Mutant: the vsync output is compared after it was cleared, so no other
\* output is chosen.
OutputDestroyNoReselect(o) ==
  /\ Idle
  /\ o \in outputs
  /\ outputs' = outputs \ {o}
  /\ scheduled' = scheduled \ {o}
  /\ vsyncOutput' = IF vsyncOutput = o THEN 0 ELSE vsyncOutput
  /\ Send(<<Removed(o)>>)
  /\ UNCHANGED <<refresh, nextId, switches, vsyncVars,
                 dart, readyPending, known>>

\* output_destroy: the message goes out before the vsync output is replaced.
OutputDestroy(o) ==
  /\ Idle
  /\ o \in outputs
  /\ outputs' = outputs \ {o}
  /\ scheduled' = scheduled \ {o}
  /\ vsyncOutput' = IF vsyncOutput = o THEN Highest(outputs', refresh)
                                       ELSE vsyncOutput
  /\ Send(<<Removed(o)>>)
  /\ UNCHANGED <<refresh, nextId, switches, vsyncVars,
                 dart, readyPending, known>>

-----------------------------------------------------------------------------
(* Requests from Dart *)

Requested == Idle /\ dart = "listening" /\ switches < MaxSwitches
             /\ switches' = switches + 1

SetVsyncOutput(id) ==
  /\ Requested
  /\ vsyncOutput' = ChosenOutput(id)
  /\ UNCHANGED <<outputs, refresh, nextId, scheduled, vsyncVars, dartVars>>

\* fwr_set_output_mode when the mode exists and the commit succeeds; every
\* other path changes nothing.  No message follows and nothing is reselected.
SetOutputMode(o, rate) ==
  /\ Requested
  /\ o \in outputs
  /\ refresh' = [refresh EXCEPT ![o] = rate]
  /\ UNCHANGED <<outputs, nextId, vsyncOutput, scheduled,
                 vsyncVars, dartVars>>

-----------------------------------------------------------------------------
(* Frame pacing *)

\* fwr_engine_vsync_callback, on the engine's UI thread.  The engine has at
\* most one request outstanding.
RequestVsync ==
  /\ dart # "off"
  /\ waiting = 0
  /\ requests < MaxBatons
  /\ requests' = requests + 1
  /\ waiting' = requests'
  /\ baton' = requests'
  /\ UNCHANGED <<outputs, refresh, nextId, vsyncOutput, switches,
                 scheduled, handling, isFrame, held, dartVars>>

\* Mutant: any output may answer, but only the vsync output's answer counts.
TakeBatonAnywhere(o) ==
  /\ baton' = 0
  /\ held' = IF o = vsyncOutput THEN baton ELSE 0

\* atomic_exchange(&vsync_baton, 0), for the vsync output only.
TakeBaton(o) ==
  IF o = vsyncOutput
    THEN held' = baton /\ baton' = 0
    ELSE held' = 0 /\ UNCHANGED baton

\* output_frame up to the exchange.
OutputFrame(o) ==
  /\ Idle
  /\ o \in scheduled
  /\ scheduled' = scheduled \ {o}
  /\ handling' = o
  /\ isFrame' = TRUE
  /\ TakeBaton(o)
  /\ UNCHANGED <<outputs, refresh, nextId, vsyncOutput, switches,
                 waiting, requests, dartVars>>

\* output_present up to the exchange.
OutputPresent(o) ==
  /\ Idle
  /\ o \in outputs
  /\ handling' = o
  /\ isFrame' = FALSE
  /\ TakeBaton(o)
  /\ UNCHANGED <<outputs, refresh, nextId, vsyncOutput, switches,
                 scheduled, waiting, requests, dartVars>>

\* A rate limit only lengthens the frame target time handed to the engine; the
\* baton goes back all the same.
OnVsync ==
  /\ held # 0
  /\ waiting' = IF waiting = held THEN 0 ELSE waiting
  /\ held' = 0
  /\ UNCHANGED <<outputs, refresh, nextId, vsyncOutput, switches,
                 scheduled, handling, isFrame, baton, requests, dartVars>>

\* Mutant: a failed render pass returns without scheduling a frame.
HandlerEndNoRetry ==
  /\ ~Idle
  /\ held = 0
  /\ handling' = 0
  /\ \/ scheduled' = IF isFrame THEN scheduled \cup {handling} ELSE scheduled
     \/ UNCHANGED scheduled
  /\ UNCHANGED <<outputs, refresh, nextId, vsyncOutput, switches,
                 isFrame, held, baton, waiting, requests, dartVars>>

\* The rest of the handler.  output_frame schedules the next frame whether or
\* not rendering and the commit succeeded.
HandlerEnd ==
  /\ ~Idle
  /\ held = 0
  /\ handling' = 0
  /\ scheduled' = IF isFrame THEN scheduled \cup {handling} ELSE scheduled
  /\ UNCHANGED <<outputs, refresh, nextId, vsyncOutput, switches,
                 isFrame, held, baton, waiting, requests, dartVars>>

-----------------------------------------------------------------------------
(* The engine and Dart *)

staticVars == <<outputs, refresh, nextId, vsyncOutput, switches,
                scheduled, vsyncVars>>

StartEngine ==
  /\ dart = "off"
  /\ dart' = "booting"
  /\ UNCHANGED <<staticVars, readyPending, chan, known>>

\* Dart registers its handlers and then sends compositor_ready.  Of what was
\* sent before, nothing or the newest message is still buffered.
DartListens ==
  /\ dart = "booting"
  /\ dart' = "listening"
  /\ readyPending' = TRUE
  /\ \/ chan' = <<>>
     \/ chan # <<>> /\ chan' = <<chan[Len(chan)]>>
  /\ UNCHANGED <<staticVars, known>>

\* Mutant: compositor_ready is acknowledged and nothing is sent.
CompositorReadyIgnored ==
  /\ Idle
  /\ readyPending
  /\ readyPending' = FALSE
  /\ UNCHANGED <<staticVars, dart, chan, known>>

\* The handler of compositor_ready: fwr_send_all_outputs, newest first.
CompositorReady ==
  /\ Idle
  /\ readyPending
  /\ readyPending' = FALSE
  /\ \E list \in [1 .. Cardinality(outputs) -> outputs] :
       /\ \A i, j \in DOMAIN list : i < j => list[i] > list[j]
       /\ Send([i \in DOMAIN list |-> Added(list[i])])
  /\ UNCHANGED <<staticVars, dart, known>>

\* output_added and output_removed in Dart.
Apply(ids, msg) ==
  IF msg.type = "output_added" THEN ids \cup {msg.id} ELSE ids \ {msg.id}

DartReceives ==
  /\ dart = "listening"
  /\ chan # <<>>
  /\ known' = Apply(known, Head(chan))
  /\ chan' = Tail(chan)
  /\ UNCHANGED <<staticVars, dart, readyPending>>

-----------------------------------------------------------------------------

Next ==
  \/ \E rate \in Refreshes : NewOutput(rate)
  \/ \E o \in Ids : OutputDestroy(o)
  \/ \E id \in Ids \cup {0, UnknownId} : SetVsyncOutput(id)
  \/ \E o \in Ids, rate \in Refreshes : SetOutputMode(o, rate)
  \/ RequestVsync
  \/ \E o \in Ids : OutputFrame(o)
  \/ \E o \in Ids : OutputPresent(o)
  \/ OnVsync
  \/ HandlerEnd
  \/ StartEngine
  \/ DartListens
  \/ CompositorReady
  \/ DartReceives

Spec == Init /\ [][Next]_vars

\* A scheduled frame event comes, and a handler that started ends.  Hotplug,
\* requests and presents owe nothing.
Fairness ==
  /\ \A o \in Ids : SF_vars(OutputFrame(o))
  /\ WF_vars(OnVsync)
  /\ WF_vars(HandlerEnd)

FairSpec == Spec /\ Fairness

-----------------------------------------------------------------------------
(* Properties *)

\* The pointer that decides who answers vsync never dangles, and there is one
\* as long as a monitor is connected - across hotplug, requests for outputs
\* just removed, and outputs that fail to come up.
VsyncOutputConnected ==
  /\ vsyncOutput \in outputs \cup {0}
  /\ outputs # {} => vsyncOutput # 0

\* The baton the engine waits for is in exactly one place, and no other baton
\* is anywhere: none is lost, overwritten or handed back twice, whatever the
\* two threads do between the exchange and OnVsync.
BatonConserved ==
  /\ waiting # 0 => (baton = waiting) # (held = waiting)
  /\ baton # 0 => baton = waiting
  /\ held # 0 => held = waiting

\* A frame the engine asks for is granted, unless the last monitor goes.
BatonReturned == waiting # 0 ~> (waiting = 0 \/ outputs = {})

\* Dart has ids and hears msgs: the last message about o decides.
Hears(ids, msgs, o) ==
  \/ \E i \in 1 .. Len(msgs) :
       msgs[i] = Added(o) /\ \A j \in i .. Len(msgs) : msgs[j] # Removed(o)
  \/ o \in ids /\ \A j \in 1 .. Len(msgs) : msgs[j] # Removed(o)

\* Once the compositor has answered compositor_ready, Dart's set of outputs
\* is the compositor's as soon as the messages under way are handled -
\* outputs plugged or unplugged while Dart was starting included.
MirrorConverges ==
  dart = "listening" /\ ~readyPending =>
    \A o \in Ids : Hears(known, chan, o) <=> o \in outputs
=============================================================================
