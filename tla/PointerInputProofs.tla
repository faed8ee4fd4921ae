-------------------------- MODULE PointerInputProofs --------------------------
(***************************************************************************)
(* The pointer's path, however many windows, popups, buttons and events    *)
(* there are: the table of buttons keeps no entry of a dead surface, a     *)
(* grab never touches another window, a turn of the wheel reaches a client *)
(* at most once, and the buttons a client knows converge to those held     *)
(* once Flutter has handled what is under way.                             *)
(***************************************************************************)
EXTENDS PointerInput, FiniteSetTheorems, SequenceTheorems, TLAPS

\* A handle that was issued is never fresh again, and only issued handles are
\* alive.
HandlesIssued == live \subseteq Surfaces \ fresh

\* The grab's view was issued; as long as it lives it is the one the grab
\* began with.  Without the first part a new view could get its handle.
GrabKnowsItsView ==
  grab # NoGrab =>
    /\ grab.view \in Views \ fresh
    /\ grab.view \in live => grabFor = grab.view

IInv ==
  /\ DOMAIN geometry = Views
  /\ HandlesIssued
  /\ NoLeakedButtons
  /\ GrabKnowsItsView

LEMMA InitIInv == Init => IInv
  BY ConstantsAssumption
     DEF Init, IInv, HandlesIssued, NoLeakedButtons, GrabKnowsItsView, Surfaces

\* Entries are cleared with the surfaces they belong to.
LEMMA ClearedEntries ==
  ASSUME NEW S, ClearSurfaceButtons(S)
  PROVE  DOMAIN table' = DOMAIN table \ S
  BY DEF ClearSurfaceButtons, Restrict

\* Entries are made only for the surface they are set for.
LEMMA SetEntries ==
  ASSUME NEW s, NEW buttons, SetSurfaceButtons(s, buttons)
  PROVE  DOMAIN table' \subseteq DOMAIN table \cup {s}
  BY DEF SetSurfaceButtons

\* A drag moves the grab's view and no other.
LEMMA DragMovesOne ==
  ASSUME DOMAIN geometry = Views, NEW at, Drag(at)
  PROVE  /\ DOMAIN geometry' = Views
         /\ \A v \in Views : geometry'[v] # geometry[v] =>
              v = grab.view /\ grab.view \in live
  BY DEF Drag

---------------------------------------------------------

\* Surfaces come and go: handles leave fresh for good, and the entries of what
\* dies are cleared in the same step.
LEMMA SurfacesIInv ==
  ASSUME IInv, NEW v \in Views,
         \/ NewView(v)
         \/ DestroyView(v)
         \/ \E p \in Popups, grabbing \in BOOLEAN : NewPopup(p, v, grabbing)
  PROVE  IInv'
<1>1. CASE NewView(v)
  BY <1>1 DEF NewView, IInv, HandlesIssued, NoLeakedButtons, GrabKnowsItsView,
              grabVars, Surfaces
<1>2. CASE DestroyView(v)
  <2> DEFINE all == {s \in live : Client(s) = v}
  <2>1. Gone(all) /\ ClearSurfaceButtons(all)
    BY <1>2 DEF DestroyView
  <2>2. DOMAIN table' = DOMAIN table \ all
    BY <2>1, ClearedEntries
  <2>3. live' = live \ all
    BY <2>1 DEF Gone
  <2>4. /\ UNCHANGED <<fresh, geometry, grab>>
        /\ grabFor' = IF grabFor = v THEN None ELSE grabFor
        /\ v \notin live'
    <3>1. v \in all
      BY <1>2, ConstantsAssumption DEF DestroyView, Client
    <3> QED BY <1>2, <2>3, <3>1 DEF DestroyView
  <2> HIDE DEF all
  <2> QED
    BY <2>2, <2>3, <2>4
       DEF IInv, HandlesIssued, NoLeakedButtons, GrabKnowsItsView
<1>3. ASSUME NEW p \in Popups, NEW grabbing \in BOOLEAN, NewPopup(p, v, grabbing)
      PROVE  IInv'
  BY <1>3, ConstantsAssumption
     DEF NewPopup, IInv, HandlesIssued, NoLeakedButtons, GrabKnowsItsView,
         grabVars, Surfaces
<1> QED BY <1>1, <1>2, <1>3

LEMMA DestroyPopupIInv ==
  ASSUME IInv, NEW p \in Popups, DestroyPopup(p)
  PROVE  IInv'
<1>1. /\ DOMAIN table' = DOMAIN table \ {p}
      /\ live' = live \ {p}
      /\ UNCHANGED <<fresh, geometry, grab, grabFor>>
  BY ClearedEntries DEF DestroyPopup, Gone, grabVars
<1> QED
  BY <1>1 DEF IInv, HandlesIssued, NoLeakedButtons, GrabKnowsItsView

\* A grab begins with a living view only.
LEMMA BeginIInv ==
  ASSUME IInv, NEW v \in live \cap Views, NEW type, NEW edge, NEW from,
         BeginGrab(type, v, edge, from)
  PROVE  IInv'
BY DEF BeginGrab, IInv, HandlesIssued, NoLeakedButtons, GrabKnowsItsView,
       surfaceVars

\* Hardware events leave the table alone; a release may end the grab.
LEMMA HardwareIInv ==
  ASSUME IInv,
         \/ \E at \in 0 .. Width : Motion(at)
         \/ \E b \in Buttons : EndGrabByButton(b)
         \/ \E b \in Buttons : Button(b)
         \/ Scroll
  PROVE  IInv'
<1> USE DEF IInv, HandlesIssued, NoLeakedButtons, GrabKnowsItsView, grabVars,
            surfaceVars
<1>1. ASSUME NEW at \in 0 .. Width, Motion(at)
      PROVE  IInv'
  BY <1>1, DragMovesOne DEF Motion
<1>2. ASSUME NEW b \in Buttons, EndGrabByButton(b)
      PROVE  IInv'
  BY <1>2 DEF EndGrabByButton, EndGrab, ButtonFrame
<1>3. ASSUME NEW b \in Buttons, Button(b)
      PROVE  IInv'
  BY <1>3 DEF Button, ButtonFrame
<1>4. CASE Scroll
  BY <1>4 DEF Scroll
<1> QED BY <1>1, <1>2, <1>3, <1>4

\* A message makes an entry for the surface it is for, and that is alive.
LEMMA DeliverEntries ==
  ASSUME NEW s \in live, NEW event, Deliver(s, event), NoLeakedButtons
  PROVE  DOMAIN table' \subseteq live
BY SetEntries DEF Deliver, SendButtons, NoLeakedButtons

LEMMA ForwardIInv ==
  ASSUME IInv, NEW target, FlutterForwards(target)
  PROVE  IInv'
<1> USE DEF IInv, HandlesIssued, NoLeakedButtons, GrabKnowsItsView, grabVars,
            surfaceVars
<1> DEFINE event == Head(underWay)
<1> HIDE DEF event
<1>1. UNCHANGED <<fresh, live>>
  BY DEF FlutterForwards
<1>2. CASE target \in live \cap Views /\ SurfaceEvent(target, event)
  <2>1. CASE grab # NoGrab /\ GrabbedEvent(event)
    BY <1>1, <2>1, DragMovesOne DEF GrabbedEvent, NotDelivered, EndGrab
  <2>2. CASE grab = NoGrab /\ Deliver(target, event) /\ UNCHANGED <<grabVars, geometry>>
    BY <1>1, <1>2, <2>2, DeliverEntries
  <2> QED BY <1>2, <2>1, <2>2 DEF SurfaceEvent
<1>3. CASE target \in live \cap Popups /\ PopupEvent(target, event)
  BY <1>1, <1>3, DeliverEntries DEF PopupEvent
<1>4. CASE NotDelivered /\ UNCHANGED <<grabVars, geometry, flutterCursor>>
  BY <1>1, <1>4 DEF NotDelivered
<1> QED BY <1>2, <1>3, <1>4 DEF FlutterForwards, event

\* Every step preserves the invariant.
LEMMA NextIInv == IInv /\ [Next]_vars => IInv'
<1> SUFFICES ASSUME IInv, [Next]_vars PROVE IInv' OBVIOUS
<1>1. ASSUME NEW v \in Views, NEW on \in BOOLEAN, SetDirectInputMode(on, v)
      PROVE  IInv'
  BY <1>1 DEF SetDirectInputMode, IInv, HandlesIssued, NoLeakedButtons,
              GrabKnowsItsView, surfaceVars, grabVars
<1>2. ASSUME NEW v \in Views, NEW type, NEW edge,
             Begin(type, v, edge) \/ Request(type, v, edge)
      PROVE  IInv'
  BY <1>2, BeginIInv DEF Begin, Request
<1>3. CASE UNCHANGED vars
  BY <1>3 DEF vars, surfaceVars, grabVars, IInv, HandlesIssued, NoLeakedButtons,
              GrabKnowsItsView
<1>4. ASSUME NEW v \in Views,
             \/ NewView(v)
             \/ DestroyView(v)
             \/ \E p \in Popups, grabbing \in BOOLEAN : NewPopup(p, v, grabbing)
      PROVE  IInv'
  BY <1>4, SurfacesIInv
<1>5. CASE \E p \in Popups : DestroyPopup(p)
  BY <1>5, DestroyPopupIInv
<1>6. CASE \/ \E at \in 0 .. Width : Motion(at)
           \/ \E b \in Buttons : EndGrabByButton(b)
           \/ \E b \in Buttons : Button(b)
           \/ Scroll
  BY <1>6, HardwareIInv
<1>7. ASSUME NEW target \in Surfaces \cup {None}, FlutterForwards(target)
      PROVE  IInv'
  BY <1>7, ForwardIInv
<1> QED
  BY <1>1, <1>2, <1>3, <1>4, <1>5, <1>6, <1>7 DEF Next

THEOREM InvariantHolds == Spec => []IInv
BY InitIInv, NextIInv, PTL DEF Spec

\* The button table of input.c keeps no entry of a dead surface, however many
\* surfaces there are and however late their messages come.
THEOREM NoLeakedButtonsHolds == Spec => []NoLeakedButtons
<1>1. IInv => NoLeakedButtons BY DEF IInv
<1> QED BY <1>1, InvariantHolds, PTL

\* The geometry of a living view changes only in a drag, that is for the
\* grab's view, which the invariant knows.
LEMMA StepMovesGrabbedView ==
  ASSUME IInv, [Next]_vars, NEW v \in Views \cap live \cap live',
         geometry'[v] # geometry[v]
  PROVE  v = grabFor
<1>1. ASSUME NEW at, Drag(at), grab # NoGrab
      PROVE  v = grabFor
  <2>1. v = grab.view /\ grab.view \in live
    BY <1>1, DragMovesOne DEF IInv
  <2> QED BY <1>1, <2>1 DEF IInv, GrabKnowsItsView
<1>2. ASSUME NEW w \in Views, NewView(w)
      PROVE  FALSE
  <2>1. v # w
    BY <1>2 DEF NewView, IInv, HandlesIssued
  <2> QED BY <1>2, <2>1 DEF NewView, IInv
<1>3. ASSUME NEW at \in 0 .. Width, Motion(at)
      PROVE  v = grabFor
  BY <1>1, <1>3 DEF Motion
<1>4. ASSUME NEW target, FlutterForwards(target)
      PROVE  v = grabFor
  BY <1>1, <1>4
     DEF FlutterForwards, SurfaceEvent, PopupEvent, GrabbedEvent
<1>5. CASE \/ \E w \in Views :
               \/ DestroyView(w)
               \/ \E p \in Popups, grabbing \in BOOLEAN : NewPopup(p, w, grabbing)
               \/ \E on \in BOOLEAN : SetDirectInputMode(on, w)
               \/ \E type \in {"move", "resize"}, edge \in Edges :
                    Begin(type, w, edge) \/ Request(type, w, edge)
           \/ \E p \in Popups : DestroyPopup(p)
           \/ \E b \in Buttons : EndGrabByButton(b) \/ Button(b)
           \/ Scroll
           \/ UNCHANGED vars
  BY <1>5
     DEF DestroyView, NewPopup, SetDirectInputMode, Begin, Request, BeginGrab,
         DestroyPopup, EndGrabByButton, Button, ButtonFrame, Scroll, vars
<1> QED BY <1>2, <1>3, <1>4, <1>5 DEF Next, Edges

\* A grab never moves or resizes another window than its own, destroyed
\* windows and new ones included.
THEOREM GrabMovesOnlyItsViewHolds == Spec => GrabMovesOnlyItsView
<1>1. IInv /\ [Next]_vars =>
        [\A v \in Views \cap live \cap live' :
           geometry'[v] # geometry[v] => v = grabFor]_vars
  BY StepMovesGrabbedView
<1> QED BY <1>1, InvariantHolds, PTL DEF Spec, GrabMovesOnlyItsView

-----------------------------------------------------------------------------
(* Types.                                                                  *)

\* What the handlers of the hardware read and write.
HardwareTyped ==
  /\ cursor \in 0 .. Width
  /\ mask \in SUBSET Buttons
  /\ events \in 0 .. MaxEvents
  /\ lastButton \in 0 .. events /\ lastScroll \in 0 .. events
  /\ underWay \in Seq(Events)
ClientsTyped ==
  /\ fresh \in SUBSET Surfaces
  /\ live \in SUBSET (Surfaces \ fresh)
  /\ parent \in [Popups -> Views \cup {None}]
  /\ popupGrab \in Views \cup {None}
  /\ focus \in live \cup {None}
  /\ clientButtons \in [Surfaces -> SUBSET Buttons]
TableTyped ==
  /\ DOMAIN table \subseteq Surfaces /\ Range(table) \subseteq SUBSET Buttons
  /\ IsFiniteSet(DOMAIN table) /\ Cardinality(DOMAIN table) <= TableSize
GrabTyped ==
  /\ geometry \in [Views -> [x : Int, width : Nat]]
  /\ flutterCursor \in 0 .. Width
  /\ grab \in Grabs \cup {NoGrab}
  /\ grabFor \in Views \cup {None}
ModesTyped ==
  /\ direct \in [on : BOOLEAN, surface : Views \cup {None}]
  /\ captured \in Surfaces \cup {None}
  /\ asked \in [grabs : 0 .. MaxGrabs, toggles : 0 .. MaxToggles]
  /\ bypassed \in BOOLEAN

\* The turns of the wheel that clients were told of are past ones, and none of
\* them is in the cache still.
ScrollsTold ==
  /\ scrolled \in Seq(1 .. MaxEvents)
  /\ ScrollAtMostOnce
  /\ \A i \in DOMAIN scrolled : scrolled[i] <= events /\ scrolled[i] # lastScroll

Typed ==
  /\ HardwareTyped /\ ClientsTyped /\ TableTyped /\ GrabTyped /\ ModesTyped
  /\ ScrollsTold

LEMMA Numbers ==
  /\ Width \in Nat /\ InitialWidth \in Nat /\ MinWidth \in Nat /\ TableSize \in Nat
  /\ MaxEvents \in Nat /\ MaxGrabs \in Nat /\ MaxToggles \in Nat
BY ConstantsAssumption

LEMMA InitTyped == Init => Typed
<1> SUFFICES ASSUME Init PROVE Typed
  OBVIOUS
<1>1. HardwareTyped /\ ClientsTyped /\ GrabTyped /\ ModesTyped
  <2>1. <<>> \in Seq(Events)
    <3> HIDE DEF Events
    <3> QED OBVIOUS
  <2>2. HardwareTyped
    BY <2>1, ConstantsAssumption DEF Init, HardwareTyped
  <2>3. ClientsTyped
    BY DEF Init, ClientsTyped
  <2>4. GrabTyped
    BY ConstantsAssumption DEF Init, GrabTyped
  <2>5. ModesTyped
    <3>1. direct \in [on : BOOLEAN, surface : Views \cup {None}]
      BY DEF Init
    <3>2. asked \in [grabs : 0 .. MaxGrabs, toggles : 0 .. MaxToggles]
      BY Numbers DEF Init
    <3> QED BY <3>1, <3>2 DEF Init, ModesTyped
  <2> QED BY <2>2, <2>3, <2>4, <2>5
<1>2. TableTyped
  <2>1. DOMAIN table = {}
    BY DEF Init
  <2>2. Range(table) = {}
    BY <2>1 DEF Range
  <2> QED BY <2>1, <2>2, FS_EmptySet, ConstantsAssumption DEF TableTyped
<1>3. ScrollsTold
  BY DEF Init, ScrollsTold, ScrollAtMostOnce, IsInjective
<1> QED BY <1>1, <1>2, <1>3 DEF Typed

\* The table keeps its type and its size.
LEMMA SetTyped ==
  ASSUME TableTyped, NEW s \in Surfaces, NEW buttons \in SUBSET Buttons,
         SetSurfaceButtons(s, buttons)
  PROVE  TableTyped'
<1>1. CASE ~CanSet(s)
  BY <1>1 DEF SetSurfaceButtons, TableTyped
<1>2. CASE CanSet(s)
  <2>1. /\ DOMAIN table' = DOMAIN table \cup {s}
        /\ \A t \in DOMAIN table' : table'[t] = IF t = s THEN buttons ELSE table[t]
    BY <1>2 DEF SetSurfaceButtons
  <2>2. Range(table') \subseteq SUBSET Buttons
    BY <2>1 DEF Range, TableTyped
  <2>3. /\ IsFiniteSet(DOMAIN table')
        /\ Cardinality(DOMAIN table') =
              IF s \in DOMAIN table THEN Cardinality(DOMAIN table)
                                    ELSE Cardinality(DOMAIN table) + 1
    BY <2>1, FS_AddElement DEF TableTyped
  <2>4. Cardinality(DOMAIN table) \in Nat
    BY FS_CardinalityType DEF TableTyped
  <2>5. Cardinality(DOMAIN table') <= TableSize
    BY <1>2, <2>3, <2>4, ConstantsAssumption DEF CanSet, TableTyped
  <2> QED BY <2>1, <2>2, <2>3, <2>5 DEF TableTyped
<1> QED BY <1>1, <1>2

LEMMA ClearTyped ==
  ASSUME TableTyped, NEW S, ClearSurfaceButtons(S)
  PROVE  TableTyped'
<1>1. /\ DOMAIN table' = DOMAIN table \ S
      /\ \A t \in DOMAIN table' : table'[t] = table[t]
  BY DEF ClearSurfaceButtons, Restrict
<1>2. Range(table') \subseteq SUBSET Buttons
  BY <1>1 DEF Range, TableTyped
<1>3. /\ IsFiniteSet(DOMAIN table')
      /\ Cardinality(DOMAIN table') <= Cardinality(DOMAIN table)
  BY <1>1, FS_Subset DEF TableTyped
<1>4. Cardinality(DOMAIN table) \in Nat /\ Cardinality(DOMAIN table') \in Nat
  BY <1>3, FS_CardinalityType DEF TableTyped
<1> QED BY <1>1, <1>2, <1>3, <1>4, ConstantsAssumption DEF TableTyped

\* What the table says of a surface is a set of buttons.
LEMMA SurfaceButtonsType == TableTyped => \A s : SurfaceButtons(s) \in SUBSET Buttons
  BY DEF TableTyped, SurfaceButtons, Range

\* The seat's focus is a surface that is alive, and its client is told.
LEMMA NotifyTyped ==
  ASSUME ClientsTyped, UNCHANGED <<fresh, live, parent>>, focus' \in live \cup {None},
         NEW pressed \in SUBSET Buttons, NEW released, NotifyButtons(pressed, released)
  PROVE  ClientsTyped'
<1>1. clientButtons' \in [Surfaces -> SUBSET Buttons]
  <2>1. focus' # None => focus' \in Surfaces
    BY DEF ClientsTyped
  <2> QED BY <2>1 DEF NotifyButtons, ClientsTyped
<1>2. popupGrab' \in Views \cup {None}
  BY DEF NotifyButtons, ClientsTyped
<1> QED BY <1>1, <1>2 DEF ClientsTyped

LEMMA GoneTyped ==
  ASSUME ClientsTyped, UNCHANGED <<fresh, parent>>, NEW S, Gone(S)
  PROVE  ClientsTyped'
BY DEF ClientsTyped, Gone

\* A drag gives the view an integer place, and a width.
LEMMA DragTyped ==
  ASSUME GrabTyped, grab # NoGrab, NEW at \in 0 .. Width, Drag(at)
  PROVE  geometry' \in [Views -> [x : Int, width : Nat]]
<1> DEFINE v == grab.view
<1>1. /\ grab.type \in {"move", "resize"} /\ v \in Views /\ grab.edge \in Edges
      /\ grab.start \in 0 .. Width /\ grab.x \in Int /\ grab.width \in Int
  BY DEF GrabTyped, Grabs
<1>2. \A w \in Int : AtLeastMin(w) \in Nat
  BY ConstantsAssumption DEF AtLeastMin
<1>3. at \in Int /\ grab.start \in Int
  BY <1>1, ConstantsAssumption
<1> DEFINE delta == at - grab.start
<1>4. delta \in Int /\ grab.x + delta \in Int
      /\ grab.width - delta \in Int /\ grab.width + delta \in Int
  BY <1>1, <1>3
<1>5. geometry[v] \in [x : Int, width : Nat]
  BY <1>1 DEF GrabTyped
<1>6. Dragged(at) = CASE grab.type = "move" -> [geometry[v] EXCEPT !.x = grab.x + delta]
         [] grab.type = "resize" /\ grab.edge = "left" ->
              [x |-> grab.x + delta, width |-> AtLeastMin(grab.width - delta)]
         [] grab.type = "resize" /\ grab.edge = "right" ->
              [geometry[v] EXCEPT !.width = AtLeastMin(grab.width + delta)]
  BY DEF Dragged
<1> HIDE DEF delta
<1>7. Dragged(at) \in [x : Int, width : Nat]
  BY <1>1, <1>2, <1>4, <1>5, <1>6 DEF Edges
<1> HIDE DEF v
<1> QED BY <1>1, <1>7 DEF Drag, GrabTyped, v

\* What is sent to Flutter is an event.
LEMMA SendTyped ==
  ASSUME underWay \in Seq(Events), NEW type \in EventTypes, mask' \in SUBSET Buttons,
         cursor' \in 0 .. Width, events' \in 1 .. MaxEvents, SendFlutter(type)
  PROVE  underWay' \in Seq(Events)
<1> DEFINE e == [type |-> type, buttons |-> mask', at |-> cursor', time |-> events']
<1>1. e \in Events
  BY DEF Events
<1>2. underWay' = Append(underWay, e)
  BY DEF SendFlutter
<1> HIDE DEF e, Events
<1> QED BY <1>1, <1>2

LEMMA PastTurns ==
  ASSUME scrolled \in Seq(1 .. MaxEvents)
  PROVE  \A i \in DOMAIN scrolled : scrolled[i] \in 1 .. MaxEvents
<1> DEFINE T == 1 .. MaxEvents
<1>1. scrolled \in Seq(T)
  OBVIOUS
<1> HIDE DEF T
<1>2. \A i \in DOMAIN scrolled : scrolled[i] \in T
  BY <1>1
<1> QED BY <1>2 DEF T

\* A turn of the wheel is told: the newest, or the one in the cache.
LEMMA ScrollTold ==
  ASSUME ScrollsTold, NEW time \in 1 .. MaxEvents,
         \A i \in DOMAIN scrolled : scrolled[i] # time,
         scrolled' = Append(scrolled, time),
         events \in Nat, events' \in Nat, events <= events', time <= events',
         lastScroll' # time, lastScroll' \in {0, lastScroll}
  PROVE  ScrollsTold'
<1>1. scrolled \in Seq(1 .. MaxEvents)
  BY DEF ScrollsTold
<1> DEFINE n == Len(scrolled)
<1>2. /\ scrolled' \in Seq(1 .. MaxEvents) /\ n \in Nat
      /\ DOMAIN scrolled = 1 .. n /\ DOMAIN scrolled' = 1 .. n + 1
      /\ \A i \in 1 .. n : scrolled'[i] = scrolled[i]
      /\ scrolled'[n + 1] = time
  BY <1>1
<1> HIDE DEF n
<1>3. \A i \in 1 .. n + 1 : i \in 1 .. n \/ i = n + 1
  BY <1>2
<1>4. \A i \in 1 .. n : scrolled[i] \in 1 .. MaxEvents
  BY <1>1, <1>2, PastTurns
<1>5. ScrollAtMostOnce'
  BY <1>2, <1>3 DEF ScrollsTold, ScrollAtMostOnce, IsInjective
<1>6. \A i \in 1 .. n + 1 : scrolled'[i] <= events' /\ scrolled'[i] # lastScroll'
  <2> SUFFICES ASSUME NEW i \in 1 .. n + 1
               PROVE  scrolled'[i] <= events' /\ scrolled'[i] # lastScroll'
    OBVIOUS
  <2>1. CASE i = n + 1
    BY <1>2, <2>1
  <2>2. CASE i \in 1 .. n
    <3>1. scrolled[i] \in 1 .. MaxEvents /\ scrolled[i] <= events /\ scrolled[i] # lastScroll
      BY <1>2, <1>4, <2>2 DEF ScrollsTold
    <3> QED BY <1>2, <2>2, <3>1, Numbers
  <2> QED BY <1>3, <2>1, <2>2
<1> QED BY <1>2, <1>5, <1>6 DEF ScrollsTold

\* None is told.
LEMMA NoScrollTold ==
  ASSUME ScrollsTold, UNCHANGED scrolled, events \in Nat, events' \in Nat,
         events <= events', lastScroll' \in {0, lastScroll, events + 1}
  PROVE  ScrollsTold'
<1>1. \A i \in DOMAIN scrolled : scrolled[i] \in 1 .. MaxEvents
  BY PastTurns DEF ScrollsTold
<1> SUFFICES ASSUME NEW i \in DOMAIN scrolled
             PROVE  scrolled[i] <= events' /\ scrolled[i] # lastScroll'
  BY DEF ScrollsTold, ScrollAtMostOnce, IsInjective
<1>2. scrolled[i] <= events /\ scrolled[i] # lastScroll /\ scrolled[i] \in 1 .. MaxEvents
  BY <1>1 DEF ScrollsTold
<1> QED BY <1>2, Numbers

\* What comes and goes, and the requests, keep the types of what they change.
LEMMA SurfacesTyped ==
  ASSUME Typed,
         \/ \E v \in Views :
              \/ NewView(v)
              \/ DestroyView(v)
              \/ \E p \in Popups, grabbing \in BOOLEAN : NewPopup(p, v, grabbing)
         \/ \E p \in Popups : DestroyPopup(p)
  PROVE  Typed'
<1>1. /\ UNCHANGED <<cursor, mask, events, lastButton, lastScroll, underWay, scrolled>>
      /\ UNCHANGED <<direct, captured, asked, bypassed, flutterCursor, grab>>
  BY DEF NewView, DestroyView, NewPopup, DestroyPopup, seatVars, caches, pointerVars,
         channelVars, grabVars
<1>2. HardwareTyped' /\ ModesTyped' /\ ScrollsTold'
  BY <1>1 DEF Typed, HardwareTyped, ModesTyped, ScrollsTold, ScrollAtMostOnce, IsInjective
<1>3. ASSUME NEW v \in Views, NewView(v)
      PROVE  Typed'
  <2>1. GrabTyped'
    BY <1>1, <1>3, Numbers DEF NewView, grabVars, Typed, GrabTyped
  <2>2. ClientsTyped'
    BY <1>3 DEF NewView, seatVars, Typed, ClientsTyped, Surfaces
  <2>3. TableTyped'
    BY <1>3 DEF NewView, Typed, TableTyped
  <2> QED BY <1>2, <2>1, <2>2, <2>3 DEF Typed
<1>4. ASSUME NEW v \in Views, DestroyView(v)
      PROVE  Typed'
  <2>1. GrabTyped'
    BY <1>1, <1>4 DEF DestroyView, Typed, GrabTyped
  <2>2. PICK all : Gone(all) /\ ClearSurfaceButtons(all)
    BY <1>4 DEF DestroyView
  <2>3. ClientsTyped'
    BY <1>4, <2>2, GoneTyped DEF DestroyView, Typed
  <2>4. TableTyped'
    BY <2>2, ClearTyped DEF Typed
  <2> QED BY <1>2, <2>1, <2>3, <2>4 DEF Typed
<1>5. ASSUME NEW v \in Views, NEW p \in Popups, NEW grabbing \in BOOLEAN,
             NewPopup(p, v, grabbing)
      PROVE  Typed'
  <2>1. GrabTyped'
    BY <1>1, <1>5 DEF NewPopup, grabVars, Typed, GrabTyped
  <2>2. ClientsTyped'
    <3>1. fresh' \in SUBSET Surfaces /\ live' \in SUBSET (Surfaces \ fresh')
      BY <1>5 DEF NewPopup, Typed, ClientsTyped, Surfaces
    <3>2. parent' \in [Popups -> Views \cup {None}]
      BY <1>5 DEF NewPopup, Typed, ClientsTyped
    <3>3. /\ popupGrab' \in Views \cup {None} /\ focus' \in live' \cup {None}
          /\ clientButtons' \in [Surfaces -> SUBSET Buttons]
      BY <1>5 DEF NewPopup, Typed, ClientsTyped
    <3> QED BY <3>1, <3>2, <3>3 DEF ClientsTyped
  <2>3. TableTyped'
    BY <1>5 DEF NewPopup, Typed, TableTyped
  <2> QED BY <1>2, <2>1, <2>2, <2>3 DEF Typed
<1>6. ASSUME NEW p \in Popups, DestroyPopup(p)
      PROVE  Typed'
  <2>1. GrabTyped'
    BY <1>1, <1>6 DEF DestroyPopup, grabVars, Typed, GrabTyped
  <2>2. Gone({p}) /\ ClearSurfaceButtons({p})
    BY <1>6 DEF DestroyPopup
  <2>3. ClientsTyped'
    BY <1>6, <2>2, GoneTyped DEF DestroyPopup, Typed
  <2>4. TableTyped'
    BY <2>2, ClearTyped DEF Typed
  <2> QED BY <1>2, <2>1, <2>3, <2>4 DEF Typed
<1> QED BY <1>3, <1>4, <1>5, <1>6

LEMMA RequestsTyped ==
  ASSUME Typed, NEW v \in Views,
         \/ \E on \in BOOLEAN : SetDirectInputMode(on, v)
         \/ \E type \in {"move", "resize"}, edge \in Edges :
               Begin(type, v, edge) \/ Request(type, v, edge)
  PROVE  Typed'
<1>1. /\ UNCHANGED <<cursor, mask, events, lastButton, lastScroll, underWay, captured>>
      /\ UNCHANGED <<fresh, live, parent, popupGrab, focus, clientButtons, scrolled>>
      /\ UNCHANGED <<table, geometry, flutterCursor>>
  BY DEF SetDirectInputMode, Begin, Request, BeginGrab, surfaceVars, seatVars, caches,
         pointerVars, channelVars
<1>2. HardwareTyped' /\ ClientsTyped' /\ TableTyped' /\ ScrollsTold'
  BY <1>1 DEF Typed, HardwareTyped, ClientsTyped, TableTyped, ScrollsTold,
              ScrollAtMostOnce, IsInjective
<1>3. ASSUME NEW on \in BOOLEAN, SetDirectInputMode(on, v)
      PROVE  Typed'
  <2>1. GrabTyped'
    BY <1>1, <1>3 DEF SetDirectInputMode, grabVars, Typed, GrabTyped
  <2>2. ModesTyped'
    <3>1. direct' \in [on : BOOLEAN, surface : Views \cup {None}]
      BY <1>3 DEF SetDirectInputMode
    <3>2. asked' \in [grabs : 0 .. MaxGrabs, toggles : 0 .. MaxToggles]
      BY <1>3, Numbers DEF SetDirectInputMode, Typed, ModesTyped
    <3> QED BY <1>1, <1>3, <3>1, <3>2 DEF SetDirectInputMode, Typed, ModesTyped
  <2> QED BY <1>2, <2>1, <2>2 DEF Typed
<1>4. ASSUME NEW type \in {"move", "resize"}, NEW edge \in Edges, NEW from \in 0 .. Width,
             BeginGrab(type, v, edge, from)
      PROVE  Typed'
  <2>1. geometry[v].x \in Int /\ geometry[v].width \in Int
    BY DEF Typed, GrabTyped
  <2>2. grab' \in Grabs
    BY <1>4, <2>1 DEF BeginGrab, Grabs
  <2>3. GrabTyped'
    BY <1>1, <1>4, <2>2 DEF BeginGrab, Typed, GrabTyped
  <2>4. asked' \in [grabs : 0 .. MaxGrabs, toggles : 0 .. MaxToggles]
    BY <1>4, Numbers DEF BeginGrab, Typed, ModesTyped
  <2>5. ModesTyped'
    BY <1>1, <1>4, <2>4 DEF BeginGrab, Typed, ModesTyped
  <2> QED BY <1>2, <2>3, <2>5 DEF Typed
<1>5. cursor \in 0 .. Width /\ flutterCursor \in 0 .. Width
  BY DEF Typed, HardwareTyped, GrabTyped
<1> QED BY <1>3, <1>4, <1>5 DEF Begin, Request

\* So do the hardware events,
LEMMA HardwareStepTyped ==
  ASSUME Typed,
         \/ \E at \in 0 .. Width : Motion(at)
         \/ \E b \in Buttons : EndGrabByButton(b)
         \/ \E b \in Buttons : Button(b)
         \/ Scroll
  PROVE  Typed'
<1>1. events \in Nat /\ events' = events + 1 /\ events' \in 1 .. MaxEvents
      /\ events' \in 0 .. MaxEvents
  <2>1. Hardware
    BY DEF Motion, EndGrabByButton, Button, Scroll
  <2>2. events \in 0 .. MaxEvents
    BY DEF Typed, HardwareTyped
  <2> QED BY <2>1, <2>2, Numbers DEF Hardware
<1>2. lastButton \in 0 .. events' /\ lastScroll \in 0 .. events' /\ events' \in 0 .. events'
  BY <1>1 DEF Typed, HardwareTyped
<1>3. /\ UNCHANGED <<fresh, live, parent, flutterCursor, table, direct, captured, asked>>
      /\ TableTyped'
  BY DEF Motion, EndGrabByButton, Button, ButtonFrame, Scroll, surfaceVars, Typed, TableTyped
<1>4. ASSUME NEW at \in 0 .. Width, Motion(at)
      PROVE  Typed'
  <2>1. underWay' \in Seq(Events)
    <3>1. /\ underWay \in Seq(Events) /\ mask' \in SUBSET Buttons
          /\ cursor' \in 0 .. Width
      BY <1>4 DEF Motion, Typed, HardwareTyped
    <3>2. \A type \in EventTypes : SendFlutter(type) => underWay' \in Seq(Events)
      BY <1>1, <3>1, SendTyped
    <3> QED BY <1>4, <3>1, <3>2 DEF Motion, EventTypes
  <2>2. HardwareTyped'
    BY <1>1, <1>2, <1>4, <2>1 DEF Motion, caches, Typed, HardwareTyped
  <2>3. ClientsTyped'
    BY <1>3, <1>4 DEF Motion, Enter, Direct, Typed, ClientsTyped
  <2>4. geometry' \in [Views -> [x : Int, width : Nat]]
    BY <1>4, DragTyped DEF Motion, Typed, GrabTyped
  <2>5. GrabTyped' /\ ModesTyped'
    BY <1>3, <1>4, <2>4 DEF Motion, grabVars, Typed, GrabTyped, ModesTyped
  <2>6. ScrollsTold'
    BY <1>1, <1>4, NoScrollTold DEF Motion, caches, Typed
  <2> QED BY <1>3, <2>2, <2>3, <2>5, <2>6 DEF Typed
<1>5. ASSUME NEW b \in Buttons, EndGrabByButton(b)
      PROVE  Typed'
  <2>1. mask' \in SUBSET Buttons /\ cursor' \in 0 .. Width
    BY <1>5 DEF EndGrabByButton, ButtonFrame, Typed, HardwareTyped
  <2>2. underWay' \in Seq(Events)
    BY <1>1, <1>5, <2>1, SendTyped DEF EndGrabByButton, EventTypes, Typed, HardwareTyped
  <2>3. HardwareTyped'
    BY <1>1, <1>2, <1>5, <2>1, <2>2 DEF EndGrabByButton, ButtonFrame, Typed, HardwareTyped
  <2>4. ClientsTyped'
    <3>1. focus' \in live \cup {None}
      BY <1>5 DEF EndGrabByButton, ButtonFrame, Typed, ClientsTyped
    <3> QED BY <1>3, <1>5, <3>1, NotifyTyped DEF EndGrabByButton, Typed
  <2>5. GrabTyped' /\ ModesTyped'
    BY <1>3, <1>5 DEF EndGrabByButton, ButtonFrame, EndGrab, Typed, GrabTyped, ModesTyped
  <2>6. ScrollsTold'
    BY <1>1, <1>5, NoScrollTold DEF EndGrabByButton, ButtonFrame, Typed
  <2> QED BY <1>3, <2>3, <2>4, <2>5, <2>6 DEF Typed
<1>6. ASSUME NEW b \in Buttons, Button(b)
      PROVE  Typed'
  <2>1. mask' \in SUBSET Buttons /\ cursor' \in 0 .. Width
    BY <1>6 DEF Button, ButtonFrame, Typed, HardwareTyped
  <2>2. underWay' \in Seq(Events)
    <3>1. \A type \in EventTypes : SendFlutter(type) => underWay' \in Seq(Events)
      BY <1>1, <2>1, SendTyped DEF Typed, HardwareTyped
    <3> QED BY <1>6, <3>1 DEF Button, EventTypes, Typed, HardwareTyped
  <2>3. lastButton' \in 0 .. events' /\ lastScroll' \in 0 .. events'
    BY <1>2, <1>6 DEF Button, ButtonFrame
  <2>4. HardwareTyped'
    BY <1>1, <2>1, <2>2, <2>3 DEF HardwareTyped
  <2>5. ClientsTyped'
    <3>1. focus' \in live \cup {None}
      BY <1>6 DEF Button, ButtonFrame, Typed, ClientsTyped
    <3>2. CASE NotifyButtons(mask', mask)
      BY <1>3, <2>1, <3>1, <3>2, NotifyTyped DEF Typed
    <3>3. CASE UNCHANGED <<clientButtons, popupGrab>>
      BY <1>3, <3>1, <3>3 DEF Typed, ClientsTyped
    <3> QED BY <1>6, <3>2, <3>3 DEF Button
  <2>6. GrabTyped' /\ ModesTyped'
    BY <1>3, <1>6 DEF Button, ButtonFrame, grabVars, Typed, GrabTyped, ModesTyped
  <2>7. ScrollsTold'
    BY <1>1, <1>6, NoScrollTold DEF Button, ButtonFrame, Typed
  <2> QED BY <1>3, <2>4, <2>5, <2>6, <2>7 DEF Typed
<1>7. CASE Scroll
  <2>1. /\ UNCHANGED <<mask, cursor, focus, popupGrab, clientButtons, lastButton>>
        /\ UNCHANGED <<geometry, grab, grabFor, bypassed>>
    BY <1>7 DEF Scroll, grabVars
  <2>2. underWay' \in Seq(Events)
    <3>1. SendFlutter("scroll") => underWay' \in Seq(Events)
      BY <1>1, <2>1, SendTyped DEF EventTypes, Typed, HardwareTyped
    <3> QED BY <1>7, <3>1 DEF Scroll, Typed, HardwareTyped
  <2>3. HardwareTyped'
    BY <1>1, <1>2, <1>7, <2>1, <2>2 DEF Scroll, Typed, HardwareTyped
  <2>4. ClientsTyped' /\ GrabTyped' /\ ModesTyped'
    BY <1>3, <2>1 DEF Typed, ClientsTyped, GrabTyped, ModesTyped
  <2>5. ScrollsTold'
    <3>1. CASE scrolled' = Append(scrolled, events') /\ UNCHANGED lastScroll
      <4>1. events' \in 1 .. MaxEvents /\ events' # lastScroll /\ events <= events'
            /\ \A i \in DOMAIN scrolled : scrolled[i] # events'
        <5>1. \A i \in DOMAIN scrolled : scrolled[i] \in Nat /\ scrolled[i] <= events
          BY PastTurns, Numbers DEF Typed, ScrollsTold
        <5>2. lastScroll \in 0 .. events
          BY DEF Typed, HardwareTyped
        <5> QED BY <1>1, <5>1, <5>2
      <4>2. PICK time : time = events'
        OBVIOUS
      <4> QED BY <1>1, <3>1, <4>1, <4>2, ScrollTold DEF Typed
    <3>2. CASE scrolled' = scrolled /\ lastScroll' = events'
      BY <1>1, <3>2, NoScrollTold DEF Typed
    <3> QED BY <1>7, <3>1, <3>2 DEF Scroll
  <2> QED BY <1>3, <2>3, <2>4, <2>5 DEF Typed
<1> QED BY <1>4, <1>5, <1>6, <1>7

\* And the messages from Flutter.
LEMMA DeliverTyped ==
  ASSUME Typed, UNCHANGED <<fresh, live, parent, events>>, NEW s \in live,
         NEW event \in Events, Deliver(s, event)
  PROVE  /\ ClientsTyped' /\ TableTyped' /\ ScrollsTold'
         /\ lastButton' \in 0 .. events /\ lastScroll' \in 0 .. events
         /\ bypassed' \in BOOLEAN
<1>1. /\ s \in Surfaces /\ event.buttons \in SUBSET Buttons
      /\ lastButton \in 0 .. events /\ lastScroll \in 0 .. events
      /\ events \in 0 .. MaxEvents /\ events \in Nat /\ 0 \in 0 .. events
  BY Numbers DEF Events, Typed, ClientsTyped, HardwareTyped
<1>2. Enter(s) => focus' \in live \cup {None}
  BY DEF Enter
<1>3. CASE /\ event.type \in {"hover", "move"}
           /\ Enter(s)
           /\ UNCHANGED <<clientButtons, popupGrab, table, caches, scrolled, bypassed>>
  <2>1. ClientsTyped'
    BY <1>2, <1>3 DEF Typed, ClientsTyped
  <2>2. TableTyped'
    BY <1>3 DEF Typed, TableTyped
  <2>3. ScrollsTold'
    BY <1>1, <1>3, NoScrollTold DEF Typed, caches
  <2> QED BY <1>1, <1>3, <2>1, <2>2, <2>3 DEF caches, Typed, ModesTyped
<1>4. CASE /\ event.type \in {"down", "up"}
           /\ SendButtons(s, event)
           /\ UNCHANGED <<lastScroll, scrolled>>
  <2>1. SurfaceButtons(s) \in SUBSET Buttons
    BY SurfaceButtonsType DEF Typed
  <2> DEFINE pressed == event.buttons \ SurfaceButtons(s)
             released == SurfaceButtons(s) \ event.buttons
  <2>2. pressed \in SUBSET Buttons /\ NotifyButtons(pressed, released)
    BY <1>1, <1>4 DEF SendButtons
  <2>3. focus' \in live \cup {None}
    BY <1>2, <1>4 DEF SendButtons
  <2> HIDE DEF pressed, released
  <2>4. ClientsTyped'
    BY <2>2, <2>3, NotifyTyped DEF Typed
  <2>5. TableTyped'
    <3>1. PICK buttons \in SUBSET Buttons : buttons = event.buttons
      BY <1>1
    <3>2. SetSurfaceButtons(s, buttons)
      BY <1>4, <3>1 DEF SendButtons
    <3> QED BY <1>1, <3>2, SetTyped DEF Typed
  <2>6. ScrollsTold'
    BY <1>1, <1>4, NoScrollTold DEF Typed
  <2> QED BY <1>1, <1>4, <2>4, <2>5, <2>6 DEF SendButtons, Typed, ModesTyped
<1>5. CASE /\ event.type = "scroll"
           /\ TakeScroll
           /\ UNCHANGED <<focus, clientButtons, popupGrab, table, lastButton, bypassed>>
  <2>1. ClientsTyped' /\ TableTyped' /\ bypassed' \in BOOLEAN /\ lastButton' = lastButton
    BY <1>5 DEF Typed, ClientsTyped, TableTyped, ModesTyped
  <2>2. lastScroll' = 0
    BY <1>5 DEF TakeScroll
  <2>3. CASE lastScroll = 0
    <3>1. scrolled' = scrolled
      BY <1>5, <2>3 DEF TakeScroll
    <3> QED BY <1>1, <2>1, <2>2, <3>1, NoScrollTold DEF Typed
  <2>4. CASE lastScroll # 0
    <3>1. PICK time : time = lastScroll
      OBVIOUS
    <3>2. scrolled' = Append(scrolled, time)
      BY <1>5, <2>4, <3>1 DEF TakeScroll
    <3>3. time \in 1 .. MaxEvents /\ time <= events /\ lastScroll' # time
      BY <1>1, <2>2, <2>4, <3>1, Numbers
    <3>4. \A i \in DOMAIN scrolled : scrolled[i] # time
      BY <3>1 DEF Typed, ScrollsTold
    <3>5. ScrollsTold'
      BY <1>1, <2>2, <3>2, <3>3, <3>4, ScrollTold DEF Typed
    <3> QED BY <1>1, <2>1, <2>2, <3>5
  <2> QED BY <2>3, <2>4
<1> QED BY <1>3, <1>4, <1>5 DEF Deliver

LEMMA ForwardTyped ==
  ASSUME Typed, NEW target \in Surfaces \cup {None}, FlutterForwards(target)
  PROVE  Typed'
<1>1. /\ underWay # <<>> /\ underWay' = Tail(underWay)
      /\ UNCHANGED <<fresh, live, parent, direct, cursor, mask, events, asked>>
  BY DEF FlutterForwards, surfaceVars, pointerVars
<1>2. PICK event \in Events : event = Head(underWay)
  <2> HIDE DEF Events
  <2> QED BY <1>1, HeadTailProperties DEF Typed, HardwareTyped
<1>3. underWay' \in Seq(Events)
  <2> HIDE DEF Events
  <2> QED BY <1>1, HeadTailProperties DEF Typed, HardwareTyped
<1>4. captured' \in Surfaces \cup {None}
  BY <1>2 DEF FlutterForwards, Typed, ModesTyped
<1>5. event.at \in 0 .. Width
  BY <1>2 DEF Events
<1>6. \/ target \in live \cap Views /\ SurfaceEvent(target, event)
      \/ target \in live \cap Popups /\ PopupEvent(target, event)
      \/ NotDelivered /\ UNCHANGED <<grabVars, geometry, flutterCursor>>
  BY <1>2 DEF FlutterForwards
\* What the step does to the rest.
<1>7. ASSUME GrabTyped', ClientsTyped', TableTyped', ScrollsTold',
             lastButton' \in 0 .. events, lastScroll' \in 0 .. events,
             bypassed' \in BOOLEAN
      PROVE  Typed'
  <2>1. HardwareTyped'
    BY <1>1, <1>3, <1>7 DEF Typed, HardwareTyped
  <2>2. ModesTyped'
    BY <1>1, <1>4, <1>7 DEF Typed, ModesTyped
  <2> QED BY <1>7, <2>1, <2>2 DEF Typed
<1>8. ASSUME NotDelivered, GrabTyped'
      PROVE  Typed'
  <2>1. /\ ClientsTyped' /\ TableTyped'
        /\ lastButton' \in 0 .. events /\ lastScroll' \in 0 .. events
        /\ bypassed' \in BOOLEAN
    BY <1>1, <1>8 DEF NotDelivered, seatVars, caches, Typed, ClientsTyped, TableTyped,
                      HardwareTyped, ModesTyped
  <2>2. ScrollsTold'
    <3>1. events \in Nat
      BY Numbers DEF Typed, HardwareTyped
    <3> QED BY <1>1, <1>8, <3>1, NoScrollTold DEF NotDelivered, seatVars, caches, Typed
  <2> QED BY <1>7, <1>8, <2>1, <2>2
<1>9. ASSUME target \in live, Deliver(target, event), GrabTyped'
      PROVE  Typed'
  BY <1>1, <1>7, <1>9, DeliverTyped
<1>10. CASE target \in live \cap Views /\ SurfaceEvent(target, event)
  <2>1. flutterCursor' \in 0 .. Width
    BY <1>5, <1>10 DEF SurfaceEvent
  <2>2. CASE grab # NoGrab /\ GrabbedEvent(event)
    <3>1. /\ NotDelivered
          /\ geometry' = geometry \/ Drag(event.at)
          /\ EndGrab \/ UNCHANGED grabVars
      BY <2>2 DEF GrabbedEvent
    <3>2. PICK at \in 0 .. Width : at = event.at
      BY <1>5
    <3>3. geometry' \in [Views -> [x : Int, width : Nat]]
      BY <2>2, <3>1, <3>2, DragTyped DEF Typed, GrabTyped
    <3>4. GrabTyped'
      BY <2>1, <3>1, <3>3 DEF Typed, GrabTyped, EndGrab, grabVars
    <3> QED BY <1>8, <3>1, <3>4
  <2>3. CASE Deliver(target, event) /\ UNCHANGED <<grabVars, geometry>>
    <3>1. GrabTyped'
      BY <2>1, <2>3 DEF Typed, GrabTyped, grabVars
    <3> QED BY <1>9, <1>10, <2>3, <3>1
  <2> QED BY <1>10, <2>2, <2>3 DEF SurfaceEvent
<1>11. CASE target \in live \cap Popups /\ PopupEvent(target, event)
  <2>1. GrabTyped'
    BY <1>11 DEF PopupEvent, Typed, GrabTyped, grabVars
  <2> QED BY <1>9, <1>11, <2>1 DEF PopupEvent
<1>12. CASE NotDelivered /\ UNCHANGED <<grabVars, geometry, flutterCursor>>
  <2>1. GrabTyped'
    BY <1>12 DEF Typed, GrabTyped, grabVars
  <2> QED BY <1>8, <1>12, <2>1
<1> QED BY <1>6, <1>10, <1>11, <1>12

LEMMA NextTyped == Typed /\ [Next]_vars => Typed'
<1> SUFFICES ASSUME Typed, [Next]_vars PROVE Typed'
  OBVIOUS
<1>1. CASE UNCHANGED vars
  BY <1>1 DEF vars, surfaceVars, seatVars, caches, pointerVars, channelVars, grabVars, Typed,
              HardwareTyped, ClientsTyped, TableTyped, GrabTyped, ModesTyped, ScrollsTold,
              ScrollAtMostOnce, IsInjective
<1>2. CASE \/ \E v \in Views :
               \/ NewView(v)
               \/ DestroyView(v)
               \/ \E p \in Popups, grabbing \in BOOLEAN : NewPopup(p, v, grabbing)
           \/ \E p \in Popups : DestroyPopup(p)
  BY <1>2, SurfacesTyped
<1>3. ASSUME NEW v \in Views,
             \/ \E on \in BOOLEAN : SetDirectInputMode(on, v)
             \/ \E type \in {"move", "resize"}, edge \in Edges :
                   Begin(type, v, edge) \/ Request(type, v, edge)
      PROVE  Typed'
  BY <1>3, RequestsTyped
<1>4. CASE \/ \E at \in 0 .. Width : Motion(at)
           \/ \E b \in Buttons : EndGrabByButton(b)
           \/ \E b \in Buttons : Button(b)
           \/ Scroll
  BY <1>4, HardwareStepTyped
<1>5. ASSUME NEW target \in Surfaces \cup {None}, FlutterForwards(target)
      PROVE  Typed'
  BY <1>5, ForwardTyped
<1> QED BY <1>1, <1>2, <1>3, <1>4, <1>5 DEF Next, Edges

THEOREM TypesHold == Spec => []Typed
BY InitTyped, NextTyped, PTL DEF Spec

\* Every variable of the pointer's path keeps its type: what is under way was
\* sent by the hardware, the focus is a living surface, and the table of
\* buttons never exceeds its size.
THEOREM TypeOKHolds == Spec => []TypeOK
<1>1. Typed => TypeOK
  BY DEF Typed, HardwareTyped, ClientsTyped, TableTyped, GrabTyped, ModesTyped, ScrollsTold,
         TypeOK
<1> QED BY <1>1, TypesHold, PTL

\* A turn of the wheel reaches a client once at most, whichever of direct
\* input mode and the messages of all surfaces tells it.
THEOREM ScrollAtMostOnceHolds == Spec => []ScrollAtMostOnce
<1>1. Typed => ScrollAtMostOnce
  BY DEF Typed, ScrollsTold
<1> QED BY <1>1, TypesHold, PTL

-----------------------------------------------------------------------------
(* The buttons on Flutter's path.                                          *)

\* An event under way carries the buttons held when it was sent: a press
\* follows an event with none, a release one with some, and no other event
\* changes them.  The newest carries what is held now.
MaskFollows(before, event) ==
  CASE event.type = "down" -> before = {} /\ event.buttons # {}
    [] event.type = "up" -> before # {} /\ event.buttons = {}
    [] OTHER -> event.buttons = before
EventsFollow ==
  /\ \A i \in 2 .. Len(underWay) : MaskFollows(underWay[i - 1].buttons, underWay[i])
  /\ underWay # <<>> =>
       /\ underWay[1].type = "down" => underWay[1].buttons # {}
       /\ underWay[1].type = "up" => underWay[1].buttons = {}
       /\ underWay[Len(underWay)].buttons = mask

\* What Flutter has seen pressed: what was held before the oldest event.
Seen ==
  IF underWay = <<>> THEN mask
  ELSE CASE underWay[1].type = "down" -> {}
         [] underWay[1].type = "up" -> Buttons
         [] OTHER -> underWay[1].buttons

\* Only the target of the last press has buttons, which Flutter has seen.  Its
\* client was told of them all, or the release is under way.
TargetHolds ==
  \A s \in live :
    /\ clientButtons[s] \subseteq SurfaceButtons(s)
    /\ SurfaceButtons(s) \subseteq Seen
    /\ SurfaceButtons(s) # {} => s = captured
    /\ clientButtons[s] # SurfaceButtons(s) => UpUnderWay

\* A grab keeps the left button until its release is sent.
GrabHolds == grab # NoGrab => Left \in mask /\ ~UpUnderWay

\* A client that is not alive holds nothing.
DeadHoldNothing == \A s \in Surfaces \ live : clientButtons[s] = {}

OneButton == mask = {} \/ \E b \in Buttons : mask = {b}

ButtonPath == ~bypassed => EventsFollow /\ TargetHolds /\ GrabHolds
Path == ButtonPath /\ DeadHoldNothing /\ OneButton

LEMMA InitPath == Init => Path
  BY DEF Init, Path, ButtonPath, EventsFollow, TargetHolds, GrabHolds, DeadHoldNothing,
         OneButton, SurfaceButtons

\* The newest event follows those before it.
LEMMA SentFollows ==
  ASSUME underWay \in Seq(Events), EventsFollow, NEW type \in EventTypes, SendFlutter(type),
         mask' \in SUBSET Buttons, cursor' \in 0 .. Width, events' \in 1 .. MaxEvents,
         type = "down" => mask = {} /\ mask' # {},
         type = "up" => mask # {} /\ mask' = {},
         type \in {"move", "hover", "scroll"} => mask' = mask
  PROVE  /\ EventsFollow'
         /\ UpUnderWay' <=> UpUnderWay \/ type = "up"
         /\ underWay # <<>> => Seen' = Seen
         /\ underWay = <<>> =>
              Seen' = IF type = "down" THEN {} ELSE IF type = "up" THEN Buttons ELSE mask
<1> DEFINE e == [type |-> type, buttons |-> mask', at |-> cursor', time |-> events']
           n == Len(underWay)
<1>1. e \in Events
  BY DEF Events
<1>2. underWay' = Append(underWay, e)
  BY DEF SendFlutter
<1>3. e.type = type /\ e.buttons = mask'
  OBVIOUS
<1>4. MaskFollows(mask, e)
  BY <1>3 DEF MaskFollows, EventTypes
<1> HIDE DEF e, Events
<1>5. /\ n \in Nat /\ underWay' # <<>> /\ Len(underWay') = n + 1
      /\ \A i \in 1 .. n : underWay'[i] = underWay[i]
      /\ underWay'[n + 1] = e
      /\ underWay = <<>> <=> n = 0
      /\ DOMAIN underWay = 1 .. n /\ DOMAIN underWay' = 1 .. n + 1
  BY <1>1, <1>2, EmptySeq
<1> HIDE DEF n
<1>6. EventsFollow'
  <2>1. underWay'[Len(underWay')].buttons = mask'
    BY <1>3, <1>5
  <2>2. ASSUME NEW i \in 2 .. n + 1
        PROVE  MaskFollows(underWay'[i - 1].buttons, underWay'[i])
    <3>1. CASE i = n + 1
      <4>1. n \in 1 .. n /\ i - 1 = n /\ n # 0
        BY <1>5, <3>1
      <4>2. underWay[n].buttons = mask
        BY <1>5, <4>1 DEF EventsFollow, n
      <4> QED BY <1>4, <1>5, <3>1, <4>1, <4>2
    <3>2. CASE i # n + 1
      <4>1. i \in 2 .. n /\ i \in 1 .. n /\ i - 1 \in 1 .. n
        BY <1>5, <3>2
      <4>2. MaskFollows(underWay[i - 1].buttons, underWay[i])
        BY <4>1 DEF EventsFollow, n
      <4> QED BY <1>5, <4>1, <4>2
    <3> QED BY <3>1, <3>2
  <2>3. /\ underWay'[1].type = "down" => underWay'[1].buttons # {}
        /\ underWay'[1].type = "up" => underWay'[1].buttons = {}
    <3>1. CASE n = 0
      BY <1>3, <1>5, <3>1
    <3>2. CASE n # 0
      <4>1. 1 \in 1 .. n
        BY <1>5, <3>2
      <4> QED BY <1>5, <3>2, <4>1 DEF EventsFollow
    <3> QED BY <3>1, <3>2
  <2>4. \A i \in 2 .. Len(underWay') : MaskFollows(underWay'[i - 1].buttons, underWay'[i])
    BY <1>5, <2>2
  <2> QED BY <2>1, <2>3, <2>4 DEF EventsFollow, MaskFollows
<1>7. UpUnderWay' <=> UpUnderWay \/ type = "up"
  <2>1. \A i \in 1 .. n + 1 : i \in 1 .. n \/ i = n + 1
    BY <1>5
  <2>2. \A i \in 1 .. n : i \in 1 .. n + 1
    BY <1>5
  <2>3. n + 1 \in 1 .. n + 1
    BY <1>5
  <2> QED BY <1>3, <1>5, <2>1, <2>2, <2>3 DEF UpUnderWay
<1>8. underWay # <<>> => Seen' = Seen
  <2>1. underWay # <<>> => 1 \in 1 .. n
    BY <1>5
  <2> QED BY <1>5, <2>1 DEF Seen
<1>9. underWay = <<>> =>
        Seen' = IF type = "down" THEN {} ELSE IF type = "up" THEN Buttons ELSE mask
  BY <1>3, <1>5 DEF Seen, EventTypes
<1> QED BY <1>6, <1>7, <1>8, <1>9

\* Once the oldest is handled, Flutter has seen what it carried.
LEMMA HandledFollows ==
  ASSUME underWay \in Seq(Events), EventsFollow, mask \in SUBSET Buttons, underWay # <<>>,
         underWay' = Tail(underWay), UNCHANGED mask
  PROVE  /\ EventsFollow'
         /\ UpUnderWay' => UpUnderWay
         /\ Head(underWay).type # "up" => (UpUnderWay <=> UpUnderWay')
         /\ Head(underWay).type = "up" => UpUnderWay
         /\ Head(underWay).buttons \subseteq Seen'
         /\ Seen = IF Head(underWay).type = "down" THEN {}
                   ELSE IF Head(underWay).type = "up" THEN Buttons
                   ELSE Head(underWay).buttons
<1> DEFINE n == Len(underWay)   rest == Tail(underWay)   e == Head(underWay)
<1>1. \A i \in 1 .. n : underWay[i].type \in EventTypes /\ underWay[i].buttons \in SUBSET Buttons
  <2>1. \A i \in 1 .. n : underWay[i] \in Events
    <3> HIDE DEF Events
    <3> QED BY ElementOfSeq
  <2> QED BY <2>1 DEF Events
<1> HIDE DEF Events
<1>2. /\ n \in Nat /\ n >= 1 /\ Len(rest) = n - 1 /\ e = underWay[1]
      /\ \A i \in 1 .. n - 1 : rest[i] = underWay[i + 1]
      /\ DOMAIN underWay = 1 .. n /\ DOMAIN rest = 1 .. n - 1
      /\ rest = <<>> <=> n = 1
  <2>1. n \in Nat /\ n # 0
    BY LenProperties, EmptySeq
  <2>2. /\ rest \in Seq(Events) /\ Len(rest) = n - 1 /\ e = underWay[1]
        /\ \A i \in 1 .. n - 1 : rest[i] = underWay[i + 1]
    BY HeadTailProperties
  <2>3. DOMAIN underWay = 1 .. n /\ DOMAIN rest = 1 .. n - 1
    BY <2>2, LenProperties
  <2> HIDE DEF n, rest, e
  <2>4. rest = <<>> <=> n = 1
    BY <2>1, <2>2, EmptySeq
  <2> QED BY <2>1, <2>2, <2>3, <2>4
<1>3. underWay' = rest
  OBVIOUS
<1>4. /\ \A i \in 2 .. n : MaskFollows(underWay[i - 1].buttons, underWay[i])
      /\ underWay[n].buttons = mask
      /\ underWay[1].type = "down" => underWay[1].buttons # {}
      /\ underWay[1].type = "up" => underWay[1].buttons = {}
  BY DEF EventsFollow
<1> HIDE DEF n, rest, e
<1>5. \A i \in 2 .. n - 1 : MaskFollows(rest[i - 1].buttons, rest[i])
  <2> SUFFICES ASSUME NEW i \in 2 .. n - 1 PROVE MaskFollows(rest[i - 1].buttons, rest[i])
    OBVIOUS
  <2>1. /\ i \in 1 .. n - 1 /\ i - 1 \in 1 .. n - 1 /\ i + 1 \in 2 .. n
        /\ (i - 1) + 1 = i /\ (i + 1) - 1 = i
    BY <1>2
  <2>2. MaskFollows(underWay[i].buttons, underWay[i + 1])
    BY <1>4, <2>1
  <2> QED BY <1>2, <2>1, <2>2
<1>6. CASE n = 1
  <2>1. rest = <<>> /\ mask = e.buttons
    BY <1>2, <1>4, <1>6
  <2>2. EventsFollow' /\ Seen' = mask
    BY <1>2, <1>3, <1>5, <1>6, <2>1 DEF EventsFollow, Seen, MaskFollows
  <2>3. ~UpUnderWay' /\ (UpUnderWay <=> e.type = "up")
    BY <1>2, <1>3, <1>6 DEF UpUnderWay
  <2>4. Seen = IF e.type = "down" THEN {} ELSE IF e.type = "up" THEN Buttons ELSE e.buttons
    BY <1>1, <1>2 DEF Seen, EventTypes
  <2> QED BY <2>1, <2>2, <2>3, <2>4 DEF e
<1>7. CASE n # 1
  <2>1. /\ 2 \in 2 .. n /\ 2 - 1 = 1 /\ 1 \in 1 .. n - 1 /\ n - 1 \in 1 .. n - 1
        /\ (n - 1) + 1 = n /\ 1 + 1 = 2 /\ 2 \in 1 .. n
    BY <1>2, <1>7
  <2>2. rest # <<>> /\ rest[1] = underWay[2] /\ rest[n - 1] = underWay[n]
    BY <1>2, <1>7, <2>1
  <2>3. MaskFollows(e.buttons, rest[1])
    BY <1>2, <1>4, <2>1, <2>2
  <2>4. rest[1].type \in EventTypes /\ rest[1].buttons \in SUBSET Buttons
        /\ e.buttons \in SUBSET Buttons /\ e.type \in EventTypes
    BY <1>1, <1>2, <2>1, <2>2
  <2>5. EventsFollow'
    BY <1>2, <1>3, <1>4, <1>5, <2>2, <2>3 DEF EventsFollow, MaskFollows
  <2>6. e.buttons \subseteq Seen'
    BY <1>3, <2>2, <2>3, <2>4 DEF Seen, MaskFollows, EventTypes
  <2>7. Seen = IF e.type = "down" THEN {} ELSE IF e.type = "up" THEN Buttons ELSE e.buttons
    BY <1>2, <2>4 DEF Seen, EventTypes
  <2>8. /\ UpUnderWay' => UpUnderWay
        /\ e.type # "up" => (UpUnderWay <=> UpUnderWay')
        /\ e.type = "up" => UpUnderWay
    <3>1. \A i \in 1 .. n - 1 : i + 1 \in 1 .. n
      BY <1>2
    <3>2. \A i \in 1 .. n : i = 1 \/ (i - 1 \in 1 .. n - 1 /\ (i - 1) + 1 = i)
      BY <1>2
    <3>3. 1 \in 1 .. n
      BY <1>2
    <3>4. UpUnderWay <=> \E i \in 1 .. n : underWay[i].type = "up"
      BY <1>2 DEF UpUnderWay
    <3>5. UpUnderWay' <=> \E i \in 1 .. n - 1 : rest[i].type = "up"
      BY <1>2, <1>3 DEF UpUnderWay
    <3>6. (\E i \in 1 .. n - 1 : rest[i].type = "up") =>
          (\E i \in 1 .. n : underWay[i].type = "up")
      BY <1>2, <3>1
    <3>7. e.type # "up" => ((\E i \in 1 .. n : underWay[i].type = "up") =>
                            (\E i \in 1 .. n - 1 : rest[i].type = "up"))
      BY <1>2, <3>2
    <3>8. e.type = "up" => \E i \in 1 .. n : underWay[i].type = "up"
      BY <1>2, <3>3
    <3> QED BY <3>4, <3>5, <3>6, <3>7, <3>8
  <2> QED BY <2>5, <2>6, <2>7, <2>8 DEF e
<1> QED BY <1>6, <1>7

\* On Flutter's path a client is told of what differs, and it is kept.
LEMMA SendEffect ==
  ASSUME ClientsTyped, NEW s \in live, NEW event, SendButtons(s, event), ~bypassed'
  PROVE  /\ ~bypassed
         /\ clientButtons' = [clientButtons EXCEPT ![s] =
              (@ \cup (event.buttons \ SurfaceButtons(s))) \ (SurfaceButtons(s) \ event.buttons)]
         /\ \A x : SurfaceButtons(x)' = IF x = s THEN event.buttons ELSE SurfaceButtons(x)
<1>1. ~bypassed /\ popupGrab = None /\ CanSet(s)
  BY DEF SendButtons
<1>2. focus' = s /\ s # None
  <2>1. s \in Surfaces
    BY DEF ClientsTyped
  <2> QED BY <1>1, <2>1, ConstantsAssumption DEF SendButtons, Enter
<1>3. clientButtons' = [clientButtons EXCEPT ![s] =
        (@ \cup (event.buttons \ SurfaceButtons(s))) \ (SurfaceButtons(s) \ event.buttons)]
  BY <1>2 DEF SendButtons, NotifyButtons
<1>4. table' = [t \in DOMAIN table \cup {s} |-> IF t = s THEN event.buttons ELSE table[t]]
  BY <1>1 DEF SendButtons, SetSurfaceButtons
<1>5. \A x : SurfaceButtons(x)' = IF x = s THEN event.buttons ELSE SurfaceButtons(x)
  BY <1>4 DEF SurfaceButtons
<1> QED BY <1>1, <1>3, <1>5

\* Surfaces that come and go: what is left keeps its buttons, and nothing else
\* has any.
LEMMA SurfacesPath ==
  ASSUME Typed, NoLeakedButtons, Path,
         \/ \E v \in Views :
              \/ NewView(v)
              \/ DestroyView(v)
              \/ \E p \in Popups, grabbing \in BOOLEAN : NewPopup(p, v, grabbing)
         \/ \E p \in Popups : DestroyPopup(p)
  PROVE  Path'
<1>1. UNCHANGED <<underWay, captured, mask, grab, bypassed>>
  BY DEF NewView, DestroyView, NewPopup, DestroyPopup, pointerVars, channelVars, grabVars
<1>2. OneButton' /\ (EventsFollow => EventsFollow') /\ (GrabHolds => GrabHolds')
      /\ (UpUnderWay <=> UpUnderWay') /\ Seen' = Seen
  BY <1>1 DEF Path, OneButton, EventsFollow, MaskFollows, GrabHolds, UpUnderWay, Seen
<1>3. \A s \in live : s \in Surfaces
  BY DEF Typed, ClientsTyped
<1>4. \A s : s \notin live => SurfaceButtons(s) = {}
  BY DEF NoLeakedButtons, SurfaceButtons
<1>5. SUFFICES /\ \A s \in live' : s \in Surfaces
               /\ \A s \in live' \cap live : /\ clientButtons'[s] = clientButtons[s]
                                             /\ SurfaceButtons(s)' = SurfaceButtons(s)
               /\ \A s \in live' \ live : SurfaceButtons(s)' = {} /\ clientButtons'[s] = {}
               /\ \A s \in Surfaces \ live' : clientButtons'[s] = {}
  <2>1. TargetHolds => TargetHolds'
    BY <1>1, <1>2, <1>5 DEF TargetHolds
  <2> QED BY <1>1, <1>2, <1>5, <2>1 DEF Path, ButtonPath, DeadHoldNothing
<1>6. ASSUME NEW S, S \subseteq Surfaces, Gone(S), ClearSurfaceButtons(S)
      PROVE  /\ \A s \in live' : s \in Surfaces
             /\ \A s \in live' \cap live : /\ clientButtons'[s] = clientButtons[s]
                                           /\ SurfaceButtons(s)' = SurfaceButtons(s)
             /\ \A s \in live' \ live : SurfaceButtons(s)' = {} /\ clientButtons'[s] = {}
             /\ \A s \in Surfaces \ live' : clientButtons'[s] = {}
  <2>1. live' = live \ S /\ \A s \in Surfaces : clientButtons'[s] = IF s \in S THEN {}
                                                                   ELSE clientButtons[s]
    BY <1>6 DEF Gone
  <2>2. \A s : s \notin S => SurfaceButtons(s)' = SurfaceButtons(s)
    BY <1>6 DEF ClearSurfaceButtons, Restrict, SurfaceButtons
  <2> QED BY <1>3, <2>1, <2>2 DEF Path, DeadHoldNothing
<1>7. ASSUME NEW s \in Surfaces, s \notin live, live' = live \cup {s},
             UNCHANGED <<clientButtons, table>>
      PROVE  /\ \A x \in live' : x \in Surfaces
             /\ \A x \in live' \cap live : /\ clientButtons'[x] = clientButtons[x]
                                           /\ SurfaceButtons(x)' = SurfaceButtons(x)
             /\ \A x \in live' \ live : SurfaceButtons(x)' = {} /\ clientButtons'[x] = {}
             /\ \A x \in Surfaces \ live' : clientButtons'[x] = {}
  <2>1. \A x : SurfaceButtons(x)' = SurfaceButtons(x)
    BY <1>7 DEF SurfaceButtons
  <2> QED BY <1>3, <1>4, <1>7, <2>1 DEF Path, DeadHoldNothing
<1>8. ASSUME NEW v \in Views, NewView(v)
      PROVE  /\ v \in Surfaces /\ v \notin live /\ live' = live \cup {v}
             /\ UNCHANGED <<clientButtons, table>>
  BY <1>8 DEF NewView, seatVars, Typed, ClientsTyped, Surfaces
<1>9. ASSUME NEW v \in Views, NEW p \in Popups, NEW grabbing \in BOOLEAN,
             NewPopup(p, v, grabbing)
      PROVE  /\ p \in Surfaces /\ p \notin live /\ live' = live \cup {p}
             /\ UNCHANGED <<clientButtons, table>>
  BY <1>9 DEF NewPopup, Typed, ClientsTyped, Surfaces
<1>10. ASSUME NEW v \in Views, DestroyView(v)
       PROVE  \E S \in SUBSET Surfaces : Gone(S) /\ ClearSurfaceButtons(S)
  <2> DEFINE all == {s \in live : Client(s) = v}
  <2>1. Gone(all) /\ ClearSurfaceButtons(all) /\ all \in SUBSET Surfaces
    BY <1>3, <1>10 DEF DestroyView
  <2> HIDE DEF all
  <2> QED BY <2>1
<1>11. ASSUME NEW p \in Popups, DestroyPopup(p)
       PROVE  \E S \in SUBSET Surfaces : Gone(S) /\ ClearSurfaceButtons(S)
  <2>1. Gone({p}) /\ ClearSurfaceButtons({p}) /\ {p} \in SUBSET Surfaces
    BY <1>11 DEF DestroyPopup, Surfaces
  <2> QED BY <2>1
<1> QED BY <1>6, <1>7, <1>8, <1>9, <1>10, <1>11

\* A request for a grab is on the path only while the button is held.
LEMMA RequestsPath ==
  ASSUME Path, NEW v \in Views,
         \/ \E on \in BOOLEAN : SetDirectInputMode(on, v)
         \/ \E type \in {"move", "resize"}, edge \in Edges :
               Begin(type, v, edge) \/ Request(type, v, edge)
  PROVE  Path'
<1>1. UNCHANGED <<underWay, captured, mask, live, clientButtons, table>>
  BY DEF SetDirectInputMode, Begin, Request, BeginGrab, pointerVars, channelVars,
         surfaceVars, seatVars
<1>2. /\ OneButton' /\ DeadHoldNothing'
      /\ EventsFollow => EventsFollow'
      /\ TargetHolds => TargetHolds'
      /\ UpUnderWay <=> UpUnderWay'
  BY <1>1 DEF Path, OneButton, DeadHoldNothing, EventsFollow, MaskFollows, TargetHolds,
              UpUnderWay, Seen, SurfaceButtons
<1>3. ~bypassed' => ~bypassed /\ (GrabHolds => GrabHolds')
  <2>1. CASE \E on \in BOOLEAN : SetDirectInputMode(on, v)
    BY <1>1, <1>2, <2>1 DEF SetDirectInputMode, grabVars, GrabHolds
  <2>2. ASSUME NEW type, NEW edge, NEW from, BeginGrab(type, v, edge, from)
        PROVE  ~bypassed' => ~bypassed /\ Left \in mask /\ ~UpUnderWay
    BY <2>2 DEF BeginGrab
  <2> QED BY <1>1, <1>2, <2>1, <2>2 DEF Begin, Request, GrabHolds
<1> QED BY <1>2, <1>3 DEF Path, ButtonPath

\* A hardware event on the path is sent to Flutter, and only the release that
\* ends a grab is told to a client first.
LEMMA HardwarePath ==
  ASSUME Typed, Path,
         \/ \E at \in 0 .. Width : Motion(at)
         \/ \E b \in Buttons : EndGrabByButton(b)
         \/ \E b \in Buttons : Button(b)
         \/ Scroll
  PROVE  Path'
<1>1. events' \in 1 .. MaxEvents
  <2>1. Hardware
    BY DEF Motion, EndGrabByButton, Button, Scroll
  <2>2. events \in 0 .. MaxEvents
    BY DEF Typed, HardwareTyped
  <2> QED BY <2>1, <2>2, Numbers DEF Hardware
<1>2. /\ UNCHANGED <<live, table, captured>>
      /\ \A s : SurfaceButtons(s)' = SurfaceButtons(s)
  BY DEF Motion, EndGrabByButton, Button, ButtonFrame, Scroll, surfaceVars, SurfaceButtons
<1>3. /\ underWay \in Seq(Events) /\ mask \in SUBSET Buttons /\ cursor \in 0 .. Width
      /\ \A s : SurfaceButtons(s) \in SUBSET Buttons
      /\ live \subseteq Surfaces
  BY SurfaceButtonsType DEF Typed, HardwareTyped, ClientsTyped
<1>4. EventsFollow => (underWay = <<>> => Seen = mask)
  BY DEF Seen
\* Motion and scrolling change no button.
<1>5. ASSUME UNCHANGED <<mask, clientButtons, grab, bypassed>>, cursor' \in 0 .. Width,
             UNCHANGED underWay \/ \E type \in {"move", "hover", "scroll"} : SendFlutter(type)
      PROVE  Path'
  <2>1. OneButton' /\ DeadHoldNothing'
    BY <1>2, <1>5 DEF Path, OneButton, DeadHoldNothing
  <2>2. CASE UNCHANGED underWay
    BY <1>2, <1>5, <2>1, <2>2 DEF Path, ButtonPath, EventsFollow, MaskFollows, TargetHolds,
                                  GrabHolds, UpUnderWay, Seen
  <2>3. ASSUME NEW type \in {"move", "hover", "scroll"}, SendFlutter(type), EventsFollow
        PROVE  EventsFollow' /\ (UpUnderWay' <=> UpUnderWay) /\ Seen' = Seen
    <3>1. type \in EventTypes /\ type # "down" /\ type # "up" /\ mask' \in SUBSET Buttons
      BY <1>3, <1>5 DEF EventTypes
    <3> QED BY <1>1, <1>3, <1>4, <1>5, <2>3, <3>1, SentFollows
  <2>4. CASE \E type \in {"move", "hover", "scroll"} : SendFlutter(type)
    BY <1>2, <1>5, <2>1, <2>3, <2>4 DEF Path, ButtonPath, TargetHolds, GrabHolds
  <2> QED BY <1>5, <2>2, <2>4
<1>6. ASSUME NEW at \in 0 .. Width, Motion(at)
      PROVE  Path'
  BY <1>5, <1>6 DEF Motion, grabVars
<1>7. CASE Scroll
  BY <1>3, <1>5, <1>7 DEF Scroll, grabVars
\* The release that ends a grab.
<1>8. ASSUME NEW b \in Buttons, EndGrabByButton(b)
      PROVE  Path'
  <2>1. /\ b = Left /\ Left \in mask /\ grab # NoGrab
        /\ mask' = mask \ {b} /\ grab' = NoGrab
        /\ SendFlutter("up") /\ NotifyButtons({}, {b})
        /\ UNCHANGED <<bypassed, focus, cursor>>
    BY <1>8 DEF EndGrabByButton, EndGrab, ButtonFrame
  <2>2. mask' = {} /\ OneButton'
    BY <2>1 DEF Path, OneButton
  <2>3. /\ \A s \in Surfaces : clientButtons'[s] \subseteq clientButtons[s]
        /\ DeadHoldNothing'
    <3>1. clientButtons \in [Surfaces -> SUBSET Buttons] /\ (focus' = None \/ focus' \in Surfaces)
      BY <2>1 DEF Typed, ClientsTyped
    <3>2. \A s \in Surfaces : clientButtons'[s] \subseteq clientButtons[s]
      BY <2>1, <3>1 DEF NotifyButtons
    <3> QED BY <1>2, <3>2 DEF Path, DeadHoldNothing
  <2>4. ASSUME ~bypassed'
        PROVE  EventsFollow' /\ TargetHolds' /\ GrabHolds'
    <3>1. EventsFollow /\ TargetHolds
      BY <2>1, <2>4 DEF Path, ButtonPath
    <3>2. /\ mask # {} /\ mask' \in SUBSET Buttons /\ cursor' \in 0 .. Width
          /\ "up" \in EventTypes
      BY <1>3, <2>1, <2>2 DEF EventTypes
    <3>3. /\ EventsFollow' /\ UpUnderWay'
          /\ underWay # <<>> => Seen' = Seen
          /\ underWay = <<>> => Seen' = Buttons
      BY <1>1, <1>3, <2>1, <2>2, <3>1, <3>2, SentFollows
    <3>4. TargetHolds'
      <4> SUFFICES ASSUME NEW s \in live
                   PROVE  /\ clientButtons'[s] \subseteq SurfaceButtons(s)
                          /\ SurfaceButtons(s) \subseteq Seen'
                          /\ SurfaceButtons(s) # {} => s = captured
        BY <1>2, <3>3 DEF TargetHolds
      <4> QED BY <1>3, <2>3, <3>1, <3>3 DEF TargetHolds
    <3> QED BY <2>1, <3>3, <3>4 DEF GrabHolds
  <2> QED BY <2>2, <2>3, <2>4 DEF Path, ButtonPath
\* Any other press or release; while a grab is on there is none on the path.
<1>9. ASSUME NEW b \in Buttons, Button(b)
      PROVE  Path'
  <2>1. /\ mask \in {{}, {b}} /\ mask' = IF b \in mask THEN {} ELSE {b}
        /\ UNCHANGED <<grab, cursor, focus>>
        /\ ~(b = Left /\ b \in mask /\ grab # NoGrab)
    BY <1>9 DEF Button, ButtonFrame, grabVars
  <2>2. OneButton'
    BY <2>1 DEF OneButton
  <2>3. DeadHoldNothing'
    <3>1. CASE NotifyButtons(mask', mask)
      <4>1. focus' = None \/ focus' \in live
        BY <2>1 DEF Typed, ClientsTyped
      <4>2. \A s \in Surfaces \ live : clientButtons'[s] = clientButtons[s]
        BY <1>3, <3>1, <4>1 DEF NotifyButtons, Typed, ClientsTyped
      <4> QED BY <1>2, <4>2 DEF Path, DeadHoldNothing
    <3>2. CASE UNCHANGED clientButtons
      BY <1>2, <3>2 DEF Path, DeadHoldNothing
    <3> QED BY <1>9, <3>1, <3>2 DEF Button
  <2>4. ASSUME ~bypassed'
        PROVE  EventsFollow' /\ TargetHolds' /\ GrabHolds'
    <3>1. /\ ~bypassed /\ UNCHANGED clientButtons
          /\ SendFlutter(IF b \in mask THEN "up" ELSE "down")
      BY <1>9, <2>4 DEF Button
    <3>2. EventsFollow /\ TargetHolds /\ GrabHolds
      BY <3>1 DEF Path, ButtonPath
    <3>3. grab = NoGrab
      BY <2>1, <3>2 DEF GrabHolds
    <3>4. PICK type \in {"up", "down"} : type = IF b \in mask THEN "up" ELSE "down"
      OBVIOUS
    <3>5. /\ type \in EventTypes /\ SendFlutter(type)
          /\ mask' \in SUBSET Buttons /\ cursor' \in 0 .. Width
          /\ type = "down" => mask = {} /\ mask' # {}
          /\ type = "up" => mask # {} /\ mask' = {}
      BY <1>3, <2>1, <3>1, <3>4 DEF EventTypes
    <3>6. /\ EventsFollow' /\ (UpUnderWay => UpUnderWay')
          /\ underWay # <<>> => Seen' = Seen
          /\ underWay = <<>> => Seen' = IF type = "down" THEN {} ELSE Buttons
      BY <1>1, <1>3, <3>2, <3>5, SentFollows
    <3>7. \A s \in live : SurfaceButtons(s) \subseteq Seen'
      BY <1>3, <1>4, <3>2, <3>5, <3>6 DEF TargetHolds
    <3>8. TargetHolds'
      BY <1>2, <3>1, <3>2, <3>6, <3>7 DEF TargetHolds
    <3> QED BY <2>1, <3>3, <3>6, <3>8 DEF GrabHolds
  <2> QED BY <2>2, <2>3, <2>4 DEF Path, ButtonPath
<1> QED BY <1>6, <1>7, <1>8, <1>9

\* What Flutter hands on: a press leaves its target as the only one with
\* buttons, and its release leaves none.
LEMMA ForwardPath ==
  ASSUME Typed, Path, NEW target \in Surfaces \cup {None}, FlutterForwards(target)
  PROVE  Path'
<1>1. /\ underWay # <<>> /\ underWay' = Tail(underWay)
      /\ UNCHANGED <<live, mask>>
  BY DEF FlutterForwards, surfaceVars, pointerVars
<1>2. PICK event \in Events : event = Head(underWay)
  <2> HIDE DEF Events
  <2> QED BY <1>1, HeadTailProperties DEF Typed, HardwareTyped
<1>3. /\ event.type \in EventTypes /\ event.buttons \in SUBSET Buttons
      /\ underWay \in Seq(Events) /\ mask \in SUBSET Buttons
      /\ live \subseteq Surfaces /\ None \notin live
      /\ clientButtons \in [Surfaces -> SUBSET Buttons]
  BY <1>2, ConstantsAssumption DEF Events, Typed, HardwareTyped, ClientsTyped
<1>4. /\ target \in Targets(event)
      /\ captured' = CASE event.type = "down" -> target
                       [] event.type = "up" -> None
                       [] OTHER -> captured
      /\ \/ target \in live \cap Views /\ SurfaceEvent(target, event)
         \/ target \in live \cap Popups /\ PopupEvent(target, event)
         \/ /\ target \notin live
            /\ NotDelivered
            /\ UNCHANGED <<grabVars, geometry, flutterCursor>>
  BY <1>2 DEF FlutterForwards
<1>5. \/ /\ target \in live /\ grab # NoGrab /\ NotDelivered
         /\ event.type = "up" \/ UNCHANGED grab
         /\ event.type # "up" \/ EndGrab
      \/ /\ target \in live /\ Deliver(target, event) /\ UNCHANGED grab
      \/ /\ target \notin live /\ NotDelivered /\ UNCHANGED grab
  BY <1>4 DEF SurfaceEvent, GrabbedEvent, PopupEvent, grabVars
<1>6. OneButton'
  BY <1>1 DEF Path, OneButton
<1>7. DeadHoldNothing'
  <2>1. CASE NotDelivered
    BY <1>1, <2>1 DEF NotDelivered, seatVars, Path, DeadHoldNothing
  <2>2. CASE target \in live /\ Deliver(target, event)
    <3>1. UNCHANGED clientButtons \/ SendButtons(target, event)
      BY <2>2 DEF Deliver
    <3>2. SendButtons(target, event) =>
            \A s \in Surfaces \ live : clientButtons'[s] = clientButtons[s]
      BY <1>3, <2>2 DEF SendButtons, Enter, NotifyButtons
    <3> QED BY <1>1, <3>1, <3>2 DEF Path, DeadHoldNothing
  <2> QED BY <1>5, <2>1, <2>2
<1>8. ASSUME ~bypassed'
      PROVE  EventsFollow' /\ TargetHolds' /\ GrabHolds'
  <2>1. ~bypassed
    BY <1>5, <1>8 DEF NotDelivered, Deliver, SendButtons
  <2>2. EventsFollow /\ TargetHolds /\ GrabHolds
    BY <2>1 DEF Path, ButtonPath
  <2>3. /\ EventsFollow'
        /\ UpUnderWay' => UpUnderWay
        /\ event.type # "up" => (UpUnderWay <=> UpUnderWay')
        /\ event.type = "up" => UpUnderWay
        /\ event.buttons \subseteq Seen'
        /\ Seen = IF event.type = "down" THEN {}
                  ELSE IF event.type = "up" THEN Buttons ELSE event.buttons
    BY <1>1, <1>2, <1>3, <2>2, HandledFollows
  <2>4. GrabHolds'
    BY <1>1, <1>5, <2>2, <2>3 DEF GrabHolds, EndGrab
  <2>5. CASE event.type \notin {"down", "up"}
    <3>1. UNCHANGED <<captured, clientButtons, table>>
      <4>1. captured' = captured
        BY <1>4, <2>5
      <4>2. Deliver(target, event) => UNCHANGED <<clientButtons, table>>
        BY <2>5 DEF Deliver
      <4> QED BY <1>5, <4>1, <4>2 DEF NotDelivered, seatVars
    <3>2. \A s : SurfaceButtons(s)' = SurfaceButtons(s)
      BY <3>1 DEF SurfaceButtons
    <3>3. TargetHolds'
      BY <1>1, <2>2, <2>3, <2>5, <3>1, <3>2 DEF TargetHolds
    <3> QED BY <2>3, <2>4, <3>3
  <2>6. ASSUME event.type \in {"down", "up"}, NotDelivered
        PROVE  UNCHANGED clientButtons /\ \A s : SurfaceButtons(s)' = SurfaceButtons(s)
    BY <2>6 DEF NotDelivered, seatVars, SurfaceButtons
  <2>7. ASSUME event.type \in {"down", "up"}, target \in live, Deliver(target, event)
        PROVE  /\ clientButtons' = [clientButtons EXCEPT ![target] =
                    (@ \cup (event.buttons \ SurfaceButtons(target)))
                      \ (SurfaceButtons(target) \ event.buttons)]
               /\ \A x : SurfaceButtons(x)' = IF x = target THEN event.buttons
                                                            ELSE SurfaceButtons(x)
    <3>1. SendButtons(target, event)
      BY <2>7 DEF Deliver
    <3>2. ClientsTyped
      BY DEF Typed
    <3> QED BY <1>8, <2>7, <3>1, <3>2, SendEffect
  <2>8. CASE event.type = "down"
    <3>1. \A s \in live : SurfaceButtons(s) = {} /\ clientButtons[s] = {}
      BY <2>2, <2>3, <2>8 DEF TargetHolds
    <3>2. captured' = target
      BY <1>4, <2>8
    <3>3. CASE NotDelivered
      <4>1. \A s \in live : SurfaceButtons(s)' = {} /\ clientButtons'[s] = {}
        BY <2>6, <2>8, <3>1, <3>3
      <4>2. TargetHolds'
        BY <1>1, <4>1 DEF TargetHolds
      <4> QED BY <2>3, <2>4, <4>2
    <3>4. CASE target \in live /\ Deliver(target, event)
      <4>1. \A s \in live : /\ SurfaceButtons(s)' = IF s = target THEN event.buttons ELSE {}
                            /\ clientButtons'[s] = SurfaceButtons(s)'
        BY <1>3, <2>7, <2>8, <3>1, <3>4
      <4>2. TargetHolds'
        BY <1>1, <2>3, <3>2, <4>1 DEF TargetHolds
      <4> QED BY <2>3, <2>4, <4>2
    <3> QED BY <1>5, <3>3, <3>4
  <2>9. CASE event.type = "up"
    <3>1. target = captured
      BY <1>4, <2>9 DEF Targets
    <3>2. event.buttons = {}
      BY <1>1, <1>2, <1>3, <2>2, <2>9, HeadTailProperties DEF EventsFollow
    <3>3. grab = NoGrab
      BY <2>2, <2>3, <2>9 DEF GrabHolds
    <3>4. \A s \in live : SurfaceButtons(s)' = {} /\ clientButtons'[s] = {}
      <4>1. \A s \in live : s # target => SurfaceButtons(s) = {} /\ clientButtons[s] = {}
        BY <2>2, <3>1 DEF TargetHolds
      <4>2. CASE target \notin live /\ NotDelivered
        BY <2>6, <2>9, <4>1, <4>2
      <4>3. CASE target \in live /\ Deliver(target, event)
        <5>1. clientButtons[target] \subseteq SurfaceButtons(target)
          BY <2>2, <4>3 DEF TargetHolds
        <5> QED BY <1>3, <2>7, <2>9, <3>2, <4>1, <4>3, <5>1
      <4> QED BY <1>5, <3>3, <4>2, <4>3
    <3>5. TargetHolds'
      BY <1>1, <3>4 DEF TargetHolds
    <3> QED BY <2>3, <2>4, <3>5
  <2> QED BY <1>3, <2>5, <2>8, <2>9 DEF EventTypes
<1> QED BY <1>6, <1>7, <1>8 DEF Path, ButtonPath

LEMMA NextPath ==
  ASSUME Typed, NoLeakedButtons, Path, [Next]_vars
  PROVE  Path'
<1>1. CASE UNCHANGED vars
  BY <1>1 DEF vars, surfaceVars, seatVars, caches, pointerVars, channelVars, grabVars, Path,
              ButtonPath, EventsFollow, MaskFollows, TargetHolds, GrabHolds, UpUnderWay, Seen,
              SurfaceButtons, DeadHoldNothing, OneButton
<1>2. CASE \/ \E v \in Views :
                \/ NewView(v)
                \/ DestroyView(v)
                \/ \E p \in Popups, grabbing \in BOOLEAN : NewPopup(p, v, grabbing)
           \/ \E p \in Popups : DestroyPopup(p)
  BY <1>2, SurfacesPath
<1>3. ASSUME NEW v \in Views,
             \/ \E on \in BOOLEAN : SetDirectInputMode(on, v)
             \/ \E type \in {"move", "resize"}, edge \in Edges :
                   Begin(type, v, edge) \/ Request(type, v, edge)
      PROVE  Path'
  BY <1>3, RequestsPath
<1>4. CASE \/ \E at \in 0 .. Width : Motion(at)
           \/ \E b \in Buttons : EndGrabByButton(b)
           \/ \E b \in Buttons : Button(b)
           \/ Scroll
  BY <1>4, HardwarePath
<1>5. ASSUME NEW target \in Surfaces \cup {None}, FlutterForwards(target)
      PROVE  Path'
  BY <1>5, ForwardPath
<1> QED BY <1>1, <1>2, <1>3, <1>4, <1>5 DEF Next, Edges

THEOREM PathHolds == Spec => []Path
<1>1. IInv /\ Typed /\ Path /\ [Next]_vars => Path'
  BY NextPath DEF IInv
<1> QED BY InitPath, InvariantHolds, TypesHold, <1>1, PTL DEF Spec

\* With nothing under way, every client on the path was told exactly of the
\* buttons that the table keeps, and all of these are held: no press and no
\* release is lost between hardware, Flutter, grabs and dying surfaces.
THEOREM ButtonsConvergeHolds == Spec => []ButtonsConverge
<1>1. Path => ButtonsConverge
  <2> SUFFICES ASSUME Path, underWay = <<>>, ~bypassed, NEW s \in live
               PROVE  clientButtons[s] = SurfaceButtons(s) /\ clientButtons[s] \subseteq mask
    BY DEF ButtonsConverge
  <2>1. ~UpUnderWay
    BY DEF UpUnderWay
  <2>2. Seen = mask
    BY DEF Seen
  <2> QED BY <2>1, <2>2 DEF Path, ButtonPath, TargetHolds
<1> QED BY <1>1, PathHolds, PTL
=============================================================================
