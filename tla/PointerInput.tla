----------------------------- MODULE PointerInput -----------------------------
(***************************************************************************)
(* The path of the pointer through src/src/input.c.  Motion, buttons and   *)
(* scrolling go to Flutter first; Flutter hit-tests and sends a pointer    *)
(* event message for the surface it hit back, and only then is the Wayland *)
(* client told.  Three things cut the path short: an interactive move or   *)
(* resize (a grab), direct input mode, and a popup's seat grab.            *)
(*                                                                         *)
(* What is under way between the compositor and Dart, in both directions,  *)
(* is one queue: its head is hit-tested by Flutter and handled by the      *)
(* compositor in one step, while hardware and clients act at any time.     *)
(* The geometry is one-dimensional.  One button is pressed at a time, and  *)
(* one scroll axis stands for the two, which never meet.  Left out is that *)
(* surface_clear_focus, which compositor_dart offers and does not use,     *)
(* clears the pointer's focus as well; its keyboard half is in Windows.    *)
(***************************************************************************)
EXTENDS Integers, Sequences, FiniteSets, SequencesExt, Functions

CONSTANTS
  Views,        \* handles in instance->views
  Popups,       \* handles in instance->popups, apart from those (+ 200000)
  None,         \* handle 0, or no surface
  Left,         \* BTN_LEFT
  Buttons,      \* the mouse buttons
  Width,        \* right end of the axis the cursor moves on
  InitialWidth, \* of a new window
  MinWidth,     \* the least width a resize asks for: 100 in the code
  TableSize,    \* entries of surface_button_states: 32 in the code
  MaxEvents,    \* bound: hardware events
  MaxGrabs,     \* bound: requests for a move or a resize
  MaxToggles    \* bound: requests to set direct input mode

Surfaces == Views \cup Popups

ASSUME ConstantsAssumption ==
  /\ None \notin Surfaces /\ Views \cap Popups = {}
  /\ Left \in Buttons
  /\ {Width, InitialWidth, MinWidth, TableSize, MaxEvents, MaxGrabs, MaxToggles}
       \subseteq Nat

VARIABLES
  fresh,         \* handles not issued yet; handle_map never reuses one
  live,          \* surfaces alive
  parent,        \* the view each popup belongs to
  geometry,      \* x and width of each view
  cursor,        \* cursor->x
  flutterCursor, \* flutter_cursor_x: where the last message said it was
  mask,          \* fl_mouse_button_mask: the buttons held down
  grab,          \* input.grab
  table,         \* surface_button_states: the active entries
  direct,        \* direct_input_mode and direct_input_surface
  popupGrab,     \* view whose client's popups hold the seat's pointer grab
  focus,         \* the seat's pointer focus
  lastButton,    \* time in the last_button cache, 0 when not valid
  lastScroll,    \* time in the last_scroll cache, 0 when not valid
  underWay,      \* pointer events sent to Flutter, oldest first
  captured,      \* Flutter's target between a down and its up
  events,        \* hardware events so far; an event's number is its time
  asked,         \* requests for a grab and for direct mode so far
  \* History:
  clientButtons, \* buttons each client was told are held
  scrolled,      \* times of the scroll events sent to clients, in order
  grabFor,       \* the view the grab began with, unless it was destroyed
  bypassed       \* a button went, or may have gone, past Flutter's path

surfaceVars == <<fresh, live, parent>>
seatVars == <<focus, popupGrab, clientButtons, scrolled>>
caches == <<lastButton, lastScroll>>
pointerVars == <<cursor, mask, events>>
channelVars == <<underWay, captured>>
grabVars == <<grab, grabFor>>
vars == <<surfaceVars, geometry, flutterCursor, table, direct, seatVars, caches,
          pointerVars, channelVars, grabVars, asked, bypassed>>

NoGrab == [type |-> "none", view |-> None]

Edges == {"left", "right"}
EventTypes == {"down", "up", "move", "hover", "scroll"}

Grabs ==
  [type : {"move", "resize"}, view : Views, edge : Edges, start : 0 .. Width,
   x : Int, width : Int]

Events == [type : EventTypes, buttons : SUBSET Buttons, at : 0 .. Width,
           time : 1 .. MaxEvents]

TypeOK ==
  /\ fresh \in SUBSET Surfaces
  /\ live \in SUBSET (Surfaces \ fresh)
  /\ parent \in [Popups -> Views \cup {None}]
  /\ geometry \in [Views -> [x : Int, width : Nat]]
  /\ cursor \in 0 .. Width /\ flutterCursor \in 0 .. Width
  /\ mask \in SUBSET Buttons
  /\ grab \in Grabs \cup {NoGrab}
  /\ DOMAIN table \subseteq Surfaces /\ Range(table) \subseteq SUBSET Buttons
  /\ Cardinality(DOMAIN table) <= TableSize
  /\ direct \in [on : BOOLEAN, surface : Views \cup {None}]
  /\ popupGrab \in Views \cup {None}
  /\ focus \in live \cup {None}
  /\ lastButton \in 0 .. events /\ lastScroll \in 0 .. events
  /\ underWay \in Seq(Events)
  /\ captured \in Surfaces \cup {None}
  /\ events \in 0 .. MaxEvents
  /\ asked \in [grabs : 0 .. MaxGrabs, toggles : 0 .. MaxToggles]
  /\ clientButtons \in [Surfaces -> SUBSET Buttons]
  /\ scrolled \in Seq(1 .. MaxEvents)
  /\ grabFor \in Views \cup {None}
  /\ bypassed \in BOOLEAN

Init ==
  /\ fresh = Surfaces /\ live = {} /\ parent = [p \in Popups |-> None]
  /\ geometry = [v \in Views |-> [x |-> 0, width |-> InitialWidth]]
  /\ cursor = 0 /\ flutterCursor = 0 /\ mask = {}
  /\ grab = NoGrab /\ grabFor = None
  /\ table = [s \in {} |-> {}]
  /\ direct = [on |-> FALSE, surface |-> None]
  /\ popupGrab = None /\ focus = None
  /\ lastButton = 0 /\ lastScroll = 0
  /\ underWay = <<>> /\ captured = None
  /\ events = 0 /\ asked = [grabs |-> 0, toggles |-> 0]
  /\ clientButtons = [s \in Surfaces |-> {}]
  /\ scrolled = <<>> /\ bypassed = FALSE

-----------------------------------------------------------------------------
(* The seat and its clients (wlroots) *)

\* Every view is its own client's.
Client(s) == IF s \in Popups THEN parent[s] ELSE s

\* wlr_seat_pointer_notify_enter; a popup grab lets only its own client's
\* surfaces have the focus.
Enter(s) ==
  focus' = IF popupGrab \in {None, Client(s)} THEN s ELSE None

\* wlr_seat_pointer_notify_button, to the surface in focus; with a popup grab
\* and no focus the grab ends.
NotifyButtons(pressed, released) ==
  /\ clientButtons' = IF focus' = None THEN clientButtons
       ELSE [clientButtons EXCEPT ![focus'] = (@ \cup pressed) \ released]
  /\ popupGrab' = IF focus' = None /\ pressed \cup released # {}
                    THEN None ELSE popupGrab

-----------------------------------------------------------------------------
(* surface_button_states *)

\* get_surface_buttons
SurfaceButtons(s) == IF s \in DOMAIN table THEN table[s] ELSE {}

CanSet(s) == s \in DOMAIN table \/ Cardinality(DOMAIN table) < TableSize

\* set_surface_buttons: with the table full, what is not in it is dropped.
SetSurfaceButtons(s, buttons) ==
  table' = IF CanSet(s)
             THEN [t \in DOMAIN table \cup {s} |->
                     IF t = s THEN buttons ELSE table[t]]
             ELSE table

\* fwr_clear_surface_buttons
ClearSurfaceButtons(S) == table' = Restrict(table, DOMAIN table \ S)

-----------------------------------------------------------------------------
(* Surfaces come and go *)

\* Mutant: the handle of a destroyed view is issued again.
NewViewReused(v) ==
  /\ v \notin live
  /\ fresh' = fresh \ {v}
  /\ live' = live \cup {v}
  /\ geometry' = [geometry EXCEPT ![v] = [x |-> 0, width |-> InitialWidth]]
  /\ UNCHANGED <<parent, flutterCursor, table, direct, seatVars, caches,
                 pointerVars, channelVars, grabVars, asked, bypassed>>

\* fwr_new_xdg_toplevel and the map that places it.
NewView(v) ==
  /\ v \in fresh
  /\ fresh' = fresh \ {v}
  /\ live' = live \cup {v}
  /\ geometry' = [geometry EXCEPT ![v] = [x |-> 0, width |-> InitialWidth]]
  /\ UNCHANGED <<parent, flutterCursor, table, direct, seatVars, caches,
                 pointerVars, channelVars, grabVars, asked, bypassed>>

\* What a destroyed surface leaves in the seat; its popups go before a view.
Gone(S) ==
  /\ live' = live \ S
  /\ focus' = IF focus \in S THEN None ELSE focus
  /\ clientButtons' = [s \in Surfaces |-> IF s \in S THEN {}
                                                     ELSE clientButtons[s]]
  /\ popupGrab' = IF Popups \cap live' = {} THEN None ELSE popupGrab

\* xdg_toplevel_destroy.  The grab and direct input mode keep the handle.
DestroyView(v) ==
  /\ v \in live
  /\ LET all == {s \in live : Client(s) = v}
     IN Gone(all) /\ ClearSurfaceButtons(all)
  /\ grabFor' = IF grabFor = v THEN None ELSE grabFor
  /\ UNCHANGED <<fresh, parent, geometry, flutterCursor, direct,
                 scrolled, caches, pointerVars, channelVars, grab, asked,
                 bypassed>>

\* A client opens a popup of v and may ask for a grab.
NewPopup(p, v, grabbing) ==
  /\ p \in fresh /\ v \in live
  /\ grabbing => popupGrab \in {None, v}
  /\ fresh' = fresh \ {p}
  /\ live' = live \cup {p}
  /\ parent' = [parent EXCEPT ![p] = v]
  /\ popupGrab' = IF grabbing THEN v ELSE popupGrab
  /\ focus' = IF grabbing /\ focus # None /\ Client(focus) # v THEN None
                                                             ELSE focus
  /\ UNCHANGED <<geometry, flutterCursor, table, direct, clientButtons, scrolled, caches, pointerVars, channelVars, grabVars,
                 asked, bypassed>>

\* Mutant: the offset of the popup's key is forgotten.
DestroyPopupKeepsButtons(p) ==
  /\ p \in live
  /\ Gone({p})
  /\ UNCHANGED <<fresh, parent, geometry, flutterCursor, table, direct, scrolled, caches, pointerVars, channelVars, grabVars, asked,
                 bypassed>>

\* popup_handle_destroy
DestroyPopup(p) ==
  /\ p \in live
  /\ Gone({p})
  /\ ClearSurfaceButtons({p})
  /\ UNCHANGED <<fresh, parent, geometry, flutterCursor, direct,
                 scrolled, caches, pointerVars, channelVars, grabVars, asked,
                 bypassed>>

-----------------------------------------------------------------------------
(* Grabs *)

UpUnderWay == \E i \in DOMAIN underWay : underWay[i].type = "up"

\* The grab begins where the cursor is (requests from Dart) or where the last
\* message said it is (requests from clients).  Nothing is asked about
\* buttons; bypassed notes a grab that begins with the press already over.
BeginGrab(type, v, edge, from) ==
  /\ asked.grabs < MaxGrabs
  /\ asked' = [asked EXCEPT !.grabs = @ + 1]
  /\ grab' = [type |-> type, view |-> v, edge |-> edge, start |-> from,
              x |-> geometry[v].x, width |-> geometry[v].width]
  /\ grabFor' = v
  /\ bypassed' = (bypassed \/ Left \notin mask \/ UpUnderWay)
  /\ UNCHANGED <<surfaceVars, geometry, flutterCursor, table, direct, seatVars,
                 caches, pointerVars, channelVars>>

\* fwr_handle_surface_begin_move and begin_resize
Begin(type, v, edge) == v \in live /\ BeginGrab(type, v, edge, cursor)

\* xdg_toplevel_request_move and request_resize
Request(type, v, edge) == v \in live /\ BeginGrab(type, v, edge, flutterCursor)

\* Mutant: the view's handle is kept.
EndGrabKeepsView ==
  /\ grab' = [type |-> "none", view |-> grab.view]
  /\ grabFor' = None

EndGrab == grab' = NoGrab /\ grabFor' = None

AtLeastMin(w) == IF w < MinWidth THEN MinWidth ELSE w

\* Where the grab's view is once the pointer is at the given place.
Dragged(at) ==
  LET delta == at - grab.start
      now == geometry[grab.view]
  IN CASE grab.type = "move" -> [now EXCEPT !.x = grab.x + delta]
       [] grab.type = "resize" /\ grab.edge = "left" ->
            [x |-> grab.x + delta, width |-> AtLeastMin(grab.width - delta)]
       [] grab.type = "resize" /\ grab.edge = "right" ->
            [now EXCEPT !.width = AtLeastMin(grab.width + delta)]

Drag(at) ==
  geometry' = IF grab.view \in live
                THEN [geometry EXCEPT ![grab.view] = Dragged(at)] ELSE geometry

-----------------------------------------------------------------------------
(* Hardware events *)

\* send_flutter_mouse_event
SendFlutter(type) ==
  underWay' = Append(underWay, [type |-> type, buttons |-> mask',
                                at |-> cursor', time |-> events'])

Hardware == events < MaxEvents /\ events' = events + 1

\* Direct input mode is in force while its surface lives.
Direct == direct.on /\ direct.surface \in live

\* process_cursor_motion: a grab comes first, then direct input mode.
Motion(at) ==
  /\ Hardware
  /\ cursor' = at
  /\ UNCHANGED mask
  /\ \/ /\ grab # NoGrab
        /\ Drag(at)
        /\ SendFlutter("move")
        /\ UNCHANGED focus
     \/ /\ grab = NoGrab /\ Direct
        /\ Enter(direct.surface)
        /\ UNCHANGED <<geometry, underWay>>
     \/ /\ grab = NoGrab /\ ~Direct
        /\ SendFlutter(IF mask = {} THEN "hover" ELSE "move")
        /\ UNCHANGED <<geometry, focus>>
  /\ UNCHANGED <<surfaceVars, flutterCursor, table, direct, popupGrab,
                 clientButtons, scrolled, caches, captured, grabVars,
                 asked, bypassed>>

ButtonFrame == UNCHANGED <<surfaceVars, geometry, flutterCursor, table, direct,
                           focus, scrolled, lastScroll, cursor,
                           captured, asked>>

\* Mutant: the release that ends a grab is kept from Flutter.
EndGrabByButtonSilently(b) ==
  /\ Hardware /\ ButtonFrame
  /\ b = Left /\ b \in mask /\ grab # NoGrab
  /\ mask' = mask \ {b}
  /\ EndGrab
  /\ NotifyButtons({}, {b})
  /\ UNCHANGED <<lastButton, bypassed, underWay>>

\* on_server_cursor_button, the left button's release while a grab is on: it
\* goes to Flutter and to the client in focus.
EndGrabByButton(b) ==
  /\ Hardware /\ ButtonFrame
  /\ b = Left /\ b \in mask /\ grab # NoGrab
  /\ mask' = mask \ {b}
  /\ EndGrab
  /\ SendFlutter("up")
  /\ NotifyButtons({}, {b})
  /\ UNCHANGED <<lastButton, bypassed>>

\* on_server_cursor_button otherwise: direct input mode tells the client only,
\* a popup grab both, and the rule is to tell Flutter and keep the time.
Button(b) ==
  /\ Hardware /\ ButtonFrame
  /\ mask \in {{}, {b}}
  /\ mask' = IF b \in mask THEN {} ELSE {b}
  /\ ~(b = Left /\ b \in mask /\ grab # NoGrab)
  /\ IF Direct \/ popupGrab # None
       THEN /\ NotifyButtons(mask', mask)
            /\ bypassed' = TRUE
            /\ UNCHANGED lastButton
       ELSE /\ lastButton' = events'
            /\ UNCHANGED <<clientButtons, popupGrab, bypassed>>
  /\ IF Direct THEN UNCHANGED underWay
               ELSE SendFlutter(IF b \in mask THEN "up" ELSE "down")
  /\ UNCHANGED grabVars

\* on_server_cursor_axis
Scroll ==
  /\ Hardware
  /\ UNCHANGED <<mask, cursor>>
  /\ IF Direct
       THEN /\ scrolled' = Append(scrolled, events')
            /\ UNCHANGED <<lastScroll, underWay>>
       ELSE /\ lastScroll' = events'
            /\ SendFlutter("scroll")
            /\ UNCHANGED scrolled
  /\ UNCHANGED <<surfaceVars, geometry, flutterCursor, table, direct, focus,
                 popupGrab, clientButtons, lastButton, captured,
                 grabVars, asked, bypassed>>

-----------------------------------------------------------------------------
(* Pointer event messages *)

\* Where Flutter sends an event: a press fixes the target of all events up to
\* the release, anything else goes to what is under the pointer.
Targets(event) == IF event.type \in {"move", "up"} THEN {captured}
                                                   ELSE live \cup {None}

\* Mutant: the cached scroll stays valid.
TakeScrollKept ==
  /\ scrolled' = IF lastScroll = 0 THEN scrolled ELSE Append(scrolled, lastScroll)
  /\ UNCHANGED lastScroll

\* A scroll message sends what the cache holds, if it is valid, and empties it.
TakeScroll ==
  /\ scrolled' = IF lastScroll = 0 THEN scrolled ELSE Append(scrolled, lastScroll)
  /\ lastScroll' = 0

\* A down or up message: the buttons that differ from the table's are told to
\* the client, and the cached time is used up.
SendButtons(s, event) ==
  /\ Enter(s)
  /\ NotifyButtons(event.buttons \ SurfaceButtons(s),
                   SurfaceButtons(s) \ event.buttons)
  /\ lastButton' = 0
  /\ SetSurfaceButtons(s, event.buttons)
  /\ bypassed' = (bypassed \/ popupGrab # None \/ ~CanSet(s))

\* The part fwr_handle_surface_pointer_event_message and
\* fwr_handle_popup_pointer_event_message have in common.
Deliver(s, event) ==
  \/ /\ event.type \in {"hover", "move"}
     /\ Enter(s)
     /\ UNCHANGED <<clientButtons, popupGrab, table, caches, scrolled,
                    bypassed>>
  \/ /\ event.type \in {"down", "up"}
     /\ SendButtons(s, event)
     /\ UNCHANGED <<lastScroll, scrolled>>
  \/ /\ event.type = "scroll"
     /\ TakeScroll
     /\ UNCHANGED <<focus, clientButtons, popupGrab, table, lastButton,
                    bypassed>>

NotDelivered == UNCHANGED <<seatVars, table, caches, bypassed>>

\* fwr_handle_surface_pointer_event_message with a grab on: whatever the
\* view, an up ends the grab, a move drags, the rest is swallowed.
GrabbedEvent(event) ==
  /\ NotDelivered
  /\ \/ /\ event.type = "up"
        /\ EndGrab
        /\ UNCHANGED geometry
     \/ /\ event.type \in {"move", "hover"}
        /\ Drag(event.at)
        /\ UNCHANGED grabVars
     \/ /\ event.type \in {"down", "scroll"}
        /\ UNCHANGED <<grabVars, geometry>>

SurfaceEvent(v, event) ==
  /\ flutterCursor' = event.at
  /\ \/ grab # NoGrab /\ GrabbedEvent(event)
     \/ grab = NoGrab /\ Deliver(v, event) /\ UNCHANGED <<grabVars, geometry>>

PopupEvent(p, event) ==
  Deliver(p, event) /\ UNCHANGED <<grabVars, geometry, flutterCursor>>

\* Flutter hit-tests the oldest event, and the compositor handles the message
\* Dart sends for it, if a surface is hit and still there.
FlutterForwards(target) ==
  /\ underWay # <<>>
  /\ underWay' = Tail(underWay)
  /\ LET event == Head(underWay)
     IN /\ target \in Targets(event)
        /\ captured' = CASE event.type = "down" -> target
                         [] event.type = "up" -> None
                         [] OTHER -> captured
        /\ \/ target \in live \cap Views /\ SurfaceEvent(target, event)
           \/ target \in live \cap Popups /\ PopupEvent(target, event)
           \/ /\ target \notin live
              /\ NotDelivered
              /\ UNCHANGED <<grabVars, geometry, flutterCursor>>
  /\ UNCHANGED <<surfaceVars, direct, pointerVars, asked>>

\* The message set_direct_input_mode; the handle is not checked.
SetDirectInputMode(on, v) ==
  /\ asked.toggles < MaxToggles
  /\ asked' = [asked EXCEPT !.toggles = @ + 1]
  /\ direct' = [on |-> on, surface |-> v]
  /\ UNCHANGED <<surfaceVars, geometry, flutterCursor, table, seatVars, caches,
                 pointerVars, channelVars, grabVars, bypassed>>

-----------------------------------------------------------------------------

Next ==
  \/ \E v \in Views :
       \/ NewView(v)
       \/ DestroyView(v)
       \/ \E p \in Popups, grabbing \in BOOLEAN : NewPopup(p, v, grabbing)
       \/ \E on \in BOOLEAN : SetDirectInputMode(on, v)
       \/ Begin("move", v, "left")
       \/ Request("move", v, "left")
       \/ \E edge \in Edges : Begin("resize", v, edge)
       \/ \E edge \in Edges : Request("resize", v, edge)
  \/ \E p \in Popups : DestroyPopup(p)
  \/ \E at \in 0 .. Width : Motion(at)
  \/ \E b \in Buttons : EndGrabByButton(b)
  \/ \E b \in Buttons : Button(b)
  \/ Scroll
  \/ \E target \in Surfaces \cup {None} : FlutterForwards(target)

Spec == Init /\ [][Next]_vars

-----------------------------------------------------------------------------
(* Properties *)

\* The buttons kept for a surface go with it: every entry of the table is of
\* a surface that lives, whatever message arrives after its destruction.
NoLeakedButtons == DOMAIN table \subseteq live

\* A grab outlives its view, but never moves or resizes another one: only the
\* view it began with, as long as that lives.
GrabMovesOnlyItsView ==
  [][\A v \in Views \cap live \cap live' : geometry'[v] # geometry[v] => v = grabFor]_vars

\* A turn of the wheel reaches a client once at most, though it goes out from
\* a cache that later turns, messages for other surfaces and direct input
\* mode use as well.
ScrollAtMostOnce == IsInjective(scrolled)

\* On Flutter's path no press and no release is lost for good: as long as
\* direct mode and popup grabs take no button away from it, grabs begin
\* before the release and the table has room, each client has been told of
\* the buttons that are held and of no other once nothing is under way.
ButtonsConverge ==
  underWay = <<>> /\ ~bypassed =>
    \A s \in live :
      clientButtons[s] = SurfaceButtons(s) /\ clientButtons[s] \subseteq mask

\* "Track button state per surface": with nothing under way, the table
\* remembers no button that is not held.
ButtonStateTracked ==
  underWay = <<>> => \A s \in DOMAIN table : table[s] \subseteq mask
=============================================================================
