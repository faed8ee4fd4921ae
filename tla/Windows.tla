------------------------------ MODULE Windows ------------------------------
(***************************************************************************)
(* Which window has the keyboard: fwr_focus_view of src/src/surface.c, the *)
(* keyboard half of src/src/input.c, and the messages of Dart that reach   *)
(* them.  Three records of the focus are kept apart: the seat's focused    *)
(* surface (wlroots), current_focused_view (the handle the key bindings    *)
(* act on) and the activated flag of each toplevel.                        *)
(*                                                                         *)
(* wlroots' seat is external: it tells the window it leaves that no key is *)
(* pressed, the one it enters which keys are, and lets a popup's grab keep *)
(* the focus where it is.  Where a window lies, how large it is and the    *)
(* order in which windows are stacked are not this module's: no handler    *)
(* here reads them.                                                        *)
(***************************************************************************)
EXTENDS Naturals, Sequences, FiniteSets, SequencesExt

CONSTANTS
    Views,          \* handles in instance->views
    Keyboards,      \* struct fwr_keyboard
    Dart,           \* the Dart side, as one that presses keys
    Keys,           \* key codes
    DartKeys,       \* those Dart sends with surface_keyboard_key
    Alt, Shift, Logo,   \* the modifiers the bindings look at
    Tab, Arrows,    \* the keys that are bound: Arrows are Left, Right and Up
    ShiftTabs,      \* keyboards whose keymap gives Tab for Shift+Tab too
    None,           \* handle 0, no surface or no keyboard
    Chords,         \* bound: the keys one source holds while no other holds any
    Shared,         \* bound: the keys several sources hold at a time
    MaxShared       \* bound: how many of those are down

ASSUME ConstantsAssumption ==
    /\ None \notin Views \cup Keyboards
    /\ Dart \notin Keyboards
    /\ Arrows \subseteq Keys /\ DartKeys \subseteq Keys
    /\ ShiftTabs \subseteq Keyboards
    /\ MaxShared \in Nat

VARIABLES
    fresh,          \* handles not issued yet; handle_map never reuses one
    views_list,     \* instance->views_list: the views alive, newest first
    mapped,         \* views whose scene_tree exists and is enabled
    plugged,        \* instance->keyboards
    pressed,        \* keycodes of each wlr_keyboard, and the keys Dart pressed
    seatKeyboard,   \* the seat's keyboard
    focused,        \* seat->keyboard_state.focused_surface
    popupGrab,      \* the view whose popups hold the seat's keyboard grab
    believed,       \* the keys each client takes for pressed
    activated,      \* views with the activated flag
    current         \* instance->current_focused_view

lifeVars == <<fresh, views_list, mapped>>
keyVars == <<plugged, pressed, seatKeyboard>>
focusVars == <<focused, believed, activated, current>>
vars == <<lifeVars, keyVars, focusVars, popupGrab>>

Live == Range(views_list)
Sources == Keyboards \cup {Dart}
Held == UNION {pressed[s] : s \in Sources}
CanHold(s, key) ==
    \/ pressed[s] \cup {key} \in Chords /\ \A t \in Sources \ {s} : pressed[t] = {}
    \/ /\ Held \cup {key} \subseteq Shared
       /\ Cardinality({p \in Sources \X Keys : p[2] \in pressed[p[1]]}) < MaxShared

Init ==
    /\ fresh = Views /\ views_list = <<>> /\ mapped = {}
    /\ plugged = {} /\ pressed = [s \in Sources |-> {}] /\ seatKeyboard = None
    /\ focused = None /\ believed = [v \in Views |-> {}]
    /\ activated = {} /\ current = None
    /\ popupGrab = None

-----------------------------------------------------------------------------
(* The seat and the focus.                                                 *)

\* No client but v's takes keys for pressed (wl_keyboard.leave and enter).
BelievedOnlyBy(v, keys) == [w \in Views |-> IF w = v THEN keys ELSE {}]

\* wlr_seat_get_keyboard's keycodes, by what is pressed and whose turn it is.
Codes(keyboard, down) == IF keyboard = None THEN {} ELSE down[keyboard]

\* wlr_seat_keyboard_notify_enter leaves the focus alone under a grab.
Moves(v) == popupGrab = None /\ focused # v
FocusedAfter(v) == IF Moves(v) THEN v ELSE focused
BelievedAfter(v, keys) == IF Moves(v) THEN BelievedOnlyBy(v, keys) ELSE believed

\* Mutant: the window that loses the focus is not deactivated.
DeactivatedNever == activated

Deactivated == activated \ {focused}

\* fwr_focus_view, but for what the clients know of keys.
RecordFocus(v) ==
    /\ focused' = FocusedAfter(v)
    /\ IF focused = v
       THEN UNCHANGED <<activated, current>>
       ELSE activated' = Deactivated \cup {v} /\ current' = v

fwr_focus_view(v) ==
    /\ RecordFocus(v)
    /\ believed' = BelievedAfter(v, Codes(seatKeyboard', pressed'))

\* wlr_seat_keyboard_notify_key: the client with the focus learns of it.
Told(beliefs, v, key, down) ==
    [w \in Views |-> IF w # v THEN beliefs[w]
                     ELSE IF down THEN beliefs[w] \cup {key} ELSE beliefs[w] \ {key}]

-----------------------------------------------------------------------------
(* Windows.                                                                *)

fwr_new_xdg_toplevel ==
    \E v \in fresh :
        /\ fresh' = fresh \ {v}
        /\ views_list' = <<v>> \o views_list
        /\ UNCHANGED <<mapped, keyVars, focusVars, popupGrab>>

\* Mutant: the view joins the list when it maps, every time.
xdg_toplevel_mapInserts(v) ==
    /\ v \in Live \ mapped
    /\ mapped' = mapped \cup {v}
    /\ views_list' = <<v>> \o views_list
    /\ UNCHANGED <<fresh, keyVars, popupGrab>>
    /\ fwr_focus_view(v)

xdg_toplevel_map(v) ==
    /\ v \in Live \ mapped
    /\ mapped' = mapped \cup {v}
    /\ UNCHANGED <<fresh, views_list, keyVars, popupGrab>>
    /\ fwr_focus_view(v)

\* A parent's popups, and their grab, go with it.  The seat's focus stays.
xdg_toplevel_unmap(v) ==
    /\ v \in mapped
    /\ mapped' = mapped \ {v}
    /\ popupGrab' = IF popupGrab = v THEN None ELSE popupGrab
    /\ UNCHANGED <<fresh, views_list, keyVars, focusVars>>

\* The handle leaves the map; current_focused_view may go on naming it.
xdg_toplevel_destroy(v) ==
    /\ v \in Live \ mapped
    /\ \E i \in DOMAIN views_list : views_list[i] = v /\ views_list' = RemoveAt(views_list, i)
    /\ activated' = activated \ {v}
    /\ UNCHANGED <<fresh, mapped, keyVars, focused, believed, current, popupGrab>>

\* The wl_surface goes after its toplevel; only then does the seat let go.
SurfaceDestroyed ==
    /\ focused \notin Live \cup {None}
    /\ focused' = None
    /\ believed' = BelievedOnlyBy(None, {})
    /\ UNCHANGED <<lifeVars, keyVars, activated, current, popupGrab>>

PopupGrabBegins ==
    /\ popupGrab = None
    /\ \E v \in mapped : popupGrab' = v
    /\ UNCHANGED <<lifeVars, keyVars, focusVars>>

PopupGrabEnds ==
    /\ popupGrab # None
    /\ popupGrab' = None
    /\ UNCHANGED <<lifeVars, keyVars, focusVars>>

\* surface_focus, surface_begin_move and surface_begin_resize, and a pointer
\* event with a button: the handle may belong to any view that is alive.
fwr_handle_surface_focus(v) ==
    /\ v \in Live
    /\ UNCHANGED <<lifeVars, keyVars, popupGrab>>
    /\ fwr_focus_view(v)

\* A client that draws its own decorations asks for a move or a resize, which
\* wlroots lets through only for a window that has been configured.
xdg_toplevel_request_move(v) ==
    /\ v \in mapped
    /\ UNCHANGED <<lifeVars, keyVars, popupGrab>>
    /\ fwr_focus_view(v)

\* surface_clear_focus does not touch the flags, and no grab stops it.
surface_clear_focus ==
    /\ focused' = None
    /\ believed' = BelievedOnlyBy(None, {})
    /\ UNCHANGED <<lifeVars, keyVars, activated, current, popupGrab>>

-----------------------------------------------------------------------------
(* Keyboards.                                                              *)

server_new_keyboard(k) ==
    /\ k \in Keyboards \ plugged
    /\ plugged' = plugged \cup {k}
    /\ seatKeyboard' = k
    /\ UNCHANGED <<lifeVars, pressed, focusVars, popupGrab>>

\* wlroots releases the keys of a keyboard that goes one by one (KeyReleased)
\* before the handler runs.
keyboard_destroy(k) ==
    /\ k \in plugged
    /\ pressed[k] = {}
    /\ plugged' = plugged \ {k}
    /\ seatKeyboard' = IF seatKeyboard = k THEN None ELSE seatKeyboard
    /\ UNCHANGED <<lifeVars, pressed, focusVars, popupGrab>>

keyboard_handle_modifiers(k) ==
    /\ k \in plugged
    /\ seatKeyboard' = k
    /\ UNCHANGED <<lifeVars, plugged, pressed, focusVars, popupGrab>>

\* get_focused_view: NULL for a handle that is not in the map any more.
get_focused_view == IF current \in Live THEN current ELSE None

\* Mutant: the walk ends with the list instead of going round.
WalkFromNoWrap(start, reverse) ==
    LET order == IF reverse THEN Reverse(views_list) ELSE views_list
        i == CHOOSE j \in DOMAIN order : order[j] = start
    IN  SubSeq(order, i + 1, Len(order))

\* The list in the order get_next_mapped_view walks it: from the view after
\* the start once round to the start itself.
WalkFrom(start, reverse) ==
    LET order == IF reverse THEN Reverse(views_list) ELSE views_list
        i == CHOOSE j \in DOMAIN order : order[j] = start
    IN  SubSeq(order, i + 1, Len(order)) \o SubSeq(order, 1, i)

get_next_mapped_view(start, reverse) ==
    LET walk == WalkFrom(start, reverse)
        found == {i \in DOMAIN walk : walk[i] \in mapped}
    IN  IF found = {} THEN None
        ELSE walk[CHOOSE i \in found : \A j \in found : i <= j]

\* Without a focused view only the newest is tried.
AltTabTarget(reverse) ==
    IF get_focused_view # None
    THEN get_next_mapped_view(get_focused_view, reverse)
    ELSE IF views_list # <<>> /\ Head(views_list) \in mapped THEN Head(views_list)
    ELSE None

\* What wlroots and the first line of keyboard_handle_key do to a press.
KeyDown(k, key) ==
    /\ k \in plugged
    /\ key \in Keys \ pressed[k]
    /\ CanHold(k, key)
    /\ pressed' = [pressed EXCEPT ![k] = @ \cup {key}]
    /\ seatKeyboard' = k
    /\ UNCHANGED <<lifeVars, plugged, popupGrab>>

\* The binding asks for the keysym Tab, which xkb_state_key_get_one_sym takes
\* from the level Shift selects: usual layouts have ISO_Left_Tab there, and the
\* press is no binding.  Alt selects no level, nor does Shift for the arrows.
AltTab(k, key) ==
    /\ Alt \in pressed[k]
    /\ key = Tab
    /\ Shift \in pressed[k] => k \in ShiftTabs

\* keyboard_handle_key: Alt+Tab is the compositor's.
SwitchWindow(k) ==
    /\ KeyDown(k, Tab)
    /\ AltTab(k, Tab)
    /\ LET target == AltTabTarget(Shift \in pressed[k])
       IN  IF target = None THEN UNCHANGED focusVars ELSE fwr_focus_view(target)

\* keyboard_handle_key: with Logo held, no focused view or no output swallows
\* every key, and so do the arrows, which place the focused view.
TileWindow(k, key) ==
    /\ KeyDown(k, key)
    /\ ~AltTab(k, key)
    /\ Logo \in pressed[k]
    /\ \E hasOutput \in BOOLEAN :
           get_focused_view = None \/ ~hasOutput \/ key \in Arrows
    /\ UNCHANGED focusVars

\* keyboard_handle_key: every other press goes to the client.
KeyPressed(k, key) ==
    /\ KeyDown(k, key)
    /\ ~AltTab(k, key)
    /\ Logo \in pressed[k] => get_focused_view # None /\ key \notin Arrows
    /\ believed' = Told(believed, focused, key, TRUE)
    /\ UNCHANGED <<focused, activated, current>>

\* Mutant: releases are intercepted as presses are.
KeyReleasedIntercepted(k, key) ==
    /\ k \in plugged
    /\ key \in pressed[k]
    /\ pressed' = [pressed EXCEPT ![k] = @ \ {key}]
    /\ seatKeyboard' = k
    /\ believed' = IF Alt \in pressed[k] /\ key = Tab THEN believed
                   ELSE Told(believed, focused, key, FALSE)
    /\ UNCHANGED <<lifeVars, plugged, focused, activated, current, popupGrab>>

\* keyboard_handle_key: and so does every release, bindings' or not.
KeyReleased(k, key) ==
    /\ k \in plugged
    /\ key \in pressed[k]
    /\ pressed' = [pressed EXCEPT ![k] = @ \ {key}]
    /\ seatKeyboard' = k
    /\ believed' = Told(believed, focused, key, FALSE)
    /\ UNCHANGED <<lifeVars, plugged, focused, activated, current, popupGrab>>

\* A key Dart sends to a view, which gets the focus first.
fwr_handle_surface_keyboard_key_message(v, key, down) ==
    /\ v \in Live
    /\ down <=> key \notin pressed[Dart]
    /\ down => CanHold(Dart, key)
    /\ pressed' = [pressed EXCEPT ![Dart] = IF down THEN @ \cup {key} ELSE @ \ {key}]
    /\ RecordFocus(v)
    /\ believed' = Told(BelievedAfter(v, Codes(seatKeyboard, pressed)), focused', key, down)
    /\ UNCHANGED <<lifeVars, plugged, seatKeyboard, popupGrab>>

-----------------------------------------------------------------------------
WindowNext ==
    \/ fwr_new_xdg_toplevel \/ SurfaceDestroyed \/ PopupGrabBegins \/ PopupGrabEnds
    \/ surface_clear_focus
    \/ \E v \in Views :
           \/ xdg_toplevel_map(v) \/ xdg_toplevel_unmap(v) \/ xdg_toplevel_destroy(v)
           \/ fwr_handle_surface_focus(v) \/ xdg_toplevel_request_move(v)

KeyboardNext ==
    \/ \E k \in Keyboards :
           \/ server_new_keyboard(k) \/ keyboard_destroy(k) \/ keyboard_handle_modifiers(k)
           \/ \E key \in Keys : TileWindow(k, key) \/ KeyPressed(k, key) \/ KeyReleased(k, key)
    \/ \E v \in Views, key \in DartKeys, down \in BOOLEAN :
           fwr_handle_surface_keyboard_key_message(v, key, down)

SwitchNext == \E k \in Keyboards : SwitchWindow(k)

Next == WindowNext \/ KeyboardNext \/ SwitchNext

Spec == Init /\ [][Next]_vars

-----------------------------------------------------------------------------
(* Properties.                                                             *)

\* Every variable has its type, the list holds each live view once, and
\* mapped and activated views are alive (xdg_toplevel_destroy).
TypeOK ==
    /\ fresh \subseteq Views
    /\ views_list \in Seq(Views) /\ IsInjective(views_list)
    /\ Live \cap fresh = {}
    /\ mapped \subseteq Live /\ activated \subseteq Live
    /\ plugged \subseteq Keyboards
    /\ pressed \in [Sources -> SUBSET Keys]
    /\ seatKeyboard \in plugged \cup {None}
    /\ focused \in (Views \ fresh) \cup {None}
    /\ popupGrab \in mapped \cup {None}
    /\ believed \in [Views -> SUBSET Keys]
    /\ current \in Views \cup {None}

\* The three records name one window: the live one with the keys is the only
\* activated one and the one the bindings act on.
RecordsAgree ==
    /\ activated = {focused} \cap Live
    /\ focused \in Live => current = focused

\* No step of any handler makes the records disagree, except a focus change
\* while a popup holds the grab (notify_enter is ignored) and
\* surface_clear_focus, which leaves the window activated.
OnlyGrabsAndClearsSplit ==
    [][RecordsAgree /\ popupGrab = None /\ ~surface_clear_focus => RecordsAgree']_vars

\* Only the client with the focus takes keys for pressed, and only keys that
\* are held.
NoStuckKeys == \A v \in Views : believed[v] \subseteq (IF v = focused THEN Held ELSE {})

\* No client takes a key for pressed that neither a keyboard nor Dart holds,
\* and only the one with the focus takes any: what the bindings swallow and
\* what moves with the focus leaves no key stuck.
Seat == INSTANCE KeyboardSeat WITH
    Windows <- Views, Nobody <- None, holder <- focused, held <- Held

RefinesSeat == Seat!SeatSpec
=============================================================================
