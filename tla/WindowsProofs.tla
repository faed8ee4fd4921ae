---------------------------- MODULE WindowsProofs ----------------------------
(***************************************************************************)
(* Proofs about the keyboard focus, for any number of windows, keyboards   *)
(* and keys: types, the keys clients take for pressed, what can make the   *)
(* records of the focus disagree, that Windows implements KeyboardSeat,    *)
(* and that no window has a second turn at Alt+Tab while another waits.    *)
(***************************************************************************)
EXTENDS WindowTurns, SequenceTheorems, WellFoundedInduction, TLAPS

-----------------------------------------------------------------------------
(* The list of views.                                                      *)

\* wl_list_insert of a view that is not in the list.
LEMMA Inserted ==
  ASSUME NEW s \in Seq(Views), IsInjective(s), NEW v \in Views, v \notin Range(s)
  PROVE  /\ <<v>> \o s \in Seq(Views)
         /\ IsInjective(<<v>> \o s)
         /\ Range(<<v>> \o s) = Range(s) \cup {v}
<1> DEFINE t == <<v>> \o s
<1>1. t \in Seq(Views) /\ Len(t) = Len(s) + 1 /\ t[1] = v
      /\ \A i \in 2 .. Len(t) : t[i] = s[i - 1]
  OBVIOUS
<1>2. DOMAIN t = 1 .. Len(s) + 1 /\ DOMAIN s = 1 .. Len(s) /\ Len(s) \in Nat
  BY <1>1
<1> HIDE DEF t
<1>3. IsInjective(t)
  <2> SUFFICES ASSUME NEW i \in DOMAIN t, NEW j \in DOMAIN t, t[i] = t[j]
               PROVE  i = j
    BY DEF IsInjective
  <2>1. \A k \in 2 .. Len(t) : k - 1 \in DOMAIN s /\ t[k] = s[k - 1] /\ s[k - 1] # v
    BY <1>1, <1>2 DEF Range
  <2>2. CASE i = 1 \/ j = 1
    BY <1>1, <1>2, <2>1, <2>2
  <2>3. CASE i # 1 /\ j # 1
    <3>1. i \in 2 .. Len(t) /\ j \in 2 .. Len(t)
      BY <1>1, <1>2, <2>3
    <3>2. i - 1 = j - 1
      BY <2>1, <3>1 DEF IsInjective
    <3> QED BY <3>1, <3>2
  <2> QED BY <2>2, <2>3
<1>4. Range(t) \subseteq Range(s) \cup {v}
  BY <1>1, <1>2 DEF Range
<1>5. ASSUME NEW i \in DOMAIN s PROVE s[i] = t[i + 1] /\ i + 1 \in DOMAIN t
  BY <1>1, <1>2
<1>6. Range(s) \cup {v} \subseteq Range(t)
  BY <1>1, <1>2, <1>5 DEF Range
<1> QED BY <1>1, <1>3, <1>4, <1>6 DEF t

\* wl_list_remove of one element: the ones behind it move up by a place.
LEMMA RemovedElements ==
  ASSUME NEW s \in Seq(Views), NEW i \in DOMAIN s
  PROVE  /\ RemoveAt(s, i) \in Seq(Views)
         /\ DOMAIN RemoveAt(s, i) = 1 .. Len(s) - 1
         /\ \A j \in 1 .. Len(s) - 1 :
              RemoveAt(s, i)[j] = IF j < i THEN s[j] ELSE s[j + 1]
<1> DEFINE t == RemoveAt(s, i)
           a == SubSeq(s, 1, i - 1)
           b == SubSeq(s, i + 1, Len(s))
<1>1. i \in 1 .. Len(s) /\ Len(s) \in Nat /\ DOMAIN s = 1 .. Len(s)
  OBVIOUS
<1>2. /\ a \in Seq(Views) /\ Len(a) = i - 1
      /\ \A j \in 1 .. i - 1 : a[j] = s[j]
  BY <1>1
<1>3. /\ b \in Seq(Views) /\ Len(b) = Len(s) - i
      /\ \A j \in 1 .. Len(s) - i : b[j] = s[i + j]
  BY <1>1
<1>4. t = a \o b
  BY DEF RemoveAt
<1> HIDE DEF t, a, b
<1>5. t \in Seq(Views) /\ Len(t) = Len(s) - 1 /\ DOMAIN t = 1 .. Len(s) - 1
  <2>1. t \in Seq(Views) /\ Len(t) = Len(a) + Len(b)
    BY <1>2, <1>3, <1>4, ConcatProperties
  <2> QED BY <1>1, <1>2, <1>3, <2>1
<1>6. \A j \in DOMAIN t : t[j] = IF j < i THEN s[j] ELSE s[j + 1]
  <2> TAKE j \in DOMAIN t
  <2>1. j \in 1 .. Len(s) - 1 /\ t[j] = IF j <= Len(a) THEN a[j] ELSE b[j - Len(a)]
    <3>1. j \in 1 .. Len(a) + Len(b)
      BY <1>1, <1>2, <1>3, <1>5
    <3> QED BY <1>1, <1>2, <1>3, <1>4, <1>5, <3>1, ConcatProperties
  <2>2. CASE j < i
    BY <1>1, <1>2, <2>1, <2>2
  <2>3. CASE ~(j < i)
    <3>1. j - (i - 1) \in 1 .. Len(s) - i /\ i + (j - (i - 1)) = j + 1
      BY <1>1, <2>1, <2>3
    <3> QED BY <1>1, <1>2, <1>3, <2>1, <2>3, <3>1
  <2> QED BY <2>2, <2>3
<1> QED BY <1>5, <1>6 DEF t

\* The list stays without duplicates and loses that element only.
LEMMA RemovedAt ==
  ASSUME NEW s \in Seq(Views), IsInjective(s), NEW i \in DOMAIN s
  PROVE  /\ RemoveAt(s, i) \in Seq(Views)
         /\ IsInjective(RemoveAt(s, i))
         /\ Range(RemoveAt(s, i)) = Range(s) \ {s[i]}
<1> DEFINE t == RemoveAt(s, i)
<1>1. i \in 1 .. Len(s) /\ Len(s) \in Nat /\ DOMAIN s = 1 .. Len(s)
  OBVIOUS
<1>2. /\ t \in Seq(Views) /\ DOMAIN t = 1 .. Len(s) - 1
      /\ \A j \in DOMAIN t : t[j] = IF j < i THEN s[j] ELSE s[j + 1]
  BY RemovedElements
<1> HIDE DEF t
<1>3. IsInjective(t)
  BY <1>1, <1>2 DEF IsInjective
<1>4. Range(t) \subseteq Range(s) \ {s[i]}
  BY <1>1, <1>2 DEF Range, IsInjective
<1>5. ASSUME NEW j \in DOMAIN s, j # i PROVE s[j] \in Range(t)
  <2>1. CASE j < i
    BY <1>1, <1>2, <2>1 DEF Range
  <2>2. CASE ~(j < i)
    <3>1. j - 1 \in DOMAIN t /\ t[j - 1] = s[j]
      BY <1>1, <1>2, <1>5, <2>2
    <3> QED BY <3>1 DEF Range
  <2> QED BY <2>1, <2>2
<1>6. Range(s) \ {s[i]} \subseteq Range(t)
  BY <1>5 DEF Range
<1> QED BY <1>2, <1>3, <1>4, <1>6 DEF t

\* A non-empty set of positions has a first one.
LEMMA FirstPosition ==
  ASSUME NEW S \in SUBSET Nat, S # {}
  PROVE  \E n \in S : \A m \in S : n <= m
<1>1. PICK n \in S : \A m \in S : <<m, n>> \notin OpToRel(<, Nat)
  BY WFMin, NatLessThanWellFounded, Zenon
<1>2. \A m \in S : ~(m < n)
  BY <1>1, Zenon DEF OpToRel
<1> QED BY <1>2

\* Alt+Tab goes to a mapped window or nowhere.
LEMMA TargetMapped ==
  ASSUME TypeOK, NEW reverse
  PROVE  AltTabTarget(reverse) \in mapped \cup {None}
<1> DEFINE start == get_focused_view
           order == IF reverse THEN Reverse(views_list) ELSE views_list
           i == CHOOSE j \in DOMAIN order : order[j] = start
           walk == WalkFrom(start, reverse)
           found == {j \in DOMAIN walk : walk[j] \in mapped}
<1>1. CASE start # None
  <2>1. start \in Live
    BY <1>1 DEF get_focused_view
  <2>2. order \in Seq(Views)
    BY DEF TypeOK, Reverse
  <2>3. \E j \in DOMAIN order : order[j] = start
    <3>1. PICK j \in 1 .. Len(views_list) : views_list[j] = start
      BY <2>1 DEF Live, Range, TypeOK
    <3>2. CASE reverse
      <4>1. Len(views_list) - j + 1 \in 1 .. Len(views_list)
            /\ Len(views_list) - (Len(views_list) - j + 1) + 1 = j
        BY <3>1 DEF TypeOK
      <4> QED BY <3>1, <3>2, <4>1 DEF Reverse, TypeOK
    <3>3. CASE ~reverse
      BY <3>1, <3>3 DEF TypeOK
    <3> QED BY <3>2, <3>3
  <2>4. walk = SubSeq(order, i + 1, Len(order)) \o SubSeq(order, 1, i)
    BY DEF WalkFrom
  <2> HIDE DEF order
  <2>5. i \in 1 .. Len(order)
    BY <2>2, <2>3
  <2> HIDE DEF i
  <2>6. walk \in Seq(Views)
    <3>1. SubSeq(order, i + 1, Len(order)) \in Seq(Views)
      BY <2>2, <2>5
    <3>2. SubSeq(order, 1, i) \in Seq(Views)
      BY <2>2, <2>5
    <3> QED BY <2>4, <3>1, <3>2, ConcatProperties
  <2>7. get_next_mapped_view(start, reverse) =
          IF found = {} THEN None
          ELSE walk[CHOOSE j \in found : \A k \in found : j <= k]
    BY DEF get_next_mapped_view
  <2>8. found \in SUBSET Nat
    BY <2>6
  <2> HIDE DEF walk
  <2>9. found # {} => \E j \in found : \A k \in found : j <= k
    BY <2>8, FirstPosition
  <2>10. get_next_mapped_view(start, reverse) \in mapped \cup {None}
    BY <2>7, <2>9
  <2> QED BY <1>1, <2>10 DEF AltTabTarget
<1>2. CASE start = None
  BY <1>2 DEF AltTabTarget
<1> QED BY <1>1, <1>2
-----------------------------------------------------------------------------
(* Types.                                                                  *)

\* A focus change to a live view keeps the types of what it changes.
LEMMA FocusTypes ==
  ASSUME TypeOK, NEW v \in Live, RecordFocus(v)
  PROVE  /\ activated' \subseteq Live
         /\ focused' \in (Views \ fresh) \cup {None}
         /\ current' \in Views \cup {None}
<1>1. v \in Views \ fresh
  BY DEF TypeOK, Live, Range
<1> QED BY <1>1 DEF TypeOK, RecordFocus, FocusedAfter, Moves, Deactivated

\* What a client is told of keys is a set of keys.
LEMMA BelievedTypes ==
  ASSUME NEW keys \in SUBSET Keys, NEW beliefs \in [Views -> SUBSET Keys],
         NEW key \in Keys, NEW v, NEW w, NEW down \in BOOLEAN
  PROVE  /\ BelievedOnlyBy(v, keys) \in [Views -> SUBSET Keys]
         /\ Told(beliefs, w, key, down) \in [Views -> SUBSET Keys]
BY DEF BelievedOnlyBy, Told

LEMMA CodesTypes ==
  ASSUME NEW down \in [Sources -> SUBSET Keys], NEW k \in Keyboards \cup {None}
  PROVE  Codes(k, down) \in SUBSET Keys
BY DEF Codes, Sources

\* The parts of the types the focus does not touch.
Lives ==
    /\ fresh \subseteq Views
    /\ views_list \in Seq(Views) /\ IsInjective(views_list)
    /\ Live \cap fresh = {}
    /\ mapped \subseteq Live
    /\ popupGrab \in mapped \cup {None}
KeysTyped ==
    /\ plugged \subseteq Keyboards
    /\ pressed \in [Sources -> SUBSET Keys]
    /\ seatKeyboard \in plugged \cup {None}
FocusTyped ==
    /\ focused \in (Views \ fresh) \cup {None}
    /\ believed \in [Views -> SUBSET Keys]
    /\ activated \subseteq Live
    /\ current \in Views \cup {None}

LEMMA TypeParts == Lives' /\ KeysTyped' /\ FocusTyped' => TypeOK'
BY DEF TypeOK, Lives, KeysTyped, FocusTyped

\* fwr_focus_view with the keyboards as they are after the step.
LEMMA FocusViewTypes ==
  ASSUME TypeOK, NEW v \in Live, fwr_focus_view(v), KeysTyped',
         UNCHANGED <<fresh, views_list>>
  PROVE  FocusTyped'
<1>1. Codes(seatKeyboard', pressed') \in SUBSET Keys
  BY CodesTypes DEF KeysTyped
<1>2. BelievedOnlyBy(v, Codes(seatKeyboard', pressed')) \in [Views -> SUBSET Keys]
  BY <1>1 DEF BelievedOnlyBy
<1>3. believed' \in [Views -> SUBSET Keys]
  BY <1>2 DEF fwr_focus_view, BelievedAfter, TypeOK
<1>4. Live' = Live
  BY DEF Live
<1> QED BY <1>3, <1>4, FocusTypes DEF FocusTyped, fwr_focus_view

LEMMA KeyDownTypes ==
  ASSUME TypeOK, NEW k \in Keyboards, NEW key \in Keys, KeyDown(k, key)
  PROVE  Lives' /\ KeysTyped'
BY DEF TypeOK, KeyDown, lifeVars, Lives, KeysTyped, Live, Sources

LEMMA InitTypes == Init => TypeOK
<1> SUFFICES ASSUME Init PROVE TypeOK OBVIOUS
<1>1. Live = {} /\ views_list \in Seq(Views) /\ IsInjective(views_list)
  BY DEF Init, Live, Range, IsInjective
<1> QED BY <1>1 DEF Init, TypeOK, Sources

LEMMA NextTypes == TypeOK /\ [Next]_vars => TypeOK'
<1> SUFFICES ASSUME TypeOK, [Next]_vars PROVE TypeOK'
  OBVIOUS
<1>1. CASE fwr_new_xdg_toplevel
  <2>1. PICK v \in fresh : /\ fresh' = fresh \ {v}
                           /\ views_list' = <<v>> \o views_list
                           /\ UNCHANGED <<mapped, keyVars, focusVars, popupGrab>>
    BY <1>1 DEF fwr_new_xdg_toplevel
  <2>2. /\ views_list' \in Seq(Views) /\ IsInjective(views_list')
        /\ Live' = Live \cup {v}
    BY <2>1, Inserted DEF TypeOK, Live
  <2> QED BY <2>1, <2>2 DEF TypeOK, keyVars, focusVars
<1>2. CASE SurfaceDestroyed \/ surface_clear_focus
  BY <1>2 DEF SurfaceDestroyed, surface_clear_focus, TypeOK, lifeVars, keyVars, Live,
              BelievedOnlyBy
<1>3. CASE PopupGrabBegins \/ PopupGrabEnds
  BY <1>3 DEF PopupGrabBegins, PopupGrabEnds, TypeOK, lifeVars, keyVars, focusVars, Live
<1>4. ASSUME NEW v \in Views, xdg_toplevel_map(v) PROVE TypeOK'
  <2>1. KeysTyped' /\ Lives'
    BY <1>4 DEF xdg_toplevel_map, TypeOK, keyVars, KeysTyped, Lives, Live
  <2>2. FocusTyped'
    BY <1>4, <2>1, FocusViewTypes DEF xdg_toplevel_map
  <2> QED BY <2>1, <2>2, TypeParts
<1>5. ASSUME NEW v \in Views, xdg_toplevel_unmap(v) PROVE TypeOK'
  BY <1>5 DEF xdg_toplevel_unmap, TypeOK, keyVars, focusVars, Live
<1>6. ASSUME NEW v \in Views, xdg_toplevel_destroy(v) PROVE TypeOK'
  <2>1. PICK i \in DOMAIN views_list :
             views_list[i] = v /\ views_list' = RemoveAt(views_list, i)
    BY <1>6 DEF xdg_toplevel_destroy
  <2>2. /\ views_list' \in Seq(Views) /\ IsInjective(views_list')
        /\ Live' = Live \ {v}
    BY <2>1, RemovedAt DEF TypeOK, Live
  <2> QED BY <1>6, <2>2 DEF xdg_toplevel_destroy, TypeOK, keyVars
<1>7. ASSUME NEW v \in Views, fwr_handle_surface_focus(v) \/ xdg_toplevel_request_move(v)
      PROVE  TypeOK'
  <2>1. KeysTyped' /\ Lives' /\ v \in Live /\ fwr_focus_view(v)
    BY <1>7 DEF fwr_handle_surface_focus, xdg_toplevel_request_move, TypeOK, keyVars,
                lifeVars, KeysTyped, Lives, Live
  <2>2. FocusTyped'
    BY <1>7, <2>1, FocusViewTypes
       DEF fwr_handle_surface_focus, xdg_toplevel_request_move, lifeVars
  <2> QED BY <2>1, <2>2, TypeParts
<1>8. ASSUME NEW k \in Keyboards,
             server_new_keyboard(k) \/ keyboard_destroy(k) \/ keyboard_handle_modifiers(k)
      PROVE  TypeOK'
  BY <1>8 DEF server_new_keyboard, keyboard_destroy, keyboard_handle_modifiers, TypeOK,
              lifeVars, focusVars, Live
<1>9. ASSUME NEW k \in Keyboards, SwitchWindow(k) PROVE TypeOK'
  <2>1. KeyDown(k, Tab) /\ Lives' /\ KeysTyped'
    <3>1. KeyDown(k, Tab) /\ Tab \in Keys
      BY <1>9 DEF SwitchWindow, KeyDown
    <3> QED BY <3>1, KeyDownTypes
  <2> DEFINE target == AltTabTarget(Shift \in pressed[k])
  <2>2. target \in mapped \cup {None}
    BY TargetMapped
  <2>3. CASE target = None
    BY <1>9, <2>1, <2>3, TypeParts
       DEF SwitchWindow, TypeOK, focusVars, FocusTyped, KeyDown, lifeVars, Live
  <2>4. CASE target # None
    <3>1. target \in Live /\ fwr_focus_view(target)
      BY <1>9, <2>2, <2>4 DEF SwitchWindow, TypeOK
    <3> HIDE DEF target
    <3>2. FocusTyped'
      BY <2>1, <3>1, FocusViewTypes DEF KeyDown, lifeVars
    <3> QED BY <2>1, <3>2, TypeParts
  <2> QED BY <2>3, <2>4
<1>10. ASSUME NEW k \in Keyboards, NEW key \in Keys,
              TileWindow(k, key) \/ KeyPressed(k, key)
       PROVE  TypeOK'
  <2>1. KeyDown(k, key) /\ Lives' /\ KeysTyped'
    BY <1>10, KeyDownTypes DEF TileWindow, KeyPressed
  <2>2. Told(believed, focused, key, TRUE) \in [Views -> SUBSET Keys]
    BY DEF TypeOK, Told
  <2> QED BY <1>10, <2>1, <2>2, TypeParts DEF TileWindow, KeyPressed, TypeOK, focusVars, FocusTyped,
                                   KeyDown, lifeVars, Live
<1>11. ASSUME NEW k \in Keyboards, NEW key \in Keys, KeyReleased(k, key) PROVE TypeOK'
  <2>1. Told(believed, focused, key, FALSE) \in [Views -> SUBSET Keys]
    BY DEF TypeOK, Told
  <2> QED BY <1>11, <2>1 DEF KeyReleased, TypeOK, lifeVars, Live, Sources
<1>12. ASSUME NEW v \in Views, NEW key \in DartKeys, NEW down \in BOOLEAN,
              fwr_handle_surface_keyboard_key_message(v, key, down)
       PROVE  TypeOK'
  <2>1. key \in Keys /\ Lives' /\ KeysTyped'
    BY <1>12, ConstantsAssumption
       DEF fwr_handle_surface_keyboard_key_message, TypeOK, lifeVars, Lives, KeysTyped,
           Live, Sources
  <2>2. Codes(seatKeyboard, pressed) \in SUBSET Keys
    BY CodesTypes DEF TypeOK
  <2>3. BelievedAfter(v, Codes(seatKeyboard, pressed)) \in [Views -> SUBSET Keys]
    BY <2>2 DEF BelievedAfter, BelievedOnlyBy, TypeOK
  <2> DEFINE beliefs == BelievedAfter(v, Codes(seatKeyboard, pressed))
  <2> HIDE DEF beliefs
  <2>4. Told(beliefs, focused', key, down) \in [Views -> SUBSET Keys]
    BY <2>1, <2>3, BelievedTypes DEF beliefs
  <2>5. believed' \in [Views -> SUBSET Keys] /\ v \in Live /\ RecordFocus(v)
    BY <1>12, <2>4 DEF fwr_handle_surface_keyboard_key_message, beliefs
  <2>6. FocusTyped'
    BY <1>12, <2>5, FocusTypes
       DEF FocusTyped, fwr_handle_surface_keyboard_key_message, lifeVars, Live
  <2> QED BY <2>1, <2>6, TypeParts
<1>13. CASE UNCHANGED vars
  BY <1>13 DEF vars, lifeVars, keyVars, focusVars, TypeOK, Live
<1> QED BY <1>1, <1>2, <1>3, <1>4, <1>5, <1>6, <1>7, <1>8, <1>9, <1>10, <1>11, <1>12,
           <1>13 DEF Next, WindowNext, KeyboardNext, SwitchNext
-----------------------------------------------------------------------------
(* What the clients take for pressed, and the refinement.                  *)

\* A key that goes down or up, wherever it does, changes what is held by it.
LEMMA HeldPress ==
  ASSUME TypeOK, NEW s \in Sources, NEW key \in Keys,
         pressed' = [pressed EXCEPT ![s] = @ \cup {key}]
  PROVE  Held' = Held \cup {key}
BY DEF TypeOK, Held

LEMMA HeldRelease ==
  ASSUME TypeOK, NEW s \in Sources, NEW key \in Keys,
         pressed' = [pressed EXCEPT ![s] = @ \ {key}]
  PROVE  Held' \in {Held, Held \ {key}}
<1>1. Held \ {key} \subseteq Held' /\ Held' \subseteq Held
  BY DEF TypeOK, Held
<1> QED BY <1>1

LEMMA CodesHeld ==
  ASSUME KeysTyped
  PROVE  Codes(seatKeyboard, pressed) \subseteq Held
BY DEF KeysTyped, Codes, Held, Sources

\* fwr_focus_view with no key or with the one of Alt+Tab: the abstract seat
\* moves, or keeps the key from the window a popup's grab leaves the focus to.
LEMMA FocusSimulates ==
  ASSUME TypeOK, NEW v \in Live, fwr_focus_view(v), KeysTyped',
         \/ UNCHANGED Held
         \/ \E key \in Keys : Held' = Held \cup {key}
  PROVE  [Seat!SeatNext]_Seat!seatVars
<1>1. v \in Views
  BY DEF TypeOK, Live, Range
<1>2. CASE Moves(v)
  <2>1. /\ focused' = v
        /\ believed' = Seat!Only(v, Codes(seatKeyboard', pressed'))
    BY <1>2 DEF fwr_focus_view, RecordFocus, FocusedAfter, BelievedAfter, BelievedOnlyBy,
                Seat!Only
  <2>2. Codes(seatKeyboard', pressed') \subseteq Held'
    BY CodesHeld DEF KeysTyped, Codes, Held, Sources
  <2>3. Seat!Move(v)
    BY <2>1, <2>2 DEF Seat!Move
  <2> QED BY <1>1, <2>3 DEF Seat!SeatNext
<1>3. CASE ~Moves(v)
  <2>1. UNCHANGED <<focused, believed>>
    BY <1>3 DEF fwr_focus_view, RecordFocus, FocusedAfter, BelievedAfter
  <2>2. CASE UNCHANGED Held
    BY <2>1, <2>2 DEF Seat!seatVars
  <2>3. ASSUME NEW key \in Keys, Held' = Held \cup {key}
        PROVE  Seat!SeatNext
    <3>1. Seat!Press(key)
      BY <2>1, <2>3 DEF Seat!Press
    <3> QED BY <3>1 DEF Seat!SeatNext
  <2> QED BY <2>2, <2>3
<1> QED BY <1>2, <1>3

\* wlr_seat_keyboard_notify_key, where only the client with the focus has keys.
LEMMA KeySimulates ==
  ASSUME TypeOK, NoStuckKeys, NEW s \in Sources, NEW key \in Keys, NEW down \in BOOLEAN,
         pressed' = [pressed EXCEPT ![s] = IF down THEN @ \cup {key} ELSE @ \ {key}],
         believed' = Told(believed, focused, key, down), UNCHANGED focused
  PROVE  Seat!SeatNext
<1>1. CASE down
  <2>1. Held' = Held \cup {key}
    BY <1>1, HeldPress
  <2>2. CASE focused \in Views
    <3>1. believed' = Seat!Only(focused, believed[focused] \cup {key})
      BY <1>1, <2>2 DEF Told, NoStuckKeys, Seat!Only, TypeOK
    <3> QED BY <2>1, <2>2, <3>1 DEF Seat!SeatNext, Seat!Press
  <2>3. CASE focused \notin Views
    <3>1. UNCHANGED believed
      BY <2>3 DEF Told, TypeOK
    <3> QED BY <2>1, <3>1 DEF Seat!SeatNext, Seat!Press
  <2> QED BY <2>2, <2>3
<1>2. CASE ~down
  <2>1. Held' \in {Held, Held \ {key}}
    BY <1>2, HeldRelease
  <2>2. believed' = [w \in Views |-> believed[w] \ {key}]
    BY <1>2 DEF Told, NoStuckKeys, TypeOK
  <2> QED BY <2>1, <2>2 DEF Seat!SeatNext, Seat!Release
<1> QED BY <1>1, <1>2

\* A key Dart sends to a view that is given the focus first.
LEMMA DartSimulates ==
  ASSUME TypeOK, NoStuckKeys, NEW v \in Views, NEW key \in Keys, NEW down \in BOOLEAN,
         fwr_handle_surface_keyboard_key_message(v, key, down)
  PROVE  Seat!SeatNext
<1> USE DEF fwr_handle_surface_keyboard_key_message
<1>1. pressed' = [pressed EXCEPT ![Dart] = IF down THEN @ \cup {key} ELSE @ \ {key}]
      /\ Dart \in Sources
  BY DEF Sources
<1>2. CASE Moves(v)
  <2> DEFINE codes == Codes(seatKeyboard, pressed)
             after == IF down THEN codes \cup {key} ELSE codes \ {key}
  <2>1. focused' = v /\ believed' = Seat!Only(v, after)
    BY <1>2 DEF RecordFocus, FocusedAfter, BelievedAfter, BelievedOnlyBy, Told, Seat!Only
  <2>2. codes \subseteq Held
    BY CodesHeld DEF TypeOK, KeysTyped
  <2>3. CASE down
    <3>1. Held' = Held \cup {key}
      BY <1>1, <2>3, HeldPress
    <3>2. after \in SUBSET Held'
      BY <2>2, <2>3, <3>1
    <3> HIDE DEF after
    <3> QED BY <2>1, <3>1, <3>2 DEF Seat!SeatNext, Seat!Move
  <2>4. CASE ~down
    <3>1. Held' \in {Held, Held \ {key}}
      BY <1>1, <2>4, HeldRelease
    <3>2. after \in SUBSET Held'
      BY <2>2, <2>4, <3>1
    <3> HIDE DEF after
    <3> QED BY <2>1, <3>1, <3>2 DEF Seat!SeatNext, Seat!Move
  <2> QED BY <2>3, <2>4
<1>3. CASE ~Moves(v)
  <2>1. UNCHANGED focused /\ believed' = Told(believed, focused, key, down)
    BY <1>3 DEF RecordFocus, FocusedAfter, BelievedAfter
  <2> QED BY <1>1, <2>1, KeySimulates
<1> QED BY <1>2, <1>3

LEMMA StepSimulates ==
  ASSUME TypeOK, TypeOK', NoStuckKeys, [Next]_vars
  PROVE  [Seat!SeatNext]_Seat!seatVars
<1>1. KeysTyped /\ KeysTyped'
  BY DEF TypeOK, KeysTyped
<1>2. CASE surface_clear_focus \/ SurfaceDestroyed
  <2>1. Seat!Leave
    BY <1>2 DEF surface_clear_focus, SurfaceDestroyed, Seat!Leave, Seat!Nothing,
                BelievedOnlyBy, keyVars, Held, TypeOK
  <2> QED BY <2>1 DEF Seat!SeatNext
<1>3. CASE fwr_new_xdg_toplevel \/ PopupGrabBegins \/ PopupGrabEnds \/ UNCHANGED vars
  BY <1>3 DEF fwr_new_xdg_toplevel, PopupGrabBegins, PopupGrabEnds, vars, keyVars,
              focusVars, Seat!seatVars, Held
<1>4. ASSUME NEW v \in Views, xdg_toplevel_unmap(v) \/ xdg_toplevel_destroy(v)
      PROVE  UNCHANGED Seat!seatVars
  BY <1>4 DEF xdg_toplevel_unmap, xdg_toplevel_destroy, keyVars, focusVars,
              Seat!seatVars, Held
<1>5. ASSUME NEW v \in Views,
             \/ xdg_toplevel_map(v) \/ fwr_handle_surface_focus(v)
             \/ xdg_toplevel_request_move(v)
      PROVE  [Seat!SeatNext]_Seat!seatVars
  <2>1. v \in Live /\ fwr_focus_view(v) /\ UNCHANGED Held
    BY <1>5 DEF xdg_toplevel_map, fwr_handle_surface_focus, xdg_toplevel_request_move,
                keyVars, Held, TypeOK
  <2> QED BY <1>1, <2>1, FocusSimulates
<1>6. ASSUME NEW k \in Keyboards,
             server_new_keyboard(k) \/ keyboard_destroy(k) \/ keyboard_handle_modifiers(k)
      PROVE  UNCHANGED Seat!seatVars
  BY <1>6 DEF server_new_keyboard, keyboard_destroy, keyboard_handle_modifiers, focusVars,
              Seat!seatVars, Held
<1>7. ASSUME NEW k \in Keyboards, NEW key \in Keys, KeyDown(k, key)
      PROVE  Held' = Held \cup {key}
  BY <1>7, HeldPress DEF KeyDown, Sources
<1>8. ASSUME NEW k \in Keyboards, SwitchWindow(k)
      PROVE  [Seat!SeatNext]_Seat!seatVars
  <2> DEFINE target == AltTabTarget(Shift \in pressed[k])
  <2>1. Tab \in Keys /\ Held' = Held \cup {Tab}
    <3>1. KeyDown(k, Tab) /\ Tab \in Keys
      BY <1>8 DEF SwitchWindow, KeyDown
    <3> QED BY <3>1, <1>7
  <2>2. target \in mapped \cup {None}
    BY TargetMapped
  <2>3. target = None => UNCHANGED focusVars
    BY <1>8 DEF SwitchWindow
  <2>4. target # None => fwr_focus_view(target)
    BY <1>8 DEF SwitchWindow
  <2> HIDE DEF target
  <2>5. CASE target = None
    <3>1. Seat!Press(Tab)
      BY <2>1, <2>3, <2>5 DEF Seat!Press, focusVars
    <3> QED BY <2>1, <3>1 DEF Seat!SeatNext
  <2>6. CASE target # None
    <3>1. target \in Live
      BY <2>2, <2>6 DEF TypeOK
    <3> QED BY <1>1, <2>1, <2>4, <2>6, <3>1, FocusSimulates
  <2> QED BY <2>5, <2>6
<1>9. ASSUME NEW k \in Keyboards, NEW key \in Keys, TileWindow(k, key)
      PROVE  Seat!SeatNext
  <2>1. Held' = Held \cup {key} /\ UNCHANGED focusVars
    BY <1>7, <1>9 DEF TileWindow
  <2>2. Seat!Press(key)
    BY <2>1 DEF Seat!Press, focusVars
  <2> QED BY <2>2 DEF Seat!SeatNext
<1>10. ASSUME NEW k \in Keyboards, NEW key \in Keys, KeyPressed(k, key) \/ KeyReleased(k, key)
       PROVE  Seat!SeatNext
  <2>1. k \in Sources /\ UNCHANGED focused
    BY <1>10 DEF Sources, KeyPressed, KeyReleased
  <2>2. CASE KeyPressed(k, key)
    BY <2>1, <2>2, KeySimulates DEF KeyPressed, KeyDown
  <2>3. CASE KeyReleased(k, key)
    BY <2>1, <2>3, KeySimulates DEF KeyReleased
  <2> QED BY <1>10, <2>2, <2>3
<1>11. ASSUME NEW v \in Views, NEW key \in DartKeys, NEW down \in BOOLEAN,
              fwr_handle_surface_keyboard_key_message(v, key, down)
       PROVE  Seat!SeatNext
  BY <1>11, DartSimulates, ConstantsAssumption
<1> QED BY <1>2, <1>3, <1>4, <1>5, <1>6, <1>8, <1>9, <1>10, <1>11
        DEF Next, WindowNext, KeyboardNext, SwitchNext

\* The abstract seat's own invariant.
LEMMA SeatKeeps ==
  ASSUME TypeOK, NoStuckKeys, [Seat!SeatNext]_Seat!seatVars
  PROVE  NoStuckKeys'
<1> USE DEF NoStuckKeys, TypeOK
<1>1. ASSUME NEW key \in Keys, Seat!Press(key) PROVE NoStuckKeys'
  BY <1>1 DEF Seat!Press, Seat!Only
<1>2. ASSUME NEW key \in Keys, Seat!Release(key) PROVE NoStuckKeys'
  BY <1>2 DEF Seat!Release
<1>3. ASSUME NEW v \in Views, Seat!Move(v) PROVE NoStuckKeys'
  <2>1. PICK keys \in SUBSET Held' : believed' = Seat!Only(v, keys)
    BY <1>3 DEF Seat!Move
  <2> QED BY <1>3, <2>1 DEF Seat!Move, Seat!Only
<1>4. CASE Seat!Leave
  BY <1>4 DEF Seat!Leave, Seat!Nothing
<1>5. CASE UNCHANGED Seat!seatVars
  BY <1>5 DEF Seat!seatVars
<1> QED BY <1>1, <1>2, <1>3, <1>4, <1>5 DEF Seat!SeatNext

IInv == TypeOK /\ NoStuckKeys

LEMMA InitIInv == Init => IInv
<1> SUFFICES ASSUME Init PROVE IInv OBVIOUS
<1>1. TypeOK BY InitTypes
<1> QED BY <1>1 DEF Init, IInv, NoStuckKeys

LEMMA NextIInv == IInv /\ [Next]_vars => IInv'
<1> SUFFICES ASSUME IInv, [Next]_vars PROVE IInv' OBVIOUS
<1>1. TypeOK' BY NextTypes DEF IInv
<1>2. NoStuckKeys' BY <1>1, StepSimulates, SeatKeeps DEF IInv
<1> QED BY <1>1, <1>2 DEF IInv

\* The inductive invariant: types, and keys believed only by the client with
\* the focus and only while held.  The refinement needs it, because releases
\* and leave events are sent to that client alone.
THEOREM InvariantHolds == Spec => []IInv
BY InitIInv, NextIInv, PTL DEF Spec

\* The list and the records of the focus keep their types, each live view in
\* the list once (fwr_new_xdg_toplevel, xdg_toplevel_destroy).
THEOREM TypesHold == Spec => []TypeOK
<1>1. IInv => TypeOK BY DEF IInv
<1> QED BY <1>1, InvariantHolds, PTL

\* No client takes a key for pressed that nobody holds (keyboard_handle_key,
\* fwr_focus_view), whatever the bindings swallow.
THEOREM NoStuckKeysHolds == Spec => []NoStuckKeys
<1>1. IInv => NoStuckKeys BY DEF IInv
<1> QED BY <1>1, InvariantHolds, PTL

\* Windows implements the abstract keyboard seat.
THEOREM Refinement == Spec => RefinesSeat
<1>1. Init => Seat!SeatInit
  BY DEF Init, Seat!SeatInit, Seat!Nothing, Held, Sources
<1>2. IInv /\ IInv' /\ [Next]_vars => [Seat!SeatNext]_Seat!seatVars
  BY StepSimulates DEF IInv
<1> QED BY <1>1, <1>2, InvariantHolds, PTL DEF Spec, RefinesSeat, Seat!SeatSpec
-----------------------------------------------------------------------------
(* What can make the records of the focus disagree.                        *)

\* Without a popup's grab fwr_focus_view moves all three records together.
LEMMA FocusKeepsAgreement ==
  ASSUME TypeOK, RecordsAgree, popupGrab = None, NEW v \in Live, RecordFocus(v),
         UNCHANGED views_list
  PROVE  RecordsAgree'
<1>1. Live' = Live /\ focused' = v
  BY DEF Live, RecordFocus, FocusedAfter, Moves
<1>2. CASE focused = v
  BY <1>1, <1>2 DEF RecordFocus, RecordsAgree
<1>3. CASE focused # v
  BY <1>1, <1>3 DEF RecordFocus, RecordsAgree, Deactivated
<1> QED BY <1>2, <1>3

LEMMA AgreementKept ==
  ASSUME TypeOK, [Next]_vars, RecordsAgree, popupGrab = None, ~surface_clear_focus
  PROVE  RecordsAgree'
<1>1. CASE fwr_new_xdg_toplevel
  <2>1. PICK v \in fresh : /\ views_list' = <<v>> \o views_list
                           /\ UNCHANGED focusVars
    BY <1>1 DEF fwr_new_xdg_toplevel
  <2>2. Live' = Live \cup {v} /\ v # focused
    BY <2>1, Inserted, ConstantsAssumption DEF TypeOK, Live
  <2> QED BY <2>1, <2>2 DEF RecordsAgree, focusVars, TypeOK
<1>2. CASE SurfaceDestroyed
  BY <1>2, ConstantsAssumption DEF SurfaceDestroyed, lifeVars, RecordsAgree, TypeOK, Live, Range
<1>3. ASSUME UNCHANGED <<views_list, focused, activated, current>> PROVE RecordsAgree'
  BY <1>3 DEF RecordsAgree, Live
<1>4. CASE PopupGrabBegins \/ PopupGrabEnds \/ UNCHANGED vars
  BY <1>3, <1>4 DEF PopupGrabBegins, PopupGrabEnds, vars, lifeVars, focusVars
<1>5. ASSUME NEW v \in Views,
             \/ xdg_toplevel_map(v) \/ fwr_handle_surface_focus(v)
             \/ xdg_toplevel_request_move(v)
      PROVE  RecordsAgree'
  BY <1>5, FocusKeepsAgreement
     DEF xdg_toplevel_map, fwr_handle_surface_focus, xdg_toplevel_request_move,
         fwr_focus_view, lifeVars, TypeOK
<1>6. ASSUME NEW v \in Views, xdg_toplevel_unmap(v) PROVE RecordsAgree'
  BY <1>3, <1>6 DEF xdg_toplevel_unmap, focusVars
<1>7. ASSUME NEW v \in Views, xdg_toplevel_destroy(v) PROVE RecordsAgree'
  <2>1. PICK i \in DOMAIN views_list :
             views_list[i] = v /\ views_list' = RemoveAt(views_list, i)
    BY <1>7 DEF xdg_toplevel_destroy
  <2>2. Live' = Live \ {v}
    BY <2>1, RemovedAt DEF TypeOK, Live
  <2> QED BY <1>7, <2>2 DEF xdg_toplevel_destroy, RecordsAgree
<1>8. ASSUME NEW k \in Keyboards,
             server_new_keyboard(k) \/ keyboard_destroy(k) \/ keyboard_handle_modifiers(k)
      PROVE  RecordsAgree'
  BY <1>3, <1>8 DEF server_new_keyboard, keyboard_destroy, keyboard_handle_modifiers,
                    lifeVars, focusVars
<1>9. ASSUME NEW k \in Keyboards, SwitchWindow(k) PROVE RecordsAgree'
  <2> DEFINE target == AltTabTarget(Shift \in pressed[k])
  <2>1. UNCHANGED views_list
    BY <1>9 DEF SwitchWindow, KeyDown, lifeVars
  <2>2. target \in Live \cup {None}
    BY TargetMapped DEF TypeOK
  <2>3. IF target = None THEN UNCHANGED focusVars ELSE fwr_focus_view(target)
    BY <1>9 DEF SwitchWindow
  <2> HIDE DEF target
  <2>4. CASE target = None
    BY <1>3, <2>1, <2>3, <2>4 DEF focusVars
  <2>5. CASE target # None
    BY <2>1, <2>2, <2>3, <2>5, FocusKeepsAgreement DEF fwr_focus_view
  <2> QED BY <2>4, <2>5
<1>10. ASSUME NEW k \in Keyboards, NEW key \in Keys,
              TileWindow(k, key) \/ KeyPressed(k, key) \/ KeyReleased(k, key)
       PROVE  RecordsAgree'
  BY <1>3, <1>10 DEF TileWindow, KeyPressed, KeyReleased, KeyDown, lifeVars, focusVars
<1>11. ASSUME NEW v \in Views, NEW key \in DartKeys, NEW down \in BOOLEAN,
              fwr_handle_surface_keyboard_key_message(v, key, down)
       PROVE  RecordsAgree'
  BY <1>11, FocusKeepsAgreement DEF fwr_handle_surface_keyboard_key_message, lifeVars
<1> QED BY <1>1, <1>2, <1>4, <1>5, <1>6, <1>7, <1>8, <1>9, <1>10, <1>11
        DEF Next, WindowNext, KeyboardNext, SwitchNext

\* The seat's focus, the activated flags and current_focused_view come apart
\* only in a popup's grab or by surface_clear_focus, for any number of windows.
THEOREM OnlyGrabsAndClearsSplitHolds == Spec => OnlyGrabsAndClearsSplit
<1>1. TypeOK /\ [Next]_vars =>
        [RecordsAgree /\ popupGrab = None /\ ~surface_clear_focus => RecordsAgree']_vars
  BY AgreementKept
<1> QED BY <1>1, TypesHold, PTL DEF Spec, OnlyGrabsAndClearsSplit
-----------------------------------------------------------------------------
(* Alt+Tab.                                                                *)

\* The order the walk takes, and the place j steps after the p-th in it.
Order(reverse) == IF reverse THEN Reverse(views_list) ELSE views_list
Place(p, j) == IF p + j <= Len(views_list) THEN p + j ELSE p + j - Len(views_list)

LEMMA OrderKeeps ==
  ASSUME TypeOK, NEW reverse
  PROVE  /\ Order(reverse) \in Seq(Views) /\ Len(Order(reverse)) = Len(views_list)
         /\ DOMAIN Order(reverse) = 1 .. Len(views_list) /\ Len(views_list) \in Nat
         /\ IsInjective(Order(reverse))
         /\ Range(Order(reverse)) = Live
<1> DEFINE n == Len(views_list)
           t == Order(reverse)
<1>1. /\ views_list \in Seq(Views) /\ n \in Nat /\ DOMAIN views_list = 1 .. n
      /\ \A i, j \in 1 .. n : views_list[i] = views_list[j] => i = j
  BY DEF TypeOK, IsInjective
<1>2. CASE ~reverse
  BY <1>1, <1>2 DEF Order, Live, Range, IsInjective
<1>3. CASE reverse
  <2>1. t = [i \in 1 .. n |-> views_list[(n - i) + 1]]
    BY <1>3 DEF Order, Reverse
  <2>2. \A i \in 1 .. n : /\ (n - i) + 1 \in 1 .. n /\ (n - ((n - i) + 1)) + 1 = i
                          /\ views_list[(n - i) + 1] \in Views
    BY <1>1
  <2> HIDE DEF n
  <2>3. t \in Seq(Views) /\ Len(t) = n /\ DOMAIN t = 1 .. n
    <3>1. t \in [1 .. n -> Views]
      BY <2>1, <2>2
    <3> QED BY <1>1, <3>1
  <2>4. IsInjective(t)
    <3> SUFFICES ASSUME NEW i \in 1 .. n, NEW j \in 1 .. n, t[i] = t[j]
                 PROVE  i = j
      BY <2>3 DEF IsInjective
    <3>1. (n - i) + 1 = (n - j) + 1
      BY <1>1, <2>1, <2>2
    <3> QED BY <1>1, <3>1
  <2>5. Range(t) = Live
    <3>1. \A i \in 1 .. n : t[i] \in Live
      BY <1>1, <2>1, <2>2 DEF Live, Range
    <3>2. \A i \in 1 .. n : views_list[i] = t[(n - i) + 1]
      BY <2>1, <2>2
    <3>3. \A i \in 1 .. n : views_list[i] \in Range(t)
      BY <2>2, <2>3, <3>2 DEF Range
    <3> QED BY <1>1, <2>3, <3>1, <3>3 DEF Live, Range
  <2> QED BY <1>1, <2>3, <2>4, <2>5 DEF n
<1> QED BY <1>2, <1>3

\* The walk from the p-th view visits every place, its own last.
LEMMA WalkGoesRound ==
  ASSUME TypeOK, NEW reverse, NEW p \in 1 .. Len(views_list)
  PROVE  LET walk == WalkFrom(Order(reverse)[p], reverse)
         IN  /\ DOMAIN walk = 1 .. Len(views_list)
             /\ \A j \in 1 .. Len(views_list) : walk[j] = Order(reverse)[Place(p, j)]
<1> DEFINE n == Len(views_list)
           t == Order(reverse)
           i == CHOOSE j \in DOMAIN t : t[j] = t[p]
           a == SubSeq(t, p + 1, n)
           b == SubSeq(t, 1, p)
<1>1. /\ t \in Seq(Views) /\ Len(t) = n /\ DOMAIN t = 1 .. n /\ n \in Nat
      /\ \A j, k \in 1 .. n : t[j] = t[k] => j = k
  BY OrderKeeps DEF IsInjective
<1>2. i = p
  BY <1>1
<1>3. WalkFrom(t[p], reverse) = SubSeq(t, i + 1, Len(t)) \o SubSeq(t, 1, i)
  BY DEF WalkFrom, Order
<1> HIDE DEF t, i
<1>4. WalkFrom(t[p], reverse) = a \o b
  BY <1>1, <1>2, <1>3
<1>5. /\ a \in Seq(Views) /\ Len(a) = n - p
      /\ \A j \in 1 .. n - p : a[j] = t[p + j]
  <2>1. /\ p \in 1 .. Len(t) /\ p + 1 \in 1 .. Len(t) + 1 /\ Len(t) \in 0 .. Len(t)
        /\ t \in Seq(Views)
    BY <1>1
  <2>2. a = [j \in 1 .. Len(t) - p |-> t[p + j]]
    BY <1>1, <2>1
  <2> HIDE DEF a
  <2>3. \A j \in 1 .. Len(t) - p : t[p + j] \in Views
    BY <1>1, <2>1
  <2>4. Len(t) - p \in Nat
    BY <1>1, <2>1
  <2>5. a \in Seq(Views) /\ Len(a) = Len(t) - p
    BY <2>2, <2>3, <2>4
  <2> QED BY <1>1, <2>2, <2>5
<1>6. /\ b \in Seq(Views) /\ Len(b) = p
      /\ \A j \in 1 .. p : b[j] = t[j]
  <2>1. 1 \in 1 .. n + 1 /\ p \in 0 .. n
    BY <1>1
  <2>2. b = [j \in 1 .. p |-> t[j]]
    BY <1>1, <2>1
  <2>3. \A j \in 1 .. p : t[j] \in Views
    BY <1>1
  <2>4. b \in Seq(Views) /\ Len(b) = p
    BY <2>1, <2>2, <2>3
  <2> QED BY <2>2, <2>4
<1> HIDE DEF a, b, n
<1>7. p \in 1 .. n
  BY DEF n
<1>8. /\ DOMAIN (a \o b) = 1 .. n
      /\ \A j \in 1 .. n : (a \o b)[j] = IF j <= n - p THEN a[j] ELSE b[j - (n - p)]
  <2>1. Len(a) + Len(b) = n
    BY <1>1, <1>5, <1>6, <1>7
  <2>2. /\ Len(a \o b) = n /\ a \o b \in Seq(Views)
        /\ \A j \in 1 .. Len(a) + Len(b) :
             (a \o b)[j] = IF j <= Len(a) THEN a[j] ELSE b[j - Len(a)]
    BY <1>5, <1>6, <2>1, ConcatProperties
  <2>3. DOMAIN (a \o b) = 1 .. n
    BY <2>2
  <2> QED BY <1>5, <2>1, <2>2, <2>3
<1>9. ASSUME NEW j \in 1 .. n
      PROVE  (a \o b)[j] = t[Place(p, j)]
  <2>1. CASE j <= n - p
    <3>1. j \in 1 .. n - p /\ Place(p, j) = p + j
      BY <1>1, <1>7, <2>1 DEF Place, n
    <3> QED BY <1>5, <1>8, <2>1, <3>1
  <2>2. CASE ~(j <= n - p)
    <3>1. j - (n - p) \in 1 .. p /\ Place(p, j) = j - (n - p)
      BY <1>1, <1>7, <2>2 DEF Place, n
    <3> QED BY <1>6, <1>8, <2>2, <3>1
  <2> QED BY <2>1, <2>2
<1> QED BY <1>4, <1>8, <1>9 DEF n, t

\* a comes before b in a list, and b between a and c in the ring it makes.
Precedes(s, a, b) == \E i, j \in DOMAIN s : i < j /\ s[i] = a /\ s[j] = b
Ringwise(s, a, b, c) ==
    \/ Precedes(s, a, b) /\ Precedes(s, b, c)
    \/ Precedes(s, b, c) /\ Precedes(s, c, a)
    \/ Precedes(s, c, a) /\ Precedes(s, a, b)

\* Walking from at, w comes before x.
Sooner(s, at, w, x, reverse) ==
    IF reverse THEN Ringwise(s, x, w, at) ELSE Ringwise(s, at, w, x)

LEMMA PrecedesIsOrder ==
  ASSUME NEW s \in Seq(Views), IsInjective(s)
  PROVE  /\ \A a, b : Precedes(s, a, b) => ~Precedes(s, b, a)
         /\ \A a, b, c : Precedes(s, a, b) /\ Precedes(s, b, c) => Precedes(s, a, c)
<1>1. DOMAIN s \subseteq Int /\ \A i, j \in DOMAIN s : s[i] = s[j] => i = j
  BY DEF IsInjective
<1>2. ASSUME NEW a, NEW b, Precedes(s, a, b), Precedes(s, b, a)
      PROVE  FALSE
  <2>1. PICK i, j \in DOMAIN s : i < j /\ s[i] = a /\ s[j] = b
    BY <1>2 DEF Precedes
  <2>2. PICK k, l \in DOMAIN s : k < l /\ s[k] = b /\ s[l] = a
    BY <1>2 DEF Precedes
  <2>3. i = l /\ j = k
    BY <1>1, <2>1, <2>2
  <2> QED BY <1>1, <2>1, <2>2, <2>3
<1>3. ASSUME NEW a, NEW b, NEW c, Precedes(s, a, b), Precedes(s, b, c)
      PROVE  Precedes(s, a, c)
  <2>1. PICK i, j \in DOMAIN s : i < j /\ s[i] = a /\ s[j] = b
    BY <1>3 DEF Precedes
  <2>2. PICK k, l \in DOMAIN s : k < l /\ s[k] = b /\ s[l] = c
    BY <1>3 DEF Precedes
  <2>3. j = k
    BY <1>1, <2>1, <2>2
  <2>4. i < l
    BY <1>1, <2>1, <2>2, <2>3
  <2> QED BY <2>1, <2>2, <2>4 DEF Precedes
<1> QED BY <1>2, <1>3

\* Once the walk has come to t, w is still sooner than what it was sooner
\* than, and than the place the walk has left.
LEMMA SoonerFromTarget ==
  ASSUME NEW s \in Seq(Views), IsInjective(s), NEW reverse,
         NEW at, NEW t, NEW w, Sooner(s, at, t, w, reverse)
  PROVE  /\ Sooner(s, t, w, at, reverse)
         /\ \A x : Sooner(s, at, w, x, reverse) => Sooner(s, t, w, x, reverse)
<1>1. /\ \A a, b : Precedes(s, a, b) => ~Precedes(s, b, a)
      /\ \A a, b, c : Precedes(s, a, b) /\ Precedes(s, b, c) => Precedes(s, a, c)
  BY PrecedesIsOrder
<1>2. CASE reverse
  BY <1>1, <1>2 DEF Sooner, Ringwise
<1>3. CASE ~reverse
  BY <1>1, <1>3 DEF Sooner, Ringwise
<1> QED BY <1>2, <1>3

LEMMA NotSoonerThanItself ==
  ASSUME NEW s \in Seq(Views), IsInjective(s), NEW reverse, NEW at, NEW w
  PROVE  ~Sooner(s, at, w, at, reverse)
<1>1. \A a, b : Precedes(s, a, b) => ~Precedes(s, b, a)
  BY PrecedesIsOrder
<1> QED BY <1>1 DEF Sooner, Ringwise

\* The list backwards has the order backwards.
LEMMA OrderPrecedes ==
  ASSUME TypeOK, NEW reverse, NEW a, NEW b, Precedes(Order(reverse), a, b)
  PROVE  IF reverse THEN Precedes(views_list, b, a) ELSE Precedes(views_list, a, b)
<1> DEFINE n == Len(views_list)
<1>1. n \in Nat /\ DOMAIN views_list = 1 .. n
  BY DEF TypeOK
<1>2. CASE reverse
  <2>1. PICK i, j \in DOMAIN Order(reverse) :
             i < j /\ Order(reverse)[i] = a /\ Order(reverse)[j] = b
    BY DEF Precedes
  <2>2. i \in 1 .. n /\ j \in 1 .. n
    BY OrderKeeps
  <2>3. Order(reverse) = [k \in 1 .. n |-> views_list[(n - k) + 1]]
    BY <1>2 DEF Order, Reverse
  <2>4. views_list[(n - i) + 1] = a /\ views_list[(n - j) + 1] = b
    BY <2>1, <2>2, <2>3
  <2> HIDE DEF n
  <2>5. (n - j) + 1 \in 1 .. n /\ (n - i) + 1 \in 1 .. n /\ (n - j) + 1 < (n - i) + 1
    BY <1>1, <2>1, <2>2
  <2>6. Precedes(views_list, b, a)
    BY <1>1, <2>4, <2>5 DEF Precedes
  <2> QED BY <1>2, <2>6
<1>3. CASE ~reverse
  BY <1>3 DEF Order
<1> QED BY <1>2, <1>3

\* Alt+Tab goes to a mapped window, and never past another.
LEMMA NextDoesNotSkip ==
  ASSUME TypeOK, NEW reverse, NEW x \in Live, NEW m \in mapped, m # x
  PROVE  LET y == get_next_mapped_view(x, reverse)
         IN  /\ y \in mapped
             /\ y # m => Sooner(views_list, x, y, m, reverse)
<1> DEFINE n == Len(views_list)
           t == Order(reverse)
           walk == WalkFrom(x, reverse)
           found == {j \in DOMAIN walk : walk[j] \in mapped}
           k == CHOOSE i \in found : \A j \in found : i <= j
           y == get_next_mapped_view(x, reverse)
<1>1. PICK p \in 1 .. n : t[p] = x
  BY OrderKeeps DEF Range
<1>2. PICK q \in 1 .. n : t[q] = m
  <2>1. m \in Live
    BY DEF TypeOK
  <2> QED BY <2>1, OrderKeeps DEF Range
<1>3. DOMAIN walk = 1 .. n /\ \A j \in 1 .. n : walk[j] = t[Place(p, j)]
  BY <1>1, WalkGoesRound
<1>4. n \in Nat /\ DOMAIN t = 1 .. n
  BY OrderKeeps
<1>5. y = IF found = {} THEN None ELSE walk[k]
  BY DEF get_next_mapped_view
<1>6. PICK d \in 1 .. n : Place(p, d) = q /\ d = IF q > p THEN q - p ELSE (q - p) + n
  <2>1. CASE q > p
    <3>1. q - p \in 1 .. n /\ Place(p, q - p) = q
      BY <1>4, <2>1 DEF Place
    <3> QED BY <2>1, <3>1
  <2>2. CASE ~(q > p)
    <3>1. (q - p) + n \in 1 .. n /\ Place(p, (q - p) + n) = q
      BY <1>4, <2>2 DEF Place
    <3> QED BY <2>2, <3>1
  <2> QED BY <2>1, <2>2
<1>7. d \in found
  BY <1>2, <1>3, <1>6
<1>8. found \in SUBSET Nat
  BY <1>3, <1>4
<1> HIDE DEF found, walk
<1>9. k \in found /\ k <= d
  <2>1. \E i \in found : \A j \in found : i <= j
    BY <1>7, <1>8, FirstPosition
  <2> QED BY <1>7, <2>1
<1> HIDE DEF k, y
<1>10. k \in 1 .. n /\ y \in mapped /\ y = t[Place(p, k)]
  BY <1>3, <1>5, <1>7, <1>9 DEF found
<1>11. ASSUME y # m PROVE Sooner(views_list, x, y, m, reverse)
  <2> DEFINE r == Place(p, k)
  <2>1. k # d /\ p # q
    BY <1>1, <1>2, <1>6, <1>10, <1>11
  <2>2. r \in 1 .. n /\ ((p < r /\ r < q) \/ (r < q /\ q < p) \/ (q < p /\ p < r))
    BY <1>4, <1>6, <1>9, <1>10, <2>1 DEF Place
  <2>3. t[p] = x /\ t[r] = y /\ t[q] = m
    BY <1>1, <1>2, <1>10
  <2> HIDE DEF r, t
  <2>4. Ringwise(t, x, y, m)
    BY <1>4, <2>2, <2>3 DEF Ringwise, Precedes
  <2>5. CASE reverse
    <3>1. \A a, b : Precedes(t, a, b) => Precedes(views_list, b, a)
      BY <2>5, OrderPrecedes DEF t
    <3> QED BY <2>4, <2>5, <3>1 DEF Sooner, Ringwise
  <2>6. CASE ~reverse
    <3>1. \A a, b : Precedes(t, a, b) => Precedes(views_list, a, b)
      BY <2>6, OrderPrecedes DEF t
    <3> QED BY <2>4, <2>6, <3>1 DEF Sooner, Ringwise
  <2> QED BY <2>5, <2>6
<1> QED BY <1>10, <1>11 DEF y

-----------------------------------------------------------------------------
(* Alt+Tab from press to press.                                            *)

LEMMA InsertedPrecedes ==
  ASSUME NEW s \in Seq(Views), NEW v \in Views, NEW a, NEW b, Precedes(s, a, b)
  PROVE  Precedes(<<v>> \o s, a, b)
<1> DEFINE t == <<v>> \o s
<1>1. /\ DOMAIN t = 1 .. Len(s) + 1 /\ DOMAIN s = 1 .. Len(s) /\ Len(s) \in Nat
      /\ \A i \in 1 .. Len(s) : t[i + 1] = s[i]
  OBVIOUS
<1>2. PICK i, j \in DOMAIN s : i < j /\ s[i] = a /\ s[j] = b
  BY DEF Precedes
<1> HIDE DEF t
<1>3. i + 1 \in DOMAIN t /\ j + 1 \in DOMAIN t /\ i + 1 < j + 1
      /\ t[i + 1] = a /\ t[j + 1] = b
  BY <1>1, <1>2
<1> QED BY <1>3 DEF Precedes, t

LEMMA RemovedPrecedes ==
  ASSUME NEW s \in Seq(Views), NEW k \in DOMAIN s, NEW a, NEW b, Precedes(s, a, b),
         a # s[k], b # s[k]
  PROVE  Precedes(RemoveAt(s, k), a, b)
<1> DEFINE t == RemoveAt(s, k)
<1>1. /\ DOMAIN t = 1 .. Len(s) - 1 /\ DOMAIN s = 1 .. Len(s) /\ Len(s) \in Nat
      /\ \A j \in 1 .. Len(s) - 1 : t[j] = IF j < k THEN s[j] ELSE s[j + 1]
  BY RemovedElements
<1>2. PICK i, j \in DOMAIN s : i < j /\ s[i] = a /\ s[j] = b
  BY DEF Precedes
<1> HIDE DEF t
<1> DEFINE moved(l) == IF l < k THEN l ELSE l - 1
<1>3. ASSUME NEW l \in DOMAIN s, l # k
      PROVE  moved(l) \in DOMAIN t /\ t[moved(l)] = s[l]
  BY <1>1, <1>3
<1>4. i # k /\ j # k /\ moved(i) < moved(j)
  BY <1>1, <1>2
<1>5. t[moved(i)] = a /\ t[moved(j)] = b /\ moved(i) \in DOMAIN t /\ moved(j) \in DOMAIN t
  BY <1>2, <1>3, <1>4
<1> HIDE DEF moved
<1> QED BY <1>4, <1>5 DEF Precedes, t

\* No handler brings a handle back or changes the order of two views.
LEMMA ListSteps ==
  ASSUME TypeOK, WindowNext \/ KeyboardNext
  PROVE  /\ fresh' \subseteq fresh /\ Live' \subseteq Live \cup fresh
         /\ \A a, b \in Live' : Precedes(views_list, a, b) => Precedes(views_list', a, b)
<1>1. CASE fwr_new_xdg_toplevel
  <2>1. PICK v \in fresh : fresh' = fresh \ {v} /\ views_list' = <<v>> \o views_list
    BY <1>1 DEF fwr_new_xdg_toplevel
  <2>2. Live' = Live \cup {v} /\ v \in Views
    BY <2>1, Inserted DEF TypeOK, Live
  <2> QED BY <2>1, <2>2, InsertedPrecedes DEF TypeOK
<1>2. ASSUME NEW v \in Views, xdg_toplevel_destroy(v)
      PROVE  /\ fresh' \subseteq fresh /\ Live' \subseteq Live \cup fresh
             /\ \A a, b \in Live' :
                  Precedes(views_list, a, b) => Precedes(views_list', a, b)
  <2>1. PICK i \in DOMAIN views_list :
             views_list[i] = v /\ views_list' = RemoveAt(views_list, i)
    BY <1>2 DEF xdg_toplevel_destroy
  <2>2. Live' = Live \ {v}
    BY <2>1, RemovedAt DEF TypeOK, Live
  <2> QED BY <1>2, <2>1, <2>2, RemovedPrecedes DEF TypeOK, xdg_toplevel_destroy
<1>3. ASSUME ~fwr_new_xdg_toplevel, \A v \in Views : ~xdg_toplevel_destroy(v)
      PROVE  UNCHANGED <<fresh, views_list>>
  BY <1>3 DEF WindowNext, KeyboardNext, xdg_toplevel_map, xdg_toplevel_unmap,
              fwr_handle_surface_focus, xdg_toplevel_request_move, SurfaceDestroyed,
              PopupGrabBegins, PopupGrabEnds, surface_clear_focus, server_new_keyboard,
              keyboard_destroy, keyboard_handle_modifiers, TileWindow, KeyPressed,
              KeyDown, KeyReleased, fwr_handle_surface_keyboard_key_message, lifeVars
<1>4. CASE UNCHANGED <<fresh, views_list>>
  BY <1>4 DEF Live
<1> QED BY <1>1, <1>2, <1>3, <1>4

\* The inductive invariant: a window that has been passed still waits, and is
\* sooner in the walk than every one Alt+Tab has left that is still alive.
TurnsTyped == passed \in [Views -> SUBSET Views] /\ backwards \in BOOLEAN
Queued(w) ==
    /\ w \in Waiting
    /\ \A x \in passed[w] :
         /\ x \notin fresh
         /\ x \in Live => Sooner(views_list, current, w, x, backwards)
TurnsInv == TurnsTyped /\ \A w \in Views : passed[w] # {} => Queued(w)

LEMMA QueuedMeansNoSecondTurn ==
  ASSUME TypeOK, TurnsInv
  PROVE  AltTabReachesAll
<1> SUFFICES ASSUME NEW w \in Views, current \in passed[w] PROVE FALSE
  BY DEF AltTabReachesAll
<1>1. Queued(w)
  BY DEF TurnsInv
<1>2. current \in Live
  BY <1>1 DEF Queued, Waiting
<1>3. Sooner(views_list, current, w, current, backwards)
  BY <1>1, <1>2 DEF Queued
<1> QED BY <1>3, NotSoonerThanItself DEF TypeOK

\* Alt+Tab gets to its target, unless the press is ignored.
LEMMA TurnArrives ==
  ASSUME TypeOK, NEW k \in Keyboards, Turn(k), ~PressIgnored(k), NEW w \in Waiting
  PROVE  LET reverse == Shift \in pressed[k]
         IN  /\ current' \in mapped
             /\ w # current' => Sooner(views_list, current, current', w, reverse)
<1> DEFINE reverse == Shift \in pressed[k]
           t == AltTabTarget(reverse)
<1>1. current \in Live /\ w \in mapped /\ w # current /\ None \notin Views
  BY ConstantsAssumption DEF Waiting
<1>2. t = get_next_mapped_view(current, reverse)
  <2>1. current \in Views
    BY <1>1 DEF Live, Range, TypeOK
  <2> QED BY <1>1, <2>1 DEF AltTabTarget, get_focused_view
<1>3. t \in mapped /\ (t # w => Sooner(views_list, current, t, w, reverse))
  BY <1>1, <1>2, NextDoesNotSkip
<1>4. t \in Views /\ t # None
  BY <1>1, <1>3 DEF TypeOK, Live, Range
<1>5. fwr_focus_view(t)
  BY <1>4 DEF Turn, SwitchWindow
<1>6. ~(t = focused /\ t # current)
  BY <1>4 DEF PressIgnored
<1> HIDE DEF t, reverse
<1>7. current' = t
  BY <1>5, <1>6 DEF fwr_focus_view, RecordFocus
<1> QED BY <1>3, <1>7 DEF reverse

LEMMA TurnKeepsQueues ==
  ASSUME TypeOK, TurnsInv, NEW k \in Keyboards, Turn(k)
  PROVE  TurnsInv'
<1> DEFINE reverse == Shift \in pressed[k]
           kept(w) == IF reverse = backwards THEN passed[w] ELSE {}
<1>1. /\ UNCHANGED <<fresh, views_list, mapped>> /\ Live' = Live
      /\ backwards' = reverse
  BY DEF Turn, SwitchWindow, KeyDown, lifeVars, Live
<1>2. passed' = [w \in Views |-> IF w \notin Waiting \cap Waiting' \/ PressIgnored(k)
                                 THEN {} ELSE kept(w) \cup {current}]
  BY <1>1 DEF Turn
<1>3. TurnsTyped'
  <2>1. ASSUME NEW w \in Waiting PROVE current \in Views
    BY <2>1 DEF Waiting, Live, Range, TypeOK
  <2>2. \A w \in Views : kept(w) \in SUBSET Views
    BY DEF TurnsInv, TurnsTyped
  <2> HIDE DEF kept
  <2> QED BY <1>1, <1>2, <2>1, <2>2 DEF TurnsTyped
<1>4. ASSUME NEW w \in Views, passed'[w] # {} PROVE Queued(w)'
  <2> HIDE DEF kept
  <2>1. w \in Waiting /\ w \in Waiting' /\ ~PressIgnored(k)
        /\ passed'[w] = kept(w) \cup {current}
    BY <1>2, <1>4
  <2> HIDE DEF reverse
  <2>2. current \in Live /\ w # current'
    BY <2>1 DEF Waiting
  <2>3. Sooner(views_list, current, current', w, reverse)
    BY <2>1, <2>2, TurnArrives DEF reverse
  <2>4. /\ Sooner(views_list, current', w, current, reverse)
        /\ \A x : Sooner(views_list, current, w, x, reverse)
                    => Sooner(views_list, current', w, x, reverse)
    BY <2>3, SoonerFromTarget DEF TypeOK
  <2>5. ASSUME NEW x \in kept(w)
        PROVE  /\ x \notin fresh
               /\ x \in Live => Sooner(views_list, current, w, x, reverse)
    BY <2>5 DEF kept, TurnsInv, Queued
  <2>6. current \notin fresh
    BY <2>2 DEF TypeOK
  <2> QED BY <1>1, <2>1, <2>4, <2>5, <2>6 DEF Queued
<1> QED BY <1>3, <1>4 DEF TurnsInv

LEMMA NoTurnKeepsQueues ==
  ASSUME TypeOK, TypeOK', TurnsInv, NoTurn
  PROVE  TurnsInv'
<1>1. /\ fresh' \subseteq fresh /\ Live' \subseteq Live \cup fresh
      /\ \A a, b \in Live' : Precedes(views_list, a, b) => Precedes(views_list', a, b)
  BY ListSteps DEF NoTurn
<1>2. TurnsTyped'
  BY DEF NoTurn, TurnsInv, TurnsTyped
<1>3. ASSUME NEW w \in Views, passed'[w] # {} PROVE Queued(w)'
  <2>1. w \in Waiting' /\ current' = current /\ passed'[w] = passed[w]
        /\ backwards' = backwards
    BY <1>3 DEF NoTurn
  <2>2. Queued(w)
    BY <1>3, <2>1 DEF TurnsInv
  <2>3. current \in Live' /\ w \in Live'
    BY <2>1 DEF Waiting, TypeOK
  <2>4. ASSUME NEW x \in passed[w], x \in Live'
        PROVE  Sooner(views_list', current, w, x, backwards)
    <3>1. Sooner(views_list, current, w, x, backwards)
      BY <1>1, <2>2, <2>4 DEF Queued
    <3> QED BY <1>1, <2>3, <2>4, <3>1 DEF Sooner, Ringwise
  <2> QED BY <1>1, <2>1, <2>2, <2>4 DEF Queued
<1> QED BY <1>2, <1>3 DEF TurnsInv

LEMMA TurnsStepIsNext == [TurnsNext]_allVars => [Next]_vars
BY DEF TurnsNext, Turn, NoTurn, allVars, Next, SwitchNext

\* The history takes no step from Windows and adds none, so that the theorems
\* above are about TurnsSpec as well.
THEOREM TurnsImplementWindows == TurnsSpec => Spec
<1>1. TurnsInit => Init
  BY DEF TurnsInit
<1> QED BY <1>1, TurnsStepIsNext, PTL DEF TurnsSpec, Spec

LEMMA InitTurnsInv == TurnsInit => TurnsInv
BY DEF TurnsInit, TurnsInv, TurnsTyped

LEMMA NextTurnsInv == TypeOK /\ TypeOK' /\ TurnsInv /\ [TurnsNext]_allVars => TurnsInv'
<1> SUFFICES ASSUME TypeOK, TypeOK', TurnsInv, [TurnsNext]_allVars PROVE TurnsInv'
  OBVIOUS
<1>1. ASSUME NEW k \in Keyboards, Turn(k) PROVE TurnsInv'
  BY <1>1, TurnKeepsQueues
<1>2. CASE NoTurn
  BY <1>2, NoTurnKeepsQueues
<1>3. CASE UNCHANGED allVars
  BY <1>3 DEF allVars, vars, lifeVars, focusVars, turnVars, TurnsInv, TurnsTyped, Queued,
              Waiting, Live
<1> QED BY <1>1, <1>2, <1>3 DEF TurnsNext

\* While a mapped window waits for Alt+Tab to get to it no other has a second
\* turn, for any number of windows, made, mapped, unmapped and destroyed in any
\* order between the presses (get_next_mapped_view, fwr_focus_view).
THEOREM AltTabReachesAllHolds == TurnsSpec => []AltTabReachesAll
<1>1. TurnsSpec => []TypeOK
  BY TurnsImplementWindows, TypesHold, PTL
<1>2. TurnsSpec => []TurnsInv
  BY <1>1, InitTurnsInv, NextTurnsInv, PTL DEF TurnsSpec
<1>3. TypeOK /\ TurnsInv => AltTabReachesAll
  BY QueuedMeansNoSecondTurn
<1> QED BY <1>1, <1>2, <1>3, PTL
=============================================================================
