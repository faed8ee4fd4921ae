---------------------------- MODULE WindowTurns ----------------------------
(***************************************************************************)
(* Alt+Tab from press to press: Windows with a history of the windows each *)
(* press has left.  Between two presses windows are made, mapped, unmapped *)
(* and destroyed and other keys go down and up; none of it may let one     *)
(* window have a second turn while another waits for its first.            *)
(***************************************************************************)
EXTENDS Windows

VARIABLES
    passed,         \* by waiting window: those Alt+Tab has left since its turn
    backwards       \* whether the last press went backwards

turnVars == <<passed, backwards>>
allVars == <<vars, turnVars>>

TurnsInit ==
    /\ Init
    /\ passed = [w \in Views |-> {}]
    /\ backwards = FALSE

\* The windows that wait for Alt+Tab to get to them from the one it is at.
Waiting == IF current \in Live THEN mapped \ {current} ELSE {}

\* fwr_focus_view returns before it records the view Alt+Tab found: a popup's
\* grab has kept the seat's focus on that one while the bindings act on another.
PressIgnored(k) ==
    LET found == AltTabTarget(Shift \in pressed[k])
    IN  found = focused /\ found \notin {None, current}

\* A press of Alt+Tab: the window it leaves has had its turn, and a window that
\* goes on waiting has seen one more pass.  A change of direction and a press
\* that is ignored begin anew.
Turn(k) ==
    /\ SwitchWindow(k)
    /\ backwards' = (Shift \in pressed[k])
    /\ passed' = [w \in Views |->
           IF w \notin Waiting \cap Waiting' \/ PressIgnored(k) THEN {}
           ELSE (IF backwards' = backwards THEN passed[w] ELSE {}) \cup {current}]

\* Every other step: who waits goes on waiting, unless the focus is moved by
\* something else than Alt+Tab.
NoTurn ==
    /\ WindowNext \/ KeyboardNext
    /\ UNCHANGED backwards
    /\ passed' = [w \in Views |->
           IF w \in Waiting' /\ current' = current THEN passed[w] ELSE {}]

TurnsNext == (\E k \in Keyboards : Turn(k)) \/ NoTurn

TurnsSpec == TurnsInit /\ [][TurnsNext]_allVars

-----------------------------------------------------------------------------
(* Properties.                                                             *)

\* While a mapped window waits for its turn Alt+Tab gives no other window a
\* second one, whatever is put into the list, unmapped or taken out of it from
\* press to press (get_next_mapped_view walks the list as it is).  As the
\* windows are finite, so is the wait.  A round ends when something else moves
\* the focus, when the direction changes, when the window it has come to is
\* destroyed, after which only the newest is tried, and with a press that
\* finds the window a popup's grab has kept the seat's focus on, which does
\* nothing (PressIgnored) and does nothing again however often it is made.
AltTabReachesAll == \A w \in Views : current \notin passed[w]
=============================================================================
