--------------------------- MODULE KeyboardSeat ---------------------------
(***************************************************************************)
(* What the compositor's keyboard focus promises its clients: at most one  *)
(* window has the keys at a time, and no window ever takes a key for       *)
(* pressed that nobody holds.  Windows implements it.                      *)
(***************************************************************************)
CONSTANTS
    Windows,        \* the clients' windows
    Keys,           \* key codes
    Nobody          \* no window: none of Windows

VARIABLES
    holder,         \* the window with the keyboard focus
    held,           \* the keys somebody holds down
    believed        \* the keys each window takes for pressed

seatVars == <<holder, held, believed>>

Nothing == [w \in Windows |-> {}]

\* Only window w knows of pressed keys: these.
Only(w, keys) == [x \in Windows |-> IF x = w THEN keys ELSE {}]

SeatInit ==
    /\ holder = Nobody
    /\ held = {}
    /\ believed = Nothing

\* A key goes down; the window with the focus is told, or the key is kept
\* from it.
Press(key) ==
    /\ held' = held \cup {key}
    /\ UNCHANGED holder
    /\ \/ UNCHANGED believed
       \/ believed' = Only(holder, believed[holder] \cup {key}) /\ holder \in Windows

\* A key goes up, and the window with the focus is told.  Another keyboard
\* may still hold the key.
Release(key) ==
    /\ held' \in {held, held \ {key}}
    /\ UNCHANGED holder
    /\ believed' = [w \in Windows |-> believed[w] \ {key}]

\* The focus moves; the window that gets it is told of keys that are down. A
\* key may go down or up in the same step.
Move(w) ==
    /\ holder' = w
    /\ \/ UNCHANGED held
       \/ \E key \in Keys : held' \in {held \cup {key}, held \ {key}}
    /\ \E keys \in SUBSET held' : believed' = Only(w, keys)

\* No window has the focus any more.
Leave ==
    /\ holder' = Nobody
    /\ believed' = Nothing
    /\ UNCHANGED held

SeatNext ==
    \/ \E key \in Keys : Press(key) \/ Release(key)
    \/ \E w \in Windows : Move(w)
    \/ Leave

SeatSpec == SeatInit /\ [][SeatNext]_seatVars
=============================================================================
