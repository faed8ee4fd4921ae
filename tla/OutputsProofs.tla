---------------------------- MODULE OutputsProofs ----------------------------
(***************************************************************************)
(* Proofs about the vsync output, the baton and Dart's set of outputs, for *)
(* any numbers of outputs, refresh rates, reconfigurations and requests.   *)
(***************************************************************************)
EXTENDS Outputs, FiniteSetTheorems, SequenceTheorems, WellFoundedInduction, TLAPS

\* Numbers are well-founded.
LEMMA LeastNumber ==
  ASSUME NEW S \in SUBSET Nat, S # {}
  PROVE  \E n \in S : \A m \in S : n <= m
<1>1. PICK n \in S : \A m \in S : <<m, n>> \notin OpToRel(<, Nat)
  BY WFMin, NatLessThanWellFounded, Zenon
<1>2. \A m \in S : ~(m < n)
  BY <1>1, Zenon DEF OpToRel
<1> QED BY <1>2

\* The order of the list and the rates single out one output, if there is one.
LEMMA HighestIn ==
  ASSUME NEW S \in SUBSET Ids, NEW rate \in [Ids -> Refreshes]
  PROVE  IF S = {} THEN Highest(S, rate) = 0 ELSE Highest(S, rate) \in S
<1> DEFINE best == {o \in S : \A p \in S :
                      rate[p] < rate[o] \/ (rate[p] = rate[o] /\ p <= o)}
<1>1. ASSUME S # {} PROVE best # {}
  <2>1. \A o \in S : rate[o] \in Nat /\ rate[o] <= MaxRefresh
                     /\ o \in Nat /\ o <= MaxOutputs
    <3> TAKE o \in S
    <3>1. o \in Ids /\ rate[o] \in Refreshes
      OBVIOUS
    <3>2. rate[o] \in 1 .. MaxRefresh /\ MaxRefresh \in Nat
      BY <3>1, ConstantsAssumption
    <3>3. o \in 1 .. MaxOutputs /\ MaxOutputs \in Nat
      BY <3>1, ConstantsAssumption DEF Ids
    <3> QED BY <3>2, <3>3
  <2>2. PICK o \in S : \A p \in S : rate[p] <= rate[o]
    <3> DEFINE gaps == {MaxRefresh - rate[o] : o \in S}
    <3>1. gaps \in SUBSET Nat /\ gaps # {}
      BY <1>1, <2>1, ConstantsAssumption
    <3> HIDE DEF gaps
    <3>2. PICK n \in gaps : \A m \in gaps : n <= m
      BY <3>1, LeastNumber
    <3>3. PICK o \in S : n = MaxRefresh - rate[o]
      BY <3>2 DEF gaps
    <3>4. \A p \in S : MaxRefresh - rate[o] <= MaxRefresh - rate[p]
      BY <3>2, <3>3 DEF gaps
    <3> QED BY <2>1, <3>3, <3>4, ConstantsAssumption
  <2>3. PICK q \in S : /\ rate[q] = rate[o]
                       /\ \A p \in S : rate[p] = rate[o] => p <= q
    <3> DEFINE gaps == {MaxOutputs - p : p \in {p \in S : rate[p] = rate[o]}}
    <3>1. gaps \in SUBSET Nat /\ gaps # {}
      BY <2>1, <2>2, ConstantsAssumption
    <3> HIDE DEF gaps
    <3>2. PICK n \in gaps : \A m \in gaps : n <= m
      BY <3>1, LeastNumber
    <3>3. PICK q \in S : rate[q] = rate[o] /\ n = MaxOutputs - q
      BY <3>2 DEF gaps
    <3>4. \A p \in S : rate[p] = rate[o] => MaxOutputs - q <= MaxOutputs - p
      BY <3>2, <3>3 DEF gaps
    <3> QED BY <2>1, <3>3, <3>4, ConstantsAssumption
  <2>4. \A p \in S : rate[p] < rate[q] \/ (rate[p] = rate[q] /\ p <= q)
    BY <2>1, <2>2, <2>3
  <2> QED BY <2>4
<1>2. best = {} => S = {} BY <1>1
<1>3. S = {} => best = {} OBVIOUS
<1>4. Highest(S, rate) = IF best = {} THEN 0 ELSE CHOOSE o \in best : TRUE
  BY DEF Highest
<1>5. best \subseteq S OBVIOUS
<1> HIDE DEF best
<1> QED BY <1>2, <1>3, <1>4, <1>5

\* What the choice of the vsync output and the baton depend on.
Typed ==
  /\ outputs \in SUBSET Ids
  /\ refresh \in [Ids -> Refreshes]
  /\ nextId \in 0 .. MaxOutputs
  /\ held \in Nat /\ baton \in Nat /\ waiting \in Nat /\ requests \in Nat

\* Between handlers of the platform thread no baton is out.
IdleHoldsNone == Idle => held = 0

IInv == Typed /\ VsyncOutputConnected /\ BatonConserved /\ IdleHoldsNone

LEMMA InitIInv == Init => IInv
  BY ConstantsAssumption
     DEF Init, IInv, Typed, VsyncOutputConnected, BatonConserved, IdleHoldsNone, Ids

\* Hotplug and requests: the baton stays where it is, and who answers next is
\* an output that is left.
LEMMA OutputsIInv ==
  ASSUME IInv,
         \/ \E rate \in Refreshes : NewOutput(rate)
         \/ \E o \in Ids : OutputDestroy(o)
         \/ \E id \in Ids \cup {0, UnknownId} : SetVsyncOutput(id)
         \/ \E o \in Ids, rate \in Refreshes : SetOutputMode(o, rate)
  PROVE  IInv'
<1>1. UNCHANGED <<handling, held, baton, waiting, requests>>
  BY DEF NewOutput, OutputDestroy, SetVsyncOutput, SetOutputMode, vsyncVars
<1>2. BatonConserved' /\ IdleHoldsNone'
  BY <1>1 DEF IInv, BatonConserved, IdleHoldsNone, Idle
<1> SUFFICES Typed' /\ VsyncOutputConnected' BY <1>2 DEF IInv
<1>3. ASSUME NEW rate \in Refreshes, NewOutput(rate)
      PROVE  Typed' /\ VsyncOutputConnected'
  <2>1. nextId' \in Ids /\ nextId' \in 0 .. MaxOutputs
    BY <1>3, ConstantsAssumption DEF NewOutput, IInv, Typed, Ids
  <2>2. CASE UNCHANGED <<outputs, refresh, vsyncOutput>>
    BY <1>1, <2>1, <2>2 DEF IInv, Typed, VsyncOutputConnected
  <2>3. CASE /\ outputs' = outputs \cup {nextId'}
             /\ refresh' = [refresh EXCEPT ![nextId'] = rate]
             /\ vsyncOutput' = Highest(outputs', refresh')
    <3>1. outputs' \in SUBSET Ids /\ refresh' \in [Ids -> Refreshes] /\ outputs' # {}
      BY <2>1, <2>3 DEF IInv, Typed
    <3>2. vsyncOutput' \in outputs'
      BY <2>3, <3>1, HighestIn
    <3>3. vsyncOutput' # 0
      BY <3>1, <3>2, ConstantsAssumption DEF Ids
    <3> QED BY <1>1, <2>1, <3>1, <3>2, <3>3 DEF IInv, Typed, VsyncOutputConnected
  <2> QED BY <1>3, <2>2, <2>3 DEF NewOutput
<1>4. ASSUME NEW o \in Ids, OutputDestroy(o)
      PROVE  Typed' /\ VsyncOutputConnected'
  <2>1. outputs' = outputs \ {o} /\ UNCHANGED <<refresh, nextId>>
    BY <1>4 DEF OutputDestroy
  <2>2. outputs' \in SUBSET Ids /\ refresh \in [Ids -> Refreshes]
    BY <2>1 DEF IInv, Typed
  <2>3. \A p \in outputs' : p # 0
    BY <2>2, ConstantsAssumption DEF Ids
  <2>4. CASE vsyncOutput = o
    <3>1. vsyncOutput' = Highest(outputs', refresh)
      BY <1>4, <2>4 DEF OutputDestroy
    <3>2. IF outputs' = {} THEN vsyncOutput' = 0 ELSE vsyncOutput' \in outputs'
      BY <2>2, <3>1, HighestIn
    <3> QED BY <1>1, <2>1, <2>2, <2>3, <3>2 DEF IInv, Typed, VsyncOutputConnected
  <2>5. CASE vsyncOutput # o
    BY <1>1, <1>4, <2>1, <2>2, <2>5 DEF OutputDestroy, IInv, Typed, VsyncOutputConnected
  <2> QED BY <2>4, <2>5
<1>5. ASSUME NEW id \in Ids \cup {0, UnknownId}, SetVsyncOutput(id)
      PROVE  Typed' /\ VsyncOutputConnected'
  <2>1. UNCHANGED <<outputs, refresh, nextId>> /\ vsyncOutput' = ChosenOutput(id)
    BY <1>5 DEF SetVsyncOutput
  <2>2. Typed'
    BY <1>1, <2>1 DEF IInv, Typed
  <2>3. IF outputs = {} THEN vsyncOutput' = 0 ELSE vsyncOutput' \in outputs
    BY <2>1, HighestIn DEF ChosenOutput, IInv, Typed
  <2>4. \A p \in outputs : p # 0
    BY ConstantsAssumption DEF IInv, Typed, Ids
  <2> QED BY <2>1, <2>2, <2>3, <2>4 DEF VsyncOutputConnected
<1>6. ASSUME NEW o \in Ids, NEW rate \in Refreshes, SetOutputMode(o, rate)
      PROVE  Typed' /\ VsyncOutputConnected'
  BY <1>1, <1>6 DEF SetOutputMode, IInv, Typed, VsyncOutputConnected
<1> QED BY <1>3, <1>4, <1>5, <1>6

\* The engine's request, and the platform thread's handlers on both sides of
\* the exchange.
LEMMA PacingIInv ==
  ASSUME IInv,
         \/ RequestVsync \/ OnVsync \/ HandlerEnd
         \/ \E o \in Ids : OutputFrame(o) \/ OutputPresent(o)
  PROVE  IInv'
<1>1. UNCHANGED <<outputs, refresh, nextId, vsyncOutput>>
  BY DEF RequestVsync, OnVsync, HandlerEnd, OutputFrame, OutputPresent
<1>2. VsyncOutputConnected'
  BY <1>1 DEF IInv, VsyncOutputConnected
<1> SUFFICES Typed' /\ BatonConserved' /\ IdleHoldsNone' BY <1>2 DEF IInv
<1> USE DEF IInv, Typed, BatonConserved, IdleHoldsNone, Idle
<1>3. CASE RequestVsync
  BY <1>1, <1>3 DEF RequestVsync
<1>4. CASE OnVsync
  BY <1>1, <1>4 DEF OnVsync
<1>5. CASE HandlerEnd
  BY <1>1, <1>5 DEF HandlerEnd
<1>6. ASSUME NEW o \in Ids, OutputFrame(o) \/ OutputPresent(o)
      PROVE  Typed' /\ BatonConserved' /\ IdleHoldsNone'
  <2>1. /\ held = 0 /\ handling' = o /\ o # 0
        /\ UNCHANGED <<waiting, requests>>
        /\ \/ held' = baton /\ baton' = 0
           \/ held' = 0 /\ baton' = baton
    BY <1>6, ConstantsAssumption DEF OutputFrame, OutputPresent, TakeBaton, Ids
  <2> QED BY <1>1, <2>1
<1> QED BY <1>3, <1>4, <1>5, <1>6

\* Every step keeps the invariant.
THEOREM InvariantHolds == Spec => []IInv
<1>1. IInv /\ [Next]_vars => IInv'
  <2> SUFFICES ASSUME IInv, [Next]_vars PROVE IInv' OBVIOUS
  <2>1. ASSUME UNCHANGED <<outputs, refresh, nextId, vsyncOutput, vsyncVars>>
        PROVE  IInv'
    BY <2>1 DEF vsyncVars, IInv, Typed, VsyncOutputConnected, BatonConserved,
                IdleHoldsNone, Idle
  <2>2. CASE StartEngine \/ DartListens \/ CompositorReady \/ DartReceives
    BY <2>1, <2>2 DEF StartEngine, DartListens, CompositorReady, DartReceives, staticVars
  <2>3. CASE UNCHANGED vars
    BY <2>1, <2>3 DEF vars
  <2> QED BY <2>2, <2>3, OutputsIInv, PacingIInv DEF Next
<1> QED BY InitIInv, <1>1, PTL DEF Spec

\* instance->vsync_output never dangles, and is NULL only when no output is
\* left, over hotplug and requests in any order.
THEOREM VsyncOutputConnectedHolds == Spec => []VsyncOutputConnected
BY InvariantHolds, PTL DEF IInv

\* The exchange in output_frame and output_present loses no baton and hands
\* none back twice.
THEOREM BatonConservedHolds == Spec => []BatonConserved
BY InvariantHolds, PTL DEF IInv

-----------------------------------------------------------------------------
(* What Dart hears.                                                        *)

\* Hearing nothing changes nothing.
LEMMA HearsNothing ==
  ASSUME NEW ids, NEW o
  PROVE  Hears(ids, <<>>, o) <=> o \in ids
<1>1. Len(<<>>) = 0
  BY EmptySeq
<1> QED BY <1>1 DEF Hears

\* A message sent behind the others has the last word on its output, and says
\* nothing of any other.
LEMMA HearsMore ==
  ASSUME NEW ids, NEW msgs \in Seq(Message), NEW p \in Ids, NEW o \in Ids
  PROVE  /\ Hears(ids, msgs \o <<Added(p)>>, o) <=> o = p \/ Hears(ids, msgs, o)
         /\ Hears(ids, msgs \o <<Removed(p)>>, o) <=> o # p /\ Hears(ids, msgs, o)
<1>1. Added(p) \in Message /\ Removed(p) \in Message
  BY DEF Added, Removed, Message
<1> HIDE DEF Message
<1> DEFINE n == Len(msgs)
<1>2. n \in Nat
  BY LenProperties
<1>3. ASSUME NEW m \in Message
      PROVE  /\ Len(msgs \o <<m>>) = n + 1
             /\ \A i \in 1 .. n : (msgs \o <<m>>)[i] = msgs[i]
             /\ (msgs \o <<m>>)[n + 1] = m
  OBVIOUS
<1>4. \A i \in 1 .. n + 1 : i \in 1 .. n \/ i = n + 1
  BY <1>2
<1>5. /\ \A q : Added(q) # Removed(o)
      /\ Added(p) = Added(o) <=> p = o
      /\ Removed(p) = Removed(o) <=> p = o
      /\ Removed(p) # Added(o)
  BY DEF Added, Removed
<1>6. Hears(ids, msgs \o <<Added(p)>>, o) <=> o = p \/ Hears(ids, msgs, o)
  <2> DEFINE all == msgs \o <<Added(p)>>
  <2>1. /\ Len(all) = n + 1 /\ all[n + 1] = Added(p)
        /\ \A i \in 1 .. n : all[i] = msgs[i]
    BY <1>1, <1>3
  <2> HIDE DEF all
  <2>2. (\A j \in 1 .. Len(all) : all[j] # Removed(o)) <=>
        (\A j \in 1 .. n : msgs[j] # Removed(o))
    BY <1>2, <1>4, <1>5, <2>1
  <2>3. \A i \in 1 .. n : (\A j \in i .. Len(all) : all[j] # Removed(o)) <=>
                          (\A j \in i .. n : msgs[j] # Removed(o))
    BY <1>2, <1>4, <1>5, <2>1
  <2>4. ASSUME o = p PROVE Hears(ids, all, o)
    <3>1. n + 1 \in 1 .. Len(all) /\ \A j \in n + 1 .. Len(all) : j = n + 1
      BY <1>2, <2>1
    <3> QED BY <1>5, <2>1, <2>4, <3>1 DEF Hears
  <2>5. ASSUME o # p PROVE Hears(ids, all, o) <=> Hears(ids, msgs, o)
    <3>1. (\E i \in 1 .. Len(all) :
             all[i] = Added(o) /\ \A j \in i .. Len(all) : all[j] # Removed(o)) <=>
          (\E i \in 1 .. n :
             msgs[i] = Added(o) /\ \A j \in i .. n : msgs[j] # Removed(o))
      <4>1. \A i \in 1 .. n : i \in 1 .. Len(all)
        BY <1>2, <2>1
      <4>2. \A i \in 1 .. Len(all) : all[i] = Added(o) => i \in 1 .. n
        BY <1>2, <1>4, <1>5, <2>1, <2>5
      <4> QED BY <2>1, <2>3, <4>1, <4>2
    <3> QED BY <2>2, <3>1 DEF Hears
  <2>6. ASSUME Hears(ids, msgs, o) PROVE o = p \/ Hears(ids, all, o)
    BY <2>5, <2>6
  <2> QED BY <2>4, <2>5 DEF all
<1>7. Hears(ids, msgs \o <<Removed(p)>>, o) <=> o # p /\ Hears(ids, msgs, o)
  <2> DEFINE all == msgs \o <<Removed(p)>>
  <2>1. /\ Len(all) = n + 1 /\ all[n + 1] = Removed(p)
        /\ \A i \in 1 .. n : all[i] = msgs[i]
    BY <1>1, <1>3
  <2> HIDE DEF all
  <2>2. \A i \in 1 .. n + 1 : n + 1 \in i .. n + 1
    BY <1>2
  <2>3. \A i \in 1 .. n : i \in 1 .. n + 1
    BY <1>2
  <2>4. CASE o = p
    <3>1. \A i \in 1 .. Len(all) : \E j \in i .. Len(all) : all[j] = Removed(o)
      BY <2>1, <2>2, <2>4
    <3>2. 1 \in 1 .. Len(all)
      BY <1>2, <2>1
    <3>3. ~Hears(ids, all, o)
      BY <3>1, <3>2 DEF Hears
    <3> QED BY <2>4, <3>3 DEF all
  <2>5. CASE o # p
    <3>1. (\A j \in 1 .. Len(all) : all[j] # Removed(o)) <=>
          (\A j \in 1 .. n : msgs[j] # Removed(o))
      BY <1>2, <1>4, <1>5, <2>1, <2>3, <2>5
    <3>2. \A i \in 1 .. n : (\A j \in i .. Len(all) : all[j] # Removed(o)) <=>
                            (\A j \in i .. n : msgs[j] # Removed(o))
      BY <1>2, <1>4, <1>5, <2>1, <2>5
    <3>3. (\E i \in 1 .. Len(all) :
             all[i] = Added(o) /\ \A j \in i .. Len(all) : all[j] # Removed(o)) <=>
          (\E i \in 1 .. n :
             msgs[i] = Added(o) /\ \A j \in i .. n : msgs[j] # Removed(o))
      BY <1>4, <1>5, <2>1, <2>3, <3>2
    <3>4. Hears(ids, all, o) <=> Hears(ids, msgs, o)
      BY <3>1, <3>3 DEF Hears
    <3> QED BY <2>5, <3>4 DEF all
  <2> QED BY <2>4, <2>5
<1> QED BY <1>6, <1>7

\* Additions sent behind the others add their outputs.
LEMMA HearsAll ==
  ASSUME NEW ids, NEW msgs \in Seq(Message), NEW k \in Nat, NEW list \in [1 .. k -> Ids],
         NEW o \in Ids
  PROVE  Hears(ids, msgs \o [i \in 1 .. k |-> Added(list[i])], o)
            <=> (\E i \in 1 .. k : list[i] = o) \/ Hears(ids, msgs, o)
<1> DEFINE more == [i \in 1 .. k |-> Added(list[i])]
           all == msgs \o more
           n == Len(msgs)
<1>1. more \in Seq(Message) /\ Len(more) = k /\ \A i \in 1 .. k : more[i] = Added(list[i])
  <2>1. \A i \in 1 .. k : Added(list[i]) \in Message
    BY DEF Added, Message
  <2> HIDE DEF Message
  <2> QED BY <2>1
<1> HIDE DEF Message, more
<1>2. n \in Nat /\ Len(all) = n + k
  BY <1>1, ConcatProperties, LenProperties
<1>3. \A i \in 1 .. n + k : all[i] = IF i <= n THEN msgs[i] ELSE more[i - n]
  BY <1>1, ConcatProperties
<1>4. /\ \A q : Added(q) # Removed(o)
      /\ \A q : Added(q) = Added(o) <=> q = o
  BY DEF Added, Removed
<1> HIDE DEF all, n
<1>5. /\ \A i \in 1 .. n : i \in 1 .. n + k /\ all[i] = msgs[i]
      /\ \A i \in 1 .. k : n + i \in 1 .. n + k /\ all[n + i] = Added(list[i])
  <2>1. \A i \in 1 .. n : i \in 1 .. n + k /\ i <= n
    BY <1>2
  <2>2. \A i \in 1 .. k : n + i \in 1 .. n + k /\ ~(n + i <= n) /\ (n + i) - n = i
    BY <1>2
  <2> QED BY <1>1, <1>3, <2>1, <2>2
<1>6. \A i \in 1 .. n + k : i \in 1 .. n \/ \E j \in 1 .. k : i = n + j
  <2> SUFFICES ASSUME NEW i \in 1 .. n + k, i \notin 1 .. n
               PROVE  \E j \in 1 .. k : i = n + j
    OBVIOUS
  <2>1. i - n \in 1 .. k /\ i = n + (i - n)
    BY <1>2
  <2> QED BY <2>1
<1>7. \A j \in 1 .. n + k : all[j] = Removed(o) => j \in 1 .. n
  BY <1>4, <1>5, <1>6
<1>8. (\A j \in 1 .. Len(all) : all[j] # Removed(o)) <=>
      (\A j \in 1 .. n : msgs[j] # Removed(o))
  BY <1>2, <1>5, <1>7
<1>9. \A i \in 1 .. n : (\A j \in i .. Len(all) : all[j] # Removed(o)) <=>
                        (\A j \in i .. n : msgs[j] # Removed(o))
  <2> SUFFICES ASSUME NEW i \in 1 .. n
               PROVE  (\A j \in i .. Len(all) : all[j] # Removed(o)) <=>
                      (\A j \in i .. n : msgs[j] # Removed(o))
    OBVIOUS
  <2>1. \A j \in i .. n : j \in i .. n + k /\ j \in 1 .. n
    BY <1>2
  <2>2. \A j \in i .. n + k : j \in 1 .. n + k /\ (j \in 1 .. n => j \in i .. n)
    BY <1>2
  <2> QED BY <1>2, <1>5, <1>7, <2>1, <2>2
<1>10. ASSUME NEW i \in 1 .. k, list[i] = o PROVE Hears(ids, all, o)
  <2>1. n + i \in 1 .. Len(all) /\ all[n + i] = Added(o)
    BY <1>2, <1>5, <1>10
  <2>2. \A j \in n + i .. Len(all) : all[j] # Removed(o)
    <3>1. \A j \in n + i .. n + k : j \in 1 .. n + k /\ j \notin 1 .. n
      BY <1>2
    <3> QED BY <1>2, <1>7, <3>1
  <2> QED BY <2>1, <2>2 DEF Hears
<1>11. ASSUME Hears(ids, msgs, o) PROVE Hears(ids, all, o)
  <2>1. \A i \in 1 .. n : i \in 1 .. Len(all)
    BY <1>2
  <2> QED BY <1>5, <1>8, <1>9, <1>11, <2>1 DEF Hears, n
<1>12. ASSUME Hears(ids, all, o), \A i \in 1 .. k : list[i] # o
       PROVE  Hears(ids, msgs, o)
  <2>1. \A i \in 1 .. Len(all) : all[i] = Added(o) => i \in 1 .. n
    BY <1>2, <1>4, <1>5, <1>6, <1>12
  <2> QED BY <1>5, <1>8, <1>9, <1>12, <2>1 DEF Hears, n
<1> QED BY <1>10, <1>11, <1>12 DEF all, more

\* Handling the first message leaves what Dart will know.
LEMMA HearsNext ==
  ASSUME NEW ids, NEW msgs \in Seq(Message), msgs # <<>>, NEW o \in Ids
  PROVE  Hears(Apply(ids, Head(msgs)), Tail(msgs), o) <=> Hears(ids, msgs, o)
<1> DEFINE m == Head(msgs)   rest == Tail(msgs)   n == Len(msgs)
<1>1. m \in Message
  <2> HIDE DEF Message
  <2> QED BY HeadTailProperties
<1>2. o \in Apply(ids, m) <=> m = Added(o) \/ (o \in ids /\ m # Removed(o))
  BY <1>1 DEF Apply, Added, Removed, Message
<1>3. m = Added(o) => m # Removed(o)
  BY DEF Added, Removed
<1> HIDE DEF Message
<1>4. /\ n \in Nat /\ n >= 1 /\ Len(rest) = n - 1 /\ msgs[1] = m
      /\ \A i \in 1 .. n - 1 : rest[i] = msgs[i + 1]
  BY LenProperties, HeadTailProperties, EmptySeq
<1> HIDE DEF m, rest, n
<1>5. \A i \in 2 .. n : i - 1 \in 1 .. n - 1 /\ rest[i - 1] = msgs[i]
  <2> SUFFICES ASSUME NEW i \in 2 .. n PROVE i - 1 \in 1 .. n - 1 /\ rest[i - 1] = msgs[i]
    OBVIOUS
  <2>1. i - 1 \in 1 .. n - 1 /\ (i - 1) + 1 = i
    BY <1>4
  <2> QED BY <1>4, <2>1
<1>6. \A i \in 1 .. n - 1 : i + 1 \in 2 .. n /\ i + 1 \in 1 .. n /\ rest[i] = msgs[i + 1]
  BY <1>4
<1>7. (\A j \in 1 .. n : msgs[j] # Removed(o)) <=>
      m # Removed(o) /\ \A j \in 1 .. n - 1 : rest[j] # Removed(o)
  <2>1. \A j \in 1 .. n : j = 1 \/ j \in 2 .. n
    BY <1>4
  <2>2. 1 \in 1 .. n
    BY <1>4
  <2> QED BY <1>4, <1>5, <1>6, <2>1, <2>2
<1>8. \A i \in 1 .. n - 1 : (\A j \in i .. n - 1 : rest[j] # Removed(o)) <=>
                            (\A j \in i + 1 .. n : msgs[j] # Removed(o))
  <2> SUFFICES ASSUME NEW i \in 1 .. n - 1
               PROVE  (\A j \in i .. n - 1 : rest[j] # Removed(o)) <=>
                      (\A j \in i + 1 .. n : msgs[j] # Removed(o))
    OBVIOUS
  <2>1. \A j \in i .. n - 1 : j \in 1 .. n - 1 /\ j + 1 \in i + 1 .. n
    BY <1>4
  <2>2. \A j \in i + 1 .. n : j \in 2 .. n /\ j - 1 \in i .. n - 1
    BY <1>4
  <2> QED BY <1>5, <1>6, <2>1, <2>2
<1>9. (\E i \in 1 .. n : msgs[i] = Added(o) /\ \A j \in i .. n : msgs[j] # Removed(o)) <=>
      \/ m = Added(o) /\ \A j \in 1 .. n - 1 : rest[j] # Removed(o)
      \/ \E i \in 1 .. n - 1 :
            rest[i] = Added(o) /\ \A j \in i .. n - 1 : rest[j] # Removed(o)
  <2>1. \A i \in 1 .. n : i = 1 \/ i \in 2 .. n
    BY <1>4
  <2>2. \A i \in 2 .. n : (i - 1) + 1 = i
    BY <1>4
  <2>3. 1 \in 1 .. n
    BY <1>4
  <2>4. \A i \in 2 .. n : (\A j \in i .. n : msgs[j] # Removed(o)) <=>
                          (\A j \in i - 1 .. n - 1 : rest[j] # Removed(o))
    <3> SUFFICES ASSUME NEW i \in 2 .. n
                 PROVE  (\A j \in i .. n : msgs[j] # Removed(o)) <=>
                        (\A j \in i - 1 .. n - 1 : rest[j] # Removed(o))
      OBVIOUS
    <3> DEFINE h == i - 1
    <3>1. h \in 1 .. n - 1 /\ h + 1 = i
      BY <1>5, <2>2
    <3> HIDE DEF h
    <3>2. (\A j \in h .. n - 1 : rest[j] # Removed(o)) <=>
          (\A j \in h + 1 .. n : msgs[j] # Removed(o))
      BY <1>8, <3>1
    <3> QED BY <3>1, <3>2 DEF h
  <2>5. ASSUME NEW i \in 1 .. n, msgs[i] = Added(o), \A j \in i .. n : msgs[j] # Removed(o)
        PROVE  \/ m = Added(o) /\ \A j \in 1 .. n - 1 : rest[j] # Removed(o)
               \/ \E h \in 1 .. n - 1 :
                     rest[h] = Added(o) /\ \A j \in h .. n - 1 : rest[j] # Removed(o)
    <3>1. CASE i = 1
      BY <1>4, <1>7, <2>5, <3>1
    <3>2. CASE i \in 2 .. n
      BY <1>5, <2>4, <2>5, <3>2
    <3> QED BY <2>1, <3>1, <3>2
  <2>6. ASSUME m = Added(o), \A j \in 1 .. n - 1 : rest[j] # Removed(o)
        PROVE  \E i \in 1 .. n : msgs[i] = Added(o) /\ \A j \in i .. n : msgs[j] # Removed(o)
    BY <1>3, <1>4, <1>7, <2>3, <2>6
  <2>7. ASSUME NEW h \in 1 .. n - 1, rest[h] = Added(o),
               \A j \in h .. n - 1 : rest[j] # Removed(o)
        PROVE  \E i \in 1 .. n : msgs[i] = Added(o) /\ \A j \in i .. n : msgs[j] # Removed(o)
    BY <1>6, <1>8, <2>7
  <2> QED BY <2>5, <2>6, <2>7
<1> QED BY <1>2, <1>4, <1>7, <1>9 DEF Hears, m, rest, n

-----------------------------------------------------------------------------
(* Dart's set of outputs.                                                  *)

\* The rest of the types.
DartTyped ==
  /\ dart \in {"off", "booting", "listening"}
  /\ readyPending \in BOOLEAN
  /\ chan \in Seq(Message)
  /\ known \in SUBSET Ids
PacingTyped ==
  /\ switches \in Nat
  /\ scheduled \in SUBSET Ids
  /\ handling \in Ids \cup {0}
  /\ isFrame \in BOOLEAN

\* Before compositor_ready is answered Dart may have missed outputs, but it
\* hears of none that is gone: not by the message the start leaves over, and
\* not by any that follow it.
Announced ==
  /\ dart = "off" => chan = <<>> /\ known = {} /\ ~readyPending
  /\ dart = "booting" =>
       /\ known = {} /\ ~readyPending
       /\ chan # <<>> => \A o \in Ids : chan[Len(chan)] = Added(o) => o \in outputs
  /\ dart = "listening" /\ readyPending =>
       \A o \in Ids : Hears(known, chan, o) => o \in outputs

DartInv == DartTyped /\ Announced /\ MirrorConverges

\* An output that comes or goes is announced with it.
LEMMA HotplugAnnounced ==
  ASSUME DartInv, NEW p \in Ids, UNCHANGED <<dart, readyPending, known>>,
         \/ outputs' = outputs \cup {p} /\ Send(<<Added(p)>>)
         \/ outputs' = outputs \ {p} /\ Send(<<Removed(p)>>)
  PROVE  DartInv'
<1>1. chan \in Seq(Message)
  BY DEF DartInv, DartTyped
<1>2. Added(p) \in Message /\ Removed(p) \in Message
  BY DEF Added, Removed, Message
<1>3. PICK m \in {Added(p), Removed(p)} :
        /\ chan' = IF dart = "off" THEN chan ELSE chan \o <<m>>
        /\ m = Added(p) => outputs' = outputs \cup {p}
        /\ m = Removed(p) => outputs' = outputs \ {p}
  BY DEF Send, Added, Removed
<1>4. \A o \in Ids : /\ Added(p) = Added(o) <=> p = o
                     /\ Removed(p) # Added(o)
  BY DEF Added, Removed
<1> HIDE DEF Message
<1>5. DartTyped'
  <2>1. chan' \in Seq(Message)
    BY <1>1, <1>2, <1>3
  <2> QED BY <2>1 DEF DartInv, DartTyped
<1>6. CASE dart = "off"
  BY <1>3, <1>5, <1>6 DEF DartInv, Announced, MirrorConverges
<1>7. CASE dart # "off"
  <2>1. chan' = chan \o <<m>>
    BY <1>3, <1>7
  <2>2. \A o \in Ids : Hears(known, chan', o) <=>
          IF m = Added(p) THEN o = p \/ Hears(known, chan, o)
                          ELSE o # p /\ Hears(known, chan, o)
    <3>1. CASE m = Added(p)
      BY <1>1, <2>1, <3>1, HearsMore
    <3>2. CASE m = Removed(p) /\ m # Added(p)
      BY <1>1, <2>1, <3>2, HearsMore
    <3> QED BY <3>1, <3>2
  <2>3. \A o \in Ids : o \in outputs' <=>
          IF m = Added(p) THEN o = p \/ o \in outputs ELSE o # p /\ o \in outputs
    BY <1>3
  <2>4. ASSUME dart = "booting", NEW o \in Ids, chan'[Len(chan')] = Added(o)
        PROVE  o \in outputs'
    <3>1. chan'[Len(chan')] = m
      BY <1>1, <1>2, <1>3, <2>1
    <3> QED BY <1>3, <1>4, <2>3, <2>4, <3>1
  <2>5. Announced'
    BY <1>7, <2>2, <2>3, <2>4 DEF DartInv, Announced, Hears
  <2>6. MirrorConverges'
    BY <2>2, <2>3 DEF DartInv, MirrorConverges, Hears
  <2> QED BY <1>5, <2>5, <2>6 DEF DartInv
<1> QED BY <1>6, <1>7

\* What Dart is not told of changes no output.
LEMMA NothingSaid ==
  ASSUME DartInv, UNCHANGED <<outputs, dartVars>>
  PROVE  DartInv'
BY DEF DartInv, DartTyped, Announced, MirrorConverges, Hears, dartVars

\* The start of the engine and of Dart, its compositor_ready and the messages.
LEMMA DartTalks ==
  ASSUME Typed, DartInv,
         StartEngine \/ DartListens \/ CompositorReady \/ DartReceives
  PROVE  DartInv'
<1>1. chan \in Seq(Message) /\ known \in SUBSET Ids
  BY DEF DartInv, DartTyped
<1>2. CASE StartEngine
  BY <1>2 DEF StartEngine, staticVars, DartInv, DartTyped, Announced, MirrorConverges
<1>3. CASE DartListens
  <2>1. /\ dart = "booting" /\ dart' = "listening" /\ readyPending' = TRUE
        /\ UNCHANGED <<outputs, known>>
        /\ chan' = <<>> \/ (chan # <<>> /\ chan' = <<chan[Len(chan)]>>)
    BY <1>3 DEF DartListens, staticVars
  <2>2. known = {}
    BY <2>1 DEF DartInv, Announced
  <2> SUFFICES /\ chan' \in Seq(Message)
               /\ \A o \in Ids : Hears(known, chan', o) => o \in outputs
    BY <2>1 DEF DartInv, DartTyped, Announced, MirrorConverges, Hears
  <2>3. CASE chan' = <<>>
    BY <2>2, <2>3, HearsNothing
  <2>4. CASE chan # <<>> /\ chan' = <<chan[Len(chan)]>>
    <3> DEFINE m == chan[Len(chan)]   one == <<m>>
    <3>1. m \in Message
      <4> HIDE DEF Message
      <4> QED BY <1>1, <2>4, EmptySeq, ElementOfSeq, LenProperties
    <3>2. one \in Seq(Message) /\ Len(one) = 1 /\ one[1] = m
      <4> HIDE DEF Message, m
      <4> QED BY <3>1
    <3>3. \A o \in Ids : m = Added(o) => o \in outputs
      BY <2>1, <2>4 DEF DartInv, Announced
    <3> HIDE DEF m, one
    <3>4. \A i \in 1 .. Len(one) : one[i] = m
      BY <3>2
    <3>5. \A o \in Ids : Hears(known, one, o) => o \in outputs
      BY <2>2, <3>3, <3>4 DEF Hears
    <3> QED BY <2>4, <3>2, <3>5 DEF one, m
  <2> QED BY <2>1, <2>3, <2>4
<1>4. CASE CompositorReady
  <2>1. /\ readyPending /\ readyPending' = FALSE
        /\ UNCHANGED <<outputs, dart, known>>
    BY <1>4 DEF CompositorReady, staticVars
  <2>2. dart = "listening" /\ \A o \in Ids : Hears(known, chan, o) => o \in outputs
    BY <2>1 DEF DartInv, DartTyped, Announced
  <2> DEFINE k == Cardinality(outputs)
  <2>3. outputs \in SUBSET Ids /\ IsFiniteSet(outputs) /\ k \in Nat
    <3>1. outputs \subseteq Ids
      BY DEF Typed
    <3>2. IsFiniteSet(Ids)
      BY FS_Interval, ConstantsAssumption DEF Ids
    <3> QED BY <3>1, <3>2, FS_Subset, FS_CardinalityType
  <2>4. PICK list \in [1 .. k -> outputs] :
          /\ \A i, j \in DOMAIN list : i < j => list[i] > list[j]
          /\ Send([i \in DOMAIN list |-> Added(list[i])])
    BY <1>4 DEF CompositorReady
  <2>5. chan' = chan \o [i \in 1 .. k |-> Added(list[i])]
    BY <2>2, <2>4 DEF Send
  <2> HIDE DEF k
  <2>6. list \in Surjection(1 .. k, outputs)
    <3>1. \A i, j \in 1 .. k : i < j \/ j < i \/ i = j
      BY <2>3
    <3>2. \A i \in 1 .. k : list[i] \in Nat
      <4>1. \A o \in outputs : o \in Nat
        BY <2>3, ConstantsAssumption DEF Ids
      <4>2. \A i \in 1 .. k : list[i] \in outputs
        BY <2>4
      <4> QED BY <4>1, <4>2
    <3>3. IsInjective(list)
      BY <2>4, <3>1, <3>2 DEF IsInjective
    <3>4. list \in Injection(1 .. k, outputs)
      BY <2>4, <3>3 DEF Injection
    <3>5. IsFiniteSet(1 .. k) /\ Cardinality(1 .. k) = Cardinality(outputs)
      BY <2>3, FS_Interval DEF k
    <3> QED BY <2>3, <3>4, <3>5, FS_Injection
  <2>7. \A o : o \in outputs <=> \E i \in 1 .. k : list[i] = o
    BY <2>4, <2>6 DEF Surjection
  <2>8. list \in [1 .. k -> Ids]
    BY <2>3, <2>4
  <2>9. \A o \in Ids : Hears(known, chan', o) <=> o \in outputs
    <3> SUFFICES ASSUME NEW o \in Ids PROVE Hears(known, chan', o) <=> o \in outputs
      OBVIOUS
    <3>1. Hears(known, chan', o) <=> (\E i \in 1 .. k : list[i] = o) \/ Hears(known, chan, o)
      BY <1>1, <2>3, <2>5, <2>8, HearsAll
    <3> QED BY <2>2, <2>7, <3>1
  <2>10. chan' \in Seq(Message)
    <3>1. \A i \in 1 .. k : Added(list[i]) \in Message
      BY <2>8 DEF Added, Message
    <3> DEFINE more == [i \in 1 .. k |-> Added(list[i])]
    <3> HIDE DEF Message
    <3>2. more \in Seq(Message)
      BY <2>3, <3>1
    <3>3. chan' = chan \o more
      BY <2>5
    <3> HIDE DEF more
    <3> QED BY <1>1, <3>2, <3>3
  <2>11. DartTyped' /\ Announced'
    BY <2>1, <2>2, <2>10 DEF DartInv, DartTyped, Announced
  <2>12. MirrorConverges'
    BY <2>1, <2>9 DEF MirrorConverges, Hears
  <2> QED BY <2>11, <2>12 DEF DartInv
<1>5. CASE DartReceives
  <2>1. /\ dart = "listening" /\ chan # <<>>
        /\ known' = Apply(known, Head(chan)) /\ chan' = Tail(chan)
        /\ UNCHANGED <<outputs, dart, readyPending>>
    BY <1>5 DEF DartReceives, staticVars
  <2>2. \A o \in Ids : Hears(known', chan', o) <=> Hears(known, chan, o)
    BY <1>1, <2>1, HearsNext
  <2>3. Head(chan) \in Message /\ chan' \in Seq(Message)
    <3> HIDE DEF Message
    <3> QED BY <1>1, <2>1, HeadTailProperties
  <2>4. known' \in SUBSET Ids
    BY <1>1, <2>1, <2>3 DEF Apply, Message
  <2>5. DartTyped'
    BY <2>1, <2>3, <2>4 DEF DartInv, DartTyped
  <2>6. Announced' /\ MirrorConverges'
    BY <2>1, <2>2 DEF DartInv, Announced, MirrorConverges, Hears
  <2> QED BY <2>5, <2>6 DEF DartInv
<1> QED BY <1>2, <1>3, <1>4, <1>5

LEMMA InitDartInv == Init => DartInv /\ PacingTyped
<1> SUFFICES ASSUME Init PROVE DartInv /\ PacingTyped
  OBVIOUS
<1>1. <<>> \in Seq(Message)
  <2> HIDE DEF Message
  <2> QED OBVIOUS
<1> QED BY <1>1 DEF Init, DartInv, DartTyped, Announced, MirrorConverges, PacingTyped

\* Every step keeps what Dart will know within the outputs there are, and all
\* of them once compositor_ready is answered.
LEMMA NextDartInv ==
  ASSUME Typed, DartInv, PacingTyped, [Next]_vars
  PROVE  DartInv' /\ PacingTyped'
<1>1. CASE \E rate \in Refreshes : NewOutput(rate)
  <2>1. PICK rate \in Refreshes : NewOutput(rate)
    BY <1>1
  <2>2. nextId' \in Ids
    BY <2>1, ConstantsAssumption DEF NewOutput, Typed, Ids
  <2>3. PacingTyped'
    BY <2>1, <2>2 DEF NewOutput, PacingTyped, vsyncVars
  <2>4. UNCHANGED <<dart, readyPending, known>>
    BY <2>1 DEF NewOutput
  <2>5. CASE UNCHANGED <<outputs, chan>>
    BY <2>3, <2>4, <2>5, NothingSaid DEF dartVars
  <2>6. CASE outputs' = outputs \cup {nextId'} /\ Send(<<Added(nextId')>>)
    <3>1. PICK p \in Ids : p = nextId'
      BY <2>2
    <3>2. outputs' = outputs \cup {p} /\ Send(<<Added(p)>>)
      BY <2>6, <3>1
    <3> QED BY <2>3, <2>4, <3>2, HotplugAnnounced
  <2> QED BY <2>1, <2>5, <2>6 DEF NewOutput
<1>2. CASE \E o \in Ids : OutputDestroy(o)
  <2>1. PICK o \in Ids : OutputDestroy(o)
    BY <1>2
  <2>2. PacingTyped'
    BY <2>1 DEF OutputDestroy, PacingTyped, vsyncVars
  <2> QED BY <2>1, <2>2, HotplugAnnounced DEF OutputDestroy
<1>3. CASE \/ \E id \in Ids \cup {0, UnknownId} : SetVsyncOutput(id)
           \/ \E o \in Ids, rate \in Refreshes : SetOutputMode(o, rate)
           \/ RequestVsync
           \/ \E o \in Ids : OutputFrame(o) \/ OutputPresent(o)
           \/ OnVsync \/ HandlerEnd
  <2>1. UNCHANGED <<outputs, dartVars>>
    BY <1>3 DEF SetVsyncOutput, SetOutputMode, RequestVsync, OutputFrame, OutputPresent,
                OnVsync, HandlerEnd
  <2>2. PacingTyped'
    <3>1. CASE \/ \E id \in Ids \cup {0, UnknownId} : SetVsyncOutput(id)
               \/ \E o \in Ids, rate \in Refreshes : SetOutputMode(o, rate)
      BY <3>1 DEF SetVsyncOutput, SetOutputMode, Requested, PacingTyped, vsyncVars
    <3>2. CASE RequestVsync \/ OnVsync
      BY <3>2 DEF RequestVsync, OnVsync, PacingTyped
    <3>3. CASE \E o \in Ids : OutputFrame(o) \/ OutputPresent(o)
      <4> PICK o \in Ids : OutputFrame(o) \/ OutputPresent(o)
        BY <3>3
      <4> QED BY DEF OutputFrame, OutputPresent, PacingTyped
    <3>4. CASE HandlerEnd
      BY <3>4 DEF HandlerEnd, PacingTyped, Idle
    <3> QED BY <1>3, <3>1, <3>2, <3>3, <3>4
  <2> QED BY <2>1, <2>2, NothingSaid
<1>4. CASE StartEngine \/ DartListens \/ CompositorReady \/ DartReceives
  <2>1. UNCHANGED staticVars
    BY <1>4 DEF StartEngine, DartListens, CompositorReady, DartReceives
  <2>2. PacingTyped'
    BY <2>1 DEF staticVars, vsyncVars, PacingTyped
  <2> QED BY <1>4, <2>2, DartTalks
<1>5. CASE UNCHANGED vars
  BY <1>5, NothingSaid DEF vars, vsyncVars, PacingTyped
<1> QED BY <1>1, <1>2, <1>3, <1>4, <1>5 DEF Next

THEOREM DartInvariantHolds == Spec => [](DartInv /\ PacingTyped)
<1>1. IInv /\ DartInv /\ PacingTyped /\ [Next]_vars => DartInv' /\ PacingTyped'
  BY NextDartInv DEF IInv
<1> QED BY InitDartInv, InvariantHolds, <1>1, PTL DEF Spec

\* Every variable keeps its type; the messages under way are of outputs.
THEOREM TypeOKHolds == Spec => []TypeOK
<1>1. IInv /\ DartInv /\ PacingTyped => TypeOK
  BY DEF IInv, Typed, VsyncOutputConnected, DartInv, DartTyped, PacingTyped, TypeOK
<1> QED BY InvariantHolds, DartInvariantHolds, <1>1, PTL

\* From the answer to compositor_ready on, what Dart is told leads it to the
\* compositor's set of outputs, whatever was plugged or unplugged before, while
\* and after it started.
THEOREM MirrorConvergesHolds == Spec => []MirrorConverges
<1>1. DartInv /\ PacingTyped => MirrorConverges
  BY DEF DartInv
<1> QED BY DartInvariantHolds, <1>1, PTL
=============================================================================
