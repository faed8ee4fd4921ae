--------------------------- MODULE SurfacesProofs ---------------------------
(***************************************************************************)
(* Proofs about the surfaces and their mirror in Dart: the types, the      *)
(* lifetime of the textures, the children's lists, that every unmap        *)
(* message finds its surface, and that Dart shows what is mapped once      *)
(* every message is handled, for any number of surfaces and requests.      *)
(***************************************************************************)
EXTENDS Surfaces, FiniteSetTheorems, SequenceTheorems, TLAPS

-----------------------------------------------------------------------------
(* The inductive invariant.                                                *)

\* The records a handler reads are filled in.
RecordsFilled ==
    /\ \A s \in Subsurfaces : Live(subsurface[s]) => subsurface[s].parent \in Toplevels
    /\ \A p \in Popups : Live(popup[p]) =>
          popup[p].parent \in Toplevels /\ popup[p].scheduled \in Places
    /\ \A p \in Popups : popup[p].state = "mapped" =>
          popup[p].size \in Sizes /\ popup[p].current \in Places

\* The messages under way when own[s] is the parent s was created with.
MessagesFor(own) == {m \in Messages : m.type = "subsurface_map" => m.parent = own[m.handle]}

\* A subsurface has one parent for its whole life, in the record, in the
\* messages and in Dart.
OwnedBy(own) ==
    /\ \A s \in Subsurfaces : subsurface[s].state = "none" => own[s] = None
    /\ \A s \in Subsurfaces : Live(subsurface[s]) => own[s] = subsurface[s].parent
    /\ \A s \in Subsurfaces : subsurfaces[s] # None => subsurfaces[s].parent = own[s]
    /\ channel \in Seq(MessagesFor(own))
OneParent == \E own \in [Subsurfaces -> Maybe(Toplevels)] : OwnedBy(own)

\* In Dart, before the i-th message of ch is handled, t will be shown.
Maps(ch, t, i) == ch[i].type = "surface_map" /\ ch[i].handle = t
Unmaps(ch, t, i) == ch[i].type = "surface_unmap" /\ ch[i].handle = t
Shown(ch, shown, t, i) ==
    \/ \E j \in 1..(i - 1) :
          Maps(ch, t, j) /\ \A k \in j..(i - 1) : ~Unmaps(ch, t, k)
    \/ shown[t] # None /\ \A k \in 1..(i - 1) : ~Unmaps(ch, t, k)

\* Every unmap message, and one sent next for a mapped toplevel, will find it.
Matched(ch, shown, t) ==
    \A i \in 1..Len(ch) : Unmaps(ch, t, i) => Shown(ch, shown, t, i)
ShownAtEnd(ch, shown, t) == Shown(ch, shown, t, Len(ch) + 1)
UnmapsMatched ==
    \A t \in Toplevels :
        /\ Matched(channel, surfaces, t)
        /\ toplevel[t].state = "mapped" => ShownAtEnd(channel, surfaces, t)

\* The clients' records and textures, which only requests change.
ClientTypeOK ==
    /\ toplevel \in [Toplevels -> ToplevelRecord]
    /\ subsurface \in [Subsurfaces -> SubsurfaceRecord]
    /\ popup \in [Popups -> PopupRecord]
    /\ textures \subseteq Toplevels \cup Subsurfaces \cup Popups
    /\ running \in BOOLEAN
    /\ requests \in Nat
ClientInv == ClientTypeOK /\ RecordsFilled /\ TextureLifetime

\* Dart's copies, which only messages change.
DartTypeOK ==
    /\ surfaces \in [Toplevels -> Maybe(Sizes)]
    /\ lists \in [Toplevels -> SUBSET Subsurfaces]
    /\ subsurfaces \in [Subsurfaces -> Maybe([parent : Toplevels, box : Sizes])]
    /\ popups \in [Popups -> Maybe([parent : Toplevels, size : Sizes, place : Places])]
DartInv == DartTypeOK /\ ListsHoldOwnChildren

IInv ==
    /\ ClientInv
    /\ DartInv
    /\ OneParent
    /\ UnmapsMatched

-----------------------------------------------------------------------------
(* Sequences made from sets.                                               *)

\* The sequence of a finite set's elements holds all of them.
LEMMA SetToSeqOnto ==
  ASSUME NEW S, IsFiniteSet(S)
  PROVE  /\ SetToSeq(S) \in Seq(S)
         /\ \A e \in S : \E i \in 1..Len(SetToSeq(S)) : SetToSeq(S)[i] = e
<1> DEFINE n == Cardinality(S)   f == SetToSeq(S)
<1>1. n \in Nat /\ ExistsBijection(1..n, S)
  BY FS_CardinalityType
<1>2. \E g \in [1..n -> S] : IsInjective(g)
  BY <1>1 DEF ExistsBijection, Bijection, Injection
<1>3. f \in [1..n -> S] /\ IsInjective(f)
  BY <1>2, Zenon DEF SetToSeq
<1>4. f \in Injection(1..n, S)
  BY <1>3 DEF Injection
<1>5. Cardinality(1..n) = n
  BY <1>1, FS_Interval
<1> HIDE DEF f, n
<1>6. f \in Surjection(1..n, S)
  <2>1. Cardinality(S) = n
    BY DEF n
  <2> QED BY <1>4, <1>5, <2>1, FS_Injection
<1>7. Len(f) = n
  BY <1>1, <1>3, LenProperties
<1>8. \A e \in S : \E i \in 1..Len(f) : f[i] = e
  BY <1>6, <1>7 DEF Surjection
<1>9. f \in Seq(S)
  BY <1>1, <1>3, SeqDef
<1> QED BY <1>8, <1>9 DEF f

\* The sequence of the values of a function on a finite set.
LEMMA ValuesType ==
  ASSUME NEW T, IsFiniteSet(T), NEW M, NEW f \in [T -> M]
  PROVE  SetToSeq({f[x] : x \in T}) \in Seq(M)
<1> DEFINE V == {f[x] : x \in T}
<1>1. f \in Surjection(T, V)
  BY DEF Surjection
<1>2. IsFiniteSet(V)
  BY <1>1, FS_Surjection
<1>3. V \subseteq M
  OBVIOUS
<1> HIDE DEF V
<1>4. SetToSeq(V) \in Seq(V)
  BY <1>2, SetToSeqOnto
<1>5. SetToSeq(V) \in Seq(M)
  BY <1>3, <1>4, SeqMonotonic
<1> QED BY <1>5 DEF V

-----------------------------------------------------------------------------
(* What is sent and received keeps every unmap message matched.            *)

\* A message that does not unmap t goes after the others.
LEMMA SendOther ==
  ASSUME NEW M, NEW ch \in Seq(M), NEW ms \in Seq(M), NEW shown, NEW t,
         \A i \in 1..Len(ms) : ~Unmaps(ms, t, i)
  PROVE  /\ Matched(ch, shown, t) => Matched(ch \o ms, shown, t)
         /\ ShownAtEnd(ch, shown, t) => ShownAtEnd(ch \o ms, shown, t)
<1> DEFINE all == ch \o ms
<1>1. /\ all \in Seq(M)
      /\ Len(all) = Len(ch) + Len(ms)
      /\ \A i \in 1..Len(ch) : all[i] = ch[i]
      /\ \A i \in 1..Len(all) : i \notin 1..Len(ch) =>
            /\ all[i] = ms[i - Len(ch)]
            /\ i - Len(ch) \in 1..Len(ms)
  BY ConcatProperties, LenProperties
<1>2. Len(ch) \in Nat /\ Len(all) \in Nat
  BY <1>1, LenProperties
<1> HIDE DEF all
<1>3. \A i \in 1..Len(all) : i \notin 1..Len(ch) => ~Unmaps(all, t, i)
  BY <1>1 DEF Unmaps
<1>4. \A i \in 1..Len(ch) :
        (Unmaps(all, t, i) <=> Unmaps(ch, t, i)) /\ (Maps(all, t, i) <=> Maps(ch, t, i))
  BY <1>1 DEF Unmaps, Maps
<1>5. \A i \in 1..(Len(ch) + 1) : Shown(ch, shown, t, i) => Shown(all, shown, t, i)
  BY <1>2, <1>4 DEF Shown
<1>6. Matched(ch, shown, t) => Matched(all, shown, t)
  BY <1>2, <1>3, <1>4, <1>5 DEF Matched
<1>7. ASSUME ShownAtEnd(ch, shown, t)
      PROVE  ShownAtEnd(all, shown, t)
  <2> DEFINE n == Len(ch)   N == Len(all)
  <2>1. n \in Nat /\ N \in Nat /\ n <= N
    BY <1>1, <1>2, LenProperties
  <2>2. \A i \in 1..N : i \notin 1..n => ~Unmaps(all, t, i)
    BY <1>3
  <2>3. Shown(ch, shown, t, n + 1)
    BY <1>7 DEF ShownAtEnd
  <2>4. \A i \in 1..n :
        (Unmaps(all, t, i) <=> Unmaps(ch, t, i)) /\ (Maps(all, t, i) <=> Maps(ch, t, i))
    BY <1>4
  <2> HIDE DEF n, N
  <2>5. Shown(all, shown, t, N + 1)
    BY <2>1, <2>2, <2>3, <2>4 DEF Shown
  <2> QED BY <2>5 DEF ShownAtEnd, N
<1> QED BY <1>6, <1>7 DEF all

\* After a message that maps t, with nothing that unmaps it, t is shown.
LEMMA SendMap ==
  ASSUME NEW M, NEW ch \in Seq(M), NEW ms \in Seq(M), NEW shown, NEW t,
         \A i \in 1..Len(ms) : ~Unmaps(ms, t, i),
         NEW j \in 1..Len(ms), Maps(ms, t, j)
  PROVE  ShownAtEnd(ch \o ms, shown, t)
<1> DEFINE all == ch \o ms   n == Len(ch)   N == Len(all)
<1>1. n \in Nat /\ Len(ms) \in Nat /\ N = n + Len(ms)
  BY ConcatProperties, LenProperties
<1>2. \A i \in 1..Len(ms) : all[n + i] = ms[i]
  <2> SUFFICES ASSUME NEW i \in 1..Len(ms) PROVE all[n + i] = ms[i]
    OBVIOUS
  <2>1. n + i \in 1..(n + Len(ms)) /\ ~(n + i <= n) /\ (n + i) - n = i
    BY <1>1
  <2> HIDE DEF n
  <2>2. \A k \in 1..(n + Len(ms)) : ~(k <= n) => all[k] = ms[k - n]
    BY ConcatProperties DEF n
  <2> QED BY <2>1, <2>2
<1> HIDE DEF all, n, N
<1>3. Maps(all, t, n + j)
  BY <1>2 DEF Maps
<1>4. \A k \in (n + j)..N : ~Unmaps(all, t, k)
  <2> SUFFICES ASSUME NEW k \in (n + j)..N PROVE ~Unmaps(all, t, k)
    OBVIOUS
  <2>1. k - n \in 1..Len(ms) /\ n + (k - n) = k
    BY <1>1
  <2> DEFINE i == k - n
  <2> HIDE DEF i
  <2>2. all[k] = ms[i] /\ i \in 1..Len(ms)
    BY <1>2, <2>1 DEF i
  <2> QED BY <2>2 DEF Unmaps
<1>5. n + j \in 1..N
  BY <1>1
<1>6. Shown(all, shown, t, N + 1)
  BY <1>1, <1>3, <1>4, <1>5 DEF Shown
<1> QED BY <1>6 DEF ShownAtEnd, N, all

\* An unmap message sent for a toplevel that will be shown will find it.
LEMMA SendUnmap ==
  ASSUME NEW M, NEW ch \in Seq(M), NEW u \in M, NEW shown, NEW t,
         Matched(ch, shown, t), ShownAtEnd(ch, shown, t)
  PROVE  Matched(ch \o <<u>>, shown, t)
<1> DEFINE all == ch \o <<u>>   n == Len(ch)
<1>1. n \in Nat /\ Len(all) = n + 1 /\ \A i \in 1..n : all[i] = ch[i]
  BY ConcatProperties, LenProperties
<1>2. \A i \in 1..(n + 1) : Shown(ch, shown, t, i) => Shown(all, shown, t, i)
  <2>1. \A i \in 1..n :
        (Unmaps(all, t, i) <=> Unmaps(ch, t, i)) /\ (Maps(all, t, i) <=> Maps(ch, t, i))
    BY <1>1 DEF Unmaps, Maps
  <2> HIDE DEF all, n
  <2> QED BY <1>1, <2>1 DEF Shown
<1>3. \A i \in 1..n : Unmaps(all, t, i) => Unmaps(ch, t, i)
  BY <1>1 DEF Unmaps
<1>4. Shown(ch, shown, t, n + 1) /\ \A i \in 1..n : Unmaps(ch, t, i) => Shown(ch, shown, t, i)
  BY DEF ShownAtEnd, Matched
<1> HIDE DEF all, n
<1>5. Matched(all, shown, t)
  BY <1>1, <1>2, <1>3, <1>4 DEF Matched
<1> QED BY <1>5 DEF all

\* A message is received; a message that maps t shows it, and only one that
\* unmaps t hides it.
LEMMA ReceiveMatched ==
  ASSUME NEW M, NEW ch \in Seq(M), ch # <<>>, NEW shown, NEW shownNext, NEW t,
         Maps(ch, t, 1) => shownNext[t] # None,
         shown[t] # None /\ ~Unmaps(ch, t, 1) => shownNext[t] # None
  PROVE  /\ Matched(ch, shown, t) => Matched(Tail(ch), shownNext, t)
         /\ ShownAtEnd(ch, shown, t) => ShownAtEnd(Tail(ch), shownNext, t)
<1> DEFINE rest == Tail(ch)   n == Len(ch)
<1>1. n \in Nat /\ n >= 1 /\ Len(rest) = n - 1 /\ \A i \in 1..(n - 1) : rest[i] = ch[i + 1]
  BY LenProperties, HeadTailProperties, EmptySeq
<1>2. \A i \in 1..(n - 1) :
        /\ Unmaps(rest, t, i) <=> Unmaps(ch, t, i + 1)
        /\ Maps(rest, t, i) <=> Maps(ch, t, i + 1)
  BY <1>1 DEF Unmaps, Maps
<1> HIDE DEF rest, n
<1>3. ASSUME NEW i \in 2..(n + 1), Shown(ch, shown, t, i)
      PROVE  Shown(rest, shownNext, t, i - 1)
  <2>1. CASE \E j \in 2..(i - 1) :
                Maps(ch, t, j) /\ \A k \in j..(i - 1) : ~Unmaps(ch, t, k)
    <3>1. PICK j \in 2..(i - 1) :
                Maps(ch, t, j) /\ \A k \in j..(i - 1) : ~Unmaps(ch, t, k)
      BY <2>1
    <3>2. j - 1 \in 1..(n - 1) /\ (j - 1) + 1 = j /\ j - 1 \in 1..((i - 1) - 1)
      BY <1>1, <1>3
    <3>3. Maps(rest, t, j - 1)
      BY <1>2, <3>1, <3>2
    <3>4. \A k \in (j - 1)..((i - 1) - 1) : ~Unmaps(rest, t, k)
      <4> SUFFICES ASSUME NEW k \in (j - 1)..((i - 1) - 1) PROVE ~Unmaps(rest, t, k)
        OBVIOUS
      <4>1. k \in 1..(n - 1) /\ k + 1 \in j..(i - 1)
        BY <1>1, <1>3
      <4> QED BY <1>2, <3>1, <4>1
    <3> QED BY <3>2, <3>3, <3>4 DEF Shown
  <2>2. CASE shownNext[t] # None /\ \A k \in 2..(i - 1) : ~Unmaps(ch, t, k)
    <3>1. \A k \in 1..((i - 1) - 1) : ~Unmaps(rest, t, k)
      <4> SUFFICES ASSUME NEW k \in 1..((i - 1) - 1) PROVE ~Unmaps(rest, t, k)
        OBVIOUS
      <4>1. k \in 1..(n - 1) /\ k + 1 \in 2..(i - 1)
        BY <1>1, <1>3
      <4> QED BY <1>2, <2>2, <4>1
    <3> QED BY <2>2, <3>1 DEF Shown
  <2>3. CASE Maps(ch, t, 1) /\ \A k \in 1..(i - 1) : ~Unmaps(ch, t, k)
    <3>1. \A k \in 2..(i - 1) : ~Unmaps(ch, t, k)
      BY <2>3
    <3> QED BY <2>2, <2>3, <3>1
  <2>4. CASE shown[t] # None /\ \A k \in 1..(i - 1) : ~Unmaps(ch, t, k)
    <3>1. 1 \in 1..(i - 1) /\ \A k \in 2..(i - 1) : k \in 1..(i - 1)
      BY <1>1, <1>3
    <3>2. shownNext[t] # None /\ \A k \in 2..(i - 1) : ~Unmaps(ch, t, k)
      BY <2>4, <3>1
    <3> QED BY <2>2, <3>2
  <2>5. \/ \E j \in 2..(i - 1) :
              Maps(ch, t, j) /\ \A k \in j..(i - 1) : ~Unmaps(ch, t, k)
        \/ Maps(ch, t, 1) /\ \A k \in 1..(i - 1) : ~Unmaps(ch, t, k)
        \/ shown[t] # None /\ \A k \in 1..(i - 1) : ~Unmaps(ch, t, k)
    <3>1. \A j \in 1..(i - 1) : j = 1 \/ j \in 2..(i - 1)
      BY <1>1, <1>3
    <3> QED BY <1>3, <3>1 DEF Shown
  <2> QED BY <2>1, <2>3, <2>4, <2>5
<1>4. Matched(ch, shown, t) => Matched(rest, shownNext, t)
  <2> SUFFICES ASSUME Matched(ch, shown, t), NEW i \in 1..(n - 1), Unmaps(rest, t, i)
               PROVE  Shown(rest, shownNext, t, i)
    BY <1>1 DEF Matched
  <2> DEFINE k == i + 1
  <2>1. k \in 2..(n + 1) /\ k \in 1..n /\ k - 1 = i
    BY <1>1
  <2>2. Unmaps(ch, t, k)
    BY <1>2
  <2> HIDE DEF k
  <2>3. Shown(ch, shown, t, k)
    BY <2>1, <2>2 DEF Matched, n
  <2> QED BY <1>3, <2>1, <2>3
<1>5. ShownAtEnd(ch, shown, t) => ShownAtEnd(rest, shownNext, t)
  <2> DEFINE k == n + 1
  <2>1. k \in 2..(n + 1) /\ k - 1 = Len(rest) + 1
    BY <1>1
  <2> HIDE DEF k
  <2>2. ShownAtEnd(ch, shown, t) => Shown(ch, shown, t, k)
    BY DEF ShownAtEnd, k, n
  <2>3. Shown(rest, shownNext, t, k - 1) => ShownAtEnd(rest, shownNext, t)
    BY <2>1 DEF ShownAtEnd
  <2> QED BY <1>3, <2>1, <2>2, <2>3
<1> QED BY <1>4, <1>5 DEF rest

-----------------------------------------------------------------------------
(* The clients' records and textures.                                      *)

\* One record is replaced, and with it at most that surface's texture.
Replaced(x, live, mapped) ==
    /\ textures' \subseteq textures \cup {x}
    /\ textures \ {x} \subseteq textures'
    /\ mapped => x \in textures'
    /\ x \in textures' => live
    /\ running' \in BOOLEAN /\ requests' \in Nat

\* A toplevel's record is replaced.
LEMMA ToplevelReplaced ==
  ASSUME ClientInv, NEW t \in Toplevels, NEW r \in ToplevelRecord,
         toplevel' = [toplevel EXCEPT ![t] = r], UNCHANGED <<subsurface, popup>>,
         Replaced(t, Live(r), r.state = "mapped")
  PROVE  ClientInv'
<1>1. ClientTypeOK'
  BY DEF ClientInv, ClientTypeOK, Replaced
<1>2. RecordsFilled'
  BY DEF ClientInv, RecordsFilled, Live
<1>3. TextureLifetime'
  BY Kinds DEF ClientInv, ClientTypeOK, TextureLifetime, Replaced, Live
<1> QED BY <1>1, <1>2, <1>3 DEF ClientInv

\* A subsurface's record is replaced; it keeps a parent while it lives.
LEMMA SubsurfaceReplaced ==
  ASSUME ClientInv, NEW s \in Subsurfaces, NEW r \in SubsurfaceRecord,
         subsurface' = [subsurface EXCEPT ![s] = r], UNCHANGED <<toplevel, popup>>,
         Replaced(s, Live(r), r.state = "mapped"), Live(r) => r.parent \in Toplevels
  PROVE  ClientInv'
<1>1. ClientTypeOK'
  BY DEF ClientInv, ClientTypeOK, Replaced
<1>2. RecordsFilled'
  BY DEF ClientInv, ClientTypeOK, RecordsFilled, Live
<1>3. TextureLifetime'
  BY Kinds DEF ClientInv, ClientTypeOK, TextureLifetime, Replaced, Live
<1> QED BY <1>1, <1>2, <1>3 DEF ClientInv

\* A popup's record is replaced; its texture lives only while it is mapped.
LEMMA PopupReplaced ==
  ASSUME ClientInv, NEW p \in Popups, NEW r \in PopupRecord,
         popup' = [popup EXCEPT ![p] = r], UNCHANGED <<toplevel, subsurface>>,
         Replaced(p, r.state = "mapped", r.state = "mapped"),
         Live(r) => r.parent \in Toplevels /\ r.scheduled \in Places,
         r.state = "mapped" => r.size \in Sizes /\ r.current \in Places
  PROVE  ClientInv'
<1>1. ClientTypeOK'
  BY DEF ClientInv, ClientTypeOK, Replaced
<1>2. RecordsFilled'
  BY DEF ClientInv, ClientTypeOK, RecordsFilled, Live
<1>3. TextureLifetime'
  BY Kinds DEF ClientInv, ClientTypeOK, TextureLifetime, Replaced, Live
<1> QED BY <1>1, <1>2, <1>3 DEF ClientInv

\* Toplevel t is unmapped or destroyed, and its children with it.
LEMMA FamilyUnmapped ==
  ASSUME ClientInv, NEW t \in Toplevels, NEW r \in ToplevelRecord,
         toplevel' = [toplevel EXCEPT ![t] = r], r.state # "mapped",
         subsurface' = ChildrenUnmapped(t), popup' = PopupsDestroyed(t),
         \/ textures' = textures \ PopupsOf(t) /\ Live(r)
         \/ textures' = textures \ ({t} \cup PopupsOf(t)),
         UNCHANGED running, requests' \in Nat
  PROVE  ClientInv'
<1> DEFINE gone == [NoPopup EXCEPT !.state = "destroyed"]
           down(s) == [subsurface[s] EXCEPT !.state = "unmapped"]
<1>1. /\ gone \in PopupRecord
      /\ gone.state = "destroyed"
  BY DEF NoPopup, PopupRecord, States, Maybe
<1>2. ASSUME NEW s \in Subsurfaces
      PROVE  /\ down(s) \in SubsurfaceRecord
             /\ down(s).state = "unmapped"
             /\ down(s).parent = subsurface[s].parent
  BY DEF ClientInv, ClientTypeOK, SubsurfaceRecord, States
<1>3. subsurface' = [s \in Subsurfaces |-> IF s \in ChildrenOf(t) THEN down(s)
                                                                  ELSE subsurface[s]]
  BY DEF ChildrenUnmapped
<1>4. popup' = [p \in Popups |-> IF p \in PopupsOf(t) THEN gone ELSE popup[p]]
  BY DEF PopupsDestroyed
<1>5. \A p \in PopupsOf(t) : p \in Popups
  BY DEF PopupsOf
<1>6. \A s \in ChildrenOf(t) : s \in Subsurfaces /\ Live(subsurface[s])
  BY DEF ChildrenOf
<1> HIDE DEF gone, down
<1>7. ClientTypeOK'
  BY <1>1, <1>2, <1>3, <1>4 DEF ClientInv, ClientTypeOK
<1>8. RecordsFilled'
  BY <1>1, <1>2, <1>3, <1>4, <1>6 DEF ClientInv, RecordsFilled, Live
<1>9. TextureLifetime'
  <2>1. \A x \in Toplevels : /\ toplevel'[x].state = "mapped" => x \in textures'
                             /\ x \in textures' => Live(toplevel'[x])
    BY <1>5, Kinds DEF ClientInv, ClientTypeOK, TextureLifetime
  <2>2. \A s \in Subsurfaces : /\ subsurface'[s].state = "mapped" => s \in textures'
                               /\ s \in textures' => Live(subsurface'[s])
    BY <1>2, <1>3, <1>5, <1>6, Kinds DEF ClientInv, TextureLifetime, Live
  <2>3. \A p \in Popups : popup'[p].state = "mapped" <=> p \in textures'
    BY <1>1, <1>4, <1>5, Kinds DEF ClientInv, TextureLifetime
  <2> QED BY <2>1, <2>2, <2>3 DEF TextureLifetime, Live
<1> QED BY <1>7, <1>8, <1>9 DEF ClientInv

\* Every request on a toplevel keeps the records and the textures in order.
LEMMA ToplevelClientInv ==
  ASSUME ClientInv, ToplevelNext
  PROVE  ClientInv'
<1> PICK t \in Toplevels :
        \/ NewToplevel(t) \/ UnmapToplevel(t) \/ DestroyToplevel(t)
        \/ \E g \in Sizes : MapToplevel(t, g) \/ CommitToplevel(t, g)
  BY DEF ToplevelNext
<1>1. /\ toplevel[t] \in ToplevelRecord
      /\ toplevel[t].state = "mapped" => t \in textures
      /\ t \in textures => Live(toplevel[t])
      /\ running \in BOOLEAN /\ requests + 1 \in Nat
  BY DEF ClientInv, ClientTypeOK, TextureLifetime
<1>2. CASE NewToplevel(t)
  <2> DEFINE r == [toplevel[t] EXCEPT !.state = "unmapped"]
  <2>1. r \in ToplevelRecord /\ r.state = "unmapped"
    BY <1>1 DEF ToplevelRecord, States
  <2>2. toplevel' = [toplevel EXCEPT ![t] = r]
    BY <1>2 DEF NewToplevel
  <2> HIDE DEF r
  <2>3. Replaced(t, Live(r), r.state = "mapped")
    BY <1>1, <1>2, <2>1 DEF NewToplevel, Request, Replaced, Live
  <2> QED BY <1>2, <2>1, <2>2, <2>3, ToplevelReplaced DEF NewToplevel
<1>3. CASE UnmapToplevel(t)
  <2> DEFINE r == [toplevel[t] EXCEPT !.state = "unmapped"]
  <2>1. r \in ToplevelRecord /\ r.state = "unmapped"
    BY <1>1 DEF ToplevelRecord, States
  <2>2. toplevel' = [toplevel EXCEPT ![t] = r]
    BY <1>3 DEF UnmapToplevel
  <2> HIDE DEF r
  <2>3. requests' \in Nat /\ Live(r) /\ r.state # "mapped"
    BY <1>1, <1>3, <2>1 DEF UnmapToplevel, Request, Live
  <2> QED BY <1>3, <2>1, <2>2, <2>3, FamilyUnmapped DEF UnmapToplevel
<1>4. CASE DestroyToplevel(t)
  <2> DEFINE r == [NoToplevel EXCEPT !.state = "destroyed"]
  <2>1. r \in ToplevelRecord /\ r.state = "destroyed"
    BY DEF NoToplevel, ToplevelRecord, States, Maybe
  <2>2. toplevel' = [toplevel EXCEPT ![t] = r]
    BY <1>4 DEF DestroyToplevel
  <2> HIDE DEF r
  <2>3. requests' \in Nat /\ r.state # "mapped"
    BY <1>1, <1>4, <2>1 DEF DestroyToplevel, Request
  <2> QED BY <1>4, <2>1, <2>2, <2>3, FamilyUnmapped DEF DestroyToplevel
<1>5. ASSUME NEW g \in Sizes, MapToplevel(t, g)
      PROVE  ClientInv'
  <2> DEFINE mapping == {s \in ChildrenOf(t) : subsurface[s].buffer}
             r == [state |-> "mapped", geo |-> g]
  <2>1. PICK box \in [mapping -> Sizes] :
          /\ subsurface' = [s \in Subsurfaces |->
                IF s \in mapping
                THEN [subsurface[s] EXCEPT !.state = "mapped", !.box = box[s]]
                ELSE subsurface[s]]
          /\ toplevel' = [toplevel EXCEPT ![t] = r]
          /\ textures' = textures \cup {t} \cup mapping
          /\ UNCHANGED <<popup, running>>
          /\ requests' = requests + 1
    BY <1>5 DEF MapToplevel, Request
  <2> DEFINE up(s) == [subsurface[s] EXCEPT !.state = "mapped", !.box = box[s]]
  <2>2. ASSUME NEW s \in mapping
        PROVE  /\ s \in Subsurfaces
               /\ up(s) \in SubsurfaceRecord
               /\ up(s).state = "mapped"
               /\ up(s).parent = t
    BY DEF ChildrenOf, ClientInv, ClientTypeOK, SubsurfaceRecord, States, Maybe
  <2>3. r \in ToplevelRecord /\ r.state = "mapped"
    BY DEF ToplevelRecord, States, Maybe
  <2>4. subsurface' = [s \in Subsurfaces |-> IF s \in mapping THEN up(s)
                                                              ELSE subsurface[s]]
    BY <2>1
  <2>5. /\ toplevel' = [toplevel EXCEPT ![t] = r]
        /\ textures' = textures \cup {t} \cup mapping
        /\ popup' = popup /\ running' = running /\ requests' = requests + 1
    BY <2>1
  <2> HIDE DEF mapping, r, up
  <2>6. ClientTypeOK'
    BY <1>1, <2>2, <2>3, <2>4, <2>5 DEF ClientInv, ClientTypeOK
  <2>7. RecordsFilled'
    BY <2>2, <2>4, <2>5 DEF ClientInv, RecordsFilled, Live
  <2>8. TextureLifetime'
    BY <2>2, <2>3, <2>4, <2>5, Kinds
    DEF ClientInv, ClientTypeOK, TextureLifetime, Live
  <2> QED BY <2>6, <2>7, <2>8 DEF ClientInv
<1>6. ASSUME NEW g \in Sizes, CommitToplevel(t, g)
      PROVE  ClientInv'
  <2> DEFINE r == [toplevel[t] EXCEPT !.geo = g]
  <2>1. r \in ToplevelRecord /\ r.state = toplevel[t].state
    BY <1>1 DEF ToplevelRecord, Maybe
  <2>2. toplevel' = [toplevel EXCEPT ![t] = r]
    BY <1>6 DEF CommitToplevel
  <2> HIDE DEF r
  <2>3. Replaced(t, Live(r), r.state = "mapped")
    BY <1>1, <1>6, <2>1 DEF CommitToplevel, Request, Replaced, Live
  <2> QED BY <1>6, <2>1, <2>2, <2>3, ToplevelReplaced DEF CommitToplevel
<1> QED BY <1>2, <1>3, <1>4, <1>5, <1>6

\* So does every request on a subsurface.
LEMMA SubsurfaceClientInv ==
  ASSUME ClientInv, SubsurfaceNext
  PROVE  ClientInv'
<1> PICK s \in Subsurfaces :
        \/ \E t \in Toplevels : NewSubsurface(s, t)
        \/ \E b \in Sizes : MapSubsurface(s, b) \/ CommitSubsurface(s, b)
        \/ UnmapSubsurface(s) \/ DestroySubsurface(s) \/ Crash(s)
  BY DEF SubsurfaceNext
<1>1. /\ subsurface[s] \in SubsurfaceRecord
      /\ subsurface[s].state = "mapped" => s \in textures
      /\ s \in textures => Live(subsurface[s])
      /\ Live(subsurface[s]) => subsurface[s].parent \in Toplevels
      /\ running \in BOOLEAN /\ requests + 1 \in Nat
  BY DEF ClientInv, ClientTypeOK, TextureLifetime, RecordsFilled
<1>2. ASSUME NEW t \in Toplevels, NewSubsurface(s, t)
      PROVE  ClientInv'
  <2> DEFINE r == [NoSubsurface EXCEPT !.state = "unmapped", !.parent = t]
  <2>1. r \in SubsurfaceRecord /\ r.state = "unmapped" /\ r.parent = t
    BY DEF NoSubsurface, SubsurfaceRecord, States, Maybe
  <2>2. subsurface' = [subsurface EXCEPT ![s] = r]
    BY <1>2 DEF NewSubsurface
  <2> HIDE DEF r
  <2>3. Replaced(s, Live(r), r.state = "mapped")
    BY <1>1, <1>2, <2>1 DEF NewSubsurface, Request, Replaced, Live
  <2> QED BY <1>2, <2>1, <2>2, <2>3, SubsurfaceReplaced DEF NewSubsurface
<1>3. ASSUME NEW b \in Sizes, MapSubsurface(s, b)
      PROVE  ClientInv'
  <2> DEFINE r == [subsurface[s] EXCEPT !.state = "mapped", !.box = b, !.buffer = TRUE]
  <2>1. r \in SubsurfaceRecord /\ r.state = "mapped" /\ r.parent = subsurface[s].parent
    BY <1>1 DEF SubsurfaceRecord, States, Maybe
  <2>2. subsurface' = [subsurface EXCEPT ![s] = r]
    BY <1>3 DEF MapSubsurface
  <2> HIDE DEF r
  <2>3. Replaced(s, Live(r), r.state = "mapped") /\ r.parent \in Toplevels
    BY <1>1, <1>3, <2>1 DEF MapSubsurface, Request, Replaced, Live
  <2> QED BY <1>3, <2>1, <2>2, <2>3, SubsurfaceReplaced DEF MapSubsurface
<1>4. ASSUME NEW b \in Sizes, CommitSubsurface(s, b)
      PROVE  ClientInv'
  <2> DEFINE r == [subsurface[s] EXCEPT !.box = b, !.buffer = TRUE]
  <2>1. /\ r \in SubsurfaceRecord /\ r.state = subsurface[s].state
        /\ r.parent = subsurface[s].parent
    BY <1>1 DEF SubsurfaceRecord, Maybe
  <2>2. subsurface' = [subsurface EXCEPT ![s] = r]
    BY <1>4 DEF CommitSubsurface
  <2> HIDE DEF r
  <2>3. Replaced(s, Live(r), r.state = "mapped") /\ r.parent \in Toplevels
    BY <1>1, <1>4, <2>1 DEF CommitSubsurface, Request, Replaced, Live
  <2> QED BY <1>4, <2>1, <2>2, <2>3, SubsurfaceReplaced DEF CommitSubsurface
<1>5. CASE UnmapSubsurface(s)
  <2> DEFINE r == [subsurface[s] EXCEPT !.state = "unmapped", !.buffer = FALSE]
  <2>1. r \in SubsurfaceRecord /\ r.state = "unmapped" /\ r.parent = subsurface[s].parent
    BY <1>1 DEF SubsurfaceRecord, States
  <2>2. subsurface' = [subsurface EXCEPT ![s] = r]
    BY <1>5 DEF UnmapSubsurface
  <2> HIDE DEF r
  <2>3. Replaced(s, Live(r), r.state = "mapped") /\ r.parent \in Toplevels
    BY <1>1, <1>5, <2>1 DEF UnmapSubsurface, Request, Replaced, Live
  <2> QED BY <1>5, <2>1, <2>2, <2>3, SubsurfaceReplaced DEF UnmapSubsurface
<1>6. CASE DestroySubsurface(s)
  <2> DEFINE r == [NoSubsurface EXCEPT !.state = "destroyed"]
  <2>1. r \in SubsurfaceRecord /\ r.state = "destroyed"
    BY DEF NoSubsurface, SubsurfaceRecord, States, Maybe
  <2>2. subsurface' = [subsurface EXCEPT ![s] = r]
    BY <1>6 DEF DestroySubsurface
  <2> HIDE DEF r
  <2>3. Replaced(s, Live(r), r.state = "mapped") /\ ~Live(r)
    BY <1>1, <1>6, <2>1 DEF DestroySubsurface, Request, Replaced, Live
  <2> QED BY <1>6, <2>1, <2>2, <2>3, SubsurfaceReplaced DEF DestroySubsurface
<1>7. CASE Crash(s)
  <2>1. UNCHANGED <<toplevel, subsurface, popup, textures>>
    BY <1>7 DEF Crash
  <2>2. running' \in BOOLEAN /\ requests' \in Nat
    BY <1>1, <1>7 DEF Crash, Request
  <2> QED BY <2>1, <2>2 DEF ClientInv, ClientTypeOK, RecordsFilled, TextureLifetime, Live
<1> QED BY <1>2, <1>3, <1>4, <1>5, <1>6, <1>7

\* So does every request on a popup.
LEMMA PopupClientInv ==
  ASSUME ClientInv, PopupNext
  PROVE  ClientInv'
<1> PICK p \in Popups :
        \/ \E parent \in Toplevels \cup Popups, place \in Places :
                NewPopup(p, parent, place)
        \/ \E place \in Places : ConstrainPopup(p, place)
        \/ \E place \in Places, size \in Sizes : RepositionPopup(p, place, size)
        \/ \E size \in Sizes : MapPopup(p, size)
        \/ \E size \in Sizes, acknowledge \in BOOLEAN : CommitPopup(p, size, acknowledge)
        \/ UnmapPopup(p) \/ DestroyPopup(p)
  BY DEF PopupNext
<1>1. /\ popup[p] \in PopupRecord
      /\ popup[p].state = "mapped" <=> p \in textures
      /\ Live(popup[p]) => popup[p].parent \in Toplevels /\ popup[p].scheduled \in Places
      /\ popup[p].state = "mapped" => popup[p].size \in Sizes /\ popup[p].current \in Places
      /\ running \in BOOLEAN /\ requests + 1 \in Nat
  BY DEF ClientInv, ClientTypeOK, TextureLifetime, RecordsFilled
<1>2. ASSUME NEW parent \in Toplevels \cup Popups, NEW place \in Places,
             NewPopup(p, parent, place)
      PROVE  ClientInv'
  <2>1. \E r \in PopupRecord :
          /\ popup' = [popup EXCEPT ![p] = r]
          /\ \/ r.state = "unmapped" /\ r.parent \in Toplevels /\ r.scheduled = place
             \/ r.state = "untracked"
    <3>1. CASE parent \in Toplevels
      <4> DEFINE r == [NoPopup EXCEPT !.state = "unmapped", !.parent = parent,
                                      !.scheduled = place]
      <4>1. popup' = [popup EXCEPT ![p] = r]
        BY <1>2, <3>1 DEF NewPopup
      <4>2. r \in PopupRecord /\ r.state = "unmapped" /\ r.parent = parent
            /\ r.scheduled = place
        BY <3>1 DEF NoPopup, PopupRecord, States, Maybe
      <4> QED BY <3>1, <4>1, <4>2
    <3>2. CASE parent \notin Toplevels
      <4> DEFINE r == [NoPopup EXCEPT !.state = "untracked"]
      <4>1. popup' = [popup EXCEPT ![p] = r]
        BY <1>2, <3>2 DEF NewPopup
      <4>2. r \in PopupRecord /\ r.state = "untracked"
        BY DEF NoPopup, PopupRecord, States, Maybe
      <4> QED BY <4>1, <4>2
    <3> QED BY <3>1, <3>2
  <2>2. PICK r \in PopupRecord :
          /\ popup' = [popup EXCEPT ![p] = r]
          /\ \/ r.state = "unmapped" /\ r.parent \in Toplevels /\ r.scheduled = place
             \/ r.state = "untracked"
    BY <2>1
  <2>3. Replaced(p, r.state = "mapped", r.state = "mapped")
    BY <1>1, <1>2, <2>2 DEF NewPopup, Request, Replaced
  <2> QED BY <1>2, <2>2, <2>3, PopupReplaced DEF NewPopup, Live
<1>3. ASSUME NEW place \in Places, ConstrainPopup(p, place)
      PROVE  ClientInv'
  <2> DEFINE r == [popup[p] EXCEPT !.scheduled = place, !.constrained = TRUE]
  <2>1. /\ r \in PopupRecord /\ r.state = popup[p].state
        /\ r.parent = popup[p].parent /\ r.scheduled = place
    BY <1>1 DEF PopupRecord, Maybe
  <2>2. popup' = [popup EXCEPT ![p] = r]
    BY <1>3 DEF ConstrainPopup
  <2> HIDE DEF r
  <2>3. Replaced(p, r.state = "mapped", r.state = "mapped") /\ r.state = "unmapped"
    BY <1>1, <1>3, <2>1 DEF ConstrainPopup, Request, Replaced
  <2>4. r.parent \in Toplevels
    BY <1>1, <2>1, <2>3 DEF Live
  <2> QED BY <1>3, <2>1, <2>2, <2>3, <2>4, PopupReplaced DEF ConstrainPopup
<1>4. ASSUME NEW place \in Places, NEW size \in Sizes, RepositionPopup(p, place, size)
      PROVE  ClientInv'
  <2> DEFINE r == [popup[p] EXCEPT !.scheduled = place, !.size = size]
  <2>1. /\ r \in PopupRecord /\ r.state = popup[p].state /\ r.parent = popup[p].parent
        /\ r.scheduled = place /\ r.size = size /\ r.current = popup[p].current
    BY <1>1 DEF PopupRecord, Maybe
  <2>2. popup' = [popup EXCEPT ![p] = r]
    BY <1>4 DEF RepositionPopup
  <2> HIDE DEF r
  <2>3. Replaced(p, r.state = "mapped", r.state = "mapped") /\ r.parent \in Toplevels
    BY <1>1, <1>4, <2>1 DEF RepositionPopup, Request, Replaced
  <2> QED BY <1>1, <1>4, <2>1, <2>2, <2>3, PopupReplaced DEF RepositionPopup
<1>5. ASSUME NEW size \in Sizes, MapPopup(p, size)
      PROVE  ClientInv'
  <2> DEFINE r == [popup[p] EXCEPT !.state = "mapped", !.size = size,
                                   !.current = popup[p].scheduled]
  <2>1. /\ r \in PopupRecord /\ r.state = "mapped" /\ r.parent = popup[p].parent
        /\ r.scheduled = popup[p].scheduled /\ r.size = size
        /\ r.current = popup[p].scheduled
    BY <1>1 DEF PopupRecord, Maybe, States
  <2>2. popup' = [popup EXCEPT ![p] = r] /\ popup[p].state = "unmapped"
    BY <1>5 DEF MapPopup
  <2> HIDE DEF r
  <2>3. Replaced(p, r.state = "mapped", r.state = "mapped")
    BY <1>1, <1>5, <2>1 DEF MapPopup, Request, Replaced
  <2>4. r.parent \in Toplevels /\ r.scheduled \in Places /\ r.current \in Places
    BY <1>1, <2>1, <2>2 DEF Live
  <2> QED BY <1>5, <2>1, <2>2, <2>3, <2>4, PopupReplaced DEF MapPopup
<1>6. ASSUME NEW size \in Sizes, NEW acknowledge \in BOOLEAN,
             CommitPopup(p, size, acknowledge)
      PROVE  ClientInv'
  <2> DEFINE now == IF acknowledge THEN popup[p].scheduled ELSE popup[p].current
             r == [popup[p] EXCEPT !.size = size, !.current = now]
  <2>1. /\ popup[p].state = "mapped" /\ now \in Places
        /\ popup[p].parent \in Toplevels /\ popup[p].scheduled \in Places
    BY <1>1, <1>6 DEF CommitPopup, Live
  <2>2. popup' = [popup EXCEPT ![p] = r]
    BY <1>6 DEF CommitPopup
  <2> HIDE DEF now
  <2>3. /\ r \in PopupRecord /\ r.state = popup[p].state /\ r.parent = popup[p].parent
        /\ r.scheduled = popup[p].scheduled /\ r.size = size /\ r.current = now
    BY <1>1, <2>1 DEF PopupRecord, Maybe
  <2> HIDE DEF r
  <2>4. Replaced(p, r.state = "mapped", r.state = "mapped")
    BY <1>1, <1>6, <2>1, <2>3 DEF CommitPopup, Request, Replaced
  <2> QED BY <1>6, <2>1, <2>2, <2>3, <2>4, PopupReplaced DEF CommitPopup
<1>7. CASE UnmapPopup(p)
  <2> DEFINE r == [popup[p] EXCEPT !.state = "unmapped", !.current = None]
  <2>1. /\ r \in PopupRecord /\ r.state = "unmapped" /\ r.parent = popup[p].parent
        /\ r.scheduled = popup[p].scheduled
    BY <1>1 DEF PopupRecord, Maybe, States
  <2>2. popup' = [popup EXCEPT ![p] = r] /\ Live(popup[p])
    BY <1>7 DEF UnmapPopup, Live
  <2> HIDE DEF r
  <2>3. Replaced(p, r.state = "mapped", r.state = "mapped")
    BY <1>1, <1>7, <2>1 DEF UnmapPopup, Request, Replaced
  <2>4. r.parent \in Toplevels /\ r.scheduled \in Places
    BY <1>1, <2>1, <2>2
  <2> QED BY <1>7, <2>1, <2>2, <2>3, <2>4, PopupReplaced DEF UnmapPopup
<1>8. CASE DestroyPopup(p)
  <2> DEFINE r == [NoPopup EXCEPT !.state = "destroyed"]
  <2>1. r \in PopupRecord /\ r.state = "destroyed"
    BY DEF NoPopup, PopupRecord, States, Maybe
  <2>2. popup' = [popup EXCEPT ![p] = r]
    BY <1>8 DEF DestroyPopup
  <2> HIDE DEF r
  <2>3. Replaced(p, r.state = "mapped", r.state = "mapped") /\ ~Live(r)
    BY <1>1, <1>8, <2>1 DEF DestroyPopup, Request, Replaced, Live
  <2> QED BY <1>8, <2>1, <2>2, <2>3, PopupReplaced DEF DestroyPopup
<1> QED BY <1>2, <1>3, <1>4, <1>5, <1>6, <1>7, <1>8

-----------------------------------------------------------------------------
(* The messages.                                                           *)

\* The messages that neither map nor unmap a toplevel.
Quiet(own) == {m \in MessagesFor(own) : m.type \notin {"surface_map", "surface_unmap"}}

\* What the handlers of surface.c send has its message's type.
LEMMA MessagesSent ==
  ASSUME NEW own
  PROVE  /\ \A t \in Toplevels :
              /\ SurfaceUnmap(t) \in MessagesFor(own)
              /\ \A g \in Sizes : /\ SurfaceMap(t, g) \in MessagesFor(own)
                                  /\ SurfaceGeometry(t, g) \in Quiet(own)
         /\ \A s \in Subsurfaces :
              /\ SubsurfaceUnmap(s) \in Quiet(own)
              /\ \A b \in Sizes : SubsurfacePosition(s, b) \in Quiet(own)
              /\ \A b \in Sizes : own[s] \in Toplevels =>
                    SubsurfaceMap(s, own[s], b) \in Quiet(own)
         /\ \A p \in Popups : PopupUnmap(p) \in Quiet(own)
<1> USE DEF MessagesFor, Quiet, Messages
<1>1. ASSUME NEW t \in Toplevels
      PROVE  SurfaceUnmap(t) \in MessagesFor(own)
  BY DEF SurfaceUnmap
<1>2. ASSUME NEW t \in Toplevels, NEW g \in Sizes
      PROVE  /\ SurfaceMap(t, g) \in MessagesFor(own)
             /\ SurfaceGeometry(t, g) \in Quiet(own)
  BY DEF SurfaceMap, SurfaceGeometry
<1>3. ASSUME NEW s \in Subsurfaces
      PROVE  SubsurfaceUnmap(s) \in Quiet(own)
  BY DEF SubsurfaceUnmap
<1>4. ASSUME NEW s \in Subsurfaces, NEW b \in Sizes
      PROVE  SubsurfacePosition(s, b) \in Quiet(own)
  BY DEF SubsurfacePosition
<1>5. ASSUME NEW s \in Subsurfaces, NEW b \in Sizes, own[s] \in Toplevels
      PROVE  SubsurfaceMap(s, own[s], b) \in Quiet(own)
  BY <1>5 DEF SubsurfaceMap
<1>6. ASSUME NEW p \in Popups
      PROVE  PopupUnmap(p) \in Quiet(own)
  BY DEF PopupUnmap
<1> QED BY <1>1, <1>2, <1>3, <1>4, <1>5, <1>6

\* A mapped popup's record makes a whole message.
LEMMA PopupMessageSent ==
  ASSUME NEW own, NEW p \in Popups, NEW r,
         r.parent \in Toplevels, r.size \in Sizes, r.current \in Places
  PROVE  PopupMap(p, r) \in Quiet(own)
<1>1. PopupMap(p, r) = [type |-> "popup_map", handle |-> p, parent |-> r.parent,
                        size |-> r.size, place |-> r.current]
  BY Kinds DEF PopupMap
<1> QED BY <1>1 DEF MessagesFor, Quiet, Messages

\* What Dart finds in a message of each type.
LEMMA MessageFields ==
  ASSUME NEW m \in Messages
  PROVE  /\ m.type \in {"surface_map", "surface_geometry"} =>
              m.handle \in Toplevels /\ m.geo \in Sizes
         /\ m.type = "surface_unmap" => m.handle \in Toplevels
         /\ m.type = "subsurface_map" =>
              m.handle \in Subsurfaces /\ m.parent \in Toplevels /\ m.box \in Sizes
         /\ m.type = "subsurface_position" => m.handle \in Subsurfaces /\ m.box \in Sizes
         /\ m.type = "subsurface_unmap" => m.handle \in Subsurfaces
         /\ m.type = "popup_map" =>
              /\ m.handle \in Popups /\ m.parent \in Toplevels
              /\ m.size \in Sizes /\ m.place \in Places
         /\ m.type = "popup_unmap" => m.handle \in Popups
  BY DEF Messages

-----------------------------------------------------------------------------
(* Requests keep one parent for each subsurface, and unmaps matched.       *)

\* No subsurface is created.
NoneCreated ==
    \A s \in Subsurfaces :
        /\ subsurface'[s].state = "none" => subsurface[s].state = "none"
        /\ Live(subsurface'[s]) => /\ Live(subsurface[s])
                                   /\ subsurface'[s].parent = subsurface[s].parent

\* What is sent names the parents that own names.
LEMMA SentOwned ==
  ASSUME NEW own \in [Subsurfaces -> Maybe(Toplevels)], OwnedBy(own), NoneCreated,
         NEW ms \in Seq(MessagesFor(own)), Request(ms)
  PROVE  OneParent'
<1>1. OwnedBy(own)'
  <2>1. channel' \in Seq(MessagesFor(own))
    BY ConcatProperties DEF Request, OwnedBy
  <2>2. \A s \in Subsurfaces : subsurface'[s].state = "none" => own[s] = None
    BY DEF OwnedBy, NoneCreated
  <2>3. \A s \in Subsurfaces : Live(subsurface'[s]) => own[s] = subsurface'[s].parent
    BY DEF OwnedBy, NoneCreated
  <2>4. \A s \in Subsurfaces : subsurfaces'[s] # None => subsurfaces'[s].parent = own[s]
    BY DEF OwnedBy, Request, dart
  <2> QED BY <2>1, <2>2, <2>3, <2>4 DEF OwnedBy, Live
<1> QED BY <1>1 DEF OneParent

\* Quiet messages are messages, and unmap nothing.
LEMMA QuietNoUnmap ==
  ASSUME NEW own, NEW ms \in Seq(Quiet(own))
  PROVE  /\ ms \in Seq(MessagesFor(own))
         /\ \A t : \A i \in 1..Len(ms) : ~Unmaps(ms, t, i)
<1>1. Quiet(own) \subseteq MessagesFor(own)
  BY DEF Quiet
<1>2. \A i \in 1..Len(ms) : ms[i] \in Quiet(own)
  BY ElementOfSeq
<1> QED BY <1>1, <1>2, SeqMonotonic DEF Unmaps, Quiet

\* A request that sends quiet messages and maps no toplevel.
LEMMA QuietRequest ==
  ASSUME NEW own \in [Subsurfaces -> Maybe(Toplevels)], OwnedBy(own), NoneCreated,
         UnmapsMatched, NEW ms \in Seq(Quiet(own)), Request(ms),
         \A t \in Toplevels : toplevel'[t].state = "mapped" => toplevel[t].state = "mapped"
  PROVE  OneParent' /\ UnmapsMatched'
<1>1. /\ ms \in Seq(MessagesFor(own))
      /\ \A t : \A i \in 1..Len(ms) : ~Unmaps(ms, t, i)
  BY QuietNoUnmap
<1>2. OneParent'
  BY <1>1, SentOwned
<1>3. ASSUME NEW t \in Toplevels
      PROVE  /\ Matched(channel', surfaces', t)
             /\ toplevel'[t].state = "mapped" => ShownAtEnd(channel', surfaces', t)
  <2> DEFINE M == MessagesFor(own)
  <2>1. channel \in Seq(M) /\ ms \in Seq(M) /\ channel' = channel \o ms
        /\ surfaces' = surfaces
    BY <1>1 DEF OwnedBy, Request, dart
  <2>2. /\ Matched(channel, surfaces, t)
        /\ toplevel'[t].state = "mapped" => ShownAtEnd(channel, surfaces, t)
    BY DEF UnmapsMatched
  <2> HIDE DEF M
  <2>3. /\ Matched(channel, surfaces, t) => Matched(channel \o ms, surfaces, t)
        /\ ShownAtEnd(channel, surfaces, t) => ShownAtEnd(channel \o ms, surfaces, t)
    BY <1>1, <2>1, SendOther
  <2> QED BY <2>1, <2>2, <2>3
<1>4. UnmapsMatched'
  BY <1>3 DEF UnmapsMatched, Matched, ShownAtEnd, Shown, Maps, Unmaps
<1> QED BY <1>2, <1>4

\* Unmapping toplevel t sends its own message, if any, and then quiet ones.
LEMMA FamilyMessages ==
  ASSUME NEW own, NEW t \in Toplevels
  PROVE  \E a \in Seq(Quiet(own)) :
            UnmapMessages(t) =
               (IF toplevel[t].state = "mapped" THEN <<SurfaceUnmap(t)>> ELSE <<>>) \o a
<1> DEFINE S == MappedChildrenOf(t)
           P == MappedPopupsOf(t)
           M == MessagesFor(own)
           first == IF toplevel[t].state = "mapped" THEN <<SurfaceUnmap(t)>> ELSE <<>>
           a == SetToSeq({SubsurfaceUnmap(s) : s \in S})
           b == SetToSeq({PopupUnmap(p) : p \in P})
<1>1. S \subseteq Subsurfaces /\ P \subseteq Popups
  BY DEF MappedChildrenOf, ChildrenOf, MappedPopupsOf, PopupsOf
<1>2. IsFiniteSet(S) /\ IsFiniteSet(P)
  BY <1>1, FiniteClients, FS_Subset
<1>3. a \in Seq(Quiet(own))
  <2> DEFINE f == [s \in S |-> SubsurfaceUnmap(s)]
  <2>1. f \in [S -> Quiet(own)]
    BY <1>1, MessagesSent
  <2>2. {f[s] : s \in S} = {SubsurfaceUnmap(s) : s \in S}
    OBVIOUS
  <2> HIDE DEF f, S
  <2>3. SetToSeq({f[s] : s \in S}) \in Seq(Quiet(own))
    BY <1>2, <2>1, ValuesType
  <2> QED BY <2>2, <2>3
<1>4. b \in Seq(Quiet(own))
  <2> DEFINE f == [p \in P |-> PopupUnmap(p)]
  <2>1. f \in [P -> Quiet(own)]
    BY <1>1, MessagesSent
  <2>2. {f[p] : p \in P} = {PopupUnmap(p) : p \in P}
    OBVIOUS
  <2> HIDE DEF f, P
  <2>3. SetToSeq({f[p] : p \in P}) \in Seq(Quiet(own))
    BY <1>2, <2>1, ValuesType
  <2> QED BY <2>2, <2>3
<1>5. first \in Seq(M)
  BY MessagesSent
<1>6. UnmapMessages(t) = (first \o a) \o b
  BY DEF UnmapMessages
<1>7. a \in Seq(M) /\ b \in Seq(M)
  BY <1>3, <1>4, QuietNoUnmap
<1>8. a \o b \in Seq(Quiet(own))
  BY <1>3, <1>4, ConcatProperties
<1> HIDE DEF a, b, first, M
<1>9. UnmapMessages(t) = first \o (a \o b)
  BY <1>5, <1>6, <1>7, ConcatAssociative
<1> QED BY <1>8, <1>9 DEF first

\* A toplevel is unmapped or destroyed: its unmap message finds it shown.
LEMMA FamilyRequest ==
  ASSUME NEW own \in [Subsurfaces -> Maybe(Toplevels)], OwnedBy(own), NoneCreated,
         UnmapsMatched, NEW t \in Toplevels, Request(UnmapMessages(t)),
         toplevel'[t].state # "mapped",
         \A x \in Toplevels : toplevel'[x].state = "mapped" => toplevel[x].state = "mapped"
  PROVE  OneParent' /\ UnmapsMatched'
<1> DEFINE M == MessagesFor(own)
           first == IF toplevel[t].state = "mapped" THEN <<SurfaceUnmap(t)>> ELSE <<>>
<1>1. PICK a \in Seq(Quiet(own)) : UnmapMessages(t) = first \o a
  BY FamilyMessages
<1>2. /\ a \in Seq(M)
      /\ \A x : \A i \in 1..Len(a) : ~Unmaps(a, x, i)
  BY QuietNoUnmap
<1>3. SurfaceUnmap(t) \in M
  BY MessagesSent
<1>4. first \in Seq(M)
  BY <1>3
<1>5. /\ channel \in Seq(M) /\ channel' = channel \o UnmapMessages(t)
      /\ surfaces' = surfaces
  BY DEF OwnedBy, Request, dart
<1> HIDE DEF M
<1>6. UnmapMessages(t) \in Seq(M)
  BY <1>1, <1>2, <1>4, ConcatProperties
<1>7. OneParent'
  BY <1>6, SentOwned DEF M
<1>8. ASSUME NEW x \in Toplevels
      PROVE  /\ Matched(channel', surfaces', x)
             /\ toplevel'[x].state = "mapped" => ShownAtEnd(channel', surfaces', x)
  <2> DEFINE ch == channel \o first
  <2>1. ch \in Seq(M)
    BY <1>4, <1>5, ConcatProperties
  <2>2. channel' = ch \o a
    <3> HIDE DEF first
    <3>1. (channel \o first) \o a = channel \o (first \o a)
      BY <1>2, <1>4, <1>5, ConcatAssociative
    <3>2. channel' = channel \o (first \o a)
      BY <1>1, <1>5
    <3> QED BY <3>1, <3>2
  <2>3. /\ Matched(channel, surfaces, x)
        /\ toplevel[x].state = "mapped" => ShownAtEnd(channel, surfaces, x)
    BY DEF UnmapsMatched
  <2>4. Matched(ch, surfaces, x)
        /\ (toplevel'[x].state = "mapped" => ShownAtEnd(ch, surfaces, x))
    <3>1. CASE x = t /\ toplevel[t].state = "mapped"
      <4> DEFINE u == SurfaceUnmap(t)
      <4>1. ch = channel \o <<u>> /\ u \in M
        BY <1>3, <3>1
      <4> HIDE DEF u, ch
      <4>2. Matched(channel \o <<u>>, surfaces, x)
        BY <1>5, <2>3, <3>1, <4>1, SendUnmap
      <4> QED BY <3>1, <4>1, <4>2
    <3>2. CASE toplevel[t].state # "mapped"
      <4>1. ch = channel
        BY <1>5, <3>2, ConcatEmptySeq
      <4> QED BY <2>3, <4>1
    <3>3. CASE x # t
      <4>1. \A i \in 1..Len(first) : ~Unmaps(first, x, i)
        BY <3>3 DEF Unmaps, SurfaceUnmap
      <4> HIDE DEF first
      <4>2. /\ Matched(channel, surfaces, x) => Matched(channel \o first, surfaces, x)
            /\ ShownAtEnd(channel, surfaces, x) => ShownAtEnd(channel \o first, surfaces, x)
        BY <1>4, <1>5, <4>1, SendOther
      <4> QED BY <2>3, <4>2
    <3> QED BY <3>1, <3>2, <3>3
  <2> HIDE DEF ch
  <2>5. /\ Matched(ch, surfaces, x) => Matched(ch \o a, surfaces, x)
        /\ ShownAtEnd(ch, surfaces, x) => ShownAtEnd(ch \o a, surfaces, x)
    BY <1>2, <2>1, SendOther
  <2> QED BY <1>5, <2>2, <2>4, <2>5
<1>9. UnmapsMatched'
  BY <1>8 DEF UnmapsMatched, Matched, ShownAtEnd, Shown, Maps, Unmaps
<1> QED BY <1>7, <1>9

\* A toplevel's map message goes with quiet ones, before or after them.
LEMMA MapRequest ==
  ASSUME NEW own \in [Subsurfaces -> Maybe(Toplevels)], OwnedBy(own), NoneCreated,
         UnmapsMatched, NEW t \in Toplevels, NEW g \in Sizes,
         NEW a \in Seq(Quiet(own)),
         \/ Request(<<SurfaceMap(t, g)>> \o a)
         \/ Request(a \o <<SurfaceMap(t, g)>>),
         \A x \in Toplevels \ {t} :
            toplevel'[x].state = "mapped" => toplevel[x].state = "mapped"
  PROVE  OneParent' /\ UnmapsMatched'
<1> DEFINE M == MessagesFor(own)
           m == SurfaceMap(t, g)
<1>1. /\ a \in Seq(M) /\ Len(a) \in Nat
      /\ \A x : \A i \in 1..Len(a) : ~Unmaps(a, x, i)
  BY QuietNoUnmap, LenProperties
<1>2. m \in M /\ m.type = "surface_map" /\ m.handle = t
  BY MessagesSent DEF SurfaceMap
<1> HIDE DEF m, M
<1>3. /\ <<m>> \in Seq(M) /\ Len(<<m>>) = 1 /\ <<m>>[1] = m
  BY <1>2
<1>4. PICK ms \in {<<m>> \o a, a \o <<m>>} : Request(ms)
  BY DEF m
<1>5. /\ ms \in Seq(M)
      /\ \A x : \A i \in 1..Len(ms) : ~Unmaps(ms, x, i)
      /\ \E j \in 1..Len(ms) : Maps(ms, t, j)
  <2>1. CASE ms = <<m>> \o a
    <3>1. /\ ms \in Seq(M) /\ Len(ms) = 1 + Len(a)
          /\ \A i \in 1..(1 + Len(a)) : ms[i] = IF i <= 1 THEN m ELSE a[i - 1]
      BY <1>1, <1>3, <2>1, ConcatProperties
    <3>2. \A x : \A i \in 1..Len(ms) : ~Unmaps(ms, x, i)
      <4> SUFFICES ASSUME NEW x, NEW i \in 1..Len(ms) PROVE ~Unmaps(ms, x, i)
        OBVIOUS
      <4>1. CASE i = 1
        BY <1>1, <1>2, <3>1, <4>1 DEF Unmaps
      <4>2. CASE i # 1
        <5>1. i - 1 \in 1..Len(a) /\ ms[i] = a[i - 1]
          BY <1>1, <3>1, <4>2
        <5> QED BY <1>1, <5>1 DEF Unmaps
      <4> QED BY <4>1, <4>2
    <3>3. 1 \in 1..Len(ms) /\ Maps(ms, t, 1)
      BY <1>1, <1>2, <3>1 DEF Maps
    <3> QED BY <3>1, <3>2, <3>3
  <2>2. CASE ms = a \o <<m>>
    <3>1. /\ ms \in Seq(M) /\ Len(ms) = Len(a) + 1
          /\ \A i \in 1..(Len(a) + 1) : ms[i] = IF i <= Len(a) THEN a[i] ELSE m
      <4>1. /\ ms \in Seq(M) /\ Len(ms) = Len(a) + 1
            /\ \A i \in 1..(Len(a) + 1) :
                  ms[i] = IF i <= Len(a) THEN a[i] ELSE <<m>>[i - Len(a)]
        BY <1>1, <1>3, <2>2, ConcatProperties
      <4>2. \A i \in 1..(Len(a) + 1) : ~(i <= Len(a)) => i - Len(a) = 1
        BY <1>1
      <4> QED BY <1>3, <4>1, <4>2
    <3>2. \A x : \A i \in 1..Len(ms) : ~Unmaps(ms, x, i)
      <4> SUFFICES ASSUME NEW x, NEW i \in 1..Len(ms) PROVE ~Unmaps(ms, x, i)
        OBVIOUS
      <4>1. CASE i <= Len(a)
        <5>1. i \in 1..Len(a) /\ ms[i] = a[i]
          BY <1>1, <3>1, <4>1
        <5> QED BY <1>1, <5>1 DEF Unmaps
      <4>2. CASE ~(i <= Len(a))
        BY <1>2, <3>1, <4>2 DEF Unmaps
      <4> QED BY <4>1, <4>2
    <3>3. Len(a) + 1 \in 1..Len(ms) /\ ms[Len(a) + 1] = m
      BY <1>1, <3>1
    <3>4. Maps(ms, t, Len(a) + 1)
      BY <1>2, <3>3 DEF Maps
    <3> QED BY <3>1, <3>2, <3>3, <3>4
  <2> QED BY <1>4, <2>1, <2>2
<1>6. OneParent'
  BY <1>4, <1>5, SentOwned DEF M
<1>7. channel \in Seq(M) /\ channel' = channel \o ms /\ surfaces' = surfaces
  BY <1>4 DEF OwnedBy, Request, dart, M
<1>8. ASSUME NEW x \in Toplevels
      PROVE  /\ Matched(channel', surfaces', x)
             /\ toplevel'[x].state = "mapped" => ShownAtEnd(channel', surfaces', x)
  <2>1. /\ Matched(channel, surfaces, x) => Matched(channel \o ms, surfaces, x)
        /\ ShownAtEnd(channel, surfaces, x) => ShownAtEnd(channel \o ms, surfaces, x)
    BY <1>5, <1>7, SendOther
  <2>2. ShownAtEnd(channel \o ms, surfaces, t)
    BY <1>5, <1>7, SendMap
  <2> QED BY <1>7, <2>1, <2>2 DEF UnmapsMatched
<1>9. UnmapsMatched'
  BY <1>8 DEF UnmapsMatched, Matched, ShownAtEnd, Shown, Maps, Unmaps
<1> QED BY <1>6, <1>9

\* Every request on a toplevel keeps parents and unmaps in order.
LEMMA ToplevelRequests ==
  ASSUME ClientInv, OneParent, UnmapsMatched, ToplevelNext
  PROVE  OneParent' /\ UnmapsMatched'
<1> PICK t \in Toplevels :
        \/ NewToplevel(t) \/ UnmapToplevel(t) \/ DestroyToplevel(t)
        \/ \E g \in Sizes : MapToplevel(t, g) \/ CommitToplevel(t, g)
  BY DEF ToplevelNext
<1> PICK own \in [Subsurfaces -> Maybe(Toplevels)] : OwnedBy(own)
  BY DEF OneParent
<1>1. toplevel \in [Toplevels -> ToplevelRecord] /\ <<>> \in Seq(Quiet(own))
  BY EmptySeq DEF ClientInv, ClientTypeOK
<1>2. subsurface' = ChildrenUnmapped(t) => NoneCreated
  <2> SUFFICES ASSUME subsurface' = ChildrenUnmapped(t), NEW s \in Subsurfaces
               PROVE  /\ subsurface'[s].state = "none" => subsurface[s].state = "none"
                      /\ Live(subsurface'[s]) =>
                            /\ Live(subsurface[s])
                            /\ subsurface'[s].parent = subsurface[s].parent
    BY DEF NoneCreated
  <2>1. subsurface[s] \in SubsurfaceRecord
    BY DEF ClientInv, ClientTypeOK
  <2> QED BY <2>1 DEF ChildrenUnmapped, ChildrenOf, SubsurfaceRecord, Live
<1>3. subsurface' = subsurface => NoneCreated
  BY DEF NoneCreated
<1>4. CASE NewToplevel(t)
  <2>1. /\ Request(<<>>) /\ NoneCreated
        /\ \A x \in Toplevels : toplevel'[x].state = "mapped" => toplevel[x].state = "mapped"
    BY <1>1, <1>3, <1>4 DEF NewToplevel, ToplevelRecord
  <2> QED BY <1>1, <2>1, QuietRequest
<1>5. CASE UnmapToplevel(t)
  <2>1. /\ Request(UnmapMessages(t)) /\ NoneCreated /\ toplevel'[t].state # "mapped"
        /\ \A x \in Toplevels : toplevel'[x].state = "mapped" => toplevel[x].state = "mapped"
    BY <1>1, <1>2, <1>5 DEF UnmapToplevel, ToplevelRecord
  <2> QED BY <2>1, FamilyRequest
<1>6. CASE DestroyToplevel(t)
  <2>1. /\ Request(UnmapMessages(t)) /\ NoneCreated /\ toplevel'[t].state # "mapped"
        /\ \A x \in Toplevels : toplevel'[x].state = "mapped" => toplevel[x].state = "mapped"
    BY <1>1, <1>2, <1>6 DEF DestroyToplevel, ToplevelRecord, NoToplevel
  <2> QED BY <2>1, FamilyRequest
<1>7. ASSUME NEW g \in Sizes, MapToplevel(t, g)
      PROVE  OneParent' /\ UnmapsMatched'
  <2> DEFINE mapping == {s \in ChildrenOf(t) : subsurface[s].buffer}
  <2>1. PICK box \in [mapping -> Sizes] :
          /\ \/ Request(<<SurfaceMap(t, g)>>
                        \o SetToSeq({SubsurfaceMap(s, t, box[s]) : s \in mapping}))
             \/ Request(SetToSeq({SubsurfaceMap(s, t, box[s]) : s \in mapping})
                        \o <<SurfaceMap(t, g)>>)
          /\ subsurface' = [s \in Subsurfaces |->
                IF s \in mapping
                THEN [subsurface[s] EXCEPT !.state = "mapped", !.box = box[s]]
                ELSE subsurface[s]]
          /\ toplevel' = [toplevel EXCEPT ![t] = [state |-> "mapped", geo |-> g]]
    BY <1>7 DEF MapToplevel
  <2> DEFINE a == SetToSeq({SubsurfaceMap(s, t, box[s]) : s \in mapping})
             f == [s \in mapping |-> SubsurfaceMap(s, t, box[s])]
  <2>2. \A s \in mapping : s \in Subsurfaces /\ Live(subsurface[s]) /\ own[s] = t
    BY DEF ChildrenOf, OwnedBy
  <2>3. f \in [mapping -> Quiet(own)]
    <3> SUFFICES ASSUME NEW s \in mapping PROVE SubsurfaceMap(s, t, box[s]) \in Quiet(own)
      OBVIOUS
    <3>1. s \in Subsurfaces /\ own[s] = t /\ box[s] \in Sizes
      BY <2>1, <2>2
    <3> HIDE DEF mapping
    <3> QED BY <3>1, MessagesSent
  <2>4. IsFiniteSet(mapping)
    BY <2>2, FiniteClients, FS_Subset
  <2>5. {f[s] : s \in mapping} = {SubsurfaceMap(s, t, box[s]) : s \in mapping}
    OBVIOUS
  <2>6. NoneCreated
    <3> SUFFICES ASSUME NEW s \in Subsurfaces
                 PROVE  /\ subsurface'[s].state = "none" => subsurface[s].state = "none"
                        /\ Live(subsurface'[s]) =>
                              /\ Live(subsurface[s])
                              /\ subsurface'[s].parent = subsurface[s].parent
      BY DEF NoneCreated
    <3>1. subsurface[s] \in SubsurfaceRecord
      BY DEF ClientInv, ClientTypeOK
    <3>2. CASE s \in mapping
      <4>1. subsurface'[s] = [subsurface[s] EXCEPT !.state = "mapped", !.box = box[s]]
        BY <2>1, <3>2
      <4> QED BY <2>2, <3>1, <3>2, <4>1 DEF SubsurfaceRecord
    <3>3. CASE s \notin mapping
      <4>1. subsurface'[s] = subsurface[s]
        BY <2>1, <3>3
      <4> QED BY <4>1
    <3> QED BY <3>2, <3>3
  <2>7. \A x \in Toplevels \ {t} :
            toplevel'[x].state = "mapped" => toplevel[x].state = "mapped"
    BY <1>1, <2>1
  <2>8. \/ Request(<<SurfaceMap(t, g)>> \o a)
        \/ Request(a \o <<SurfaceMap(t, g)>>)
    BY <2>1
  <2> HIDE DEF mapping, f
  <2>9. a \in Seq(Quiet(own))
    <3>1. SetToSeq({f[s] : s \in mapping}) \in Seq(Quiet(own))
      BY <2>3, <2>4, ValuesType
    <3> QED BY <2>5, <3>1
  <2> HIDE DEF a
  <2> QED BY <2>6, <2>7, <2>8, <2>9, MapRequest
<1>8. ASSUME NEW g \in Sizes, CommitToplevel(t, g)
      PROVE  OneParent' /\ UnmapsMatched'
  <2> DEFINE ms == IF g # toplevel[t].geo THEN <<SurfaceGeometry(t, g)>> ELSE <<>>
  <2>1. ms \in Seq(Quiet(own))
    BY MessagesSent
  <2>2. Request(ms)
    BY <1>8 DEF CommitToplevel
  <2>3. /\ NoneCreated
        /\ \A x \in Toplevels : toplevel'[x].state = "mapped" => toplevel[x].state = "mapped"
    BY <1>1, <1>3, <1>8 DEF CommitToplevel, ToplevelRecord
  <2> HIDE DEF ms
  <2> QED BY <2>1, <2>2, <2>3, QuietRequest
<1> QED BY <1>4, <1>5, <1>6, <1>7, <1>8

\* So does one on a subsurface; a new one takes its parent before any message.
LEMMA SubsurfaceRequests ==
  ASSUME ClientInv, DartInv, OneParent, UnmapsMatched, SubsurfaceNext
  PROVE  OneParent' /\ UnmapsMatched'
<1> PICK s \in Subsurfaces :
        \/ \E t \in Toplevels : NewSubsurface(s, t)
        \/ \E b \in Sizes : MapSubsurface(s, b) \/ CommitSubsurface(s, b)
        \/ UnmapSubsurface(s) \/ DestroySubsurface(s) \/ Crash(s)
  BY DEF SubsurfaceNext
<1> PICK own \in [Subsurfaces -> Maybe(Toplevels)] : OwnedBy(own)
  BY DEF OneParent
<1>1. /\ subsurface \in [Subsurfaces -> SubsurfaceRecord]
      /\ subsurface[s] \in SubsurfaceRecord
      /\ Live(subsurface[s]) => own[s] = subsurface[s].parent /\ own[s] \in Toplevels
      /\ <<>> \in Seq(Quiet(own))
  BY EmptySeq DEF ClientInv, ClientTypeOK, RecordsFilled, OwnedBy
<1>2. ASSUME NEW t \in Toplevels, NewSubsurface(s, t)
      PROVE  OneParent' /\ UnmapsMatched'
  <2> DEFINE next == [own EXCEPT ![s] = t]
  <2>1. /\ subsurface[s].state = "none" /\ Request(<<>>) /\ toplevel' = toplevel
        /\ subsurface' = [subsurface EXCEPT ![s] =
                            [NoSubsurface EXCEPT !.state = "unmapped", !.parent = t]]
    BY <1>2 DEF NewSubsurface
  <2>2. own[s] = None
    BY <2>1 DEF OwnedBy
  <2>3. channel \in Seq(MessagesFor(own)) /\ channel' = channel \o <<>> /\ UNCHANGED dart
    BY <2>1 DEF OwnedBy, Request
  <2>4. channel' = channel
    BY <2>3, ConcatEmptySeq
  <2>5. next \in [Subsurfaces -> Maybe(Toplevels)]
    BY DEF Maybe
  <2>6. MessagesFor(own) \subseteq MessagesFor(next)
    <3> SUFFICES ASSUME NEW m \in Messages, m.type = "subsurface_map",
                        m.parent = own[m.handle]
                 PROVE  m.parent = next[m.handle]
      BY DEF MessagesFor
    <3>1. m.handle \in Subsurfaces /\ m.parent \in Toplevels
      BY MessageFields
    <3>2. m.handle # s
      BY <2>2, <3>1, Kinds
    <3> QED BY <3>1, <3>2
  <2>7. channel' \in Seq(MessagesFor(next))
    BY <2>3, <2>4, <2>6, SeqMonotonic
  <2>8. subsurface'[s].state = "unmapped" /\ subsurface'[s].parent = t
    BY <1>1, <2>1 DEF NoSubsurface
  <2>9. \A x \in Subsurfaces \ {s} : subsurface'[x] = subsurface[x] /\ next[x] = own[x]
    BY <1>1, <2>1
  <2>10. next[s] = t
    OBVIOUS
  <2>11. subsurfaces' = subsurfaces /\ \A x \in Subsurfaces : subsurfaces[x] # None =>
            subsurfaces[x].parent = next[x]
    <3>1. subsurfaces[s] = None
      <4>1. subsurfaces[s] # None => subsurfaces[s].parent \in Toplevels
        BY DEF DartInv, DartTypeOK, Maybe
      <4> QED BY <2>2, <4>1, Kinds DEF OwnedBy
    <3>2. subsurfaces' = subsurfaces
      BY <2>3 DEF dart
    <3> QED BY <3>1, <3>2 DEF OwnedBy
  <2> HIDE DEF next
  <2>12. OwnedBy(next)'
    <3>1. \A x \in Subsurfaces : subsurface'[x].state = "none" => next[x] = None
      BY <2>8, <2>9 DEF OwnedBy
    <3>2. \A x \in Subsurfaces : Live(subsurface'[x]) => next[x] = subsurface'[x].parent
      BY <2>8, <2>9, <2>10 DEF OwnedBy
    <3> QED BY <2>7, <2>11, <3>1, <3>2 DEF OwnedBy, Live
  <2>13. OneParent'
    BY <2>5, <2>12 DEF OneParent
  <2>14. surfaces' = surfaces
    BY <2>3 DEF dart
  <2>15. UnmapsMatched'
    BY <2>1, <2>4, <2>14 DEF UnmapsMatched, Matched, ShownAtEnd, Shown, Maps, Unmaps
  <2> QED BY <2>13, <2>15
<1>3. ASSUME NoneCreated, toplevel' = toplevel, NEW ms \in Seq(Quiet(own)), Request(ms)
      PROVE  OneParent' /\ UnmapsMatched'
  BY <1>3, QuietRequest
<1>4. ASSUME NEW b \in Sizes, MapSubsurface(s, b)
      PROVE  OneParent' /\ UnmapsMatched'
  <2>1. own[s] = subsurface[s].parent /\ own[s] \in Toplevels
    BY <1>1, <1>4 DEF MapSubsurface, Live
  <2> DEFINE m == SubsurfaceMap(s, own[s], b)
  <2>2. m \in Quiet(own)
    BY <2>1, MessagesSent
  <2>3. Request(<<m>>) /\ toplevel' = toplevel
    BY <1>4, <2>1 DEF MapSubsurface
  <2>4. NoneCreated
    BY <1>1, <1>4 DEF MapSubsurface, NoneCreated, SubsurfaceRecord, Live
  <2> HIDE DEF m
  <2>5. <<m>> \in Seq(Quiet(own))
    BY <2>2
  <2> QED BY <1>3, <2>3, <2>4, <2>5
<1>5. ASSUME NEW b \in Sizes, CommitSubsurface(s, b)
      PROVE  OneParent' /\ UnmapsMatched'
  <2> DEFINE ms == IF b # subsurface[s].box THEN <<SubsurfacePosition(s, b)>> ELSE <<>>
  <2>1. ms \in Seq(Quiet(own))
    BY MessagesSent
  <2>2. Request(ms) /\ toplevel' = toplevel
    BY <1>5 DEF CommitSubsurface
  <2>3. NoneCreated
    BY <1>1, <1>5 DEF CommitSubsurface, NoneCreated, SubsurfaceRecord, Live
  <2> HIDE DEF ms
  <2> QED BY <1>3, <2>1, <2>2, <2>3
<1>6. CASE UnmapSubsurface(s)
  <2> DEFINE ms == <<SubsurfaceUnmap(s)>>
  <2>1. ms \in Seq(Quiet(own))
    BY MessagesSent
  <2>2. Request(ms) /\ toplevel' = toplevel
    BY <1>6 DEF UnmapSubsurface
  <2>3. NoneCreated
    BY <1>1, <1>6 DEF UnmapSubsurface, NoneCreated, SubsurfaceRecord, Live
  <2> HIDE DEF ms
  <2> QED BY <1>3, <2>1, <2>2, <2>3
<1>7. CASE DestroySubsurface(s)
  <2> DEFINE ms == IF subsurface[s].state = "mapped" THEN <<SubsurfaceUnmap(s)>> ELSE <<>>
  <2>1. ms \in Seq(Quiet(own))
    BY MessagesSent
  <2>2. Request(ms) /\ toplevel' = toplevel
    BY <1>7 DEF DestroySubsurface
  <2>3. NoneCreated
    BY <1>1, <1>7 DEF DestroySubsurface, NoneCreated, NoSubsurface, Live
  <2> HIDE DEF ms
  <2> QED BY <1>3, <2>1, <2>2, <2>3
<1>8. CASE Crash(s)
  <2>1. NoneCreated /\ toplevel' = toplevel /\ Request(<<>>)
    BY <1>8 DEF Crash, NoneCreated
  <2> QED BY <1>1, <1>3, <2>1
<1> QED BY <1>2, <1>4, <1>5, <1>6, <1>7, <1>8

\* So does one on a popup, none of whose messages is about a toplevel.
LEMMA PopupRequests ==
  ASSUME ClientInv, OneParent, UnmapsMatched, PopupNext
  PROVE  OneParent' /\ UnmapsMatched'
<1> PICK p \in Popups :
        \/ \E parent \in Toplevels \cup Popups, place \in Places :
                NewPopup(p, parent, place)
        \/ \E place \in Places : ConstrainPopup(p, place)
        \/ \E place \in Places, size \in Sizes : RepositionPopup(p, place, size)
        \/ \E size \in Sizes : MapPopup(p, size)
        \/ \E size \in Sizes, acknowledge \in BOOLEAN : CommitPopup(p, size, acknowledge)
        \/ UnmapPopup(p) \/ DestroyPopup(p)
  BY DEF PopupNext
<1> PICK own \in [Subsurfaces -> Maybe(Toplevels)] : OwnedBy(own)
  BY DEF OneParent
<1>1. /\ popup \in [Popups -> PopupRecord]
      /\ <<>> \in Seq(Quiet(own))
      /\ PopupUnmap(p) \in Quiet(own)
  BY EmptySeq, MessagesSent DEF ClientInv, ClientTypeOK
<1>2. ClientInv'
  BY PopupClientInv
<1>3. popup'[p].state = "mapped" => PopupMap(p, popup'[p]) \in Quiet(own)
  <2> DEFINE r == popup'[p]
  <2>1. r.state = "mapped" =>
            r.parent \in Toplevels /\ r.size \in Sizes /\ r.current \in Places
    BY <1>2 DEF ClientInv, RecordsFilled, Live
  <2> HIDE DEF r
  <2>2. r.state = "mapped" => PopupMap(p, r) \in Quiet(own)
    BY <2>1, PopupMessageSent
  <2> QED BY <2>2 DEF r
<1>4. ASSUME UNCHANGED <<toplevel, subsurface>>, NEW ms \in Seq(Quiet(own)), Request(ms)
      PROVE  OneParent' /\ UnmapsMatched'
  <2>1. NoneCreated
    BY <1>4 DEF NoneCreated
  <2> QED BY <1>4, <2>1, QuietRequest
<1>5. \A m \in Quiet(own) : <<m>> \in Seq(Quiet(own))
  OBVIOUS
<1>6. ASSUME NEW parent \in Toplevels \cup Popups, NEW place \in Places,
             NewPopup(p, parent, place)
      PROVE  OneParent' /\ UnmapsMatched'
  BY <1>1, <1>4, <1>6 DEF NewPopup
<1>7. ASSUME NEW place \in Places, ConstrainPopup(p, place)
      PROVE  OneParent' /\ UnmapsMatched'
  BY <1>1, <1>4, <1>7 DEF ConstrainPopup
<1>8. ASSUME NEW place \in Places, NEW size \in Sizes, RepositionPopup(p, place, size)
      PROVE  OneParent' /\ UnmapsMatched'
  <2> DEFINE ms == IF popup[p].state = "mapped" THEN <<PopupMap(p, popup'[p])>> ELSE <<>>
  <2>1. popup'[p].state = popup[p].state
    BY <1>1, <1>8 DEF RepositionPopup, PopupRecord
  <2>2. ms \in Seq(Quiet(own))
    BY <1>1, <1>3, <1>5, <2>1
  <2>3. Request(ms) /\ UNCHANGED <<toplevel, subsurface>>
    BY <1>8 DEF RepositionPopup
  <2> HIDE DEF ms
  <2> QED BY <1>4, <2>2, <2>3
<1>9. ASSUME NEW size \in Sizes, MapPopup(p, size)
      PROVE  OneParent' /\ UnmapsMatched'
  <2>1. popup'[p].state = "mapped"
    BY <1>1, <1>9 DEF MapPopup, PopupRecord
  <2>2. <<PopupMap(p, popup'[p])>> \in Seq(Quiet(own))
    BY <1>3, <1>5, <2>1
  <2> QED BY <1>4, <1>9, <2>2 DEF MapPopup
<1>10. ASSUME NEW size \in Sizes, NEW acknowledge \in BOOLEAN,
              CommitPopup(p, size, acknowledge)
       PROVE  OneParent' /\ UnmapsMatched'
  <2> DEFINE ms == IF p \notin textures \/ size # popup[p].size
                   THEN <<PopupMap(p, popup'[p])>> ELSE <<>>
  <2>1. popup'[p].state = "mapped"
    BY <1>1, <1>10 DEF CommitPopup, PopupRecord
  <2>2. ms \in Seq(Quiet(own))
    BY <1>1, <1>3, <1>5, <2>1
  <2>3. Request(ms) /\ UNCHANGED <<toplevel, subsurface>>
    BY <1>10 DEF CommitPopup
  <2> HIDE DEF ms
  <2> QED BY <1>4, <2>2, <2>3
<1>11. CASE UnmapPopup(p)
  BY <1>1, <1>4, <1>5, <1>11 DEF UnmapPopup
<1>12. CASE DestroyPopup(p)
  <2> DEFINE ms == IF popup[p].state = "mapped" THEN <<PopupUnmap(p)>> ELSE <<>>
  <2>1. ms \in Seq(Quiet(own))
    BY <1>1, <1>5
  <2>2. Request(ms) /\ UNCHANGED <<toplevel, subsurface>>
    BY <1>12 DEF DestroyPopup
  <2> HIDE DEF ms
  <2> QED BY <1>4, <2>1, <2>2
<1> QED BY <1>6, <1>7, <1>8, <1>9, <1>10, <1>11, <1>12

-----------------------------------------------------------------------------
(* Dart's handlers.                                                        *)

\* The clients' side of the invariant rests on a message being received.
LEMMA Received ==
  ASSUME ClientInv, NEW own, OwnedBy(own), NEW type, Receive(type)
  PROVE  /\ ClientInv'
         /\ channel # <<>> /\ channel[1] \in MessagesFor(own) /\ channel[1].type = type
         /\ Head(channel) = channel[1]
         /\ channel' = Tail(channel) /\ channel' \in Seq(MessagesFor(own))
         /\ UNCHANGED <<toplevel, subsurface, popup>>
<1> DEFINE M == MessagesFor(own)
<1>1. channel \in Seq(M) /\ channel # <<>> /\ channel' = Tail(channel)
      /\ Head(channel).type = type
  BY DEF OwnedBy, Receive
<1> HIDE DEF M
<1>2. Head(channel) = channel[1] /\ Head(channel) \in M /\ Tail(channel) \in Seq(M)
  BY <1>1, HeadTailProperties
<1>3. ClientInv'
  BY DEF Receive, ClientInv, ClientTypeOK, RecordsFilled, TextureLifetime, Live
<1> QED BY <1>1, <1>2, <1>3 DEF M, Receive

\* What a received message does to the toplevels Dart shows.
LEMMA ReceivedMatched ==
  ASSUME NEW own, OwnedBy(own), UnmapsMatched, NEW type, Receive(type),
         \A t \in Toplevels :
            /\ Maps(channel, t, 1) => surfaces'[t] # None
            /\ surfaces[t] # None /\ ~Unmaps(channel, t, 1) => surfaces'[t] # None
  PROVE  UnmapsMatched'
<1> DEFINE M == MessagesFor(own)
<1>1. channel \in Seq(M) /\ channel # <<>> /\ channel' = Tail(channel)
      /\ toplevel' = toplevel
  BY DEF OwnedBy, Receive
<1> HIDE DEF M
<1>2. ASSUME NEW t \in Toplevels
      PROVE  /\ Matched(channel', surfaces', t)
             /\ toplevel'[t].state = "mapped" => ShownAtEnd(channel', surfaces', t)
  <2> DEFINE after == surfaces'
  <2>1. /\ Maps(channel, t, 1) => after[t] # None
        /\ surfaces[t] # None /\ ~Unmaps(channel, t, 1) => after[t] # None
    OBVIOUS
  <2> HIDE DEF after
  <2>2. /\ Matched(channel, surfaces, t) => Matched(Tail(channel), after, t)
        /\ ShownAtEnd(channel, surfaces, t) => ShownAtEnd(Tail(channel), after, t)
    BY <1>1, <2>1, ReceiveMatched
  <2> QED BY <1>1, <2>2 DEF UnmapsMatched, after
<1> QED BY <1>2 DEF UnmapsMatched, Matched, ShownAtEnd, Shown, Maps, Unmaps

\* Every message handler of compositor_dart.dart keeps the invariant.
LEMMA DartStep ==
  ASSUME ClientInv, DartInv, OneParent, UnmapsMatched, DartNext
  PROVE  ClientInv' /\ DartInv' /\ OneParent' /\ UnmapsMatched'
<1> PICK own \in [Subsurfaces -> Maybe(Toplevels)] : OwnedBy(own)
  BY DEF OneParent
<1> DEFINE m == channel[1]
<1>1. \A type : Receive(type) =>
        /\ ClientInv'
        /\ m \in Messages /\ m.type = type /\ Head(channel) = m
        /\ m.type = "subsurface_map" => m.parent = own[m.handle]
        /\ channel' \in Seq(MessagesFor(own))
        /\ UNCHANGED <<toplevel, subsurface, popup>>
  BY Received DEF MessagesFor
<1>2. ASSUME NEW type, Receive(type),
             \A s \in Subsurfaces : subsurfaces'[s] # None => subsurfaces'[s].parent = own[s]
      PROVE  OneParent'
  <2>1. OwnedBy(own)'
    BY <1>1, <1>2 DEF OwnedBy, Live
  <2> QED BY <2>1 DEF OneParent
<1>3. ASSUME NEW type, Receive(type), type # "surface_map", surfaces' = surfaces
      PROVE  UnmapsMatched'
  <2>1. \A t \in Toplevels :
            /\ Maps(channel, t, 1) => surfaces'[t] # None
            /\ surfaces[t] # None /\ ~Unmaps(channel, t, 1) => surfaces'[t] # None
    BY <1>1, <1>3 DEF Maps
  <2> QED BY <1>3, <2>1, ReceivedMatched
<1>4. subsurfaces' = subsurfaces =>
        \A s \in Subsurfaces : subsurfaces'[s] # None => subsurfaces'[s].parent = own[s]
  BY DEF OwnedBy
<1>5. /\ \A s \in Subsurfaces : subsurfaces[s] # None =>
            subsurfaces[s].parent = own[s] /\ subsurfaces[s] \in [parent : Toplevels, box : Sizes]
      /\ \A t \in Toplevels : \A s \in lists[t] :
            /\ s \in Subsurfaces /\ surfaces[t] # None
            /\ subsurfaces[s] # None /\ own[s] = t
  BY DEF DartInv, DartTypeOK, ListsHoldOwnChildren, OwnedBy, Maybe
<1> HIDE DEF m
<1>6. CASE OnSurfaceMap
  <2> DEFINE t == m.handle
  <2>1. /\ Receive("surface_map") /\ t \in Toplevels /\ m.geo \in Sizes
        /\ m.type = "surface_map"
        /\ surfaces' = [surfaces EXCEPT ![t] = m.geo]
        /\ lists' = [lists EXCEPT ![t] = {}]
        /\ subsurfaces' = subsurfaces /\ popups' = popups
    <3>1. Receive("surface_map")
      BY <1>6 DEF OnSurfaceMap
    <3> QED BY <1>1, <1>6, <3>1, MessageFields DEF OnSurfaceMap
  <2> HIDE DEF t
  <2>2. DartInv'
    <3>1. DartTypeOK'
      BY <2>1 DEF DartInv, DartTypeOK, Maybe
    <3>2. ListsHoldOwnChildren'
      BY <2>1, Kinds DEF DartInv, DartTypeOK, ListsHoldOwnChildren
    <3> QED BY <3>1, <3>2 DEF DartInv
  <2>3. \A x \in Toplevels :
            /\ Maps(channel, x, 1) => surfaces'[x] # None
            /\ surfaces[x] # None /\ ~Unmaps(channel, x, 1) => surfaces'[x] # None
    BY <2>1, Kinds DEF Maps, DartInv, DartTypeOK, t, m
  <2>4. UnmapsMatched'
    BY <2>1, <2>3, ReceivedMatched
  <2> QED BY <1>1, <1>2, <1>4, <2>1, <2>2, <2>4
<1>7. CASE OnSurfaceUnmap
  <2> DEFINE t == m.handle
  <2>1. /\ Receive("surface_unmap") /\ t \in Toplevels /\ m.type = "surface_unmap"
        /\ surfaces' = [surfaces EXCEPT ![t] = None]
        /\ lists' = [lists EXCEPT ![t] = {}]
        /\ subsurfaces' = subsurfaces /\ popups' = popups
    <3>1. Receive("surface_unmap")
      BY <1>7 DEF OnSurfaceUnmap
    <3> QED BY <1>1, <1>7, <3>1, MessageFields DEF OnSurfaceUnmap
  <2> HIDE DEF t
  <2>2. DartInv'
    <3>1. DartTypeOK'
      BY <2>1 DEF DartInv, DartTypeOK, Maybe
    <3>2. ListsHoldOwnChildren'
      BY <2>1 DEF DartInv, DartTypeOK, ListsHoldOwnChildren
    <3> QED BY <3>1, <3>2 DEF DartInv
  <2>3. \A x \in Toplevels :
            /\ Maps(channel, x, 1) => surfaces'[x] # None
            /\ surfaces[x] # None /\ ~Unmaps(channel, x, 1) => surfaces'[x] # None
    BY <2>1 DEF Maps, Unmaps, DartInv, DartTypeOK, t, m
  <2>4. UnmapsMatched'
    BY <2>1, <2>3, ReceivedMatched
  <2> QED BY <1>1, <1>2, <1>4, <2>1, <2>2, <2>4
<1>8. CASE OnSurfaceGeometry
  <2> DEFINE t == m.handle
  <2>1. /\ Receive("surface_geometry") /\ t \in Toplevels /\ m.geo \in Sizes
        /\ m.type = "surface_geometry"
        /\ surfaces' = [surfaces EXCEPT ![t] = IF surfaces[t] = None THEN None ELSE m.geo]
        /\ UNCHANGED <<lists, subsurfaces, popups>>
    <3>1. Receive("surface_geometry")
      BY <1>8 DEF OnSurfaceGeometry
    <3> QED BY <1>1, <1>8, <3>1, MessageFields DEF OnSurfaceGeometry
  <2> HIDE DEF t
  <2>2. \A x \in Toplevels : surfaces[x] # None => surfaces'[x] # None
    BY <2>1, Kinds DEF DartInv, DartTypeOK
  <2>3. DartInv'
    <3>1. DartTypeOK'
      BY <2>1 DEF DartInv, DartTypeOK, Maybe
    <3>2. ListsHoldOwnChildren'
      BY <2>1, <2>2 DEF DartInv, ListsHoldOwnChildren
    <3> QED BY <3>1, <3>2 DEF DartInv
  <2>4. \A x \in Toplevels :
            /\ Maps(channel, x, 1) => surfaces'[x] # None
            /\ surfaces[x] # None /\ ~Unmaps(channel, x, 1) => surfaces'[x] # None
    BY <2>1, <2>2 DEF Maps, m
  <2>5. UnmapsMatched'
    BY <2>1, <2>4, ReceivedMatched
  <2> QED BY <1>1, <1>2, <1>4, <2>1, <2>3, <2>5
<1>9. CASE OnSubsurfaceMap
  <2> DEFINE s == m.handle
             t == m.parent
             new == [parent |-> m.parent, box |-> m.box]
  <2>1. Receive("subsurface_map")
    BY <1>9 DEF OnSubsurfaceMap
  <2>2. /\ s \in Subsurfaces /\ t \in Toplevels /\ t = own[s] /\ m.box \in Sizes
    BY <1>1, <2>1, MessageFields
  <2>3. /\ subsurfaces' = [subsurfaces EXCEPT ![s] = new]
        /\ lists' = [lists EXCEPT ![t] = IF surfaces[t] = None THEN lists[t]
                                                               ELSE lists[t] \cup {s}]
        /\ surfaces' = surfaces /\ popups' = popups
    BY <1>1, <1>9, <2>1 DEF OnSubsurfaceMap
  <2>4. new \in [parent : Toplevels, box : Sizes] /\ new.parent = t
    BY <2>2
  <2>5. new # None
    BY <2>4, Kinds
  <2> HIDE DEF s, t, new
  <2>6. DartInv'
    <3>1. DartTypeOK'
      BY <2>2, <2>3, <2>4 DEF DartInv, DartTypeOK, Maybe
    <3>2. ASSUME NEW x \in Toplevels, NEW y \in lists'[x]
          PROVE  surfaces'[x] # None /\ subsurfaces'[y] # None /\ subsurfaces'[y].parent = x
      <4>1. (y = s /\ x = t /\ surfaces[t] # None) \/ y \in lists[x]
        BY <2>2, <2>3 DEF DartInv, DartTypeOK
      <4>2. CASE y = s /\ x = t /\ surfaces[t] # None
        BY <2>2, <2>3, <2>4, <2>5, <4>2 DEF DartInv, DartTypeOK
      <4>3. CASE y \in lists[x]
        <5>1. y \in Subsurfaces /\ surfaces[x] # None /\ subsurfaces[y] # None /\ own[y] = x
          BY <1>5, <4>3
        <5>2. subsurfaces[y].parent = x
          BY <1>5, <5>1
        <5> QED BY <2>2, <2>3, <2>4, <2>5, <5>1, <5>2 DEF DartInv, DartTypeOK
      <4> QED BY <4>1, <4>2, <4>3
    <3> QED BY <3>1, <3>2 DEF DartInv, ListsHoldOwnChildren
  <2>7. \A x \in Subsurfaces : subsurfaces'[x] # None => subsurfaces'[x].parent = own[x]
    BY <1>5, <2>2, <2>3, <2>4 DEF DartInv, DartTypeOK
  <2> QED BY <1>1, <1>2, <1>3, <2>1, <2>3, <2>6, <2>7
<1>10. CASE OnSubsurfaceUnmap
  <2> DEFINE s == m.handle
  <2>1. Receive("subsurface_unmap")
    BY <1>10 DEF OnSubsurfaceUnmap
  <2>2. s \in Subsurfaces
    BY <1>1, <2>1, MessageFields
  <2>3. /\ subsurfaces' = [subsurfaces EXCEPT ![s] = None]
        /\ lists' = [t \in Toplevels |->
                        IF subsurfaces[s] # None /\ subsurfaces[s].parent = t
                        THEN lists[t] \ {s} ELSE lists[t]]
        /\ surfaces' = surfaces /\ popups' = popups
    BY <1>1, <1>10, <2>1 DEF OnSubsurfaceUnmap
  <2> HIDE DEF s
  <2>4. ASSUME NEW x \in Toplevels, NEW y \in lists'[x]
        PROVE  y \in lists[x] /\ y # s
    <3>1. y \in lists[x]
      BY <2>3
    <3>2. s \in lists[x] => subsurfaces[s] # None /\ subsurfaces[s].parent = x
      BY <1>5, <2>2
    <3> QED BY <2>3, <3>1, <3>2
  <2>5. DartInv'
    <3>1. DartTypeOK'
      BY <2>2, <2>3 DEF DartInv, DartTypeOK, Maybe
    <3>2. ListsHoldOwnChildren'
      BY <2>2, <2>3, <2>4 DEF DartInv, DartTypeOK, ListsHoldOwnChildren
    <3> QED BY <3>1, <3>2 DEF DartInv
  <2>6. \A x \in Subsurfaces : subsurfaces'[x] # None => subsurfaces'[x].parent = own[x]
    BY <1>5, <2>2, <2>3 DEF DartInv, DartTypeOK
  <2> QED BY <1>1, <1>2, <1>3, <2>1, <2>3, <2>5, <2>6
<1>11. CASE OnSubsurfacePosition
  <2> DEFINE s == m.handle
             new == IF subsurfaces[s] = None THEN None
                    ELSE [subsurfaces[s] EXCEPT !.box = m.box]
  <2>1. Receive("subsurface_position")
    BY <1>11 DEF OnSubsurfacePosition
  <2>2. s \in Subsurfaces /\ m.box \in Sizes
    BY <1>1, <2>1, MessageFields
  <2>3. /\ subsurfaces' = [subsurfaces EXCEPT ![s] = new]
        /\ UNCHANGED <<surfaces, lists, popups>>
    BY <1>1, <1>11, <2>1 DEF OnSubsurfacePosition
  <2>4. /\ subsurfaces[s] = None => new = None
        /\ subsurfaces[s] # None => /\ new \in [parent : Toplevels, box : Sizes]
                                    /\ new.parent = subsurfaces[s].parent
    <3>1. subsurfaces[s] # None => subsurfaces[s] \in [parent : Toplevels, box : Sizes]
      BY <1>5, <2>2
    <3> QED BY <2>2, <3>1
  <2> HIDE DEF s, new
  <2>5. subsurfaces[s] # None => new # None
    BY <2>4, Kinds
  <2>6. DartInv'
    <3>1. DartTypeOK'
      BY <2>2, <2>3, <2>4 DEF DartInv, DartTypeOK, Maybe
    <3>2. ListsHoldOwnChildren'
      BY <2>2, <2>3, <2>4, <2>5 DEF DartInv, DartTypeOK, ListsHoldOwnChildren
    <3> QED BY <3>1, <3>2 DEF DartInv
  <2>7. \A x \in Subsurfaces : subsurfaces'[x] # None => subsurfaces'[x].parent = own[x]
    BY <1>5, <2>2, <2>3, <2>4 DEF DartInv, DartTypeOK
  <2> QED BY <1>1, <1>2, <1>3, <2>1, <2>3, <2>6, <2>7
<1>12. CASE OnPopupMap
  <2>1. Receive("popup_map")
    BY <1>12 DEF OnPopupMap
  <2>2. /\ m.handle \in Popups /\ m.parent \in Toplevels /\ m.size \in Sizes
        /\ m.place \in Places
    BY <1>1, <2>1, MessageFields
  <2>3. /\ popups' = [popups EXCEPT ![m.handle] =
                        [parent |-> m.parent, size |-> m.size, place |-> m.place]]
        /\ UNCHANGED <<surfaces, lists, subsurfaces>>
    BY <1>1, <1>12, <2>1 DEF OnPopupMap
  <2>4. DartInv'
    BY <2>2, <2>3 DEF DartInv, DartTypeOK, ListsHoldOwnChildren, Maybe
  <2> QED BY <1>1, <1>2, <1>3, <1>4, <2>1, <2>3, <2>4
<1>13. CASE OnPopupUnmap
  <2>1. Receive("popup_unmap")
    BY <1>13 DEF OnPopupUnmap
  <2>2. /\ popups' = [popups EXCEPT ![m.handle] = None]
        /\ UNCHANGED <<surfaces, lists, subsurfaces>>
    BY <1>1, <1>13, <2>1 DEF OnPopupUnmap
  <2>3. DartInv'
    BY <2>2 DEF DartInv, DartTypeOK, ListsHoldOwnChildren, Maybe
  <2> QED BY <1>1, <1>2, <1>3, <1>4, <2>1, <2>2, <2>3
<1> QED BY <1>6, <1>7, <1>8, <1>9, <1>10, <1>11, <1>12, <1>13 DEF DartNext

-----------------------------------------------------------------------------
(* The theorems.                                                           *)

\* The invariant holds before any client connects.
LEMMA InitIInv == Init => IInv
<1> SUFFICES ASSUME Init PROVE IInv
  OBVIOUS
<1>1. ClientInv
  BY DEF Init, ClientInv, ClientTypeOK, RecordsFilled, TextureLifetime, Live,
         NoToplevel, NoSubsurface, NoPopup, ToplevelRecord, SubsurfaceRecord, PopupRecord,
         States, Maybe
<1>2. DartInv
  BY DEF Init, DartInv, DartTypeOK, ListsHoldOwnChildren, Maybe
<1>3. OneParent
  <2> DEFINE own == [s \in Subsurfaces |-> None]
  <2>1. own \in [Subsurfaces -> Maybe(Toplevels)]
    BY DEF Maybe
  <2>2. OwnedBy(own)
    BY EmptySeq DEF OwnedBy, Init, NoSubsurface, Live
  <2> HIDE DEF own
  <2> QED BY <2>1, <2>2 DEF OneParent
<1>4. UnmapsMatched
  BY DEF Init, UnmapsMatched, Matched, NoToplevel
<1> QED BY <1>1, <1>2, <1>3, <1>4 DEF IInv

\* Every request and every message keeps the invariant.
LEMMA NextIInv == IInv /\ [Next]_vars => IInv'
<1> SUFFICES ASSUME IInv, [Next]_vars PROVE IInv'
  OBVIOUS
<1>1. ASSUME UNCHANGED dart PROVE DartInv'
  BY <1>1 DEF IInv, DartInv, DartTypeOK, ListsHoldOwnChildren, dart
<1>2. CASE ToplevelNext
  <2>1. UNCHANGED dart
    BY <1>2 DEF ToplevelNext, NewToplevel, UnmapToplevel, DestroyToplevel, MapToplevel,
                CommitToplevel, Request
  <2> QED BY <1>1, <1>2, <2>1, ToplevelClientInv, ToplevelRequests DEF IInv
<1>3. CASE SubsurfaceNext
  <2>1. UNCHANGED dart
    BY <1>3 DEF SubsurfaceNext, NewSubsurface, MapSubsurface, CommitSubsurface,
                UnmapSubsurface, DestroySubsurface, Crash, Request
  <2> QED BY <1>1, <1>3, <2>1, SubsurfaceClientInv, SubsurfaceRequests DEF IInv
<1>4. CASE PopupNext
  <2>1. UNCHANGED dart
    BY <1>4 DEF PopupNext, NewPopup, ConstrainPopup, RepositionPopup, MapPopup, CommitPopup,
                UnmapPopup, DestroyPopup, Request
  <2> QED BY <1>1, <1>4, <2>1, PopupClientInv, PopupRequests DEF IInv
<1>5. CASE DartNext
  BY <1>5, DartStep DEF IInv
<1>6. CASE UNCHANGED vars
  <2>1. ClientInv'
    BY <1>6 DEF vars, IInv, ClientInv, ClientTypeOK, RecordsFilled, TextureLifetime, Live
  <2>2. DartInv'
    BY <1>1, <1>6 DEF vars
  <2>3. OneParent'
    BY <1>6 DEF vars, dart, IInv, OneParent, OwnedBy, Live
  <2>4. UnmapsMatched'
    BY <1>6 DEF vars, dart, IInv, UnmapsMatched, Matched, ShownAtEnd, Shown, Maps, Unmaps
  <2> QED BY <2>1, <2>2, <2>3, <2>4 DEF IInv
<1> QED BY <1>2, <1>3, <1>4, <1>5, <1>6 DEF Next

\* The records, the copies and the messages under way agree at all times.
THEOREM InvariantHolds == Spec => []IInv
<1> QED BY InitIInv, NextIInv, PTL DEF Spec

\* Every record, copy and message keeps its type: what a message says of a
\* surface is never unset, whatever the client did in between.
THEOREM SurfacesTyped == Spec => []TypeOK
<1>1. IInv => TypeOK
  <2> SUFFICES ASSUME IInv PROVE TypeOK
    OBVIOUS
  <2>1. PICK own \in [Subsurfaces -> Maybe(Toplevels)] : OwnedBy(own)
    BY DEF IInv, OneParent
  <2>2. channel \in Seq(Messages)
    BY <2>1, SeqMonotonic DEF OwnedBy, MessagesFor
  <2> QED BY <2>2 DEF IInv, ClientInv, ClientTypeOK, DartInv, DartTypeOK, TypeOK
<1> QED BY <1>1, InvariantHolds, PTL

\* A texture is registered with the engine while its surface is mapped and
\* never outlives its record, in every order of unmaps and destructions.
THEOREM TexturesLiveWithSurfaces == Spec => []TextureLifetime
<1>1. IInv => TextureLifetime
  BY DEF IInv, ClientInv
<1> QED BY <1>1, InvariantHolds, PTL

\* A list of subsurfaces in Dart holds only the surface's own, known ones.
THEOREM ListsKeptByParent == Spec => []ListsHoldOwnChildren
<1>1. IInv => ListsHoldOwnChildren
  BY DEF IInv, DartInv
<1> QED BY <1>1, InvariantHolds, PTL

\* The handler of surface_unmap, surfaces[handle]!, always finds a surface.
THEOREM UnmapNeverThrows == Spec => []UnmapFindsSurface
<1>1. IInv => UnmapFindsSurface
  <2> SUFFICES ASSUME IInv, channel # <<>>, Head(channel).type = "surface_unmap"
               PROVE  surfaces[Head(channel).handle] # None
    BY DEF UnmapFindsSurface
  <2>1. PICK own \in [Subsurfaces -> Maybe(Toplevels)] : OwnedBy(own)
    BY DEF IInv, OneParent
  <2>2. /\ channel[1] \in Messages /\ Head(channel) = channel[1]
        /\ 1 \in 1..Len(channel)
    <3> DEFINE M == MessagesFor(own)
    <3>1. channel \in Seq(M)
      BY <2>1 DEF OwnedBy
    <3> HIDE DEF M
    <3>2. Head(channel) \in M /\ Head(channel) = channel[1] /\ 1 \in 1..Len(channel)
      BY <3>1, HeadTailProperties, EmptySeq
    <3> QED BY <3>2 DEF M, MessagesFor
  <2> DEFINE t == channel[1].handle
  <2>3. t \in Toplevels /\ Unmaps(channel, t, 1)
    BY <2>2, MessageFields DEF Unmaps
  <2>4. Shown(channel, surfaces, t, 1)
    BY <2>2, <2>3 DEF IInv, UnmapsMatched, Matched
  <2> HIDE DEF t
  <2>5. surfaces[t] # None
    BY <2>4 DEF Shown
  <2> QED BY <2>2, <2>5 DEF t
<1> QED BY <1>1, InvariantHolds, PTL

-----------------------------------------------------------------------------
(* Where the messages under way lead what Dart shows.                      *)

\* What Dart shows of surface x after message m, when it showed v.
After(v, x, m) ==
    IF m.handle # x THEN v
    ELSE CASE m.type = "surface_map" -> m.geo
           [] m.type = "surface_geometry" -> IF v = None THEN None ELSE m.geo
           [] m.type = "subsurface_map" -> [parent |-> m.parent, box |-> m.box]
           [] m.type = "subsurface_position" ->
                 IF v = None THEN None ELSE [v EXCEPT !.box = m.box]
           [] m.type = "popup_map" ->
                 [parent |-> m.parent, size |-> m.size, place |-> m.place]
           [] OTHER -> None

\* Handling the messages of ch takes what is shown of x from u to v: seen[i]
\* is shown after the first i of them.
LeadsBy(seen, ch, x, u, v) ==
    /\ seen[0] = u /\ seen[Len(ch)] = v
    /\ \A i \in 1..Len(ch) : seen[i] = After(seen[i - 1], x, ch[i])
Leads(ch, x, u, v) == \E seen : LeadsBy(seen, ch, x, u, v)

\* Nothing happens without messages.
LEMMA LeadsNowhere ==
  ASSUME NEW x, NEW u, NEW v
  PROVE  Leads(<<>>, x, u, v) <=> u = v
<1>1. Len(<<>>) = 0
  BY EmptySeq
<1>2. Leads(<<>>, x, u, v) => u = v
  BY <1>1 DEF Leads, LeadsBy
<1>3. ASSUME u = v PROVE Leads(<<>>, x, u, v)
  <2> DEFINE seen == [i \in {0} |-> u]
  <2>1. LeadsBy(seen, <<>>, x, u, v)
    BY <1>1, <1>3 DEF LeadsBy
  <2> HIDE DEF seen
  <2> QED BY <2>1 DEF Leads
<1> QED BY <1>2, <1>3

\* The first message is handled, the rest is still to come.
LEMMA LeadsOn ==
  ASSUME NEW M, NEW ch \in Seq(M), ch # <<>>, NEW x, NEW u, NEW v, Leads(ch, x, u, v)
  PROVE  Leads(Tail(ch), x, After(u, x, ch[1]), v)
<1> DEFINE rest == Tail(ch)   n == Len(ch)
<1>1. n \in Nat /\ n >= 1 /\ Len(rest) = n - 1 /\ \A i \in 1..(n - 1) : rest[i] = ch[i + 1]
  BY LenProperties, HeadTailProperties, EmptySeq
<1>2. PICK seen : LeadsBy(seen, ch, x, u, v)
  BY DEF Leads
<1> DEFINE later == [i \in 0..(n - 1) |-> seen[i + 1]]
<1>3. /\ seen[0] = u /\ seen[n] = v
      /\ \A i \in 1..n : seen[i] = After(seen[i - 1], x, ch[i])
  BY <1>2 DEF LeadsBy
<1> HIDE DEF rest, n
<1>4. later[0] = After(u, x, ch[1])
  BY <1>1, <1>3
<1>5. later[n - 1] = v
  BY <1>1, <1>3
<1>6. \A i \in 1..(n - 1) : later[i] = After(later[i - 1], x, rest[i])
  <2> SUFFICES ASSUME NEW i \in 1..(n - 1)
               PROVE  later[i] = After(later[i - 1], x, rest[i])
    OBVIOUS
  <2>1. i + 1 \in 1..n /\ i - 1 \in 0..(n - 1) /\ i \in 0..(n - 1)
        /\ (i - 1) + 1 = i /\ (i + 1) - 1 = i
    BY <1>1
  <2>2. seen[i + 1] = After(seen[(i + 1) - 1], x, ch[i + 1])
    BY <1>3, <2>1
  <2>3. later[i] = seen[i + 1] /\ later[i - 1] = seen[i] /\ rest[i] = ch[i + 1]
    BY <1>1, <2>1
  <2> QED BY <2>1, <2>2, <2>3
<1> HIDE DEF later
<1>7. LeadsBy(later, rest, x, After(u, x, ch[1]), v)
  BY <1>1, <1>4, <1>5, <1>6 DEF LeadsBy
<1> QED BY <1>7 DEF Leads, rest

\* Messages sent behind others lead on from where these lead.
LEMMA LeadsThrough ==
  ASSUME NEW M, NEW a \in Seq(M), NEW b \in Seq(M), NEW x, NEW u, NEW v, NEW w,
         Leads(a, x, u, v), Leads(b, x, v, w)
  PROVE  Leads(a \o b, x, u, w)
<1> DEFINE all == a \o b   n == Len(a)   k == Len(b)
<1>1. n \in Nat /\ k \in Nat /\ Len(all) = n + k
  BY ConcatProperties, LenProperties
<1>2. \A i \in 1..(n + k) : all[i] = IF i <= n THEN a[i] ELSE b[i - n]
  BY ConcatProperties
<1>3. PICK first : LeadsBy(first, a, x, u, v)
  BY DEF Leads
<1>4. PICK second : LeadsBy(second, b, x, v, w)
  BY DEF Leads
<1>5. /\ first[0] = u /\ first[n] = v
      /\ \A i \in 1..n : first[i] = After(first[i - 1], x, a[i])
  BY <1>3 DEF LeadsBy
<1>6. /\ second[0] = v /\ second[k] = w
      /\ \A i \in 1..k : second[i] = After(second[i - 1], x, b[i])
  BY <1>4 DEF LeadsBy
<1> DEFINE seen == [i \in 0..(n + k) |-> IF i <= n THEN first[i] ELSE second[i - n]]
<1> HIDE DEF all, n, k
<1>7. seen[0] = u
  BY <1>1, <1>5
<1>8. seen[n + k] = w
  <2>1. CASE k = 0
    BY <1>1, <1>5, <1>6, <2>1
  <2>2. CASE k # 0
    <3>1. n + k \in 0..(n + k) /\ ~(n + k <= n) /\ (n + k) - n = k
      BY <1>1, <2>2
    <3> QED BY <1>6, <3>1
  <2> QED BY <2>1, <2>2
<1>9. \A i \in 1..(n + k) : seen[i] = After(seen[i - 1], x, all[i])
  <2> SUFFICES ASSUME NEW i \in 1..(n + k) PROVE seen[i] = After(seen[i - 1], x, all[i])
    OBVIOUS
  <2>1. i \in 0..(n + k) /\ i - 1 \in 0..(n + k)
    BY <1>1
  <2>2. CASE i <= n
    <3>1. i \in 1..n /\ i - 1 <= n
      BY <1>1, <2>2
    <3>2. seen[i] = first[i] /\ seen[i - 1] = first[i - 1] /\ all[i] = a[i]
      BY <1>2, <2>1, <2>2, <3>1
    <3> QED BY <1>5, <3>1, <3>2
  <2>3. CASE ~(i <= n)
    <3>1. i - n \in 1..k /\ (i - n) - 1 = (i - 1) - n
      BY <1>1, <2>3
    <3>2. seen[i] = second[i - n] /\ all[i] = b[i - n]
      BY <1>2, <2>1, <2>3
    <3>3. seen[i - 1] = second[(i - n) - 1]
      <4>1. CASE i - 1 = n
        <5>1. (i - n) - 1 = 0 /\ i - 1 <= n
          BY <1>1, <4>1
        <5> QED BY <1>5, <1>6, <2>1, <4>1, <5>1
      <4>2. CASE i - 1 # n
        <5>1. ~(i - 1 <= n)
          BY <1>1, <2>3, <4>2
        <5> QED BY <2>1, <3>1, <5>1
      <4> QED BY <4>1, <4>2
    <3> QED BY <1>6, <3>1, <3>2, <3>3
  <2> QED BY <2>2, <2>3
<1> HIDE DEF seen
<1>10. LeadsBy(seen, all, x, u, w)
  BY <1>1, <1>7, <1>8, <1>9 DEF LeadsBy
<1> QED BY <1>10 DEF Leads, all

\* Messages that say one thing of x, whatever is shown, lead to it.
LEMMA LeadsTo ==
  ASSUME NEW M, NEW ch \in Seq(M), NEW x, NEW u, NEW w,
         \A i \in 1..Len(ch) : ch[i].handle = x => \A v : After(v, x, ch[i]) = w,
         (\E i \in 1..Len(ch) : ch[i].handle = x) \/ u = w
  PROVE  Leads(ch, x, u, w)
<1> DEFINE n == Len(ch)
           told(i) == \E j \in 1..i : ch[j].handle = x
           seen == [i \in 0..n |-> IF told(i) THEN w ELSE u]
<1>1. n \in Nat
  BY LenProperties
<1>2. seen[0] = u /\ seen[n] = w
  BY <1>1
<1>3. \A i \in 1..n : seen[i] = After(seen[i - 1], x, ch[i])
  <2> SUFFICES ASSUME NEW i \in 1..n PROVE seen[i] = After(seen[i - 1], x, ch[i])
    OBVIOUS
  <2>1. i \in 0..n /\ i - 1 \in 0..n /\ i \in 1..i
    BY <1>1
  <2>2. CASE ch[i].handle = x
    <3>1. seen[i] = w
      BY <2>1, <2>2
    <3> HIDE DEF seen
    <3> QED BY <2>2, <3>1
  <2>3. CASE ch[i].handle # x
    <3>1. told(i) <=> told(i - 1)
      <4>1. \A j \in 1..i : j = i \/ j \in 1..(i - 1)
        BY <1>1
      <4>2. \A j \in 1..(i - 1) : j \in 1..i
        BY <1>1
      <4> QED BY <2>3, <4>1, <4>2
    <3>2. seen[i] = seen[i - 1]
      BY <2>1, <3>1
    <3> HIDE DEF seen
    <3> QED BY <2>3, <3>2 DEF After
  <2> QED BY <2>2, <2>3
<1> HIDE DEF seen, told
<1>4. LeadsBy(seen, ch, x, u, w)
  BY <1>2, <1>3 DEF LeadsBy
<1> QED BY <1>4 DEF Leads

\* One message does what it says.
LEMMA LeadsOne ==
  ASSUME NEW m, NEW x, NEW u
  PROVE  Leads(<<m>>, x, u, After(u, x, m))
<1> DEFINE seen == [i \in 0..1 |-> IF i = 0 THEN u ELSE After(u, x, m)]
           one == <<m>>
<1>1. Len(one) = 1 /\ one[1] = m
  OBVIOUS
<1>2. seen[0] = u /\ seen[1] = After(u, x, m)
  OBVIOUS
<1> HIDE DEF seen, one
<1>3. LeadsBy(seen, one, x, u, After(u, x, m))
  BY <1>1, <1>2 DEF LeadsBy
<1> QED BY <1>3 DEF Leads, one

\* The sequence of a set of messages leads x where those about x say.
LEMMA SetLeads ==
  ASSUME NEW V, IsFiniteSet(V), NEW x, NEW u, NEW w,
         \A m \in V : m.handle = x => \A v : After(v, x, m) = w,
         (\E m \in V : m.handle = x) \/ u = w
  PROVE  Leads(SetToSeq(V), x, u, w)
<1> DEFINE ch == SetToSeq(V)
<1>1. ch \in Seq(V) /\ \A m \in V : \E i \in 1..Len(ch) : ch[i] = m
  BY SetToSeqOnto
<1> HIDE DEF ch
<1>2. ASSUME NEW i \in 1..Len(ch), ch[i].handle = x
      PROVE  \A v : After(v, x, ch[i]) = w
  <2>1. ch[i] \in V
    BY <1>1, ElementOfSeq
  <2> QED BY <1>2, <2>1
<1>3. (\E i \in 1..Len(ch) : ch[i].handle = x) \/ u = w
  BY <1>1
<1>4. Leads(ch, x, u, w)
  BY <1>1, <1>2, <1>3, LeadsTo
<1> QED BY <1>4 DEF ch

\* What Dart should show of each surface.
ToplevelShown(t) == IF toplevel[t].state = "mapped" THEN toplevel[t].geo ELSE None
SubsurfaceShown(s) ==
    IF subsurface[s].state = "mapped"
    THEN [parent |-> subsurface[s].parent, box |-> subsurface[s].box]
    ELSE None
PopupShown(p, place) ==
    IF popup[p].state = "mapped"
    THEN [parent |-> popup[p].parent, size |-> popup[p].size, place |-> place]
    ELSE None

\* A mapped surface's content has been read.
ContentRead ==
    /\ \A t \in Toplevels : toplevel[t].state = "mapped" => toplevel[t].geo \in Sizes
    /\ \A s \in Subsurfaces : subsurface[s].state = "mapped" => subsurface[s].box \in Sizes

\* A mapped popup has a position; Places is empty only if there is none.
Spots == IF Places = {} THEN {None} ELSE Places

\* The messages under way lead to it.
MirrorLeads ==
    /\ \A t \in Toplevels : Leads(channel, t, surfaces[t], ToplevelShown(t))
    /\ \A s \in Subsurfaces : Leads(channel, s, subsurfaces[s], SubsurfaceShown(s))
    /\ \A p \in Popups : \E place \in Spots :
          Leads(channel, p, popups[p], PopupShown(p, place))
Mirrored == ContentRead /\ MirrorLeads

\* A request's messages lead each surface from what was to be shown of it to
\* what is to be shown of it now.
ToplevelsTold(ms) ==
    \A t \in Toplevels : Leads(ms, t, ToplevelShown(t), ToplevelShown(t)')
SubsurfacesTold(ms) ==
    \A s \in Subsurfaces : Leads(ms, s, SubsurfaceShown(s), SubsurfaceShown(s)')
PopupsTold(ms) ==
    \A p \in Popups : \A place \in Spots : \E placeNow \in Spots :
        Leads(ms, p, PopupShown(p, place), PopupShown(p, placeNow)')

\* Then all messages under way lead there.
LEMMA TheyAreTold ==
  ASSUME NEW M, channel \in Seq(M), MirrorLeads, NEW ms \in Seq(M), Request(ms),
         ToplevelsTold(ms), SubsurfacesTold(ms), PopupsTold(ms)
  PROVE  MirrorLeads'
<1>1. channel' = channel \o ms /\ UNCHANGED <<surfaces, subsurfaces, popups>>
  BY DEF Request, dart
<1>2. ASSUME NEW t \in Toplevels
      PROVE  Leads(channel', t, surfaces'[t], ToplevelShown(t)')
  <2> DEFINE u == surfaces[t]   v == ToplevelShown(t)   w == ToplevelShown(t)'
  <2>1. Leads(channel, t, u, v) /\ Leads(ms, t, v, w)
    BY DEF MirrorLeads, ToplevelsTold
  <2> HIDE DEF u, v, w
  <2>2. Leads(channel \o ms, t, u, w)
    BY <2>1, LeadsThrough
  <2> QED BY <1>1, <2>2 DEF u, w
<1>3. ASSUME NEW s \in Subsurfaces
      PROVE  Leads(channel', s, subsurfaces'[s], SubsurfaceShown(s)')
  <2> DEFINE u == subsurfaces[s]   v == SubsurfaceShown(s)   w == SubsurfaceShown(s)'
  <2>1. Leads(channel, s, u, v) /\ Leads(ms, s, v, w)
    BY DEF MirrorLeads, SubsurfacesTold
  <2> HIDE DEF u, v, w
  <2>2. Leads(channel \o ms, s, u, w)
    BY <2>1, LeadsThrough
  <2> QED BY <1>1, <2>2 DEF u, w
<1>4. ASSUME NEW p \in Popups
      PROVE  \E place \in Spots : Leads(channel', p, popups'[p], PopupShown(p, place)')
  <2>1. PICK before \in Spots : Leads(channel, p, popups[p], PopupShown(p, before))
    BY DEF MirrorLeads
  <2>2. PICK now \in Spots : Leads(ms, p, PopupShown(p, before), PopupShown(p, now)')
    BY DEF PopupsTold
  <2> DEFINE u == popups[p]   v == PopupShown(p, before)   w == PopupShown(p, now)'
  <2>3. Leads(channel, p, u, v) /\ Leads(ms, p, v, w)
    BY <2>1, <2>2
  <2> HIDE DEF u, v, w
  <2>4. Leads(channel \o ms, p, u, w)
    BY <2>3, LeadsThrough
  <2> QED BY <1>1, <2>4 DEF u, w
<1> QED BY <1>2, <1>3, <1>4 DEF MirrorLeads, ToplevelShown, SubsurfaceShown, PopupShown,
                               Leads, LeadsBy

\* What the handlers of surface.c send is a message, and names its surface.
LEMMA MessagesMade ==
  /\ \A t \in Toplevels :
        /\ SurfaceUnmap(t) \in Messages
        /\ \A g \in Sizes : SurfaceMap(t, g) \in Messages /\ SurfaceGeometry(t, g) \in Messages
  /\ \A s \in Subsurfaces :
        /\ SubsurfaceUnmap(s) \in Messages
        /\ \A b \in Sizes : /\ SubsurfacePosition(s, b) \in Messages
                            /\ \A t \in Toplevels : SubsurfaceMap(s, t, b) \in Messages
  /\ \A p \in Popups : PopupUnmap(p) \in Messages
<1> USE DEF Messages
<1>1. ASSUME NEW t \in Toplevels, NEW g \in Sizes
      PROVE  SurfaceMap(t, g) \in Messages /\ SurfaceGeometry(t, g) \in Messages
  BY DEF SurfaceMap, SurfaceGeometry
<1>2. \A t \in Toplevels : SurfaceUnmap(t) \in Messages
  BY DEF SurfaceUnmap
<1>3. ASSUME NEW s \in Subsurfaces, NEW b \in Sizes
      PROVE  SubsurfacePosition(s, b) \in Messages
  BY DEF SubsurfacePosition
<1>4. ASSUME NEW s \in Subsurfaces, NEW b \in Sizes, NEW t \in Toplevels
      PROVE  SubsurfaceMap(s, t, b) \in Messages
  BY DEF SubsurfaceMap
<1>5. \A s \in Subsurfaces : SubsurfaceUnmap(s) \in Messages
  BY DEF SubsurfaceUnmap
<1>6. \A p \in Popups : PopupUnmap(p) \in Messages
  BY DEF PopupUnmap
<1> QED BY <1>1, <1>2, <1>3, <1>4, <1>5, <1>6

\* What each message does to what Dart shows of its surface.
LEMMA MessageEffects ==
  ASSUME NEW v
  PROVE  /\ \A t, g : After(v, t, SurfaceMap(t, g)) = g
         /\ \A t : After(v, t, SurfaceUnmap(t)) = None
         /\ \A t, g : After(v, t, SurfaceGeometry(t, g)) = IF v = None THEN None ELSE g
         /\ \A s, t, b : After(v, s, SubsurfaceMap(s, t, b)) = [parent |-> t, box |-> b]
         /\ \A s : After(v, s, SubsurfaceUnmap(s)) = None
         /\ \A s, b : After(v, s, SubsurfacePosition(s, b)) =
                         IF v = None THEN None ELSE [v EXCEPT !.box = b]
         /\ \A p : After(v, p, PopupUnmap(p)) = None
<1> USE DEF After
<1>1. \A t, g : After(v, t, SurfaceMap(t, g)) = g
  BY DEF SurfaceMap
<1>2. \A t : After(v, t, SurfaceUnmap(t)) = None
  BY DEF SurfaceUnmap
<1>3. \A t, g : After(v, t, SurfaceGeometry(t, g)) = IF v = None THEN None ELSE g
  BY DEF SurfaceGeometry
<1>4. \A s, t, b : After(v, s, SubsurfaceMap(s, t, b)) = [parent |-> t, box |-> b]
  BY DEF SubsurfaceMap
<1>5. \A s : After(v, s, SubsurfaceUnmap(s)) = None
  BY DEF SubsurfaceUnmap
<1>6. \A s, b : After(v, s, SubsurfacePosition(s, b)) =
                   IF v = None THEN None ELSE [v EXCEPT !.box = b]
  BY DEF SubsurfacePosition
<1>7. \A p : After(v, p, PopupUnmap(p)) = None
  BY DEF PopupUnmap
<1> QED BY <1>1, <1>2, <1>3, <1>4, <1>5, <1>6, <1>7

\* A popup's message carries its record.
LEMMA PopupEffect ==
  ASSUME NEW p \in Popups, NEW r,
         r.parent \in Toplevels, r.size \in Sizes, r.current \in Places
  PROVE  /\ PopupMap(p, r) \in Messages /\ PopupMap(p, r).handle = p
         /\ \A v : After(v, p, PopupMap(p, r)) =
                      [parent |-> r.parent, size |-> r.size, place |-> r.current]
<1> DEFINE m == [type |-> "popup_map", handle |-> p, parent |-> r.parent,
                 size |-> r.size, place |-> r.current]
<1>1. PopupMap(p, r) = m
  BY Kinds DEF PopupMap
<1>2. m \in Messages
  BY DEF Messages
<1>3. \A v : After(v, p, m) = [parent |-> r.parent, size |-> r.size, place |-> r.current]
  BY DEF After
<1> QED BY <1>1, <1>2, <1>3

\* At most one message is sent, about x.
LEMMA LeadsAtMostOne ==
  ASSUME NEW ms, NEW m, ms = <<m>> \/ ms = <<>>, NEW x, NEW u, NEW w,
         ms = <<m>> => After(u, x, m) = w, ms = <<>> => u = w
  PROVE  Leads(ms, x, u, w)
<1>1. CASE ms = <<m>>
  BY <1>1, LeadsOne
<1>2. CASE ms = <<>>
  BY <1>2, LeadsNowhere
<1> QED BY <1>1, <1>2

\* A request about surface x alone tells nothing of the others.
LEMMA OneIsTold ==
  ASSUME NEW x, NEW m \in Messages, m.handle = x,
         NEW ms, ms = <<m>> \/ ms = <<>>,
         \A t \in Toplevels \ {x} : toplevel'[t] = toplevel[t],
         \A s \in Subsurfaces \ {x} : subsurface'[s] = subsurface[s],
         \A p \in Popups \ {x} : popup'[p] = popup[p],
         x \in Toplevels => Leads(ms, x, ToplevelShown(x), ToplevelShown(x)'),
         x \in Subsurfaces => Leads(ms, x, SubsurfaceShown(x), SubsurfaceShown(x)'),
         x \in Popups => \A place \in Spots : \E placeNow \in Spots :
            Leads(ms, x, PopupShown(x, place), PopupShown(x, placeNow)')
  PROVE  ToplevelsTold(ms) /\ SubsurfacesTold(ms) /\ PopupsTold(ms) /\ ms \in Seq(Messages)
<1>1. \A y, v : y # x => Leads(ms, y, v, v)
  <2> SUFFICES ASSUME NEW y, NEW v, y # x PROVE Leads(ms, y, v, v)
    OBVIOUS
  <2>1. After(v, y, m) = v
    BY DEF After
  <2> QED BY <2>1, LeadsAtMostOne
<1>2. ToplevelsTold(ms)
  BY <1>1 DEF ToplevelsTold, ToplevelShown
<1>3. SubsurfacesTold(ms)
  BY <1>1 DEF SubsurfacesTold, SubsurfaceShown
<1>4. PopupsTold(ms)
  <2> SUFFICES ASSUME NEW p \in Popups, NEW place \in Spots
               PROVE  \E placeNow \in Spots :
                         Leads(ms, p, PopupShown(p, place), PopupShown(p, placeNow)')
    BY DEF PopupsTold
  <2>1. CASE p = x
    BY <2>1
  <2>2. CASE p # x
    <3>1. PopupShown(p, place)' = PopupShown(p, place)
      BY <2>2 DEF PopupShown
    <3>2. Leads(ms, p, PopupShown(p, place), PopupShown(p, place)')
      BY <1>1, <2>2, <3>1
    <3> QED BY <3>2
  <2> QED BY <2>1, <2>2
<1>5. ms \in Seq(Messages)
  <2> HIDE DEF Messages
  <2>1. CASE ms = <<m>>
    BY <2>1
  <2>2. CASE ms = <<>>
    BY <2>2, EmptySeq
  <2> QED BY <2>1, <2>2
<1> QED BY <1>2, <1>3, <1>4, <1>5

\* Unmapping toplevel t tells of t, of its mapped subsurfaces and of its mapped
\* popups, and of nothing else.
LEMMA FamilyTold ==
  ASSUME ClientInv, NEW t \in Toplevels,
         \A x \in Toplevels \ {t} : toplevel'[x] = toplevel[x],
         toplevel'[t].state # "mapped",
         subsurface' = ChildrenUnmapped(t), popup' = PopupsDestroyed(t)
  PROVE  LET ms == UnmapMessages(t)
         IN  ToplevelsTold(ms) /\ SubsurfacesTold(ms) /\ PopupsTold(ms) /\ ms \in Seq(Messages)
<1> DEFINE S == MappedChildrenOf(t)
           P == MappedPopupsOf(t)
           f == [s \in S |-> SubsurfaceUnmap(s)]
           g == [p \in P |-> PopupUnmap(p)]
           first == IF toplevel[t].state = "mapped" THEN <<SurfaceUnmap(t)>> ELSE <<>>
           A == {f[s] : s \in S}
           B == {g[p] : p \in P}
           a == SetToSeq(A)
           b == SetToSeq(B)
           ms == (first \o a) \o b
<1>1. S \subseteq Subsurfaces /\ P \subseteq Popups
  BY DEF MappedChildrenOf, ChildrenOf, MappedPopupsOf, PopupsOf
<1>2. IsFiniteSet(S) /\ IsFiniteSet(P)
  BY <1>1, FiniteClients, FS_Subset
<1>3. f \in [S -> Messages] /\ g \in [P -> Messages]
  BY <1>1, MessagesMade
<1>4. {f[s] : s \in S} = {SubsurfaceUnmap(s) : s \in S}
      /\ {g[p] : p \in P} = {PopupUnmap(p) : p \in P}
  OBVIOUS
<1>5. UnmapMessages(t) = ms
  BY <1>4 DEF UnmapMessages
<1>6. first \in Seq(Messages)
  <2>1. SurfaceUnmap(t) \in Messages
    BY MessagesMade
  <2> HIDE DEF Messages
  <2> QED BY <2>1
<1>7. /\ \A s \in S : f[s].handle = s /\ \A v : After(v, s, f[s]) = None
      /\ \A p \in P : g[p].handle = p /\ \A v : After(v, p, g[p]) = None
  BY MessageEffects DEF SubsurfaceUnmap, PopupUnmap
<1>8. /\ \A s \in Subsurfaces : s \notin S =>
            SubsurfaceShown(s)' = SubsurfaceShown(s)
      /\ \A s \in S : SubsurfaceShown(s)' = None
  <2> SUFFICES ASSUME NEW s \in Subsurfaces
               PROVE  /\ s \notin S => SubsurfaceShown(s)' = SubsurfaceShown(s)
                      /\ s \in S => SubsurfaceShown(s)' = None
    BY <1>1
  <2>1. subsurface'[s] = IF s \in ChildrenOf(t)
                         THEN [subsurface[s] EXCEPT !.state = "unmapped"]
                         ELSE subsurface[s]
    BY DEF ChildrenUnmapped
  <2>2. subsurface[s] \in SubsurfaceRecord
    BY DEF ClientInv, ClientTypeOK
  <2>3. s \in ChildrenOf(t) => subsurface'[s].state = "unmapped"
    BY <2>1, <2>2 DEF SubsurfaceRecord
  <2>4. s \in S <=> s \in ChildrenOf(t) /\ subsurface[s].state = "mapped"
    BY DEF MappedChildrenOf
  <2> QED BY <2>1, <2>3, <2>4 DEF SubsurfaceShown
<1>9. /\ \A p \in Popups : p \notin P => \A place : PopupShown(p, place)' = PopupShown(p, place)
      /\ \A p \in P : \A place : PopupShown(p, place)' = None
  <2> SUFFICES ASSUME NEW p \in Popups, NEW place
               PROVE  /\ p \notin P => PopupShown(p, place)' = PopupShown(p, place)
                      /\ p \in P => PopupShown(p, place)' = None
    BY <1>1
  <2>1. popup'[p] = IF p \in PopupsOf(t) THEN [NoPopup EXCEPT !.state = "destroyed"]
                                         ELSE popup[p]
    BY DEF PopupsDestroyed
  <2>2. p \in PopupsOf(t) => popup'[p].state = "destroyed"
    BY <2>1 DEF NoPopup
  <2>3. p \in P <=> p \in PopupsOf(t) /\ popup[p].state = "mapped"
    BY DEF MappedPopupsOf
  <2> QED BY <2>1, <2>2, <2>3 DEF PopupShown
<1> HIDE DEF S, P, f, g, first, Messages
<1>10. a \in Seq(Messages) /\ b \in Seq(Messages)
  BY <1>2, <1>3, ValuesType
<1>11. first \o a \in Seq(Messages) /\ ms \in Seq(Messages)
  BY <1>6, <1>10, ConcatProperties
<1>12. ASSUME NEW x, NEW u, NEW v, NEW w, NEW z,
              Leads(first, x, u, v), Leads(a, x, v, w), Leads(b, x, w, z)
       PROVE  Leads(ms, x, u, z)
  <2> HIDE DEF a, b
  <2>1. Leads(first \o a, x, u, w)
    BY <1>6, <1>10, <1>12, LeadsThrough
  <2> QED BY <1>10, <1>11, <1>12, <2>1, LeadsThrough
<1>13. /\ \A x, u, w : (x \notin S /\ u = w) \/ (x \in S /\ w = None) => Leads(a, x, u, w)
       /\ \A x, u, w : (x \notin P /\ u = w) \/ (x \in P /\ w = None) => Leads(b, x, u, w)
  <2>1. ASSUME NEW x, NEW u, NEW w, (x \notin S /\ u = w) \/ (x \in S /\ w = None)
        PROVE  Leads(a, x, u, w)
    <3>1. /\ \A m \in A : m.handle = x => \A v : After(v, x, m) = w
          /\ (\E m \in A : m.handle = x) \/ u = w
      BY <1>7, <2>1
    <3>2. f \in Surjection(S, A)
      BY <1>3 DEF Surjection
    <3> HIDE DEF A
    <3>3. IsFiniteSet(A)
      BY <1>2, <3>2, FS_Surjection
    <3> QED BY <3>1, <3>3, SetLeads
  <2>2. ASSUME NEW x, NEW u, NEW w, (x \notin P /\ u = w) \/ (x \in P /\ w = None)
        PROVE  Leads(b, x, u, w)
    <3>1. /\ \A m \in B : m.handle = x => \A v : After(v, x, m) = w
          /\ (\E m \in B : m.handle = x) \/ u = w
      BY <1>7, <2>2
    <3>2. g \in Surjection(P, B)
      BY <1>3 DEF Surjection
    <3> HIDE DEF B
    <3>3. IsFiniteSet(B)
      BY <1>2, <3>2, FS_Surjection
    <3> QED BY <3>1, <3>3, SetLeads
  <2> QED BY <2>1, <2>2
<1>14. \A x, u : x # t => Leads(first, x, u, u)
  <2> SUFFICES ASSUME NEW x, NEW u, x # t PROVE Leads(first, x, u, u)
    OBVIOUS
  <2>1. After(u, x, SurfaceUnmap(t)) = u
    BY DEF After, SurfaceUnmap
  <2> QED BY <2>1, LeadsAtMostOne DEF first
<1>15. Leads(first, t, ToplevelShown(t), None)
  <2>1. After(ToplevelShown(t), t, SurfaceUnmap(t)) = None
    BY MessageEffects
  <2>2. first = <<>> => ToplevelShown(t) = None
    BY DEF first, ToplevelShown
  <2>3. first = <<SurfaceUnmap(t)>> \/ first = <<>>
    BY DEF first
  <2> QED BY <2>1, <2>2, <2>3, LeadsAtMostOne
<1> HIDE DEF a, b, ms
<1>16. ToplevelsTold(ms)
  <2> SUFFICES ASSUME NEW x \in Toplevels
               PROVE  Leads(ms, x, ToplevelShown(x), ToplevelShown(x)')
    BY DEF ToplevelsTold
  <2>1. x \notin S /\ x \notin P
    BY <1>1, Kinds
  <2> DEFINE u == ToplevelShown(x)   w == ToplevelShown(x)'
  <2>2. Leads(first, x, u, w)
    <3>1. CASE x = t
      <4>1. w = None
        BY <3>1 DEF ToplevelShown
      <4> QED BY <1>15, <3>1, <4>1
    <3>2. CASE x # t
      <4>1. w = u
        BY <3>2 DEF ToplevelShown
      <4> QED BY <1>14, <3>2, <4>1
    <3> QED BY <3>1, <3>2
  <2> HIDE DEF u, w
  <2>3. Leads(a, x, w, w) /\ Leads(b, x, w, w)
    BY <1>13, <2>1
  <2>4. Leads(ms, x, u, w)
    BY <1>12, <2>2, <2>3
  <2> QED BY <2>4 DEF u, w
<1>17. SubsurfacesTold(ms)
  <2> SUFFICES ASSUME NEW x \in Subsurfaces
               PROVE  Leads(ms, x, SubsurfaceShown(x), SubsurfaceShown(x)')
    BY DEF SubsurfacesTold
  <2>1. x # t /\ x \notin P
    BY <1>1, Kinds
  <2> DEFINE u == SubsurfaceShown(x)   w == SubsurfaceShown(x)'
  <2>2. (x \notin S /\ u = w) \/ (x \in S /\ w = None)
    BY <1>8
  <2> HIDE DEF u, w
  <2>3. Leads(first, x, u, u) /\ Leads(a, x, u, w) /\ Leads(b, x, w, w)
    BY <1>13, <1>14, <2>1, <2>2
  <2>4. Leads(ms, x, u, w)
    BY <1>12, <2>3
  <2> QED BY <2>4 DEF u, w
<1>18. PopupsTold(ms)
  <2> SUFFICES ASSUME NEW x \in Popups, NEW place \in Spots
               PROVE  Leads(ms, x, PopupShown(x, place), PopupShown(x, place)')
    BY DEF PopupsTold
  <2>1. x # t /\ x \notin S
    BY <1>1, Kinds
  <2> DEFINE u == PopupShown(x, place)   w == PopupShown(x, place)'
  <2>2. (x \notin P /\ u = w) \/ (x \in P /\ w = None)
    BY <1>9
  <2> HIDE DEF u, w
  <2>3. Leads(first, x, u, u) /\ Leads(a, x, u, u) /\ Leads(b, x, u, w)
    BY <1>13, <1>14, <2>1, <2>2
  <2>4. Leads(ms, x, u, w)
    BY <1>12, <2>3
  <2> QED BY <2>4 DEF u, w
<1> QED BY <1>5, <1>11, <1>16, <1>17, <1>18

\* What mapping toplevel t and these subsurfaces sends, in either order.
MapMessages(t, g, mapping, box, ms) ==
    LET own == <<SurfaceMap(t, g)>>
        theirs == SetToSeq({SubsurfaceMap(s, t, box[s]) : s \in mapping})
    IN  ms = theirs \o own \/ ms = own \o theirs

\* Mapping toplevel t tells of t and of the subsurfaces that map with it, in
\* either order.
LEMMA MapTold ==
  ASSUME NEW t \in Toplevels, NEW g \in Sizes,
         NEW mapping \in SUBSET Subsurfaces, NEW box, \A s \in mapping : box[s] \in Sizes,
         toplevel'[t] = [state |-> "mapped", geo |-> g],
         \A x \in Toplevels \ {t} : toplevel'[x] = toplevel[x],
         \A s \in Subsurfaces \ mapping : subsurface'[s] = subsurface[s],
         \A s \in mapping : SubsurfaceShown(s)' = [parent |-> t, box |-> box[s]],
         popup' = popup,
         NEW ms, MapMessages(t, g, mapping, box, ms)
  PROVE  ToplevelsTold(ms) /\ SubsurfacesTold(ms) /\ PopupsTold(ms) /\ ms \in Seq(Messages)
<1> DEFINE f == [s \in mapping |-> SubsurfaceMap(s, t, box[s])]
           own == <<SurfaceMap(t, g)>>
           V == {f[s] : s \in mapping}
           theirs == SetToSeq(V)
<1>1. ms = theirs \o own \/ ms = own \o theirs
  <2>1. V = {SubsurfaceMap(s, t, box[s]) : s \in mapping}
    OBVIOUS
  <2> QED BY <2>1 DEF MapMessages
<1>2. IsFiniteSet(mapping)
  BY FiniteClients, FS_Subset
<1>3. f \in [mapping -> Messages]
  <2>1. \A s \in mapping : SubsurfaceMap(s, t, box[s]) \in Messages
    BY MessagesMade
  <2> HIDE DEF Messages
  <2> QED BY <2>1
<1>4. \A s \in mapping :
        f[s].handle = s /\ \A v : After(v, s, f[s]) = [parent |-> t, box |-> box[s]]
  <2> SUFFICES ASSUME NEW s \in mapping
               PROVE  /\ f[s].handle = s
                      /\ \A v : After(v, s, f[s]) = [parent |-> t, box |-> box[s]]
    OBVIOUS
  <2> DEFINE b == box[s]
  <2>1. f[s] = SubsurfaceMap(s, t, b)
    OBVIOUS
  <2> HIDE DEF b, f
  <2>2. \A v : After(v, s, SubsurfaceMap(s, t, b)) = [parent |-> t, box |-> b]
    BY DEF After, SubsurfaceMap
  <2>3. SubsurfaceMap(s, t, b).handle = s
    BY DEF SubsurfaceMap
  <2> QED BY <2>1, <2>2, <2>3 DEF b
<1>5. own \in Seq(Messages)
  <2>1. SurfaceMap(t, g) \in Messages
    BY MessagesMade
  <2> HIDE DEF Messages
  <2> QED BY <2>1
<1>6. \A x, u : x # t => Leads(own, x, u, u)
  <2> SUFFICES ASSUME NEW x, NEW u, x # t PROVE Leads(own, x, u, u)
    OBVIOUS
  <2>1. After(u, x, SurfaceMap(t, g)) = u
    BY DEF After, SurfaceMap
  <2> QED BY <2>1, LeadsAtMostOne
<1>7. \A u : Leads(own, t, u, g)
  <2> SUFFICES ASSUME NEW u PROVE Leads(own, t, u, g)
    OBVIOUS
  <2>1. After(u, t, SurfaceMap(t, g)) = g
    BY DEF After, SurfaceMap
  <2> QED BY <2>1, LeadsAtMostOne
<1> HIDE DEF f, own, Messages
<1>8. theirs \in Seq(Messages)
  BY <1>2, <1>3, ValuesType
<1>9. ASSUME NEW x, NEW u, NEW w,
             \/ x \notin mapping /\ u = w
             \/ x \in mapping /\ w = [parent |-> t, box |-> box[x]]
      PROVE  Leads(theirs, x, u, w)
  <2>1. /\ \A m \in V : m.handle = x => \A v : After(v, x, m) = w
        /\ (\E m \in V : m.handle = x) \/ u = w
    BY <1>4, <1>9
  <2>2. f \in Surjection(mapping, V)
    BY <1>3 DEF Surjection
  <2> HIDE DEF V
  <2>3. IsFiniteSet(V)
    BY <1>2, <2>2, FS_Surjection
  <2> QED BY <2>1, <2>3, SetLeads
<1> HIDE DEF theirs
<1>10. ms \in Seq(Messages)
  BY <1>1, <1>5, <1>8, ConcatProperties
<1>11. ASSUME NEW x, NEW u, NEW v, NEW w, NEW y,
              Leads(own, x, u, v), Leads(theirs, x, v, w),
              Leads(theirs, x, u, y), Leads(own, x, y, w)
       PROVE  Leads(ms, x, u, w)
  <2>1. Leads(own \o theirs, x, u, w)
    BY <1>5, <1>8, <1>11, LeadsThrough
  <2>2. Leads(theirs \o own, x, u, w)
    BY <1>5, <1>8, <1>11, LeadsThrough
  <2> QED BY <1>1, <2>1, <2>2
<1>12. ToplevelsTold(ms)
  <2> SUFFICES ASSUME NEW x \in Toplevels
               PROVE  Leads(ms, x, ToplevelShown(x), ToplevelShown(x)')
    BY DEF ToplevelsTold
  <2>1. x \notin mapping
    BY Kinds
  <2> DEFINE u == ToplevelShown(x)   w == ToplevelShown(x)'
  <2>2. CASE x = t
    <3>1. w = g
      BY <2>2 DEF ToplevelShown
    <3> HIDE DEF u, w
    <3>2. Leads(ms, x, u, w)
      BY <1>7, <1>9, <1>11, <2>1, <2>2, <3>1
    <3> QED BY <3>2 DEF u, w
  <2>3. CASE x # t
    <3>1. w = u
      BY <2>3 DEF ToplevelShown
    <3> HIDE DEF u, w
    <3>2. Leads(ms, x, u, w)
      BY <1>6, <1>9, <1>11, <2>1, <2>3, <3>1
    <3> QED BY <3>2 DEF u, w
  <2> QED BY <2>2, <2>3
<1>13. SubsurfacesTold(ms)
  <2> SUFFICES ASSUME NEW x \in Subsurfaces
               PROVE  Leads(ms, x, SubsurfaceShown(x), SubsurfaceShown(x)')
    BY DEF SubsurfacesTold
  <2>1. x # t
    BY Kinds
  <2> DEFINE u == SubsurfaceShown(x)   w == SubsurfaceShown(x)'
  <2>2. \A y : Leads(own, x, y, y)
    BY <1>6, <2>1
  <2>3. Leads(theirs, x, u, w)
    <3>1. CASE x \in mapping
      <4>1. w = [parent |-> t, box |-> box[x]]
        BY <3>1
      <4> HIDE DEF u
      <4> QED BY <1>9, <3>1, <4>1
    <3>2. CASE x \notin mapping
      <4>1. w = u
        BY <3>2 DEF SubsurfaceShown
      <4> HIDE DEF u, w
      <4> QED BY <1>9, <3>2, <4>1
    <3> QED BY <3>1, <3>2
  <2> HIDE DEF u, w
  <2>4. Leads(ms, x, u, w)
    BY <1>11, <2>2, <2>3
  <2> QED BY <2>4 DEF u, w
<1>14. PopupsTold(ms)
  <2> SUFFICES ASSUME NEW x \in Popups, NEW place \in Spots
               PROVE  Leads(ms, x, PopupShown(x, place), PopupShown(x, place)')
    BY DEF PopupsTold
  <2>1. x # t /\ x \notin mapping
    BY Kinds
  <2> DEFINE u == PopupShown(x, place)   w == PopupShown(x, place)'
  <2>2. w = u
    BY DEF PopupShown
  <2> HIDE DEF u, w
  <2>3. Leads(ms, x, u, w)
    BY <1>6, <1>9, <1>11, <2>1, <2>2
  <2> QED BY <2>3 DEF u, w
<1> QED BY <1>10, <1>12, <1>13, <1>14

\* A mapped surface's content is read by the commit that maps it.
LEMMA ContentStaysRead ==
  ASSUME ClientInv, ContentRead, Next
  PROVE  ContentRead'
<1>1. /\ toplevel \in [Toplevels -> ToplevelRecord]
      /\ subsurface \in [Subsurfaces -> SubsurfaceRecord]
      /\ \A t \in Toplevels : toplevel[t] \in ToplevelRecord
      /\ \A s \in Subsurfaces : subsurface[s] \in SubsurfaceRecord
  BY DEF ClientInv, ClientTypeOK
<1>2. \A t \in Toplevels : toplevel'[t].state = "mapped" => toplevel'[t].geo \in Sizes
  <2>1. CASE toplevel' = toplevel
    BY <2>1 DEF ContentRead
  <2>2. ASSUME NEW t \in Toplevels,
               \/ NewToplevel(t) \/ UnmapToplevel(t) \/ DestroyToplevel(t)
               \/ \E g \in Sizes : MapToplevel(t, g) \/ CommitToplevel(t, g)
        PROVE  \A x \in Toplevels : toplevel'[x].state = "mapped" => toplevel'[x].geo \in Sizes
    <3> USE DEF ContentRead
    <3>1. CASE NewToplevel(t)
      BY <1>1, <3>1 DEF NewToplevel, ToplevelRecord
    <3>2. CASE UnmapToplevel(t)
      BY <1>1, <3>2 DEF UnmapToplevel, ToplevelRecord
    <3>3. CASE DestroyToplevel(t)
      BY <1>1, <3>3 DEF DestroyToplevel, NoToplevel
    <3>4. CASE \E g \in Sizes : MapToplevel(t, g)
      <4>1. PICK g \in Sizes :
              toplevel' = [toplevel EXCEPT ![t] = [state |-> "mapped", geo |-> g]]
        BY <3>4 DEF MapToplevel
      <4> QED BY <1>1, <4>1
    <3>5. CASE \E g \in Sizes : CommitToplevel(t, g)
      BY <1>1, <3>5 DEF CommitToplevel, ToplevelRecord
    <3> QED BY <2>2, <3>1, <3>2, <3>3, <3>4, <3>5
  <2>3. SubsurfaceNext \/ PopupNext \/ DartNext => toplevel' = toplevel
    BY DEF SubsurfaceNext, NewSubsurface, MapSubsurface, CommitSubsurface, UnmapSubsurface,
           DestroySubsurface, Crash, PopupNext, NewPopup, ConstrainPopup, RepositionPopup,
           MapPopup, CommitPopup, UnmapPopup, DestroyPopup, DartNext, OnSurfaceMap,
           OnSurfaceUnmap, OnSurfaceGeometry, OnSubsurfaceMap, OnSubsurfaceUnmap,
           OnSubsurfacePosition, OnPopupMap, OnPopupUnmap, Receive
  <2> QED BY <2>1, <2>2, <2>3 DEF Next, ToplevelNext
<1>3. \A s \in Subsurfaces : subsurface'[s].state = "mapped" => subsurface'[s].box \in Sizes
  <2>1. CASE subsurface' = subsurface
    BY <2>1 DEF ContentRead
  <2>2. ASSUME NEW t \in Toplevels, subsurface' = ChildrenUnmapped(t)
        PROVE  \A s \in Subsurfaces : subsurface'[s].state = "mapped" =>
                                         subsurface'[s].box \in Sizes
    BY <1>1, <2>2 DEF ChildrenUnmapped, SubsurfaceRecord, ContentRead
  <2>3. ASSUME NEW t \in Toplevels, NEW g \in Sizes, MapToplevel(t, g)
        PROVE  \A s \in Subsurfaces : subsurface'[s].state = "mapped" =>
                                         subsurface'[s].box \in Sizes
    <3> DEFINE mapping == {s \in ChildrenOf(t) : subsurface[s].buffer}
    <3>1. PICK box \in [mapping -> Sizes] :
              subsurface' = [s \in Subsurfaces |->
                IF s \in mapping
                THEN [subsurface[s] EXCEPT !.state = "mapped", !.box = box[s]]
                ELSE subsurface[s]]
      BY <2>3 DEF MapToplevel
    <3> HIDE DEF mapping
    <3> QED BY <1>1, <3>1 DEF SubsurfaceRecord, ContentRead
  <2>4. ASSUME NEW s \in Subsurfaces,
               \/ \E t \in Toplevels : NewSubsurface(s, t)
               \/ \E b \in Sizes : MapSubsurface(s, b) \/ CommitSubsurface(s, b)
               \/ UnmapSubsurface(s) \/ DestroySubsurface(s) \/ Crash(s)
        PROVE  \A x \in Subsurfaces : subsurface'[x].state = "mapped" =>
                                         subsurface'[x].box \in Sizes
    <3> USE DEF ContentRead
    <3>1. CASE \E t \in Toplevels : NewSubsurface(s, t)
      BY <1>1, <3>1 DEF NewSubsurface, NoSubsurface
    <3>2. CASE \E b \in Sizes : MapSubsurface(s, b)
      BY <1>1, <3>2 DEF MapSubsurface, SubsurfaceRecord
    <3>3. CASE \E b \in Sizes : CommitSubsurface(s, b)
      BY <1>1, <3>3 DEF CommitSubsurface, SubsurfaceRecord
    <3>4. CASE UnmapSubsurface(s)
      BY <1>1, <3>4 DEF UnmapSubsurface, SubsurfaceRecord
    <3>5. CASE DestroySubsurface(s)
      BY <1>1, <3>5 DEF DestroySubsurface, NoSubsurface
    <3>6. CASE Crash(s)
      BY <2>1, <3>6 DEF Crash
    <3> QED BY <2>4, <3>1, <3>2, <3>3, <3>4, <3>5, <3>6
  <2>5. PopupNext \/ DartNext => subsurface' = subsurface
    BY DEF PopupNext, NewPopup, ConstrainPopup, RepositionPopup,
           MapPopup, CommitPopup, UnmapPopup, DestroyPopup, DartNext, OnSurfaceMap,
           OnSurfaceUnmap, OnSurfaceGeometry, OnSubsurfaceMap, OnSubsurfaceUnmap,
           OnSubsurfacePosition, OnPopupMap, OnPopupUnmap, Receive
  <2>6. CASE ToplevelNext
    <3>1. PICK t \in Toplevels :
            \/ NewToplevel(t) \/ UnmapToplevel(t) \/ DestroyToplevel(t)
            \/ \E g \in Sizes : MapToplevel(t, g) \/ CommitToplevel(t, g)
      BY <2>6 DEF ToplevelNext
    <3> QED BY <2>1, <2>2, <2>3, <3>1
            DEF NewToplevel, UnmapToplevel, DestroyToplevel, CommitToplevel
  <2> QED BY <2>1, <2>4, <2>5, <2>6 DEF Next, SubsurfaceNext
<1> QED BY <1>2, <1>3 DEF ContentRead

\* Every request on a toplevel tells Dart what has changed.
LEMMA ToplevelMirrored ==
  ASSUME ClientInv, channel \in Seq(Messages), Mirrored, ToplevelNext
  PROVE  MirrorLeads'
<1> PICK t \in Toplevels :
        \/ NewToplevel(t) \/ UnmapToplevel(t) \/ DestroyToplevel(t)
        \/ \E g \in Sizes : MapToplevel(t, g) \/ CommitToplevel(t, g)
  BY DEF ToplevelNext
<1>1. /\ toplevel \in [Toplevels -> ToplevelRecord] /\ toplevel[t] \in ToplevelRecord
      /\ t \notin Subsurfaces /\ t \notin Popups
      /\ SurfaceUnmap(t) \in Messages /\ SurfaceUnmap(t).handle = t
  BY MessagesMade, Kinds DEF ClientInv, ClientTypeOK, SurfaceUnmap
<1>2. ASSUME NEW ms, Request(ms),
             ToplevelsTold(ms) /\ SubsurfacesTold(ms) /\ PopupsTold(ms) /\ ms \in Seq(Messages)
      PROVE  MirrorLeads'
  <2> HIDE DEF Messages
  <2> QED BY <1>2, TheyAreTold DEF Mirrored
<1>3. CASE NewToplevel(t)
  <2>1. /\ Request(<<>>) /\ UNCHANGED <<subsurface, popup>>
        /\ \A x \in Toplevels \ {t} : toplevel'[x] = toplevel[x]
        /\ ToplevelShown(t) = None /\ ToplevelShown(t)' = None
    BY <1>1, <1>3 DEF NewToplevel, ToplevelShown, ToplevelRecord
  <2>2. Leads(<<>>, t, ToplevelShown(t), ToplevelShown(t)')
    BY <2>1, LeadsNowhere
  <2> HIDE DEF Messages
  <2> QED BY <1>1, <1>2, <2>1, <2>2, OneIsTold
<1>4. CASE UnmapToplevel(t) \/ DestroyToplevel(t)
  <2>1. /\ Request(UnmapMessages(t))
        /\ \A x \in Toplevels \ {t} : toplevel'[x] = toplevel[x]
        /\ toplevel'[t].state # "mapped"
        /\ subsurface' = ChildrenUnmapped(t) /\ popup' = PopupsDestroyed(t)
    BY <1>1, <1>4 DEF UnmapToplevel, DestroyToplevel, ToplevelRecord, NoToplevel
  <2> HIDE DEF Messages
  <2> QED BY <1>2, <2>1, FamilyTold
<1>5. ASSUME NEW g \in Sizes, MapToplevel(t, g)
      PROVE  MirrorLeads'
  <2> DEFINE mapping == {s \in ChildrenOf(t) : subsurface[s].buffer}
  <2>1. mapping \in SUBSET Subsurfaces
    BY DEF ChildrenOf
  <2>2. PICK box \in [mapping -> Sizes], childrenFirst \in BOOLEAN :
          /\ LET own == <<SurfaceMap(t, g)>>
                 theirs == SetToSeq({SubsurfaceMap(s, t, box[s]) : s \in mapping})
             IN  Request(IF childrenFirst THEN theirs \o own ELSE own \o theirs)
          /\ subsurface' = [s \in Subsurfaces |->
                IF s \in mapping
                THEN [subsurface[s] EXCEPT !.state = "mapped", !.box = box[s]]
                ELSE subsurface[s]]
          /\ toplevel' = [toplevel EXCEPT ![t] = [state |-> "mapped", geo |-> g]]
          /\ popup' = popup
    BY <1>5 DEF MapToplevel
  <2>3. /\ \A s \in mapping : box[s] \in Sizes
        /\ toplevel'[t] = [state |-> "mapped", geo |-> g]
        /\ \A x \in Toplevels \ {t} : toplevel'[x] = toplevel[x]
        /\ \A s \in Subsurfaces \ mapping : subsurface'[s] = subsurface[s]
    BY <1>1, <2>2
  <2>4. \A s \in mapping : SubsurfaceShown(s)' = [parent |-> t, box |-> box[s]]
    <3> SUFFICES ASSUME NEW s \in mapping
                 PROVE  SubsurfaceShown(s)' = [parent |-> t, box |-> box[s]]
      OBVIOUS
    <3>1. subsurface[s] \in SubsurfaceRecord /\ subsurface[s].parent = t /\ s \in Subsurfaces
      BY DEF ChildrenOf, ClientInv, ClientTypeOK
    <3>2. subsurface'[s] = [subsurface[s] EXCEPT !.state = "mapped", !.box = box[s]]
      BY <2>2, <3>1
    <3>3. /\ subsurface'[s].state = "mapped" /\ subsurface'[s].parent = t
          /\ subsurface'[s].box = box[s]
      BY <3>1, <3>2 DEF SubsurfaceRecord
    <3> QED BY <3>3 DEF SubsurfaceShown
  <2> DEFINE own == <<SurfaceMap(t, g)>>
             theirs == SetToSeq({SubsurfaceMap(s, t, box[s]) : s \in mapping})
             ms == IF childrenFirst THEN theirs \o own ELSE own \o theirs
  <2>5. Request(ms) /\ popup' = popup
    BY <2>2
  <2> HIDE DEF mapping, Messages
  <2>6. MapMessages(t, g, mapping, box, ms)
    BY DEF MapMessages
  <2> HIDE DEF ms
  <2>7. ToplevelsTold(ms) /\ SubsurfacesTold(ms) /\ PopupsTold(ms) /\ ms \in Seq(Messages)
    BY <2>1, <2>3, <2>4, <2>5, <2>6, MapTold
  <2> QED BY <1>2, <2>5, <2>7
<1>6. ASSUME NEW g \in Sizes, CommitToplevel(t, g)
      PROVE  MirrorLeads'
  <2> DEFINE m == SurfaceGeometry(t, g)
             ms == IF g # toplevel[t].geo THEN <<m>> ELSE <<>>
  <2>1. m \in Messages /\ m.handle = t
    BY MessagesMade DEF SurfaceGeometry
  <2>2. /\ Request(ms) /\ UNCHANGED <<subsurface, popup>>
        /\ \A x \in Toplevels \ {t} : toplevel'[x] = toplevel[x]
        /\ toplevel'[t].geo = g /\ toplevel'[t].state = toplevel[t].state
    BY <1>1, <1>6 DEF CommitToplevel, ToplevelRecord
  <2>3. \/ ms = <<m>> /\ g # toplevel[t].geo
        \/ ms = <<>> /\ g = toplevel[t].geo
    <3> HIDE DEF m
    <3> QED OBVIOUS
  <2>4. \A v : After(v, t, m) = IF v = None THEN None ELSE g
    BY DEF After, SurfaceGeometry
  <2>5. toplevel[t].state = "mapped" => toplevel[t].geo # None
    BY Kinds DEF Mirrored, ContentRead
  <2> HIDE DEF m, ms, Messages
  <2>6. Leads(ms, t, ToplevelShown(t), ToplevelShown(t)')
    <3> DEFINE u == ToplevelShown(t)   w == ToplevelShown(t)'
    <3>1. ms = <<m>> => After(u, t, m) = w
      BY <2>2, <2>4, <2>5 DEF ToplevelShown
    <3>2. ms = <<>> => u = w
      BY <2>2, <2>3 DEF ToplevelShown
    <3> HIDE DEF u, w
    <3>3. Leads(ms, t, u, w)
      BY <2>3, <3>1, <3>2, LeadsAtMostOne
    <3> QED BY <3>3 DEF u, w
  <2>7. ToplevelsTold(ms) /\ SubsurfacesTold(ms) /\ PopupsTold(ms) /\ ms \in Seq(Messages)
    BY <1>1, <2>1, <2>2, <2>3, <2>6, OneIsTold
  <2> QED BY <1>2, <2>2, <2>7
<1> QED BY <1>3, <1>4, <1>5, <1>6

\* So does every request on a subsurface.
LEMMA SubsurfaceMirrored ==
  ASSUME ClientInv, channel \in Seq(Messages), Mirrored, SubsurfaceNext
  PROVE  MirrorLeads'
<1> PICK s \in Subsurfaces :
        \/ \E t \in Toplevels : NewSubsurface(s, t)
        \/ \E b \in Sizes : MapSubsurface(s, b) \/ CommitSubsurface(s, b)
        \/ UnmapSubsurface(s) \/ DestroySubsurface(s) \/ Crash(s)
  BY DEF SubsurfaceNext
<1>1. /\ subsurface \in [Subsurfaces -> SubsurfaceRecord] /\ subsurface[s] \in SubsurfaceRecord
      /\ s \notin Toplevels /\ s \notin Popups
      /\ Live(subsurface[s]) => subsurface[s].parent \in Toplevels
      /\ subsurface[s].state = "mapped" => Live(subsurface[s]) /\ subsurface[s].box \in Sizes
  BY Kinds DEF ClientInv, ClientTypeOK, RecordsFilled, Mirrored, ContentRead, Live
<1>2. ASSUME NEW m \in Messages, m.handle = s, NEW ms, ms = <<m>> \/ ms = <<>>, Request(ms),
             UNCHANGED <<toplevel, popup>>,
             \A x \in Subsurfaces \ {s} : subsurface'[x] = subsurface[x],
             ms = <<m>> => After(SubsurfaceShown(s), s, m) = SubsurfaceShown(s)',
             ms = <<>> => SubsurfaceShown(s) = SubsurfaceShown(s)'
      PROVE  MirrorLeads'
  <2> DEFINE u == SubsurfaceShown(s)   w == SubsurfaceShown(s)'
  <2> HIDE DEF u, w, Messages
  <2>1. Leads(ms, s, u, w)
    BY <1>2, LeadsAtMostOne DEF u, w
  <2>2. Leads(ms, s, SubsurfaceShown(s), SubsurfaceShown(s)')
    BY <2>1 DEF u, w
  <2>3. ToplevelsTold(ms) /\ SubsurfacesTold(ms) /\ PopupsTold(ms) /\ ms \in Seq(Messages)
    BY <1>1, <1>2, <2>2, OneIsTold
  <2> QED BY <1>2, <2>3, TheyAreTold DEF Mirrored
<1>3. SubsurfaceUnmap(s) \in Messages /\ SubsurfaceUnmap(s).handle = s
      /\ \A v : After(v, s, SubsurfaceUnmap(s)) = None
  BY MessagesMade, MessageEffects DEF SubsurfaceUnmap
<1> HIDE DEF Messages
<1>4. CASE \E t \in Toplevels : NewSubsurface(s, t)
  <2>1. /\ Request(<<>>) /\ UNCHANGED <<toplevel, popup>>
        /\ \A x \in Subsurfaces \ {s} : subsurface'[x] = subsurface[x]
        /\ subsurface[s].state # "mapped" /\ subsurface'[s].state # "mapped"
    BY <1>1, <1>4 DEF NewSubsurface, NoSubsurface
  <2>2. SubsurfaceShown(s) = SubsurfaceShown(s)'
    BY <2>1 DEF SubsurfaceShown
  <2> QED BY <1>2, <1>3, <2>1, <2>2
<1>5. ASSUME NEW b \in Sizes, MapSubsurface(s, b)
      PROVE  MirrorLeads'
  <2> DEFINE t == subsurface[s].parent   m == SubsurfaceMap(s, t, b)
  <2>1. /\ Request(<<m>>) /\ UNCHANGED <<toplevel, popup>>
        /\ \A x \in Subsurfaces \ {s} : subsurface'[x] = subsurface[x]
        /\ subsurface'[s].state = "mapped" /\ subsurface'[s].parent = t
        /\ subsurface'[s].box = b /\ t \in Toplevels
    BY <1>1, <1>5 DEF MapSubsurface, SubsurfaceRecord, Live
  <2>2. SubsurfaceShown(s)' = [parent |-> t, box |-> b]
    BY <2>1 DEF SubsurfaceShown
  <2> HIDE DEF t
  <2>3. m \in Messages /\ m.handle = s /\ \A v : After(v, s, m) = [parent |-> t, box |-> b]
    <3>1. m \in Messages
      BY <2>1, MessagesMade
    <3>2. m.handle = s /\ \A v : After(v, s, m) = [parent |-> t, box |-> b]
      BY DEF After, SubsurfaceMap
    <3> QED BY <3>1, <3>2
  <2> HIDE DEF m
  <2>4. <<m>> # <<>>
    OBVIOUS
  <2> QED BY <1>2, <2>1, <2>2, <2>3, <2>4
<1>6. ASSUME NEW b \in Sizes, CommitSubsurface(s, b)
      PROVE  MirrorLeads'
  <2> DEFINE m == SubsurfacePosition(s, b)
             ms == IF b # subsurface[s].box THEN <<m>> ELSE <<>>
  <2>1. /\ Request(ms) /\ UNCHANGED <<toplevel, popup>>
        /\ \A x \in Subsurfaces \ {s} : subsurface'[x] = subsurface[x]
        /\ subsurface'[s].state = subsurface[s].state
        /\ subsurface'[s].parent = subsurface[s].parent
        /\ subsurface'[s].box = b
    BY <1>1, <1>6 DEF CommitSubsurface, SubsurfaceRecord
  <2>2. m \in Messages /\ m.handle = s
        /\ \A v : After(v, s, m) = IF v = None THEN None ELSE [v EXCEPT !.box = b]
    BY MessagesMade, MessageEffects DEF SubsurfacePosition
  <2>3. ms = <<m>> \/ ms = <<>>
    <3> HIDE DEF m
    <3> QED OBVIOUS
  <2>4. After(SubsurfaceShown(s), s, m) = SubsurfaceShown(s)'
    <3>1. CASE subsurface[s].state = "mapped"
      <4> DEFINE v == [parent |-> subsurface[s].parent, box |-> subsurface[s].box]
      <4>1. SubsurfaceShown(s) = v
            /\ SubsurfaceShown(s)' = [parent |-> subsurface[s].parent, box |-> b]
        BY <2>1, <3>1 DEF SubsurfaceShown
      <4>2. [v EXCEPT !.box = b] = [parent |-> subsurface[s].parent, box |-> b]
        <5> DEFINE t == subsurface[s].parent   c == subsurface[s].box
        <5> HIDE DEF t, c, m
        <5>1. [[parent |-> t, box |-> c] EXCEPT !.box = b] = [parent |-> t, box |-> b]
          OBVIOUS
        <5> QED BY <5>1 DEF t, c
      <4>3. v # None
        BY <1>1, <3>1, Kinds
      <4> HIDE DEF v, m
      <4> QED BY <2>2, <4>1, <4>2, <4>3
    <3>2. CASE subsurface[s].state # "mapped"
      <4>1. SubsurfaceShown(s) = None /\ SubsurfaceShown(s)' = None
        BY <2>1, <3>2 DEF SubsurfaceShown
      <4> HIDE DEF m
      <4> QED BY <2>2, <4>1
    <3> QED BY <3>1, <3>2
  <2>5. ms = <<>> => SubsurfaceShown(s) = SubsurfaceShown(s)'
    <3>1. ms = <<>> => b = subsurface[s].box
      <4> HIDE DEF m
      <4> QED OBVIOUS
    <3> HIDE DEF ms
    <3> QED BY <2>1, <3>1 DEF SubsurfaceShown
  <2> HIDE DEF m, ms
  <2> QED BY <1>2, <2>1, <2>2, <2>3, <2>4, <2>5
<1>7. CASE UnmapSubsurface(s) \/ DestroySubsurface(s)
  <2> DEFINE m == SubsurfaceUnmap(s)
             ms == IF subsurface[s].state = "mapped" THEN <<m>> ELSE <<>>
  <2>1. /\ Request(ms) /\ UNCHANGED <<toplevel, popup>>
        /\ \A x \in Subsurfaces \ {s} : subsurface'[x] = subsurface[x]
        /\ subsurface'[s].state # "mapped"
    <3> HIDE DEF m
    <3>1. CASE UnmapSubsurface(s)
      BY <1>1, <3>1 DEF UnmapSubsurface, SubsurfaceRecord, m
    <3>2. CASE DestroySubsurface(s)
      BY <1>1, <3>2 DEF DestroySubsurface, NoSubsurface, m
    <3> QED BY <1>7, <3>1, <3>2
  <2>2. SubsurfaceShown(s)' = None
    BY <2>1 DEF SubsurfaceShown
  <2>3. ms = <<>> => SubsurfaceShown(s) = None
    BY DEF SubsurfaceShown
  <2>4. ms = <<m>> \/ ms = <<>>
    OBVIOUS
  <2> HIDE DEF ms, m
  <2> QED BY <1>2, <1>3, <2>1, <2>2, <2>3, <2>4 DEF m
<1>8. CASE Crash(s)
  <2>1. /\ Request(<<>>) /\ UNCHANGED <<toplevel, subsurface, popup>>
    BY <1>8 DEF Crash
  <2>2. SubsurfaceShown(s) = SubsurfaceShown(s)'
    BY <2>1 DEF SubsurfaceShown
  <2> QED BY <1>2, <1>3, <2>1, <2>2
<1> QED BY <1>4, <1>5, <1>6, <1>7, <1>8

\* And every request on a popup; a place that only the client has changed is
\* not told.
LEMMA PopupMirrored ==
  ASSUME ClientInv, channel \in Seq(Messages), Mirrored, PopupNext
  PROVE  MirrorLeads'
<1> PICK p \in Popups :
        \/ \E parent \in Toplevels \cup Popups, place \in Places : NewPopup(p, parent, place)
        \/ \E place \in Places : ConstrainPopup(p, place)
        \/ \E place \in Places, size \in Sizes : RepositionPopup(p, place, size)
        \/ \E size \in Sizes : MapPopup(p, size)
        \/ \E size \in Sizes, acknowledge \in BOOLEAN : CommitPopup(p, size, acknowledge)
        \/ UnmapPopup(p) \/ DestroyPopup(p)
  BY DEF PopupNext
<1>1. /\ popup \in [Popups -> PopupRecord] /\ popup[p] \in PopupRecord
      /\ p \notin Toplevels /\ p \notin Subsurfaces
      /\ Live(popup[p]) => popup[p].parent \in Toplevels /\ popup[p].scheduled \in Places
      /\ popup[p].state = "mapped" =>
            Live(popup[p]) /\ popup[p].current \in Places /\ p \in textures
  BY Kinds DEF ClientInv, ClientTypeOK, RecordsFilled, TextureLifetime, Live
<1>2. ASSUME NEW m \in Messages, m.handle = p, NEW ms, ms = <<m>> \/ ms = <<>>, Request(ms),
             UNCHANGED <<toplevel, subsurface>>,
             \A x \in Popups \ {p} : popup'[x] = popup[x],
             NEW now \in Spots,
             ms = <<m>> => \A v : After(v, p, m) = PopupShown(p, now)',
             ms = <<>> => \A place : PopupShown(p, place) = PopupShown(p, place)'
      PROVE  MirrorLeads'
  <2> HIDE DEF Messages
  <2>1. ASSUME NEW place \in Spots
        PROVE  \E placeNow \in Spots :
                  Leads(ms, p, PopupShown(p, place), PopupShown(p, placeNow)')
    <3> DEFINE u == PopupShown(p, place)   w == PopupShown(p, now)'
    <3>1. CASE ms = <<m>>
      <4>1. After(u, p, m) = w
        BY <1>2, <3>1
      <4> HIDE DEF u, w
      <4>2. Leads(<<m>>, p, u, w)
        BY <4>1, LeadsOne
      <4> QED BY <3>1, <4>2 DEF u, w
    <3>2. CASE ms = <<>>
      <4>1. PopupShown(p, place)' = u
        BY <1>2, <3>2
      <4> HIDE DEF u, w
      <4>2. Leads(<<>>, p, u, u)
        BY LeadsNowhere
      <4> QED BY <3>2, <4>1, <4>2 DEF u
    <3> QED BY <1>2, <3>1, <3>2
  <2>2. ToplevelsTold(ms) /\ SubsurfacesTold(ms) /\ PopupsTold(ms) /\ ms \in Seq(Messages)
    BY <1>1, <1>2, <2>1, OneIsTold
  <2> QED BY <1>2, <2>2, TheyAreTold DEF Mirrored
<1>3. PopupUnmap(p) \in Messages /\ PopupUnmap(p).handle = p
      /\ \A v : After(v, p, PopupUnmap(p)) = None
  BY MessagesMade, MessageEffects DEF PopupUnmap
<1> PICK spot \in Spots : TRUE
  BY DEF Spots
<1> HIDE DEF Messages
\* What is sent of a mapped popup is its record.
<1>4. ASSUME popup'[p].state = "mapped", popup'[p].parent \in Toplevels,
             popup'[p].size \in Sizes, popup'[p].current \in Places,
             NEW ms, ms = <<PopupMap(p, popup'[p])>>
                     \/ /\ ms = <<>> /\ popup[p].state = "mapped"
                        /\ popup[p].parent = popup'[p].parent
                        /\ popup[p].size = popup'[p].size,
             Request(ms), UNCHANGED <<toplevel, subsurface>>,
             \A x \in Popups \ {p} : popup'[x] = popup[x]
      PROVE  MirrorLeads'
  <2>0. PICK r, now : r = popup'[p] /\ now = r.current
    OBVIOUS
  <2> DEFINE m == PopupMap(p, r)
  <2>1. PopupShown(p, now)' = [parent |-> r.parent, size |-> r.size, place |-> now]
    BY <1>4, <2>0 DEF PopupShown
  <2>2. r.parent \in Toplevels /\ r.size \in Sizes /\ r.current \in Places
    BY <1>4, <2>0
  <2>3. ms = <<>> => \A place : PopupShown(p, place) = PopupShown(p, place)'
    <3> HIDE DEF m
    <3>1. <<m>> # <<>>
      OBVIOUS
    <3> QED BY <1>4, <2>0, <3>1 DEF PopupShown, m
  <2>4. /\ m \in Messages /\ m.handle = p
        /\ \A v : After(v, p, m) = [parent |-> r.parent, size |-> r.size, place |-> r.current]
    BY <2>2, PopupEffect
  <2>5. ms = <<m>> \/ ms = <<>>
    BY <1>4, <2>0
  <2>6. now \in Spots
    BY <2>0, <2>2 DEF Spots
  <2>7. \A v : After(v, p, m) = PopupShown(p, now)'
    BY <2>0, <2>1, <2>4
  <2> HIDE DEF m
  <2> QED BY <1>2, <1>4, <2>3, <2>4, <2>5, <2>6, <2>7
<1>5. ASSUME Request(<<>>), UNCHANGED <<toplevel, subsurface>>,
             \A x \in Popups \ {p} : popup'[x] = popup[x],
             popup[p].state # "mapped", popup'[p].state # "mapped"
      PROVE  MirrorLeads'
  <2>1. \A place : PopupShown(p, place) = PopupShown(p, place)'
    BY <1>5 DEF PopupShown
  <2> DEFINE m == PopupUnmap(p)
  <2>2. <<>> # <<m>> /\ m \in Messages /\ m.handle = p
    BY <1>3
  <2> HIDE DEF m
  <2> QED BY <1>2, <1>3, <1>5, <2>1, <2>2
<1>6. CASE \E parent \in Toplevels \cup Popups, place \in Places : NewPopup(p, parent, place)
  BY <1>1, <1>5, <1>6 DEF NewPopup, NoPopup
<1>7. ASSUME NEW place \in Places, ConstrainPopup(p, place)
      PROVE  MirrorLeads'
  <2>1. /\ Request(<<>>) /\ UNCHANGED <<toplevel, subsurface>>
        /\ \A x \in Popups \ {p} : popup'[x] = popup[x]
        /\ popup[p].state = "unmapped" /\ popup'[p].state = popup[p].state
    BY <1>1, <1>7 DEF ConstrainPopup, PopupRecord
  <2> QED BY <1>5, <2>1
<1>8. ASSUME NEW place \in Places, NEW size \in Sizes, RepositionPopup(p, place, size)
      PROVE  MirrorLeads'
  <2>1. /\ UNCHANGED <<toplevel, subsurface>>
        /\ \A x \in Popups \ {p} : popup'[x] = popup[x]
        /\ popup'[p].state = popup[p].state /\ popup'[p].parent = popup[p].parent
        /\ popup'[p].size = size /\ popup'[p].current = popup[p].current
    BY <1>1, <1>8 DEF RepositionPopup, PopupRecord
  <2>2. CASE popup[p].state = "mapped"
    <3>1. Request(<<PopupMap(p, popup'[p])>>)
      BY <1>8, <2>2 DEF RepositionPopup
    <3> QED BY <1>1, <1>4, <2>1, <2>2, <3>1
  <2>3. CASE popup[p].state # "mapped"
    <3>1. Request(<<>>)
      BY <1>8, <2>3 DEF RepositionPopup
    <3> QED BY <1>5, <2>1, <2>3, <3>1
  <2> QED BY <2>2, <2>3
<1>9. ASSUME NEW size \in Sizes, MapPopup(p, size)
      PROVE  MirrorLeads'
  <2>1. /\ UNCHANGED <<toplevel, subsurface>>
        /\ \A x \in Popups \ {p} : popup'[x] = popup[x]
        /\ popup'[p].state = "mapped" /\ popup'[p].parent = popup[p].parent
        /\ popup'[p].size = size /\ popup'[p].current = popup[p].scheduled
        /\ Live(popup[p])
    BY <1>1, <1>9 DEF MapPopup, PopupRecord, Live
  <2>2. Request(<<PopupMap(p, popup'[p])>>)
    BY <1>9 DEF MapPopup
  <2> QED BY <1>1, <1>4, <2>1, <2>2
<1>10. ASSUME NEW size \in Sizes, NEW acknowledge \in BOOLEAN, CommitPopup(p, size, acknowledge)
       PROVE  MirrorLeads'
  <2>1. /\ UNCHANGED <<toplevel, subsurface>>
        /\ \A x \in Popups \ {p} : popup'[x] = popup[x]
        /\ popup[p].state = "mapped" /\ popup'[p].state = "mapped"
        /\ popup'[p].parent = popup[p].parent /\ popup'[p].size = size
        /\ popup'[p].current \in {popup[p].scheduled, popup[p].current}
    BY <1>1, <1>10 DEF CommitPopup, PopupRecord
  <2>2. CASE size # popup[p].size
    <3>1. Request(<<PopupMap(p, popup'[p])>>)
      BY <1>10, <2>2 DEF CommitPopup
    <3> QED BY <1>1, <1>4, <2>1, <3>1
  <2>3. CASE size = popup[p].size
    <3>1. Request(<<>>)
      BY <1>1, <1>10, <2>1, <2>3 DEF CommitPopup
    <3> QED BY <1>1, <1>4, <2>1, <2>3, <3>1
  <2> QED BY <2>2, <2>3
<1>11. CASE UnmapPopup(p) \/ DestroyPopup(p)
  <2> DEFINE m == PopupUnmap(p)
             ms == IF popup[p].state = "mapped" THEN <<m>> ELSE <<>>
  <2>1. /\ Request(ms) /\ UNCHANGED <<toplevel, subsurface>>
        /\ \A x \in Popups \ {p} : popup'[x] = popup[x]
        /\ popup'[p].state # "mapped"
    <3> HIDE DEF m
    <3>1. CASE UnmapPopup(p)
      BY <1>1, <3>1 DEF UnmapPopup, PopupRecord, m
    <3>2. CASE DestroyPopup(p)
      BY <1>1, <3>2 DEF DestroyPopup, NoPopup, m
    <3> QED BY <1>11, <3>1, <3>2
  <2>2. \A place : PopupShown(p, place)' = None
    BY <2>1 DEF PopupShown
  <2>3. ms = <<>> => \A place : PopupShown(p, place) = None
    BY DEF PopupShown
  <2>4. ms = <<m>> \/ ms = <<>>
    OBVIOUS
  <2> HIDE DEF ms, m
  <2> QED BY <1>2, <1>3, <2>1, <2>2, <2>3, <2>4 DEF m
<1> QED BY <1>6, <1>7, <1>8, <1>9, <1>10, <1>11

\* Every handler of compositor_dart.dart does what After says.
LEMMA DartFollows ==
  ASSUME DartInv, channel \in Seq(Messages), DartNext
  PROVE  /\ channel # <<>> /\ channel' = Tail(channel)
         /\ UNCHANGED <<toplevel, subsurface, popup>>
         /\ \A t \in Toplevels : surfaces'[t] = After(surfaces[t], t, channel[1])
         /\ \A s \in Subsurfaces : subsurfaces'[s] = After(subsurfaces[s], s, channel[1])
         /\ \A p \in Popups : popups'[p] = After(popups[p], p, channel[1])
<1> DEFINE m == channel[1]
<1>1. PICK type \in {"surface_map", "surface_unmap", "surface_geometry", "subsurface_map",
                     "subsurface_unmap", "subsurface_position", "popup_map", "popup_unmap"} :
        Receive(type)
  BY DEF DartNext, OnSurfaceMap, OnSurfaceUnmap, OnSurfaceGeometry, OnSubsurfaceMap,
         OnSubsurfaceUnmap, OnSubsurfacePosition, OnPopupMap, OnPopupUnmap
<1>2. channel # <<>> /\ channel' = Tail(channel) /\ UNCHANGED <<toplevel, subsurface, popup>>
  BY <1>1 DEF Receive
<1>3. Head(channel) = m /\ m \in Messages
  <2> HIDE DEF Messages
  <2> QED BY <1>2, HeadTailProperties
<1>4. /\ surfaces \in [Toplevels -> Maybe(Sizes)]
      /\ subsurfaces \in [Subsurfaces -> Maybe([parent : Toplevels, box : Sizes])]
      /\ popups \in [Popups -> Maybe([parent : Toplevels, size : Sizes, place : Places])]
  BY DEF DartInv, DartTypeOK
<1> SUFFICES /\ \A t \in Toplevels : surfaces'[t] = After(surfaces[t], t, m)
             /\ \A s \in Subsurfaces : subsurfaces'[s] = After(subsurfaces[s], s, m)
             /\ \A p \in Popups : popups'[p] = After(popups[p], p, m)
  BY <1>2
<1> HIDE DEF m
<1>5. \A kind : Receive(kind) => m.type = kind
  BY <1>3 DEF Receive
<1>6. \A x, v : x # m.handle => After(v, x, m) = v
  BY DEF After
<1>7. CASE OnSurfaceMap
  <2>1. m.type = "surface_map" /\ m.handle \in Toplevels
    BY <1>3, <1>5, <1>7, MessageFields DEF OnSurfaceMap
  <2>2. /\ surfaces' = [surfaces EXCEPT ![m.handle] = m.geo]
        /\ subsurfaces' = subsurfaces /\ popups' = popups
    BY <1>3, <1>7 DEF OnSurfaceMap
  <2>3. \A v : After(v, m.handle, m) = m.geo
    BY <2>1 DEF After
  <2> QED BY <1>4, <1>6, <2>1, <2>2, <2>3, Kinds
<1>8. CASE OnSurfaceUnmap
  <2>1. m.type = "surface_unmap" /\ m.handle \in Toplevels
    BY <1>3, <1>5, <1>8, MessageFields DEF OnSurfaceUnmap
  <2>2. /\ surfaces' = [surfaces EXCEPT ![m.handle] = None]
        /\ subsurfaces' = subsurfaces /\ popups' = popups
    BY <1>3, <1>8 DEF OnSurfaceUnmap
  <2>3. \A v : After(v, m.handle, m) = None
    BY <2>1 DEF After
  <2> QED BY <1>4, <1>6, <2>1, <2>2, <2>3, Kinds
<1>9. CASE OnSurfaceGeometry
  <2>1. m.type = "surface_geometry" /\ m.handle \in Toplevels
    BY <1>3, <1>5, <1>9, MessageFields DEF OnSurfaceGeometry
  <2>2. /\ surfaces' = [surfaces EXCEPT ![m.handle] =
                           IF surfaces[m.handle] = None THEN None ELSE m.geo]
        /\ subsurfaces' = subsurfaces /\ popups' = popups
    BY <1>3, <1>9 DEF OnSurfaceGeometry
  <2>3. \A v : After(v, m.handle, m) = IF v = None THEN None ELSE m.geo
    BY <2>1 DEF After
  <2> QED BY <1>4, <1>6, <2>1, <2>2, <2>3, Kinds
<1>10. CASE OnSubsurfaceMap
  <2>1. m.type = "subsurface_map" /\ m.handle \in Subsurfaces
    BY <1>3, <1>5, <1>10, MessageFields DEF OnSubsurfaceMap
  <2> DEFINE r == [parent |-> m.parent, box |-> m.box]
  <2>2. /\ subsurfaces' = [subsurfaces EXCEPT ![m.handle] = r]
        /\ surfaces' = surfaces /\ popups' = popups
    BY <1>3, <1>10 DEF OnSubsurfaceMap
  <2>3. \A v : After(v, m.handle, m) = r
    BY <2>1 DEF After
  <2> HIDE DEF r
  <2> QED BY <1>4, <1>6, <2>1, <2>2, <2>3, Kinds
<1>11. CASE OnSubsurfaceUnmap
  <2>1. m.type = "subsurface_unmap" /\ m.handle \in Subsurfaces
    BY <1>3, <1>5, <1>11, MessageFields DEF OnSubsurfaceUnmap
  <2>2. /\ subsurfaces' = [subsurfaces EXCEPT ![m.handle] = None]
        /\ surfaces' = surfaces /\ popups' = popups
    BY <1>3, <1>11 DEF OnSubsurfaceUnmap
  <2>3. \A v : After(v, m.handle, m) = None
    BY <2>1 DEF After
  <2> QED BY <1>4, <1>6, <2>1, <2>2, <2>3, Kinds
<1>12. CASE OnSubsurfacePosition
  <2>1. m.type = "subsurface_position" /\ m.handle \in Subsurfaces
    BY <1>3, <1>5, <1>12, MessageFields DEF OnSubsurfacePosition
  <2> DEFINE r == IF subsurfaces[m.handle] = None THEN None
                  ELSE [subsurfaces[m.handle] EXCEPT !.box = m.box]
  <2>2. /\ subsurfaces' = [subsurfaces EXCEPT ![m.handle] = r]
        /\ surfaces' = surfaces /\ popups' = popups
    BY <1>3, <1>12 DEF OnSubsurfacePosition
  <2>3. After(subsurfaces[m.handle], m.handle, m) = r
    BY <2>1 DEF After
  <2> HIDE DEF r
  <2> QED BY <1>4, <1>6, <2>1, <2>2, <2>3, Kinds
<1>13. CASE OnPopupMap
  <2>1. m.type = "popup_map" /\ m.handle \in Popups
    BY <1>3, <1>5, <1>13, MessageFields DEF OnPopupMap
  <2> DEFINE r == [parent |-> m.parent, size |-> m.size, place |-> m.place]
  <2>2. /\ popups' = [popups EXCEPT ![m.handle] = r]
        /\ surfaces' = surfaces /\ subsurfaces' = subsurfaces
    BY <1>3, <1>13 DEF OnPopupMap
  <2>3. \A v : After(v, m.handle, m) = r
    BY <2>1 DEF After
  <2> HIDE DEF r
  <2> QED BY <1>4, <1>6, <2>1, <2>2, <2>3, Kinds
<1>14. CASE OnPopupUnmap
  <2>1. m.type = "popup_unmap" /\ m.handle \in Popups
    BY <1>3, <1>5, <1>14, MessageFields DEF OnPopupUnmap
  <2>2. /\ popups' = [popups EXCEPT ![m.handle] = None]
        /\ surfaces' = surfaces /\ subsurfaces' = subsurfaces
    BY <1>3, <1>14 DEF OnPopupUnmap
  <2>3. \A v : After(v, m.handle, m) = None
    BY <2>1 DEF After
  <2> QED BY <1>4, <1>6, <2>1, <2>2, <2>3, Kinds
<1> QED BY <1>7, <1>8, <1>9, <1>10, <1>11, <1>12, <1>13, <1>14 DEF DartNext

\* So the messages that are left lead where all of them did.
LEMMA DartMirrored ==
  ASSUME DartInv, channel \in Seq(Messages), MirrorLeads, DartNext
  PROVE  MirrorLeads'
<1>1. /\ channel # <<>> /\ channel' = Tail(channel)
      /\ UNCHANGED <<toplevel, subsurface, popup>>
      /\ \A t \in Toplevels : surfaces'[t] = After(surfaces[t], t, channel[1])
      /\ \A s \in Subsurfaces : subsurfaces'[s] = After(subsurfaces[s], s, channel[1])
      /\ \A p \in Popups : popups'[p] = After(popups[p], p, channel[1])
  BY DartFollows
<1> HIDE DEF Messages
<1>2. \A x, u, v : Leads(channel, x, u, v) => Leads(channel', x, After(u, x, channel[1]), v)
  BY <1>1, LeadsOn
<1>3. \A t \in Toplevels : Leads(channel', t, surfaces'[t], ToplevelShown(t))
  BY <1>1, <1>2 DEF MirrorLeads
<1>4. \A s \in Subsurfaces : Leads(channel', s, subsurfaces'[s], SubsurfaceShown(s))
  BY <1>1, <1>2 DEF MirrorLeads
<1>5. \A p \in Popups : \E place \in Spots :
        Leads(channel', p, popups'[p], PopupShown(p, place))
  BY <1>1, <1>2 DEF MirrorLeads
<1>6. /\ \A t : ToplevelShown(t)' = ToplevelShown(t)
      /\ \A s : SubsurfaceShown(s)' = SubsurfaceShown(s)
      /\ \A p, place : PopupShown(p, place)' = PopupShown(p, place)
  BY <1>1 DEF ToplevelShown, SubsurfaceShown, PopupShown
<1> QED BY <1>3, <1>4, <1>5, <1>6 DEF MirrorLeads, Leads, LeadsBy

\* Nothing is shown, and nothing has been said.
LEMMA InitMirrored == Init => Mirrored
<1> SUFFICES ASSUME Init PROVE Mirrored
  OBVIOUS
<1>1. ContentRead
  BY DEF Init, NoToplevel, NoSubsurface, ContentRead
<1>2. \A t \in Toplevels : Leads(channel, t, surfaces[t], ToplevelShown(t))
  BY LeadsNowhere DEF Init, NoToplevel, ToplevelShown
<1>3. \A s \in Subsurfaces : Leads(channel, s, subsurfaces[s], SubsurfaceShown(s))
  BY LeadsNowhere DEF Init, NoSubsurface, SubsurfaceShown
<1>4. \A p \in Popups : \E place \in Spots :
        Leads(channel, p, popups[p], PopupShown(p, place))
  <2> PICK spot \in Spots : TRUE
    BY DEF Spots
  <2> QED BY LeadsNowhere DEF Init, NoPopup, PopupShown
<1> QED BY <1>1, <1>2, <1>3, <1>4 DEF Mirrored, MirrorLeads

\* And every step keeps the two sides so.
LEMMA StaysMirrored ==
  ASSUME IInv, Mirrored, [Next]_vars
  PROVE  Mirrored'
<1>1. ClientInv /\ DartInv /\ channel \in Seq(Messages)
  <2>1. PICK own \in [Subsurfaces -> Maybe(Toplevels)] : OwnedBy(own)
    BY DEF IInv, OneParent
  <2>2. channel \in Seq(Messages)
    BY <2>1, SeqMonotonic DEF OwnedBy, MessagesFor
  <2> QED BY <2>2 DEF IInv
<1>2. CASE ToplevelNext
  BY <1>1, <1>2, ToplevelMirrored, ContentStaysRead DEF Mirrored, Next
<1>3. CASE SubsurfaceNext
  BY <1>1, <1>3, SubsurfaceMirrored, ContentStaysRead DEF Mirrored, Next
<1>4. CASE PopupNext
  BY <1>1, <1>4, PopupMirrored, ContentStaysRead DEF Mirrored, Next
<1>5. CASE DartNext
  BY <1>1, <1>5, DartMirrored, ContentStaysRead DEF Mirrored, Next
<1>6. CASE UNCHANGED vars
  <2>1. UNCHANGED <<toplevel, subsurface, popup, channel, surfaces, subsurfaces, popups>>
    BY <1>6 DEF vars, dart
  <2>2. ContentRead'
    BY <2>1 DEF Mirrored, ContentRead
  <2>3. /\ \A t : ToplevelShown(t)' = ToplevelShown(t)
        /\ \A s : SubsurfaceShown(s)' = SubsurfaceShown(s)
        /\ \A p, place : PopupShown(p, place)' = PopupShown(p, place)
    BY <2>1 DEF ToplevelShown, SubsurfaceShown, PopupShown
  <2>4. MirrorLeads'
    BY <2>1, <2>3 DEF Mirrored, MirrorLeads, Leads, LeadsBy
  <2> QED BY <2>2, <2>4 DEF Mirrored
<1> QED BY <1>2, <1>3, <1>4, <1>5, <1>6 DEF Next

\* With no message under way it is what Dart shows.
LEMMA MirroredConverges == ASSUME IInv, Mirrored PROVE MirrorConverges
<1> SUFFICES ASSUME channel = <<>> PROVE MirrorConverges
  BY DEF MirrorConverges
<1>1. \A x, u, v : Leads(channel, x, u, v) => u = v
  BY LeadsNowhere
<1>2. \A t \in Toplevels : surfaces[t] = ToplevelShown(t)
  BY <1>1 DEF Mirrored, MirrorLeads
<1>3. \A s \in Subsurfaces : subsurfaces[s] = SubsurfaceShown(s)
  BY <1>1 DEF Mirrored, MirrorLeads
<1>4. ASSUME NEW p \in Popups
      PROVE  /\ popup[p].state = "mapped" <=> popups[p] # None
             /\ popups[p] # None => /\ popups[p].parent = popup[p].parent
                                    /\ popups[p].size = popup[p].size
  <2>1. PICK place \in Spots : popups[p] = PopupShown(p, place)
    BY <1>1 DEF Mirrored, MirrorLeads
  <2>2. CASE popup[p].state = "mapped"
    <3>1. /\ popup[p].parent \in Toplevels /\ popup[p].size \in Sizes
          /\ popup[p].current \in Places
      BY <2>2 DEF IInv, ClientInv, RecordsFilled, Live
    <3>2. popups[p] = [parent |-> popup[p].parent, size |-> popup[p].size, place |-> place]
      BY <2>1, <2>2 DEF PopupShown
    <3>3. popups[p] \in [parent : Toplevels, size : Sizes, place : Places]
      BY <3>1, <3>2 DEF Spots
    <3>4. popups[p] # None
      BY <3>3, Kinds
    <3> QED BY <2>2, <3>2, <3>4
  <2>3. CASE popup[p].state # "mapped"
    BY <2>1, <2>3 DEF PopupShown
  <2> QED BY <2>2, <2>3
<1> QED BY <1>2, <1>3, <1>4 DEF MirrorConverges, ToplevelShown, SubsurfaceShown

\* Once every message is handled, Dart shows exactly what is mapped.
THEOREM MirrorConvergesHolds == Spec => []MirrorConverges
<1>1. IInv /\ Mirrored /\ [Next]_vars => Mirrored'
  BY StaysMirrored
<1>2. IInv /\ Mirrored => MirrorConverges
  BY MirroredConverges
<1> QED BY InitMirrored, InvariantHolds, <1>1, <1>2, PTL DEF Spec
=============================================================================
