--------------------------- MODULE PagePoolProofs ---------------------------
(***************************************************************************)
(* Proofs about the texture pages, for every set of texture names, every   *)
(* frame size and any number of frames.                                    *)
(***************************************************************************)
EXTENDS PagePool, TLAPS

\* The pages as frames go round: the current page holds the frame being drawn
\* and what is left of the frame before the scene; the other page the scene.
PageRoles ==
  /\ textures[currentPage] = inflight
  /\ textures[Other(currentPage)] = scene
  /\ unused[Other(currentPage)] = {}
  /\ unused[currentPage] \subseteq previous
  /\ inflight \cap scene = {}
  /\ unused[currentPage] \cap (inflight \cup scene) = {}

\* Either the scene's fence is still to be waited on, or it has been; a frame
\* being composited has no fence left.
FenceInv ==
  /\ IF sync # 0 THEN sync = frame ELSE waited = frame
  /\ rendering => sync = 0

IInv == TypeOK /\ PageRoles /\ FenceInv

\* The invariant holds before the first frame.
LEMMA InitIInv == Init => IInv
<1> SUFFICES ASSUME Init PROVE IInv OBVIOUS
<1>1. TypeOK BY DEF Init, TypeOK, Pages
<1>2. PageRoles /\ FenceInv BY DEF Init, PageRoles, FenceInv, Pages, Other
<1> QED BY <1>1, <1>2 DEF IInv

\* Taking a texture from the current page, reused or new, disturbs neither the
\* scene nor the other page.
LEMMA CreateIInv ==
  ASSUME IInv, NEW s \in Sizes, CreateBackingStore(s)
  PROVE  IInv'
<1> USE DEF IInv
<1>1. PICK t \in Textures :
        /\ IF Fits(s) # {}
             THEN t \in Fits(s) /\ UNCHANGED size
             ELSE t \notin Live /\ size' = [size EXCEPT ![t] = s]
        /\ Link(t)
        /\ inflight' = inflight \cup {t}
  BY DEF CreateBackingStore
<1>2. /\ UNCHANGED <<currentPage, scene, sync, frame, waited, rendering, previous>>
      /\ currentPage \in Pages /\ Other(currentPage) \in Pages
      /\ Other(currentPage) # currentPage
  BY DEF CreateBackingStore, TypeOK, Pages, Other
<1>3. t \notin scene /\ (t \in unused[currentPage] \/ t \notin Live)
  BY <1>1, <1>2 DEF PageRoles, Fits, Live
<1>4. TypeOK'
  BY <1>1, <1>2 DEF TypeOK, Link, Fits
<1>5. /\ textures'[currentPage] = inflight \cup {t}
      /\ textures'[Other(currentPage)] = scene
      /\ unused'[currentPage] = unused[currentPage] \ {t}
      /\ unused'[Other(currentPage)] = {}
  BY <1>1, <1>2 DEF TypeOK, PageRoles, Link
<1>6. PageRoles'
  BY <1>1, <1>2, <1>3, <1>5 DEF PageRoles, Other
<1>7. FenceInv'
  BY <1>2 DEF FenceInv
<1> QED BY <1>4, <1>6, <1>7

\* A present exchanges the roles of the pages.
LEMMA PresentIInv ==
  ASSUME IInv, PresentLayers
  PROVE  IInv'
<1> USE DEF IInv
<1> DEFINE c == currentPage
           o == Other(currentPage)
<1>1. c \in Pages /\ o \in Pages /\ c # o /\ Other(o) = c
  BY DEF TypeOK, Pages, Other
<1>2. /\ textures' = [textures EXCEPT ![o] = {}]
      /\ unused' = [unused EXCEPT ![c] = {}, ![o] = @ \cup textures[o]]
      /\ currentPage' = o /\ scene' = inflight /\ previous' = scene /\ inflight' = {}
      /\ sync' = frame + 1 /\ frame' = frame + 1
      /\ UNCHANGED <<size, waited, rendering>> /\ ~rendering
  BY DEF PresentLayers, Recycled, NewSync
<1> HIDE DEF c, o
<1>3. TypeOK'
  <2>1. textures' \in [Pages -> SUBSET Textures] /\ unused' \in [Pages -> SUBSET Textures]
    BY <1>1, <1>2 DEF TypeOK
  <2> QED BY <2>1, <1>1, <1>2 DEF TypeOK
<1>4. /\ textures'[o] = {} /\ textures'[c] = inflight
      /\ unused'[c] = {} /\ unused'[o] = scene
  <2>1. /\ textures[c] = inflight /\ textures[o] = scene /\ unused[o] = {}
    BY DEF PageRoles, c, o
  <2> QED BY <2>1, <1>1, <1>2 DEF TypeOK
<1>5. PageRoles'
  <2>1. inflight \cap scene = {} BY DEF PageRoles
  <2> QED BY <2>1, <1>1, <1>2, <1>4 DEF PageRoles, Other
<1>6. FenceInv'
  BY <1>2 DEF FenceInv, TypeOK
<1> QED BY <1>3, <1>5, <1>6

\* Every step preserves the invariant.
LEMMA NextIInv == IInv /\ [Next]_vars => IInv'
<1> SUFFICES ASSUME IInv, [Next]_vars PROVE IInv' OBVIOUS
<1>1. ASSUME NEW s \in Sizes, CreateBackingStore(s) PROVE IInv'
  BY <1>1, CreateIInv
<1>2. CASE PresentLayers
  BY <1>2, PresentIInv
<1>3. CASE RenderSceneBegin
  BY <1>3 DEF RenderSceneBegin, WaitSync, IInv, TypeOK, PageRoles, FenceInv, Other
<1>4. CASE RenderSceneEnd
  BY <1>4 DEF RenderSceneEnd, IInv, TypeOK, PageRoles, FenceInv, Other
<1>5. CASE UNCHANGED vars
  BY <1>5 DEF vars, IInv, TypeOK, PageRoles, FenceInv, Other
<1> QED BY <1>1, <1>2, <1>3, <1>4, <1>5 DEF Next

\* The invariant holds in every reachable state of the pool.
THEOREM InvariantHolds == Spec => []IInv
<1> QED BY InitIInv, NextIInv, PTL DEF Spec

\* Every variable of the pool and of the fences keeps its type.
THEOREM PoolTyped == Spec => []TypeOK
<1>1. IInv => TypeOK
  BY DEF IInv
<1> QED BY <1>1, InvariantHolds, PTL

\* Live textures are those of the two pages.
LEMMA LiveByRole ==
  ASSUME TypeOK
  PROVE  Live = textures[currentPage] \cup unused[currentPage]
                \cup textures[Other(currentPage)] \cup unused[Other(currentPage)]
<1>1. currentPage \in Pages /\ Pages = {currentPage, Other(currentPage)}
  BY DEF TypeOK, Pages, Other
<1> QED BY <1>1 DEF Live

\* The textures on screen are never deleted and never drawn into.
THEOREM SceneNeverDisturbed == Spec => []SceneIntact
<1>1. IInv => SceneIntact
  BY LiveByRole DEF IInv, PageRoles, SceneIntact
<1> QED BY <1>1, InvariantHolds, PTL

\* No texture is in two lists of the pool.
THEOREM PoolListsDisjoint == Spec => []ListsDisjoint
<1>1. IInv => ListsDisjoint
  <2> SUFFICES ASSUME IInv PROVE ListsDisjoint OBVIOUS
  <2>1. \/ currentPage = 0 /\ Other(currentPage) = 1
        \/ currentPage = 1 /\ Other(currentPage) = 0
    BY DEF IInv, TypeOK, Pages, Other
  <2> QED BY <2>1 DEF IInv, PageRoles, ListsDisjoint, Pages
<1> QED BY <1>1, InvariantHolds, PTL

\* The pool never holds a texture older than the frame before the scene.
THEOREM PoolBounded == Spec => []NothingOutlivesTwoFrames
<1>1. IInv => NothingOutlivesTwoFrames
  BY LiveByRole DEF IInv, PageRoles, NothingOutlivesTwoFrames
<1> QED BY <1>1, InvariantHolds, PTL

\* A frame is composited only behind its own fence.
THEOREM FenceRespected == Spec => []RenderedFrameComplete
<1>1. IInv => RenderedFrameComplete
  BY DEF IInv, FenceInv, RenderedFrameComplete
<1> QED BY <1>1, InvariantHolds, PTL
=============================================================================
