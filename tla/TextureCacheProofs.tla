------------------------- MODULE TextureCacheProofs -------------------------
(***************************************************************************)
(* Proofs about the texture of a client surface, for any numbers of        *)
(* addresses, image handles, sizes, slots, buffers and commits, and for a  *)
(* surface destroyed at any point of the raster thread's callback.         *)
(***************************************************************************)
EXTENDS TextureCache, TLAPS

\* What the raster thread has in hand: a buffer to import has an address, and
\* nothing is copied before the images are dropped.
InHand ==
    /\ pc = "locking" => read # None /\ read.address # None
    /\ pc = "copy" => read # None /\ current = None

\* The slots are empty when no image is current, and always of one size: a
\* failed import leaves them so too.
SlotsAgree ==
    /\ current = None => slots = NoSlots
    /\ \A i \in Slots : slots[i] # None => slots[i].size = size

\* A failed import may leave a dead current image, but only until the wlroots
\* path of the same callback has dropped it.
CurrentLives ==
    pc \in {"idle", "import", "locking"} /\ current # None => images[current] # None

IInv == TypeOK /\ InHand /\ ImagesOwned /\ SlotsAgree /\ CurrentLives

LEMMA InitIInv == Init => IInv
<1> SUFFICES ASSUME Init PROVE IInv OBVIOUS
<1>1. TypeOK
  BY ConstantsAssumption
     DEF Init, TypeOK, NoSlots, NoImages, Slots, Buffers, Mems
<1> QED BY <1>1 DEF Init, IInv, InHand, ImagesOwned, Holds, SlotsAgree,
                    CurrentLives, NoSlots, NoImages

-----------------------------------------------------------------------------
(* Steps that leave the slots and the images alone.                        *)

\* What the client does is seen by the cache only when the raster thread reads
\* the surface again.
LEMMA ClientTypeOK ==
  ASSUME TypeOK,
         \/ \E a \in Addresses, s \in Sizes, dmabuf \in BOOLEAN : MakeBuffer(a, s, dmabuf)
         \/ \E a \in Addresses : DropBuffer(a) \/ Commit(a)
         \/ CommitNothing \/ FreeRecord
  PROVE  TypeOK'
<1>1. ASSUME NEW a \in Addresses, NEW s \in Sizes, NEW dmabuf \in BOOLEAN,
             MakeBuffer(a, s, dmabuf)
      PROVE  TypeOK'
  <2>1. made + 1 \in Mems /\ made' \in 0 .. MaxBuffers
    BY <1>1, ConstantsAssumption DEF MakeBuffer, TypeOK, Mems
  <2>2. [address |-> a, mem |-> made + 1, size |-> s, dmabuf |-> dmabuf] \in Buffers
    BY <2>1 DEF Buffers
  <2>3. buffers' \in [Addresses -> Buffers \cup {None}]
    BY <1>1, <2>2 DEF MakeBuffer, TypeOK
  <2> QED BY <1>1, <2>1, <2>3 DEF MakeBuffer, TypeOK, cacheVars, rasterVars
<1>2. ASSUME NEW a \in Addresses, DropBuffer(a) PROVE TypeOK'
  <2>1. surface' \in Buffers \cup {None}
    BY <1>2 DEF DropBuffer, TypeOK, Buffers
  <2> QED BY <1>2, <2>1 DEF DropBuffer, TypeOK, cacheVars, rasterVars
<1>3. ASSUME NEW a \in Addresses, Commit(a) PROVE TypeOK'
  BY <1>3, ConstantsAssumption DEF Commit, TypeOK, cacheVars, rasterVars
<1>4. CASE CommitNothing
  BY <1>4, ConstantsAssumption DEF CommitNothing, TypeOK, cacheVars, rasterVars
<1>5. CASE FreeRecord
  BY <1>5 DEF FreeRecord, TypeOK, cacheVars, rasterVars
<1> QED BY <1>1, <1>2, <1>3, <1>4, <1>5

\* The steps of the callback that only read, and the reuse of the texture.
LEMMA ReadTypeOK ==
  ASSUME IInv,
         \/ BeginCallback \/ CrashInCallback \/ ReadBuffer \/ LateForImport
         \/ ReuseTexture \/ DetectShm
  PROVE  TypeOK'
<1> USE DEF IInv, TypeOK
<1>1. CASE BeginCallback
  BY <1>1 DEF BeginCallback, clientVars, cacheVars, Buffers
<1>2. CASE CrashInCallback
  BY <1>2 DEF CrashInCallback, clientVars, cacheVars, rasterVars
<1>3. CASE ReadBuffer
  BY <1>3 DEF ReadBuffer, clientVars, cacheVars
<1>4. CASE LateForImport
  BY <1>4 DEF LateForImport, clientVars, cacheVars
<1>5. CASE ReuseTexture
  BY <1>5 DEF ReuseTexture, EndCallback, clientVars
<1>6. CASE DetectShm
  BY <1>6 DEF DetectShm, clientVars
<1> QED BY <1>1, <1>2, <1>3, <1>4, <1>5, <1>6

\* None of them disturbs the rest of the invariant.
LEMMA QuietIInv ==
  ASSUME IInv, TypeOK',
         UNCHANGED <<slots, images, current, size>>,
         record' = "live" => record = "live",
         record' # "live" => record # "live",
         InHand',
         pc' \in {"idle", "import", "locking"} => pc \in {"idle", "import", "locking"}
  PROVE  IInv'
<1>1. ImagesOwned' BY DEF IInv, ImagesOwned, Holds
<1>2. SlotsAgree' BY DEF IInv, SlotsAgree
<1>3. CurrentLives' BY DEF IInv, CurrentLives
<1> QED BY <1>1, <1>2, <1>3 DEF IInv

LEMMA ClientIInv ==
  ASSUME IInv,
         \/ \E a \in Addresses, s \in Sizes, dmabuf \in BOOLEAN : MakeBuffer(a, s, dmabuf)
         \/ \E a \in Addresses : DropBuffer(a) \/ Commit(a)
         \/ CommitNothing \/ FreeRecord
  PROVE  IInv'
<1>1. TypeOK'
  BY ClientTypeOK DEF IInv
<1>2. /\ UNCHANGED <<slots, images, current, size, pc, read>>
      /\ record' = "live" <=> record = "live"
  BY DEF MakeBuffer, DropBuffer, Commit, CommitNothing, FreeRecord, cacheVars, rasterVars
<1> QED BY <1>1, <1>2, QuietIInv DEF IInv, InHand

LEMMA ReadIInv ==
  ASSUME IInv,
         \/ BeginCallback \/ CrashInCallback \/ ReadBuffer \/ LateForImport
         \/ ReuseTexture \/ DetectShm
  PROVE  IInv'
<1>1. TypeOK'
  BY ReadTypeOK
<1>2. UNCHANGED <<slots, images, current, size, record>>
  BY DEF BeginCallback, CrashInCallback, ReadBuffer, LateForImport, ReuseTexture,
         DetectShm, clientVars, cacheVars
<1>3. InHand'
  BY DEF BeginCallback, CrashInCallback, ReadBuffer, LateForImport, ReuseTexture,
         DetectShm, EndCallback, cacheVars, rasterVars, IInv, InHand
<1>4. pc' \in {"idle", "import", "locking"} => pc \in {"idle", "import", "locking"}
  BY DEF BeginCallback, CrashInCallback, ReadBuffer, LateForImport, ReuseTexture,
         DetectShm, EndCallback, rasterVars, Locked
<1> QED BY <1>1, <1>2, <1>3, <1>4, QuietIInv

-----------------------------------------------------------------------------
(* Steps that destroy images.                                              *)

\* Destroying the images of all slots leaves none.
LEMMA NothingLeft ==
  ASSUME IInv
  PROVE  [e \in Images |-> IF \E i \in Slots : slots[i] # None /\ slots[i].image = e
                           THEN None ELSE images[e]] = NoImages
  BY DEF IInv, ImagesOwned, Holds, NoImages

\* Without images and slots there is little left to say.
LEMMA EmptyIInv ==
  ASSUME TypeOK', InHand', slots' = NoSlots, images' = NoImages, current' = None
  PROVE  IInv'
  BY DEF IInv, ImagesOwned, Holds, SlotsAgree, CurrentLives, NoSlots, NoImages

LEMMA DestroyIInv ==
  ASSUME IInv, DestroyCache
  PROVE  IInv'
<1>1. slots' = NoSlots /\ images' = NoImages /\ current' = None
  BY NothingLeft DEF DestroyCache
<1>2. NoSlots \in [Slots -> Entries \cup {None}] /\ NoImages \in [Images -> Mems \cup {None}]
  BY DEF NoSlots, NoImages
<1>3. 0 \in Slots
  BY ConstantsAssumption DEF Slots
<1>4. TypeOK'
  BY <1>1, <1>2, <1>3, ConstantsAssumption
     DEF DestroyCache, IInv, TypeOK, clientVars, rasterVars
<1>5. InHand'
  BY <1>1 DEF DestroyCache, IInv, InHand, rasterVars
<1> QED BY <1>1, <1>4, <1>5, EmptyIInv

\* The images are dropped, or no image is current and there are none.
LEMMA Dropped ==
  ASSUME IInv, DropImages
  PROVE  /\ slots' = NoSlots /\ images' = NoImages /\ current' = None
         /\ texture' \in {None, texture}
<1>1. CASE current = None
  <2>1. slots = NoSlots
    BY <1>1 DEF IInv, SlotsAgree
  <2>2. images = NoImages
    BY <2>1 DEF IInv, TypeOK, ImagesOwned, Holds, NoSlots, NoImages
  <2> QED BY <1>1, <2>1, <2>2 DEF DropImages
<1>2. CASE current # None
  BY <1>2, NothingLeft DEF DropImages
<1> QED BY <1>1, <1>2

LEMMA UseWlrootsIInv ==
  ASSUME IInv, UseWlrootsTexture
  PROVE  IInv'
<1>1. /\ slots' = NoSlots /\ images' = NoImages /\ current' = None
      /\ texture' \in {None, texture}
  BY Dropped DEF UseWlrootsTexture
<1>2. NoSlots \in [Slots -> Entries \cup {None}] /\ NoImages \in [Images -> Mems \cup {None}]
  BY DEF NoSlots, NoImages
<1>3. TypeOK'
  BY <1>1, <1>2 DEF UseWlrootsTexture, EndCallback, IInv, TypeOK, clientVars
<1>4. InHand'
  BY <1>1 DEF UseWlrootsTexture, EndCallback, InHand
<1> QED BY <1>1, <1>3, <1>4, EmptyIInv

\* The copy may change the size, for the slots are empty.
LEMMA CopyIInv ==
  ASSUME IInv, CopyTexture
  PROVE  IInv'
<1>1. UNCHANGED <<slots, images, current, record>> /\ current = None /\ read \in Buffers
  BY DEF CopyTexture, IInv, InHand, TypeOK
<1>2. texture' \in [target : {"2d", "external"}, shows : Mems \cup {None}] \cup {None}
  BY <1>1 DEF CopyTexture, Buffers
<1>3. TypeOK'
  BY <1>1, <1>2 DEF CopyTexture, EndCallback, IInv, TypeOK, clientVars
<1>4. InHand' /\ CurrentLives'
  BY <1>1 DEF CopyTexture, EndCallback, InHand, CurrentLives
<1>5. ImagesOwned'
  BY <1>1 DEF IInv, ImagesOwned, Holds
<1>6. SlotsAgree'
  BY <1>1 DEF IInv, SlotsAgree, NoSlots
<1> QED BY <1>3, <1>4, <1>5, <1>6 DEF IInv

-----------------------------------------------------------------------------
(* Imports.                                                                *)

\* What survives on the way to a new image: slots whose images are as before,
\* and not the next slot.
LEMMA KeptSlots ==
  ASSUME IInv
  PROVE  /\ Kept \in [Slots -> Entries \cup {None}]
         /\ ImagesKept \in [Images -> Mems \cup {None}]
         /\ \A i \in Slots : Kept[i] # None => Kept[i] = slots[i]
         /\ Kept[nextSlot] = None
         /\ Resized => Kept = NoSlots
         /\ \A e \in Images : ImagesKept[e] # None <=>
                \E i \in Slots : Kept[i] # None /\ Kept[i].image = e
         /\ \A i \in Slots : Kept[i] # None =>
                ImagesKept[Kept[i].image] = images[Kept[i].image]
<1>1. \A i \in Slots : Kept[i] \in {None, slots[i]}
  BY DEF Kept
<1>2. Kept \in [Slots -> Entries \cup {None}]
  BY DEF IInv, TypeOK, Kept
<1>3. ImagesKept \in [Images -> Mems \cup {None}]
  BY DEF IInv, TypeOK, ImagesKept
<1>4. Kept[nextSlot] = None /\ (Resized => Kept = NoSlots)
  BY DEF IInv, TypeOK, Kept, NoSlots
<1>5. \A e \in Images : ImagesKept[e] # None <=>
          \E i \in Slots : Kept[i] # None /\ Kept[i].image = e
  <2> TAKE e \in Images
  <2>1. ASSUME NEW i \in Slots, Kept[i] # None, Kept[i].image = e
        PROVE  images[e] # None
    BY <1>1, <2>1 DEF IInv, ImagesOwned, Holds
  <2> QED BY <2>1 DEF ImagesKept
<1>6. \A i \in Slots : Kept[i] # None => Kept[i].image \in Images
  BY <1>2 DEF Entries
<1>7. \A i \in Slots : Kept[i] # None =>
          ImagesKept[Kept[i].image] = images[Kept[i].image]
  BY <1>6 DEF ImagesKept
<1> QED BY <1>1, <1>2, <1>3, <1>4, <1>5, <1>7

\* Binding puts the image's memory or nothing new into the texture.
LEMMA BoundTypeOK ==
  ASSUME IInv, Locked, NEW image \in Images, NEW mem \in Mems \cup {None}, NEW before,
         Bind(image, mem, before)
  PROVE  /\ texture' \in [target : {"2d", "external"}, shows : Mems \cup {None}] \cup {None}
         /\ current' = image /\ size' = read.size /\ size' \in Sizes
         /\ lastSeq' \in 0 .. MaxCommits /\ bufferType' = "dmabuf"
         /\ pc' = "idle" /\ actual' = None /\ read' = None
<1>1. read \in Buffers
  BY DEF Locked, IInv, InHand, TypeOK
<1>2. CASE texture = None
  BY <1>1, <1>2 DEF Bind, EndCallback, IInv, TypeOK, Buffers
<1>3. CASE texture # None
  <2>1. texture \in [target : {"2d", "external"}, shows : Mems \cup {None}]
    BY <1>3 DEF IInv, TypeOK
  <2>2. [texture EXCEPT !.shows = mem]
          \in [target : {"2d", "external"}, shows : Mems \cup {None}]
    BY <2>1
  <2> QED BY <1>1, <1>3, <2>1, <2>2 DEF Bind, EndCallback, IInv, TypeOK, Buffers
<1> QED BY <1>2, <1>3

LEMMA CachedIInv ==
  ASSUME IInv, NEW i \in Slots, ImportCached(i)
  PROVE  IInv'
<1>1. /\ slots[i] \in Entries /\ slots[i] # None /\ slots[i].size = read.size
      /\ slots[i].image \in Images /\ images[slots[i].image] \in Mems
  BY DEF ImportCached, Matching, IInv, TypeOK, ImagesOwned, Holds, Entries
<1>2. Locked /\ Bind(slots[i].image, images[slots[i].image], current)
  BY DEF ImportCached
<1>3. UNCHANGED <<slots, nextSlot, images, record, clientVars, running>>
  BY DEF ImportCached
<1>4. /\ texture' \in [target : {"2d", "external"}, shows : Mems \cup {None}] \cup {None}
      /\ current' = slots[i].image /\ size' = read.size /\ size' \in Sizes
      /\ lastSeq' \in 0 .. MaxCommits /\ bufferType' = "dmabuf"
      /\ pc' = "idle" /\ actual' = None /\ read' = None
  BY <1>1, <1>2, BoundTypeOK
<1>5. TypeOK'
  BY <1>1, <1>3, <1>4 DEF IInv, TypeOK, clientVars
<1>6. ImagesOwned' /\ InHand'
  BY <1>3, <1>4 DEF IInv, ImagesOwned, Holds, InHand
<1>7. SlotsAgree'
  <2>1. slots[i].size = size /\ slots[i].image # None
    BY <1>1, ConstantsAssumption DEF IInv, SlotsAgree
  <2> QED BY <1>1, <1>3, <1>4, <2>1 DEF IInv, SlotsAgree
<1>8. CurrentLives'
  BY <1>1, <1>3, <1>4, ConstantsAssumption DEF CurrentLives, Mems
<1> QED BY <1>5, <1>6, <1>7, <1>8 DEF IInv

\* The next slot, modulo their number, is a slot.
LEMMA NextSlot ==
  ASSUME IInv
  PROVE  (nextSlot + 1) % SlotCount \in Slots
  BY ConstantsAssumption DEF IInv, TypeOK, Slots

LEMMA NewIInv ==
  ASSUME IInv, NEW e \in Images, ImportNew(e)
  PROVE  IInv'
<1> DEFINE entry == [address |-> read.address, image |-> e, size |-> read.size]
<1>1. Locked /\ read \in Buffers /\ read.address \in Addresses /\ record = "live"
  BY DEF ImportNew, MissesCache, Locked, IInv, InHand, TypeOK, Buffers
<1>2. entry \in Entries /\ entry # None /\ entry.image = e /\ entry.size = read.size
  BY <1>1, ConstantsAssumption DEF Entries, Buffers
<1>3. /\ slots' = [Kept EXCEPT ![nextSlot] = entry]
      /\ images' = [ImagesKept EXCEPT ![e] = read.mem]
      /\ ImagesKept[e] = None
      /\ nextSlot' \in Slots
      /\ UNCHANGED <<record, clientVars, running>>
  BY NextSlot DEF ImportNew, MissesCache
<1>4. read.mem \in Mems /\ read.mem # None
  BY <1>1, ConstantsAssumption DEF Buffers, Mems
<1>5. /\ texture' \in [target : {"2d", "external"}, shows : Mems \cup {None}] \cup {None}
      /\ current' = e /\ size' = read.size /\ size' \in Sizes
      /\ lastSeq' \in 0 .. MaxCommits /\ bufferType' = "dmabuf"
      /\ pc' = "idle" /\ actual' = None /\ read' = None
  <2> DEFINE before == IF Resized THEN None ELSE current
  <2>1. Bind(e, read.mem, before)
    BY DEF ImportNew
  <2> HIDE DEF before
  <2> QED BY <1>1, <1>4, <2>1, BoundTypeOK
<1> HIDE DEF entry
<1>6. /\ nextSlot \in Slots
      /\ slots'[nextSlot] = entry
      /\ \A i \in Slots \ {nextSlot} : slots'[i] = Kept[i]
      /\ images'[e] = read.mem
      /\ \A f \in Images \ {e} : images'[f] = ImagesKept[f]
  BY <1>3, KeptSlots DEF IInv, TypeOK
<1>7. TypeOK'
  BY <1>2, <1>3, <1>4, <1>5, KeptSlots DEF IInv, TypeOK, clientVars
<1>8. ImagesOwned'
  <2>1. \A i \in Slots \ {nextSlot} : slots'[i] # None => slots'[i].image # e
    BY <1>3, <1>6, KeptSlots
  <2>2. \A f \in Images : images'[f] # None <=>
            \E i \in Slots : slots'[i] # None /\ slots'[i].image = f
    <3>1. images'[e] # None /\ slots'[nextSlot] # None /\ slots'[nextSlot].image = e
      BY <1>2, <1>4, <1>6
    <3>2. ASSUME NEW f \in Images \ {e}
          PROVE  images'[f] # None <=>
                    \E i \in Slots : slots'[i] # None /\ slots'[i].image = f
      BY <1>2, <1>6, <3>1, KeptSlots
    <3> QED BY <1>6, <3>1, <3>2
  <2>3. \A i, j \in Slots \ {nextSlot} : slots'[i] # None /\ slots'[j] # None
            /\ slots'[i].image = slots'[j].image => i = j
    BY <1>6, KeptSlots DEF IInv, ImagesOwned, Holds, TypeOK, Entries
  <2>4. \A i, j \in Slots : \A f \in Images :
            (slots'[i] # None /\ slots'[i].image = f)
              /\ (slots'[j] # None /\ slots'[j].image = f) => i = j
    BY <1>2, <1>6, <2>1, <2>3
  <2> QED BY <1>1, <1>3, <2>2, <2>4 DEF ImagesOwned, Holds
<1>9. SlotsAgree' /\ CurrentLives' /\ InHand'
  <2>1. ASSUME NEW i \in Slots, i # nextSlot, Kept[i] # None
        PROVE  Kept[i].size = read.size
    <3>1. Kept[i] = slots[i] /\ ~Resized
      BY <2>1, KeptSlots DEF NoSlots
    <3>2. slots[i] # None /\ slots[i] \in Entries /\ slots[i].size = size
      BY <2>1, <3>1 DEF IInv, TypeOK, SlotsAgree
    <3> QED BY <3>1, <3>2, ConstantsAssumption DEF Resized, Entries
  <2>2. \A i \in Slots : slots'[i] # None => slots'[i].size = size'
    BY <1>2, <1>5, <1>6, <2>1
  <2> QED BY <1>4, <1>5, <1>6, <2>2, ConstantsAssumption DEF SlotsAgree, CurrentLives, InHand
<1> QED BY <1>7, <1>8, <1>9 DEF IInv

LEMMA FailsIInv ==
  ASSUME IInv, ImportFails
  PROVE  IInv'
<1>1. /\ slots' = Kept /\ images' = ImagesKept /\ pc' = "failed"
      /\ current' = IF Resized THEN None ELSE current
      /\ nextSlot' \in Slots
      /\ UNCHANGED <<clientVars, record, texture, size, lastSeq, bufferType, actual,
                     read, running>>
      /\ record = "live"
  BY NextSlot DEF ImportFails, MissesCache, Locked
<1>2. TypeOK' /\ InHand' /\ CurrentLives'
  BY <1>1, KeptSlots DEF IInv, TypeOK, InHand, CurrentLives, clientVars
<1>3. ImagesOwned'
  <2>1. \A i, j \in Slots : \A f \in Images :
            (Kept[i] # None /\ Kept[i].image = f)
              /\ (Kept[j] # None /\ Kept[j].image = f) => i = j
    BY KeptSlots DEF IInv, ImagesOwned, Holds
  <2> QED BY <1>1, <2>1, KeptSlots DEF ImagesOwned, Holds
<1>4. current' = None => slots' = NoSlots
  <2>1. CASE current = None
    <3>1. slots = NoSlots
      BY <2>1 DEF IInv, SlotsAgree
    <3>2. \A i \in Slots : Kept[i] = None
      BY <3>1, KeptSlots DEF NoSlots
    <3> QED BY <1>1, <3>2 DEF Kept, NoSlots
  <2> QED BY <1>1, <2>1, KeptSlots
<1>5. SlotsAgree'
  BY <1>1, <1>4, KeptSlots DEF IInv, SlotsAgree
<1> QED BY <1>2, <1>3, <1>5 DEF IInv

-----------------------------------------------------------------------------
(* The theorems.                                                           *)

\* Every step of the client, the platform thread and the raster thread keeps
\* the invariant.
THEOREM InvariantHolds == Spec => []IInv
<1>1. IInv /\ [Next]_vars => IInv'
  <2> SUFFICES ASSUME IInv, [Next]_vars PROVE IInv' OBVIOUS
  <2>1. CASE UNCHANGED vars
    BY <2>1 DEF vars, clientVars, cacheVars, rasterVars, IInv, TypeOK, InHand,
                ImagesOwned, Holds, SlotsAgree, CurrentLives
  <2>2. CASE Next
    BY <2>2, ClientIInv, DestroyIInv, ReadIInv, CachedIInv, NewIInv, FailsIInv,
       UseWlrootsIInv, CopyIInv DEF Next
  <2> QED BY <2>1, <2>2
<1> QED BY InitIInv, <1>1, PTL DEF Spec

\* Types, for every value of the constants.
THEOREM TypesHold == Spec => []TypeOK
BY InvariantHolds, PTL DEF IInv

\* get_or_create_egl_image and the two places that empty the cache neither
\* leak an EGL image nor destroy one twice, wherever the surface's destruction
\* falls in the callback.
THEOREM ImagesOwnedHolds == Spec => []ImagesOwned
BY InvariantHolds, PTL DEF IInv

\* After a callback current_egl_image never names a destroyed image, failed
\* imports included.
THEOREM CurrentImageExistsHolds == Spec => []CurrentImageExists
<1>1. IInv => CurrentImageExists
  BY DEF IInv, CurrentLives, CurrentImageExists
<1> QED BY InvariantHolds, <1>1, PTL

\* A resize leaves no image of the old size in any slot.
THEOREM OneSizeHolds == Spec => []OneSize
<1>1. IInv => OneSize
  BY DEF IInv, SlotsAgree, OneSize
<1> QED BY InvariantHolds, <1>1, PTL
=============================================================================
