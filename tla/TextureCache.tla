---------------------------- MODULE TextureCache ----------------------------
(***************************************************************************)
(* One client surface's texture for Flutter: fwr_cached_texture of         *)
(* src/src/renderer.c and the external texture callback of                 *)
(* src/src/flutter_wlroots.c.  The client's DMA-BUFs are imported as EGL   *)
(* images, kept in a few slots that are reused in turn; the texture is     *)
(* bound to the image of the buffer last imported.  What cannot be         *)
(* imported is copied from wlroots' own texture.                           *)
(*                                                                         *)
(* The raster thread runs the callback, step by step between the points    *)
(* where it takes or leaves texture_mutex or reads the surface again; the  *)
(* platform thread commits buffers and destroys the surface at any time.   *)
(*                                                                         *)
(* A buffer is known by the address of its wlr_buffer, which a later       *)
(* buffer may get again; mem is its memory, and what it shows.  An EGL     *)
(* image's handle may also be given again by the driver.  A texture shows  *)
(* the memory it is bound to or was copied from; a dead image's memory     *)
(* stays with the texture.                                                 *)
(***************************************************************************)
EXTENDS Naturals, FiniteSets

CONSTANTS
    Addresses,      \* of struct wlr_buffer
    Images,         \* EGLImage handles
    Sizes,          \* buffer sizes
    None,           \* NULL, 0, or no size
    SlotCount,      \* FWR_EGLIMAGE_CACHE_SIZE: 4 in the code
    MaxBuffers,     \* bound: buffers the client ever makes
    MaxCommits      \* bound: commits of the client

ASSUME ConstantsAssumption ==
    /\ SlotCount \in Nat \ {0} /\ MaxBuffers \in Nat /\ MaxCommits \in Nat
    /\ None \notin Addresses \cup Images \cup Sizes \cup Nat
    /\ None \notin [address : Addresses, image : Images, size : Sizes]

VARIABLES
    buffers,        \* the client's buffers by address
    made,           \* buffers made so far
    surface,        \* the buffer the surface holds; its address goes with it
    seq,            \* surface->current.seq
    record,         \* the fwr_view: "live", "destroyed" (cache.destroyed) or "freed"
    slots,          \* cache.egl_cache
    nextSlot,       \* cache.egl_cache_next
    texture,        \* cache.tex: target and what it shows
    current,        \* cache.current_egl_image
    size,           \* cache.width and height
    lastSeq,        \* cache.last_seq
    bufferType,     \* cache.buffer_type
    images,         \* the EGL images that exist, with their memory
    pc,             \* where the raster thread is in the callback
    actual,         \* actual_width and height, read when the callback began
    read,           \* the buffer it has read from the surface
    running         \* the process has not crashed

clientVars == <<buffers, made, surface, seq>>
cacheVars == <<slots, nextSlot, texture, current, size, lastSeq, bufferType, images>>
rasterVars == <<pc, actual, read>>
vars == <<clientVars, record, cacheVars, rasterVars, running>>

Slots == 0 .. SlotCount - 1
Mems == 1 .. MaxBuffers
Buffers == [address : Addresses \cup {None}, mem : Mems, size : Sizes, dmabuf : BOOLEAN]
Entries == [address : Addresses, image : Images, size : Sizes]

NoSlots == [i \in Slots |-> None]
NoImages == [e \in Images |-> None]

Init ==
    /\ buffers = [a \in Addresses |-> None] /\ made = 0
    /\ surface = None /\ seq = 0
    /\ record = "live"
    /\ slots = NoSlots /\ nextSlot = 0 /\ texture = None /\ current = None
    /\ size = None /\ lastSeq = 0 /\ bufferType = "unknown" /\ images = NoImages
    /\ pc = "idle" /\ actual = None /\ read = None
    /\ running = TRUE

-----------------------------------------------------------------------------
(* The client and the platform thread.                                     *)

\* The client makes a buffer, at an address no buffer has.
MakeBuffer(a, s, dmabuf) ==
    /\ running /\ made < MaxBuffers /\ buffers[a] = None
    /\ made' = made + 1
    /\ buffers' = [buffers EXCEPT ![a] =
                    [address |-> a, mem |-> made + 1, size |-> s, dmabuf |-> dmabuf]]
    /\ UNCHANGED <<surface, seq, record, cacheVars, rasterVars, running>>

\* wlr_buffer destroyed: client_buffer->source of a surface that holds it is
\* NULL from then on.  The cache is not told.
DropBuffer(a) ==
    /\ running /\ buffers[a] # None
    /\ buffers' = [buffers EXCEPT ![a] = None]
    /\ surface' = IF surface # None /\ surface.address = a
                  THEN [surface EXCEPT !.address = None] ELSE surface
    /\ UNCHANGED <<made, seq, record, cacheVars, rasterVars, running>>

\* wl_surface.commit with a buffer.
Commit(a) ==
    /\ running /\ record = "live" /\ buffers[a] # None /\ seq < MaxCommits
    /\ surface' = buffers[a] /\ seq' = seq + 1
    /\ UNCHANGED <<buffers, made, record, cacheVars, rasterVars, running>>

\* wl_surface.commit without one.
CommitNothing ==
    /\ running /\ record = "live" /\ surface # None /\ seq < MaxCommits
    /\ surface' = None /\ seq' = seq + 1
    /\ UNCHANGED <<buffers, made, record, cacheVars, rasterVars, running>>

\* fwr_cached_texture_destroy, under texture_mutex.  (An empty cache is left
\* as it is; nothing that it keeps is read again.)
DestroyCache ==
    /\ running /\ record = "live"
    /\ record' = "destroyed"
    /\ slots' = NoSlots /\ images' = [e \in Images |->
            IF \E i \in Slots : slots[i] # None /\ slots[i].image = e
            THEN None ELSE images[e]]
    /\ nextSlot' = 0 /\ texture' = None /\ current' = None
    /\ size' = None /\ lastSeq' = 0
    /\ UNCHANGED <<bufferType, clientVars, rasterVars, running>>

\* The end of xdg_toplevel_destroy: the handle is removed, the record freed,
\* and wlroots frees the surface.
FreeRecord ==
    /\ running /\ record = "destroyed"
    /\ record' = "freed" /\ surface' = None
    /\ UNCHANGED <<buffers, made, seq, cacheVars, rasterVars, running>>

-----------------------------------------------------------------------------
(* The raster thread: engine_cb_external_texture.                          *)

\* The record is found in the handle map and not destroyed, and the surface
\* has a size; otherwise the callback changes nothing.
BeginCallback ==
    /\ running /\ pc = "idle" /\ record = "live" /\ surface # None
    /\ pc' = IF bufferType = "shm" THEN "wlroots" ELSE "import"
    /\ actual' = surface.size
    /\ UNCHANGED <<clientVars, record, cacheVars, read, running>>

EndCallback == pc' = "idle" /\ actual' = None /\ read' = None

\* From here the record may be freed: what is read of it then is luck.
CrashInCallback ==
    /\ running /\ record = "freed" /\ pc # "idle"
    /\ running' = FALSE
    /\ UNCHANGED <<clientVars, record, cacheVars, rasterVars>>

\* fwr_renderer_import_surface_dmabuf up to the lock: the surface's buffer.
ReadBuffer ==
    /\ running /\ pc = "import"
    /\ IF record = "live" /\ surface # None /\ surface.address # None /\ surface.dmabuf
       THEN pc' = "locking" /\ read' = surface
       ELSE pc' = "failed" /\ UNCHANGED read
    /\ UNCHANGED <<clientVars, record, cacheVars, actual, running>>

\* Mistake: destroyed is not tested again under the mutex.
LockedUnchecked == running /\ pc = "locking"
\* With the mutex, and the record still not destroyed.
Locked == running /\ pc = "locking" /\ record = "live"

LateForImport ==
    /\ running /\ pc = "locking" /\ record # "live"
    /\ pc' = "failed"
    /\ UNCHANGED <<clientVars, record, cacheVars, actual, read, running>>

\* "same sequence = same content"
Unchanged == texture # None /\ lastSeq = seq /\ size = read.size

ReuseTexture ==
    /\ Locked /\ Unchanged
    /\ bufferType' = "dmabuf" /\ EndCallback
    /\ UNCHANGED <<clientVars, record, slots, nextSlot, texture, current, size,
                   lastSeq, images, running>>

\* The end of the import: a new texture is made if there is none, and the
\* image is bound if it is not the one bound before.  A texture that has been
\* used as GL_TEXTURE_2D cannot be bound to GL_TEXTURE_EXTERNAL_OES.
Bind(image, mem, before) ==
    /\ texture' =
         IF texture = None
         THEN [target |-> "external", shows |-> IF before # image THEN mem ELSE None]
         ELSE IF before # image /\ texture.target = "external"
         THEN [texture EXCEPT !.shows = mem]
         ELSE texture
    /\ current' = image /\ size' = read.size /\ lastSeq' = seq
    /\ bufferType' = "dmabuf" /\ EndCallback

\* The slot that has an image for the buffer at this address.
Matching == {i \in Slots : slots[i] # None /\ slots[i].address = read.address}

\* get_or_create_egl_image: an image of that address and size is there.
ImportCached(i) ==
    /\ Locked /\ ~Unchanged
    /\ i \in Matching /\ slots[i].size = read.size
    /\ Bind(slots[i].image, images[slots[i].image], current)
    /\ UNCHANGED <<clientVars, record, slots, nextSlot, images, running>>

Resized == size # None /\ size # read.size

\* What stays in the slots when an image is made: nothing if the size has
\* changed; otherwise all but an image of another size and the next slot.
\* Mistake: a resize is noticed only in the buffer's own slot.
KeptWhateverSize == [i \in Slots |-> IF i \in Matching \/ i = nextSlot THEN None
                                     ELSE slots[i]]
Kept == [i \in Slots |-> IF Resized \/ i \in Matching \/ i = nextSlot THEN None
                         ELSE slots[i]]
\* Mistake: the image of the slot that is reused is not destroyed.
ImagesKeptLeaky == images
ImagesKept == [e \in Images |->
    IF \E i \in Slots : Kept[i] # None /\ Kept[i].image = e THEN images[e] ELSE None]

\* Mistake: the next slot is not taken modulo the size.
MissesCacheUnwrapped ==
    /\ Locked /\ ~Unchanged
    /\ \A i \in Matching : slots[i].size # read.size
    /\ nextSlot' = nextSlot + 1

\* The search fails, and the next slot is taken.
MissesCache ==
    /\ Locked /\ ~Unchanged
    /\ \A i \in Matching : slots[i].size # read.size
    /\ nextSlot' = (nextSlot + 1) % SlotCount

\* A new image, at any handle that is free by now.
ImportNew(e) ==
    /\ MissesCache
    /\ ImagesKept[e] = None
    /\ slots' = [Kept EXCEPT ![nextSlot] =
                    [address |-> read.address, image |-> e, size |-> read.size]]
    /\ images' = [ImagesKept EXCEPT ![e] = read.mem]
    /\ Bind(e, read.mem, IF Resized THEN None ELSE current)
    /\ UNCHANGED <<clientVars, record, running>>

\* eglCreateImageKHR fails: the slots are emptied already.
ImportFails ==
    /\ MissesCache
    /\ slots' = Kept /\ images' = ImagesKept
    /\ current' = IF Resized THEN None ELSE current
    /\ pc' = "failed"
    /\ UNCHANGED <<clientVars, record, texture, size, lastSeq, bufferType,
                   actual, read, running>>

\* provide_surface_texture after a failed import: the surface is read again,
\* and shared memory remembered if nothing else was.
DetectShm ==
    /\ running /\ pc = "failed"
    /\ bufferType' = IF /\ bufferType = "unknown" /\ surface # None
                        /\ surface.address # None /\ ~surface.dmabuf
                     THEN "shm" ELSE bufferType
    /\ pc' = "wlroots"
    /\ UNCHANGED <<clientVars, record, slots, nextSlot, texture, current, size,
                   lastSeq, images, actual, read, running>>

\* The images are of no use any more.
\* Mistake: the images are destroyed and the current one still named.
DropImagesKeepsCurrent ==
    IF current = None THEN UNCHANGED <<slots, images, texture, current>>
    ELSE /\ slots' = NoSlots /\ images' = NoImages
         /\ texture' = None /\ UNCHANGED current
DropImages ==
    IF current = None THEN UNCHANGED <<slots, images, texture, current>>
    ELSE /\ slots' = NoSlots
         /\ images' = [e \in Images |->
                IF \E i \in Slots : slots[i] # None /\ slots[i].image = e
                THEN None ELSE images[e]]
         /\ texture' = None /\ current' = None

\* The path through wlroots' texture, up to the unlocked test of destroyed in
\* fwr_renderer_copy_texture.
UseWlrootsTexture ==
    /\ running /\ pc = "wlroots"
    /\ DropImages
    /\ IF surface # None /\ record = "live"
       THEN pc' = "copy" /\ read' = surface /\ UNCHANGED actual
       ELSE EndCallback
    /\ UNCHANGED <<clientVars, record, nextSlot, size, lastSeq, bufferType, running>>

\* The rest of fwr_renderer_copy_texture, without the mutex.  A texture used
\* as external cannot be drawn into, and is deleted.
CopyTexture ==
    /\ running /\ pc = "copy"
    /\ IF texture # None /\ texture.target = "external"
       THEN texture' = None /\ size' = None
       ELSE texture' = [target |-> "2d", shows |-> read.mem] /\ size' = actual
    /\ EndCallback
    /\ UNCHANGED <<clientVars, record, slots, nextSlot, current, lastSeq,
                   bufferType, images, running>>

-----------------------------------------------------------------------------
Next ==
    \/ \E a \in Addresses, s \in Sizes, dmabuf \in BOOLEAN : MakeBuffer(a, s, dmabuf)
    \/ \E a \in Addresses : DropBuffer(a) \/ Commit(a)
    \/ CommitNothing \/ DestroyCache \/ FreeRecord
    \/ BeginCallback \/ CrashInCallback \/ ReadBuffer \/ LateForImport \/ ReuseTexture
    \/ \E i \in Slots : ImportCached(i)
    \/ \E e \in Images : ImportNew(e)
    \/ ImportFails \/ DetectShm \/ UseWlrootsTexture \/ CopyTexture

Spec == Init /\ [][Next]_vars

-----------------------------------------------------------------------------
(* Properties.                                                             *)

\* Every variable has its type.
TypeOK ==
    /\ buffers \in [Addresses -> Buffers \cup {None}] /\ made \in 0 .. MaxBuffers
    /\ surface \in Buffers \cup {None} /\ seq \in 0 .. MaxCommits
    /\ record \in {"live", "destroyed", "freed"}
    /\ slots \in [Slots -> Entries \cup {None}] /\ nextSlot \in Slots
    /\ texture \in [target : {"2d", "external"}, shows : Mems \cup {None}] \cup {None}
    /\ current \in Images \cup {None} /\ size \in Sizes \cup {None}
    /\ lastSeq \in 0 .. MaxCommits
    /\ bufferType \in {"unknown", "shm", "dmabuf"}
    /\ images \in [Images -> Mems \cup {None}]
    /\ pc \in {"idle", "import", "locking", "failed", "wlroots", "copy"}
    /\ actual \in Sizes \cup {None} /\ read \in Buffers \cup {None}
    /\ running \in BOOLEAN

Holds(i, e) == slots[i] # None /\ slots[i].image = e

\* Every EGL image that exists is in exactly one slot and every slot's image
\* exists: none is leaked by a resize, an eviction, a failed import or the
\* destruction of the surface, and none can be destroyed twice.
ImagesOwned ==
    /\ \A e \in Images : images[e] # None <=> \E i \in Slots : Holds(i, e)
    /\ \A i, j \in Slots : \A e \in Images : Holds(i, e) /\ Holds(j, e) => i = j
    /\ record # "live" => images = NoImages

\* Between callbacks current_egl_image names an image that exists, although
\* an eviction may destroy it and the import fail after that.
CurrentImageExists == pc = "idle" /\ current # None => images[current] # None

\* "resize invalidates the entire buffer pool": between callbacks the images
\* in the slots are all of the texture's size.
OneSize == pc = "idle" => \A i \in Slots : slots[i] # None => slots[i].size = size

\* A texture that will be used again without an import, because "same
\* sequence = same content", shows the buffer the client committed last.  The
\* buffer is read before the lock and the sequence number after it, and a
\* commit may come between.
SameSequenceSameContent ==
    /\ pc = "idle" /\ record = "live" /\ bufferType = "dmabuf"
    /\ surface # None /\ surface.dmabuf
    /\ texture # None /\ lastSeq = seq /\ size = surface.size
    => texture.shows = surface.mem
=============================================================================
