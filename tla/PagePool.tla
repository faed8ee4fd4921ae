------------------------------ MODULE PagePool ------------------------------
(***************************************************************************)
(* The two pages of backing-store textures of src/src/renderer.c.  The     *)
(* Flutter raster thread takes textures from the current page, draws a     *)
(* frame and presents it; present_layers makes that frame the scene and    *)
(* flips the pages.  The platform thread composites the scene whenever an  *)
(* output wants a frame, under the mutex present_layers also takes; taking *)
(* a texture from the pool is not under it.                                *)
(*                                                                         *)
(* A texture stands for its page_texture record and its GL name: both are  *)
(* made and freed together.  A list is the set of its members; of several  *)
(* unused textures of the wanted size any may be taken.                    *)
(***************************************************************************)
EXTENDS Integers, FiniteSets

CONSTANTS
  Textures,   \* GL texture names; a deleted name may be handed out again
  Sizes,      \* the sizes the engine asks for
  MaxStores,  \* bound: backing stores per frame
  MaxFrames   \* bound: frames presented

ASSUME BoundsAssumption == MaxStores \in Nat /\ MaxFrames \in Nat

VARIABLES
  currentPage,  \* renderer->current_page
  textures,     \* pages[p].textures
  unused,       \* pages[p].unused_textures
  size,         \* width and height of a texture
  inflight,     \* the backing stores of the frame the engine is drawing
  scene,        \* the textures of current_scene.layers
  sync,         \* current_scene.sync: the frame it fences, 0 for none
  frame,        \* number of the frame in current_scene
  waited,       \* the last frame whose fence the compositor's context waited on
  rendering,    \* the platform thread is in render_scene
  previous      \* history: the textures of the scene before

vars == <<currentPage, textures, unused, size, inflight, scene, sync, frame,
          waited, rendering, previous>>

Pages == {0, 1}

\* Mutant: the page index is not wrapped.
OtherUnwrapped(p) == p + 1

\* The page current_page does not name.
Other(p) == 1 - p

\* Textures that exist: linked into some list.
Live == UNION {textures[p] \cup unused[p] : p \in Pages}

TypeOK ==
  /\ currentPage \in Pages
  /\ textures \in [Pages -> SUBSET Textures]
  /\ unused \in [Pages -> SUBSET Textures]
  /\ size \in [Textures -> Sizes]
  /\ inflight \in SUBSET Textures
  /\ scene \in SUBSET Textures
  /\ previous \in SUBSET Textures
  /\ sync \in Nat /\ frame \in Nat /\ waited \in Nat
  /\ rendering \in BOOLEAN

Init ==
  /\ currentPage = 0
  /\ textures = [p \in Pages |-> {}]
  /\ unused = [p \in Pages |-> {}]
  /\ size \in [Textures -> Sizes]
  /\ inflight = {}
  /\ scene = {}
  /\ sync = 0
  /\ frame = 0
  /\ waited = 0
  /\ rendering = FALSE
  /\ previous = {}

-----------------------------------------------------------------------------
(* The raster thread *)

Fits(s) == {t \in unused[currentPage] : size[t] = s}

\* Mutant: a reused texture stays in the list of unused textures.
LinkKeepsUnused(t) ==
  /\ textures' = [textures EXCEPT ![currentPage] = @ \cup {t}]
  /\ UNCHANGED unused

\* wl_list_remove from unused_textures when reused, insert into textures.
Link(t) ==
  /\ textures' = [textures EXCEPT ![currentPage] = @ \cup {t}]
  /\ unused' = [unused EXCEPT ![currentPage] = @ \ {t}]

\* page_get_texture for create_backing_store: reuse a texture of the same
\* size the current page has left, or create one.
CreateBackingStore(s) ==
  /\ Cardinality(inflight) < MaxStores
  /\ frame < MaxFrames
  /\ \E t \in Textures :
       /\ IF Fits(s) # {}
            THEN t \in Fits(s) /\ UNCHANGED size
            ELSE t \notin Live /\ size' = [size EXCEPT ![t] = s]
       /\ Link(t)
       /\ inflight' = inflight \cup {t}
  /\ UNCHANGED <<currentPage, scene, sync, frame, waited, rendering, previous>>

\* Mutant: the pages are exchanged before the last page is worked out, so the
\* textures of the new scene are the ones recycled.
RecycledOwn(p) ==
  [textures |-> [textures EXCEPT ![p] = {}],
   unused |-> [unused EXCEPT ![p] = {}, ![Other(p)] = @ \cup textures[p]]]

\* Mutant: the leftovers of the current page are kept.
RecycledKeeping(p) ==
  [textures |-> [textures EXCEPT ![Other(p)] = {}],
   unused |-> [unused EXCEPT ![Other(p)] = @ \cup textures[Other(p)]]]

\* The lists after a present: what the current page did not need is deleted,
\* the textures of the page shown until now become that page's unused ones.
Recycled(p) ==
  [textures |-> [textures EXCEPT ![Other(p)] = {}],
   unused |-> [unused EXCEPT ![p] = {}, ![Other(p)] = @ \cup textures[Other(p)]]]

\* eglDestroySync of an unused fence, eglCreateSync behind the drawing.
NewSync == frame + 1

\* present_layers: with avoid_backing_store_cache the layers are the stores
\* created for this frame.
PresentLayers ==
  /\ ~rendering
  /\ frame < MaxFrames
  /\ previous' = scene
  /\ scene' = inflight
  /\ inflight' = {}
  /\ frame' = frame + 1
  /\ sync' = NewSync
  /\ textures' = Recycled(currentPage).textures
  /\ unused' = Recycled(currentPage).unused
  /\ currentPage' = Other(currentPage)
  /\ UNCHANGED <<size, waited, rendering>>

-----------------------------------------------------------------------------
(* The platform thread *)

\* Mutant: the fence is destroyed without being waited on.
WaitSyncSkipped == UNCHANGED waited /\ sync' = 0

\* The fence is waited on once per frame; later outputs of the same frame use
\* the same context, whose commands stay in order.
WaitSync ==
  /\ waited' = IF sync # 0 THEN sync ELSE waited
  /\ sync' = 0

\* fwr_renderer_render_scene for one output, between lock and unlock.
RenderSceneBegin ==
  /\ ~rendering
  /\ rendering' = TRUE
  /\ WaitSync
  /\ UNCHANGED <<currentPage, textures, unused, size, inflight, scene, frame,
                 previous>>

RenderSceneEnd ==
  /\ rendering
  /\ rendering' = FALSE
  /\ UNCHANGED <<currentPage, textures, unused, size, inflight, scene, sync,
                 frame, waited, previous>>

Next ==
  \/ \E s \in Sizes : CreateBackingStore(s)
  \/ PresentLayers
  \/ RenderSceneBegin
  \/ RenderSceneEnd

Spec == Init /\ [][Next]_vars

-----------------------------------------------------------------------------
(* Properties *)

\* What the compositor samples exists and is not being drawn into: no texture
\* of the scene is deleted, recycled or handed to the engine for the next
\* frame while the scene shows it.
SceneIntact == scene \subseteq Live /\ scene \cap inflight = {}

\* A texture is in one list of one page: never offered twice, never both
\* free and in use.
ListsDisjoint ==
  /\ \A p \in Pages : textures[p] \cap unused[p] = {}
  /\ (textures[0] \cup unused[0]) \cap (textures[1] \cup unused[1]) = {}

\* The pool holds three frames at most: a texture that exists is being drawn,
\* is on screen, or was on screen in the frame before - nothing leaks.
NothingOutlivesTwoFrames == Live \subseteq inflight \cup scene \cup previous

\* While a frame is composited, its own fence has been waited on - not that of
\* an earlier frame, and not none - whatever was presented since an output
\* last rendered.
RenderedFrameComplete == rendering => waited = frame
=============================================================================
