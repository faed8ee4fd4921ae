------------------------------ MODULE Surfaces ------------------------------
(***************************************************************************)
(* The toplevels, subsurfaces and popups of the Wayland clients            *)
(* (src/src/surface.c), the external textures they register with the       *)
(* Flutter engine, and their mirror in Dart                                *)
(* (src/compositor_dart/lib/compositor_dart.dart), which is told of them   *)
(* by messages on the "wlroots" channel.                                   *)
(*                                                                         *)
(* An action of the C side is one client request as wlroots dispatches it, *)
(* with every handler of surface.c it calls; an action of the Dart side is *)
(* one message handler.  The channel is a queue: messages are neither lost *)
(* nor reordered.  wlroots is external: unmapping a surface unmaps its     *)
(* subsurfaces, and unmapping or destroying a toplevel destroys its        *)
(* popups.  A mapped toplevel's subsurfaces may map before or after the    *)
(* toplevel's own listener is called.                                      *)
(*                                                                         *)
(* A handle is the surface itself: handle_map_add never reuses one.  The   *)
(* three kinds' texture ids are kept apart by offsets (0, 100000, 200000), *)
(* so a texture is named by its surface too.  Sizes stand for a surface's  *)
(* geometry, Places for a popup's position.  The memory of a destroyed     *)
(* toplevel is free: a handler that reads it finds it intact or crashes.   *)
(***************************************************************************)
EXTENDS Naturals, Sequences, FiniteSets, SequencesExt

CONSTANTS
    Toplevels,      \* struct fwr_view
    Subsurfaces,    \* struct fwr_subsurface
    Popups,         \* struct fwr_popup
    Sizes,          \* geometries of surfaces
    Places,         \* positions of popups
    None,           \* no parent, no size, no place, or not shown
    MaxRequests,    \* bound: client requests in a behaviour
    MaxQueued       \* bound: messages queued when a request is dispatched

ASSUME Bounds == MaxRequests \in Nat /\ MaxQueued \in Nat
ASSUME Kinds ==
    /\ Toplevels \cap Subsurfaces = {}
    /\ Toplevels \cap Popups = {}
    /\ Subsurfaces \cap Popups = {}
    /\ None \notin Toplevels \cup Subsurfaces \cup Popups \cup Sizes \cup Places
    /\ None \notin [parent : Toplevels, box : Sizes]
    /\ None \notin [parent : Toplevels, size : Sizes, place : Places]
ASSUME FiniteClients == IsFiniteSet(Subsurfaces) /\ IsFiniteSet(Popups)

VARIABLES
    toplevel,       \* fwr_view: its state and the geometry last read
    subsurface,     \* fwr_subsurface: state, parent_view, box last read, buffer
    popup,          \* fwr_popup: state, parent, size last sent, positions
    textures,       \* the external textures registered with the engine
    channel,        \* messages to Dart under way
    surfaces,       \* Dart: Compositor.surfaces, the size of each
    lists,          \* Dart: Surface.subsurfaces of each
    subsurfaces,    \* Dart: Compositor.subsurfaces
    popups,         \* Dart: Compositor.popups
    running,        \* the process has not crashed
    requests        \* client requests so far (bound)

dart == <<surfaces, lists, subsurfaces, popups>>
vars == <<toplevel, subsurface, popup, textures, channel, dart, running, requests>>

NoToplevel == [state |-> "none", geo |-> None]
NoSubsurface == [state |-> "none", parent |-> None, box |-> None, buffer |-> FALSE]
NoPopup == [state |-> "none", parent |-> None, size |-> None,
            scheduled |-> None, current |-> None, constrained |-> FALSE]

Init ==
    /\ toplevel = [t \in Toplevels |-> NoToplevel]
    /\ subsurface = [s \in Subsurfaces |-> NoSubsurface]
    /\ popup = [p \in Popups |-> NoPopup]
    /\ textures = {}
    /\ channel = <<>>
    /\ surfaces = [t \in Toplevels |-> None]
    /\ lists = [t \in Toplevels |-> {}]
    /\ subsurfaces = [s \in Subsurfaces |-> None]
    /\ popups = [p \in Popups |-> None]
    /\ running = TRUE
    /\ requests = 0

Live(x) == x.state \in {"unmapped", "mapped"}

-----------------------------------------------------------------------------
(* The messages.  Each carries what the handler has read when it is sent.  *)

SurfaceMap(t, g) == [type |-> "surface_map", handle |-> t, geo |-> g]
SurfaceUnmap(t) == [type |-> "surface_unmap", handle |-> t]
SurfaceGeometry(t, g) == [type |-> "surface_geometry", handle |-> t, geo |-> g]
\* Mistake: the two handles are swapped.
SubsurfaceMapSwapped(s, t, b) ==
    [type |-> "subsurface_map", handle |-> t, parent |-> s, box |-> b]
SubsurfaceMap(s, t, b) ==
    [type |-> "subsurface_map", handle |-> s, parent |-> t, box |-> b]
SubsurfaceUnmap(s) == [type |-> "subsurface_unmap", handle |-> s]
SubsurfacePosition(s, b) ==
    [type |-> "subsurface_position", handle |-> s, box |-> b]
PopupUnmap(p) == [type |-> "popup_unmap", handle |-> p]

\* send_popup_map: the position is the current geometry's, the scheduled
\* one's only while there is no current one.
PopupMap(p, popupNow) ==
    [type |-> "popup_map", handle |-> p, parent |-> popupNow.parent,
     size |-> popupNow.size,
     place |-> IF popupNow.current # None THEN popupNow.current
                                          ELSE popupNow.scheduled]

\* A client request is dispatched: its messages are sent.
Request(messages) ==
    /\ running /\ requests < MaxRequests /\ Len(channel) <= MaxQueued
    /\ requests' = requests + 1
    /\ channel' = channel \o messages
    /\ UNCHANGED dart

-----------------------------------------------------------------------------
(* Toplevels.                                                              *)

ChildrenOf(t) == {s \in Subsurfaces : Live(subsurface[s]) /\ subsurface[s].parent = t}
PopupsOf(t) == {p \in Popups : Live(popup[p]) /\ popup[p].parent = t}
MappedChildrenOf(t) == {s \in ChildrenOf(t) : subsurface[s].state = "mapped"}
MappedPopupsOf(t) == {p \in PopupsOf(t) : popup[p].state = "mapped"}

\* fwr_new_xdg_toplevel.
NewToplevel(t) ==
    /\ toplevel[t].state = "none"
    /\ toplevel' = [toplevel EXCEPT ![t].state = "unmapped"]
    /\ Request(<<>>)
    /\ UNCHANGED <<subsurface, popup, textures, running>>

\* The commit that maps toplevel t: its subsurfaces that have a buffer map
\* with it, and the commit handler that follows finds the geometry unchanged.
MapToplevel(t, g) ==
    LET mapping == {s \in ChildrenOf(t) : subsurface[s].buffer}
    IN \E box \in [mapping -> Sizes], childrenFirst \in BOOLEAN :
        LET own == <<SurfaceMap(t, g)>>
            theirs == SetToSeq({SubsurfaceMap(s, t, box[s]) : s \in mapping})
        IN
        /\ toplevel[t].state = "unmapped"
        /\ toplevel' = [toplevel EXCEPT ![t] = [state |-> "mapped", geo |-> g]]
        /\ subsurface' = [s \in Subsurfaces |->
                IF s \in mapping
                THEN [subsurface[s] EXCEPT !.state = "mapped", !.box = box[s]]
                ELSE subsurface[s]]
        /\ textures' = textures \cup {t} \cup mapping
        /\ Request(IF childrenFirst THEN theirs \o own ELSE own \o theirs)
        /\ UNCHANGED <<popup, running>>

\* What unmapping toplevel t takes with it: its mapped subsurfaces are
\* unmapped and its popups destroyed.
\* Mistake: xdg_toplevel_destroy announces the unmapping on its own account.
UnmapMessagesAlways(t) ==
    <<SurfaceUnmap(t)>>
    \o SetToSeq({SubsurfaceUnmap(s) : s \in MappedChildrenOf(t)})
    \o SetToSeq({PopupUnmap(p) : p \in MappedPopupsOf(t)})
UnmapMessages(t) ==
    (IF toplevel[t].state = "mapped" THEN <<SurfaceUnmap(t)>> ELSE <<>>)
    \o SetToSeq({SubsurfaceUnmap(s) : s \in MappedChildrenOf(t)})
    \o SetToSeq({PopupUnmap(p) : p \in MappedPopupsOf(t)})
ChildrenUnmapped(t) ==
    [s \in Subsurfaces |-> IF s \in ChildrenOf(t)
                           THEN [subsurface[s] EXCEPT !.state = "unmapped"]
                           ELSE subsurface[s]]
PopupsDestroyed(t) ==
    [p \in Popups |-> IF p \in PopupsOf(t)
                      THEN [NoPopup EXCEPT !.state = "destroyed"]
                      ELSE popup[p]]

\* xdg_toplevel_unmap: the texture stays registered.
UnmapToplevel(t) ==
    /\ toplevel[t].state = "mapped"
    /\ toplevel' = [toplevel EXCEPT ![t].state = "unmapped"]
    /\ subsurface' = ChildrenUnmapped(t)
    /\ popup' = PopupsDestroyed(t)
    /\ textures' = textures \ PopupsOf(t)
    /\ Request(UnmapMessages(t))
    /\ UNCHANGED running

\* xdg_toplevel_commit, of a toplevel mapped or not.
CommitToplevel(t, g) ==
    /\ Live(toplevel[t])
    /\ toplevel' = [toplevel EXCEPT ![t].geo = g]
    /\ Request(IF g # toplevel[t].geo THEN <<SurfaceGeometry(t, g)>> ELSE <<>>)
    /\ UNCHANGED <<subsurface, popup, textures, running>>

\* xdg_toplevel_destroy, after wlroots has unmapped the surface.  The
\* subsurfaces live on, their parent_view pointing at freed memory.
DestroyToplevel(t) ==
    /\ Live(toplevel[t])
    /\ toplevel' = [toplevel EXCEPT ![t] = [NoToplevel EXCEPT !.state = "destroyed"]]
    /\ subsurface' = ChildrenUnmapped(t)
    /\ popup' = PopupsDestroyed(t)
    /\ textures' = textures \ ({t} \cup PopupsOf(t))
    /\ Request(UnmapMessages(t))
    /\ UNCHANGED running

-----------------------------------------------------------------------------
(* Subsurfaces.                                                            *)

\* handle_new_subsurface.  Only toplevels listen for new subsurfaces.
NewSubsurface(s, t) ==
    /\ subsurface[s].state = "none" /\ Live(toplevel[t])
    /\ subsurface' = [subsurface EXCEPT ![s] =
                        [NoSubsurface EXCEPT !.state = "unmapped", !.parent = t]]
    /\ Request(<<>>)
    /\ UNCHANGED <<toplevel, popup, textures, running>>

\* Reading parent_view->instance of a toplevel that is destroyed.
Crash(s) ==
    /\ Live(subsurface[s]) /\ toplevel[subsurface[s].parent].state = "destroyed"
    /\ running' = FALSE
    /\ Request(<<>>)
    /\ UNCHANGED <<toplevel, subsurface, popup, textures>>

\* subsurface_handle_map, on the first commit of a buffer under a mapped
\* parent.
MapSubsurface(s, b) ==
    LET t == subsurface[s].parent IN
    /\ subsurface[s].state = "unmapped" /\ toplevel[t].state = "mapped"
    /\ subsurface' = [subsurface EXCEPT
                        ![s] = [@ EXCEPT !.state = "mapped", !.box = b, !.buffer = TRUE]]
    /\ textures' = textures \cup {s}
    /\ Request(<<SubsurfaceMap(s, t, b)>>)
    /\ UNCHANGED <<toplevel, popup, running>>

\* subsurface_handle_commit, of a subsurface mapped or not.
CommitSubsurface(s, b) ==
    /\ Live(subsurface[s])
    /\ subsurface[s].state = "mapped" \/ toplevel[subsurface[s].parent].state # "mapped"
    /\ subsurface' = [subsurface EXCEPT ![s] = [@ EXCEPT !.box = b, !.buffer = TRUE]]
    /\ Request(IF b # subsurface[s].box THEN <<SubsurfacePosition(s, b)>> ELSE <<>>)
    /\ UNCHANGED <<toplevel, popup, textures, running>>

\* subsurface_handle_unmap, on the commit of no buffer.
UnmapSubsurface(s) ==
    /\ subsurface[s].state = "mapped"
    /\ subsurface' = [subsurface EXCEPT
                        ![s] = [@ EXCEPT !.state = "unmapped", !.buffer = FALSE]]
    /\ Request(<<SubsurfaceUnmap(s)>>)
    /\ UNCHANGED <<toplevel, popup, textures, running>>

\* Mistake: the texture is left registered, as when the surface is unmapped.
DestroySubsurfaceKeepsTexture(s) ==
    /\ Live(subsurface[s])
    /\ subsurface' = [subsurface EXCEPT ![s] = [NoSubsurface EXCEPT !.state = "destroyed"]]
    /\ Request(IF subsurface[s].state = "mapped" THEN <<SubsurfaceUnmap(s)>> ELSE <<>>)
    /\ UNCHANGED <<toplevel, popup, textures, running>>

\* subsurface_handle_destroy, after wlroots has unmapped the surface.
DestroySubsurface(s) ==
    /\ Live(subsurface[s])
    /\ subsurface' = [subsurface EXCEPT ![s] = [NoSubsurface EXCEPT !.state = "destroyed"]]
    /\ textures' = textures \ {s}
    /\ Request(IF subsurface[s].state = "mapped" THEN <<SubsurfaceUnmap(s)>> ELSE <<>>)
    /\ UNCHANGED <<toplevel, popup, running>>

-----------------------------------------------------------------------------
(* Popups.  The scheduled geometry is what the compositor has offered, the *)
(* current one what the client has acknowledged and committed.             *)

\* fwr_new_xdg_popup: the parent is looked up among the toplevels only, and a
\* popup of a popup is not tracked at all.
NewPopup(p, parent, place) ==
    /\ popup[p].state = "none"
    /\ \/ parent \in Toplevels /\ Live(toplevel[parent])
       \/ parent \in Popups /\ popup[parent].state \in {"unmapped", "mapped", "untracked"}
    /\ popup' = [popup EXCEPT ![p] =
            IF parent \in Toplevels
            THEN [NoPopup EXCEPT !.state = "unmapped", !.parent = parent,
                                 !.scheduled = place]
            ELSE [NoPopup EXCEPT !.state = "untracked"]]
    /\ Request(<<>>)
    /\ UNCHANGED <<toplevel, subsurface, textures, running>>

\* popup_handle_commit of a popup that is not mapped: the first, which every
\* client makes before it may map the popup, constrains it to its output and
\* may move the scheduled position.
ConstrainPopup(p, place) ==
    /\ popup[p].state = "unmapped" /\ ~popup[p].constrained
    /\ popup' = [popup EXCEPT
                    ![p] = [@ EXCEPT !.scheduled = place, !.constrained = TRUE]]
    /\ Request(<<>>)
    /\ UNCHANGED <<toplevel, subsurface, textures, running>>

\* popup_handle_map, on the commit that acknowledges the scheduled geometry.
MapPopup(p, size) ==
    /\ popup[p].state = "unmapped" /\ popup[p].constrained
    /\ popup' = [popup EXCEPT ![p] = [@ EXCEPT !.state = "mapped", !.size = size,
                                               !.current = popup[p].scheduled]]
    /\ textures' = textures \cup {p}
    /\ Request(<<PopupMap(p, popup'[p])>>)
    /\ UNCHANGED <<toplevel, subsurface, running>>

\* Mistake: Dart is told only when the texture is new.
CommitPopupQuietly(p, size, acknowledge) ==
    /\ popup[p].state = "mapped"
    /\ popup' = [popup EXCEPT ![p] = [@ EXCEPT !.size = size,
                        !.current = IF acknowledge THEN popup[p].scheduled
                                                   ELSE popup[p].current]]
    /\ textures' = textures \cup {p}
    /\ Request(IF p \notin textures THEN <<PopupMap(p, popup'[p])>> ELSE <<>>)
    /\ UNCHANGED <<toplevel, subsurface, running>>

\* popup_handle_commit of a mapped popup, which may acknowledge a new
\* position: Dart is told when the texture is new or the size has changed.
CommitPopup(p, size, acknowledge) ==
    /\ popup[p].state = "mapped"
    /\ popup' = [popup EXCEPT ![p] = [@ EXCEPT !.size = size,
                        !.current = IF acknowledge THEN popup[p].scheduled
                                                   ELSE popup[p].current]]
    /\ textures' = textures \cup {p}
    /\ Request(IF p \notin textures \/ size # popup[p].size
               THEN <<PopupMap(p, popup'[p])>> ELSE <<>>)
    /\ UNCHANGED <<toplevel, subsurface, running>>

\* popup_handle_reposition: the client asks for another position; a mapped
\* popup is sent again, with the size of its content.
RepositionPopup(p, place, size) ==
    /\ Live(popup[p])
    /\ popup' = [popup EXCEPT ![p] = [@ EXCEPT !.scheduled = place, !.size = size]]
    /\ Request(IF popup[p].state = "mapped" THEN <<PopupMap(p, popup'[p])>> ELSE <<>>)
    /\ UNCHANGED <<toplevel, subsurface, textures, running>>

\* popup_handle_unmap: the client commits no buffer.
UnmapPopup(p) ==
    /\ popup[p].state = "mapped"
    /\ popup' = [popup EXCEPT ![p] = [@ EXCEPT !.state = "unmapped", !.current = None]]
    /\ textures' = textures \ {p}
    /\ Request(<<PopupUnmap(p)>>)
    /\ UNCHANGED <<toplevel, subsurface, running>>

\* popup_handle_destroy, after wlroots has unmapped the surface.
DestroyPopup(p) ==
    /\ Live(popup[p])
    /\ popup' = [popup EXCEPT ![p] = [NoPopup EXCEPT !.state = "destroyed"]]
    /\ textures' = textures \ {p}
    /\ Request(IF popup[p].state = "mapped" THEN <<PopupUnmap(p)>> ELSE <<>>)
    /\ UNCHANGED <<toplevel, subsurface, running>>

-----------------------------------------------------------------------------
(* Dart.                                                                   *)

\* The next message is of this type and is handled.
Receive(type) ==
    /\ running /\ channel # <<>> /\ Head(channel).type = type
    /\ channel' = Tail(channel)
    /\ UNCHANGED <<toplevel, subsurface, popup, textures, running, requests>>

\* A new Surface object replaces the one of that handle: its list of
\* subsurfaces is empty.
OnSurfaceMap ==
    LET t == Head(channel).handle IN
    /\ Receive("surface_map")
    /\ surfaces' = [surfaces EXCEPT ![t] = Head(channel).geo]
    /\ lists' = [lists EXCEPT ![t] = {}]
    /\ UNCHANGED <<subsurfaces, popups>>

\* surfaces[handle]! throws on an unknown handle, and nothing changes.
OnSurfaceUnmap ==
    LET t == Head(channel).handle IN
    /\ Receive("surface_unmap")
    /\ surfaces' = [surfaces EXCEPT ![t] = None]
    /\ lists' = [lists EXCEPT ![t] = {}]
    /\ UNCHANGED <<subsurfaces, popups>>

\* Ignored for an unknown handle.
OnSurfaceGeometry ==
    LET t == Head(channel).handle IN
    /\ Receive("surface_geometry")
    /\ surfaces' = [surfaces EXCEPT ![t] = IF @ = None THEN None ELSE Head(channel).geo]
    /\ UNCHANGED <<lists, subsurfaces, popups>>

\* The subsurface joins its parent's list only if the parent is known.
OnSubsurfaceMap ==
    LET m == Head(channel) IN
    /\ Receive("subsurface_map")
    /\ subsurfaces' = [subsurfaces EXCEPT ![m.handle] = [parent |-> m.parent, box |-> m.box]]
    /\ lists' = [lists EXCEPT ![m.parent] =
                    IF surfaces[m.parent] = None THEN @ ELSE @ \cup {m.handle}]
    /\ UNCHANGED <<surfaces, popups>>

\* Mistake: the subsurface stays in its parent's list.
OnSubsurfaceUnmapKeepsList ==
    /\ Receive("subsurface_unmap")
    /\ subsurfaces' = [subsurfaces EXCEPT ![Head(channel).handle] = None]
    /\ UNCHANGED <<surfaces, lists, popups>>

OnSubsurfaceUnmap ==
    LET s == Head(channel).handle IN
    /\ Receive("subsurface_unmap")
    /\ subsurfaces' = [subsurfaces EXCEPT ![s] = None]
    /\ lists' = [t \in Toplevels |->
                    IF subsurfaces[s] # None /\ subsurfaces[s].parent = t
                    THEN lists[t] \ {s} ELSE lists[t]]
    /\ UNCHANGED <<surfaces, popups>>

OnSubsurfacePosition ==
    LET s == Head(channel).handle IN
    /\ Receive("subsurface_position")
    /\ subsurfaces' = [subsurfaces EXCEPT ![s] =
                    IF @ = None THEN None ELSE [@ EXCEPT !.box = Head(channel).box]]
    /\ UNCHANGED <<surfaces, lists, popups>>

\* Sent again for a popup that is shown, the message replaces it.
OnPopupMap ==
    LET m == Head(channel) IN
    /\ Receive("popup_map")
    /\ popups' = [popups EXCEPT ![m.handle] =
                    [parent |-> m.parent, size |-> m.size, place |-> m.place]]
    /\ UNCHANGED <<surfaces, lists, subsurfaces>>

OnPopupUnmap ==
    /\ Receive("popup_unmap")
    /\ popups' = [popups EXCEPT ![Head(channel).handle] = None]
    /\ UNCHANGED <<surfaces, lists, subsurfaces>>

-----------------------------------------------------------------------------
ToplevelNext ==
    \E t \in Toplevels :
        \/ NewToplevel(t) \/ UnmapToplevel(t) \/ DestroyToplevel(t)
        \/ \E g \in Sizes : MapToplevel(t, g) \/ CommitToplevel(t, g)
SubsurfaceNext ==
    \E s \in Subsurfaces :
        \/ \E t \in Toplevels : NewSubsurface(s, t)
        \/ \E b \in Sizes : MapSubsurface(s, b) \/ CommitSubsurface(s, b)
        \/ UnmapSubsurface(s) \/ DestroySubsurface(s) \/ Crash(s)
PopupNext ==
    \E p \in Popups :
        \/ \E parent \in Toplevels \cup Popups, place \in Places :
                NewPopup(p, parent, place)
        \/ \E place \in Places : ConstrainPopup(p, place)
        \/ \E place \in Places, size \in Sizes : RepositionPopup(p, place, size)
        \/ \E size \in Sizes : MapPopup(p, size)
        \/ \E size \in Sizes, acknowledge \in BOOLEAN : CommitPopup(p, size, acknowledge)
        \/ UnmapPopup(p) \/ DestroyPopup(p)
DartNext ==
    \/ OnSurfaceMap \/ OnSurfaceUnmap \/ OnSurfaceGeometry
    \/ OnSubsurfaceMap \/ OnSubsurfaceUnmap \/ OnSubsurfacePosition
    \/ OnPopupMap \/ OnPopupUnmap

Next == ToplevelNext \/ SubsurfaceNext \/ PopupNext \/ DartNext

Spec == Init /\ [][Next]_vars

-----------------------------------------------------------------------------
(* Properties.                                                             *)

States == {"none", "unmapped", "mapped", "destroyed", "untracked"}
Maybe(S) == S \cup {None}

ToplevelRecord == [state : States, geo : Maybe(Sizes)]
SubsurfaceRecord == [state : States, parent : Maybe(Toplevels), box : Maybe(Sizes),
                     buffer : BOOLEAN]
PopupRecord == [state : States, parent : Maybe(Toplevels), size : Maybe(Sizes),
                scheduled : Maybe(Places), current : Maybe(Places),
                constrained : BOOLEAN]
Messages ==
    [type : {"surface_map", "surface_geometry"}, handle : Toplevels, geo : Sizes]
    \cup [type : {"surface_unmap"}, handle : Toplevels]
    \cup [type : {"subsurface_map"}, handle : Subsurfaces, parent : Toplevels, box : Sizes]
    \cup [type : {"subsurface_position"}, handle : Subsurfaces, box : Sizes]
    \cup [type : {"subsurface_unmap"}, handle : Subsurfaces]
    \cup [type : {"popup_map"}, handle : Popups, parent : Toplevels, size : Sizes,
          place : Places]
    \cup [type : {"popup_unmap"}, handle : Popups]

\* Every variable has its type; the handles in messages are of the message's
\* kind, and what a message says of a surface is never unset.
TypeOK ==
    /\ toplevel \in [Toplevels -> ToplevelRecord]
    /\ subsurface \in [Subsurfaces -> SubsurfaceRecord]
    /\ popup \in [Popups -> PopupRecord]
    /\ textures \subseteq Toplevels \cup Subsurfaces \cup Popups
    /\ channel \in Seq(Messages)
    /\ surfaces \in [Toplevels -> Maybe(Sizes)]
    /\ lists \in [Toplevels -> SUBSET Subsurfaces]
    /\ subsurfaces \in [Subsurfaces -> Maybe([parent : Toplevels, box : Sizes])]
    /\ popups \in [Popups -> Maybe([parent : Toplevels, size : Sizes, place : Places])]
    /\ running \in BOOLEAN
    /\ requests \in Nat

\* surfaces[handle]! in Dart's surface_unmap handler finds a surface, however
\* the surface was mapped, unmapped and destroyed.
UnmapFindsSurface ==
    channel # <<>> /\ Head(channel).type = "surface_unmap"
        => surfaces[Head(channel).handle] # None

\* Once every message is handled, Dart shows exactly what is mapped: the
\* toplevels with their geometry, and the subsurfaces and popups with their
\* parents and sizes.
MirrorConverges ==
    channel = <<>> =>
        /\ \A t \in Toplevels : surfaces[t] =
              IF toplevel[t].state = "mapped" THEN toplevel[t].geo ELSE None
        /\ \A s \in Subsurfaces : subsurfaces[s] =
              IF subsurface[s].state = "mapped"
              THEN [parent |-> subsurface[s].parent, box |-> subsurface[s].box]
              ELSE None
        /\ \A p \in Popups :
              /\ popup[p].state = "mapped" <=> popups[p] # None
              /\ popups[p] # None => /\ popups[p].parent = popup[p].parent
                                     /\ popups[p].size = popup[p].size

\* A texture is registered for as long as its surface is mapped, in every
\* order of unmapping and destroying parents and children, and none outlives
\* its surface's record.
TextureLifetime ==
    /\ \A t \in Toplevels :
          /\ toplevel[t].state = "mapped" => t \in textures
          /\ t \in textures => Live(toplevel[t])
    /\ \A s \in Subsurfaces :
          /\ subsurface[s].state = "mapped" => s \in textures
          /\ s \in textures => Live(subsurface[s])
    /\ \A p \in Popups : popup[p].state = "mapped" <=> p \in textures

\* A surface's list in Dart never holds a subsurface that Dart does not know,
\* or one of another surface: the list outlives remaps and its children.
ListsHoldOwnChildren ==
    \A t \in Toplevels : \A s \in lists[t] :
        /\ surfaces[t] # None
        /\ subsurfaces[s] # None /\ subsurfaces[s].parent = t

\* Dart shows a popup where it is, once every message is handled: "Re-send
\* with new position" (src/src/surface.c:1673).  What is sent again is the
\* current geometry, still the old one; when the client has acknowledged the
\* new one, popup_handle_commit looks only at the size.
PopupPositionFollows ==
    \A p \in Popups :
        channel = <<>> /\ popup[p].state = "mapped" =>
            popups[p].place = popup[p].current

=============================================================================
