# flutter_wlroots in TLA+

flutter_wlroots is a Wayland compositor library: wlroots speaks to the
hardware and the Wayland clients, and a Flutter engine in the same process
draws the desktop.  The shell is a Dart program (`src/compositor_dart`) that
learns of windows, popups and monitors by messages, shows each client surface
as an external texture, and sends pointer input and window management back.
This directory models the parts where threads, callbacks and messages in
flight make the program hard to test, checks the models with TLC and proves
what matters most with TLAPS.

Paths below are relative to the directory that holds `src/` and `tla/`.

## The system

Threads: the **platform thread** runs the Wayland event loop and with it
every wlroots listener, every handler of a Dart message, the platform tasks of
the engine and the composition of outputs; the engine's **raster thread** asks
for backing stores, presents frames and imports client textures; its **UI
thread** runs Dart and asks for vsync.  Dart and C exchange messages on the
`wlroots` channel, a queue in each direction.

| component | state | operations | what makes it hard, and what makes it correct |
|---|---|---|---|
| Platform task runner, `src/src/task.c` | queue of tasks, eventfd, timer | post, process, schedule | posts from any thread and from inside a running task, rounding of the clock; every task runs once, not early, and never without a wakeup |
| Layer textures and scene, `src/src/renderer.c` | two pages of textures, current scene, fence | create and collect backing store, present, render | raster thread draws while the platform thread samples; what is on screen is never drawn into |
| Outputs and frame pacing, `src/src/output.c` | outputs, vsync output, baton, rate limit, Dart's copy | hotplug, mode, frame, vsync | baton left by one thread and taken by another; hotplug during start-up; no baton lost, no dangling output |
| Pointer input, `src/src/input.c` | grab, button table, caches of times and scrolls, direct mode | motion, button, axis, pointer event message, grabs | a round trip through Flutter between hardware and client; clients are told the truth about buttons, a grab touches one window |
| Surfaces and their mirror, `src/src/surface.c`, `compositor_dart.dart` | views, subsurfaces, popups, textures, Dart's copies | map, unmap, commit, destroy, reposition and their messages | parents and children in any order, remaps, objects freed under others; the mirror converges |
| Surface texture cache, `renderer.c`, `flutter_wlroots.c` | per-surface cache of EGL images | external texture callback, import, destroy | raster thread reads maps the platform thread changes; no image leaks or is used after it is destroyed, and the texture shows the last commit |
| Focus and keyboard, `input.c`, `surface.c` | list of views, the seat's focus, activated flags, `current_focused_view`, keys held | focus, clear, Alt+Tab, Logo, key, popup grabs | three records of one focus while windows go, and keys held over it; no key stays pressed for a client, Alt+Tab passes nobody over twice |
| Codecs, `platform_channel.c`, `standard_message_codec.c`, `messages.c` | a buffer that grows | push, read, size, write, decode | alignment, length prefixes, two encoders and two decoders of one format; what is read is what was meant |
| Message dispatch, `flutter_wlroots.c`, `cursor.c` | none of its own | handle message, reply | arguments by place and type on both sides; each call is answered and understood |
| Text input, `src/src/text_input.c` | Flutter's text client | set client, editing state | keys never reach it |
| Start-up, `flutter_wlroots.c` | instance, engine | create, run | order of initialisation |
| Handle map, `handle_map.cc` | counter, map | add, get, remove | a handle is not reused |
| Plugin registry, software cursor, shaders, keyboard tables, widgets, vendored code | | | no behaviour worth a model |

They interact as follows.  A surface that maps registers a texture and sends
`surface_map`; Dart shows it; the engine calls back for the texture on the
raster thread.  A pointer event goes to Flutter, whose hit test finds a
widget, whose listener sends the event back with the surface's handle.  An
output's frame event composites the scene that the raster thread presented
last and returns the vsync baton, which lets Dart draw the next.  Everything
the engine schedules on the platform thread, message replies included, goes
through the task runner.

`PROJECT.json` lists every component and every hazard with its line.

## The modules

An action models a whole handler; where several threads meet, it is split at
the points where another thread can come between.  Operators whose comment
begins with "Mutant" or "Mistake" are wrong variants of the definition below
them; nothing uses them, they show that the properties tell them apart.

**TaskRunner** is what a task runner promises: tasks are posted once, run
once, no earlier than their target.  **PlatformTasks** is `task.c`: a post is
one step because it holds the mutex throughout; a pass of the platform thread
is the steps `SampleTime` (the clock is read before the list is taken),
`TakeQueue`, then for each task `RunTask`/`RunTaskReturns` (posts from inside
the task may come between) or `Requeue`, then `FinishPass`, which splices the
rest back and schedules.  `notify` is the eventfd, `timer` the armed expiry or
`Off`.  `Never` stands for UINT64_MAX and `Uint16Max` for UINT16_MAX, which
`schedule` compares with.

**PagePool** is the double-buffered pool of `renderer.c`.  A list is the set
of its members; a texture stands for its record and its GL name.  The fence is
the number of the frame it was inserted behind, and `waited` the last frame
whose fence the compositor's context has waited on.

**Outputs** is hotplug, the choice of the vsync output, the baton and the copy of the list in Dart.  Handlers of the frame event are split
around the return of the baton, because the engine may leave the next one
meanwhile.  Messages sent before Dart listens are dropped but for the last, as
Flutter's channel buffers do.

**PointerInput** is the pointer's path.  The two queues of the round trip are
one, `underWay`: its head is hit-tested and handled in one step.  This loses
nothing: which surface Flutter's hit test finds is any one on screen, and a
press captures its target for the moves and the release that follow.  Geometry
is one-dimensional (a position and a width, resize edges left and right;
`MinWidth` is the code's 100), one scroll axis stands for two, each view is
its own client, one button is pressed at a time, and `TableSize` stands for
the 32 entries of the button table.  wlroots' seat (focus, popup grab) is
external and modelled as `input.c` uses it.  History variables
(`clientButtons`, `scrolled`, `grabFor`, `bypassed`) record what
clients were told.

**Surfaces** is the life of toplevels, subsurfaces and popups, the external
textures they register, and Dart's four maps behind a queue of messages.  An
action of the C side is one client request with every handler of `surface.c`
that wlroots calls for it: unmapping a toplevel unmaps its subsurfaces and
destroys its popups; mapping it maps the subsurfaces that have a buffer,
before or after the toplevel's own listener.  A geometry is one value of
`Sizes`; the box of a subsurface and the content of a popup are read when a
handler reads them, so they may have changed without a commit of their own.
A subsurface that outlives its toplevel reads freed memory: such a step either
finds it intact or stops the process (`Crash`).  Dart listens before the first
client connects, registration of a texture succeeds (the engine refuses only
the id 0, which is never used), and Dart's list of a surface's subsurfaces is
a set.

**TextureCache** is the texture of one client surface: the DMA-BUF import
with its slots of EGL images, the copy of what cannot be imported, and the
engine's callback on the raster thread, split wherever it takes or leaves
`texture_mutex` or reads the surface again (`BeginCallback`, `ReadBuffer`,
the import under the mutex, `DetectShm`, `UseWlrootsTexture`, `CopyTexture`).
Between any two steps the client commits, frees a buffer or makes one at an
address that was freed, and the platform thread destroys the surface
(`DestroyCache`, then `FreeRecord`).  A buffer is an address, which is the
cache's key, and the memory behind it, which is what a texture shows; the
handle of a destroyed EGL image may be given out again.  A callback that is
under way when the record is freed may stop the process
(`CrashInCallback`); if it goes on, it reads the record as it was.  External: the
driver, which refuses an import at will (`ImportFails`), accepts every other
GL and EGL call that is legal, and refuses to bind a texture to two targets.

**KeyboardSeat** is what a client may rely on: it is told of keys only while it
has the keyboard, is told on entering which keys are down and on leaving that
none are, and takes a key for pressed only while somebody holds it.
**Windows** is the focus as the compositor keeps it: `views_list` in its
order, the focus of wlroots' seat, the activated flags the clients were sent,
and `current_focused_view`.  An action is a handler with its call of
`fwr_focus_view`, which enters the seat's current keyboard with the keys that
keyboard has down; each client keeps what it was told (`believed`).  A popup's
grab keeps the seat's focus where it is, while the flags and the pointer to
the view move.  Alt+Tab walks the list from the focused view
(`get_next_mapped_view`), Logo bindings and Alt+Tab swallow the press but not
the release.  The binding asks for the keysym Tab.  With Shift the usual
layouts give ISO_Left_Tab instead, so that the press goes to the client and the
walk backwards is never taken; `ShiftTabs` are the keyboards whose keymap gives
Tab on that level too.  Two keyboards hold keys independently.  Windows
implements KeyboardSeat, with the clients' beliefs and the keys held mapped to
its own.

**WindowTurns** adds to Windows a history of Alt+Tab from press to press:
`passed[w]` are the windows the presses have left while `w`, mapped and not the
current one, waited, and `backwards` the direction of the last press.  Its
`Turn` is `SwitchWindow`, its `NoTurn` any other step, so it has the behaviours
of Windows.  `AltTabReachesAll` says that the current window is never among the
passed: nobody has a second turn while `w` waits for the first, so `w` waits for
finitely many presses.  A wait begins anew, and nothing is promised across it,
when something else moves the focus; when the direction changes; when the
current window is destroyed, after which `keyboard_handle_key` tries the newest
window only, and none if that is unmapped; and with a press that finds the
window a popup's grab has kept the seat's focus on (`PressIgnored`).  There
`fwr_focus_view` returns before it sets `current_focused_view`, and since
nothing changed every later press in that direction finds the same window and
does nothing, even when the grab has ended, until the focus is moved in another
way or that window goes: with the focus asked for B under a grab of A, and A
next in the list, a third window is out of Alt+Tab's reach.

**MessageBuilder** is the builder of messages from C to Dart: a buffer, its
capacity and the segments that are open, one action for each push.  A message
is the sequence of its values, a collection followed by its members.  Stores
go where the code stores them: a length of 254 and more goes through
`buffer[0]`, onto the start of the message, and the bytes behind the escape
keep what fresh memory held.  **StandardCodec** adds the pure algorithms:
`message_read`, and the sizes, the writing and the decoding of
`platform_channel.c`'s std values; its reference is `Image`, the bytes Dart
writes and the only ones it reads as that value.  The recursion over members
is a recursive function, whose argument counts the parts that are done; a
result carries how many are pending.  **Channel** composes them:
the platform thread builds one message, or Dart calls a method, and
`engine_cb_platform_message` reads its name and arguments, finds the handler
by the name, decodes and replies.  Names are two bytes each in the instance,
since only their equality matters.  What a handler does with its arguments is
in the other modules: here they end in `taken`, each cut to the bytes its
handler uses.  External: Dart's encoder, Flutter's cursor messages, the
answers of plugins, and that the engine hands over buffers aligned to eight.

`MCPagePool`, `MCPointerInput`, `MCSurfaces`, `MCTextureCache` and `MCWindows`
add the symmetry sets; `MCChannel` gives the values, names and arguments.

## The runs

| run | what it shows |
|---|---|
| `platform_tasks` | Three tasks, five clock ticks, two ticks to the millisecond: types, no task lost or duplicated, no sleep without a wakeup, a timer that is never early and at most a millisecond and a tick late, refinement of TaskRunner, and every posted task runs. |
| `page_pool` | Six textures, two sizes, two stores a frame, four frames: the scene is never disturbed, lists are disjoint, nothing outlives two frames, the fence is respected. |
| `outputs` | Two outputs of two rates, two reconfigurations, two batons: `vsync_output` is a connected output and NULL only when none is left, a baton is in one place, Dart's list converges, every request is answered. |
| `pointer_input` | Two windows and a popup, two events, a grab, a switch of direct mode: no button entry outlives its surface, and a grab moves one window only. |
| `pointer_clicks` | One window, two buttons, four events: what the client holds converges to what is held, and a scroll is sent at most once. |
| `surfaces` | Two toplevels, a subsurface and two popups, eight requests: `surfaces[handle]!` never fails, the mirror converges, a texture lives as long as its surface is mapped and not longer than its record, lists hold only their own children. |
| `texture_cache` | Two addresses, three buffers, two sizes, shared memory or DMA-BUF, two slots, three EGL handles, three commits: an EGL image exists exactly while one slot holds it, none survives the surface, `current_egl_image` names a live image, and the slots are of the texture's size. |
| `windows` | Three windows come and go, with popup grabs, two keyboards, keys from hardware and from Dart and the bindings, Alt+Tab in both directions, while windows come and go between its presses: no window has a second turn while another waits for its first, the records of the focus come apart only under a popup's grab or by `surface_clear_focus`, and every step is one of KeyboardSeat, so no key stays pressed for a client. |
| `channel` | Messages of up to seven values at every alignment, and every call Dart makes with three choices of arguments: what is pushed is what Dart reads when no string or collection has 254 bytes or members, otherwise the message begins with the last such length, no push leaves its buffer, each argument arrives under its name and no call is turned away, and replies fill their buffers and are understood. |

Four frames are two full turns of the two pages, so that each list is reused
twice; five ticks hold a task in the past, one due in the current pass and one
that needs the timer; the second event of `pointer_input` is the release of
the first, or the event that overtakes a destruction; four events of
`pointer_clicks` are two clicks; eight requests of `surfaces` hold create,
map, unmap and remap of a toplevel with a child, and the destruction of a
parent before its child; two slots are reused as four are, a third handle
leaves one free while both are taken, and three commits are a buffer, another
one (of another size, or evicting it) and the first one's address again.
Three windows are one to leave, one to have a turn and one that waits; the
keyboards differ in the keymap.  One keyboard alone holds up to Alt, Shift and
Tab or Logo and another key (`Chords`), and two of the keyboards and Dart hold a
key each of Alt and Tab (`Shared`, `MaxShared`), so that the focus moves between
presses of both.  Seven
values are a method name and a map with two keys, one value a list, and put a
double at every offset; the strings have 0, 253, 254 and 300 bytes, on both
sides of the first escape.  The second, at 65536, is left to the proofs.  That
a message with a long length is not what was pushed is stated by where the
length is (`LongLengthsAtStart`), since a length whose two bytes happen to equal
the message's first ones is read back by chance.  The
sets are interchangeable values, and symmetry is
used only where no liveness property is checked.  `CHECK_DEADLOCK` is off
because a behaviour ends when its bound is reached.

Three runs show where the code does something else than its own text says:

| run | source text | what happens |
|---|---|---|
| `pointer_late_grab` | "Track button state per surface (more reliable ...)", `src/src/input.c:807` | a grab requested after the release swallows the release's message; the table keeps the button and the next press is not sent |
| `surfaces_reposition` | "Re-send with new position", `src/src/surface.c:1673` | what is re-sent is the current geometry, which becomes the new one only when the client acknowledges it; then only a change of size is sent |
| `texture_cache_race` | "same sequence = same content", `src/src/renderer.c:1502` | the buffer is read before the mutex, the sequence number after it: a commit between them leaves the old content under the new number, and it is reused until the next commit |

## Fairness

`PlatformTasks` assumes weak fairness of each step of the platform thread, of
the two wakeups and of the clock: the event loop polls both file descriptors
and returns to them after each pass, and tasks return.  Posts are not fair.
`Outputs` assumes that an output with a frame scheduled gets its frame event,
strongly for each output, because an output that is handled is not enabled
meanwhile and the backend's page flips are periodic; that a handler ends; and
that it returns a baton it has taken.  Neither hotplug nor the engine is fair.
The other modules are checked for safety only and assume none.

## What is proved

The theorems hold for every value of the constants that satisfies the named
assumptions of the module.

**PlatformTasksProofs.**  The inductive invariant adds to the checked
properties `PassInv`: what each state of the platform thread knows of the
three lists (taken, requeued, queue) and of the sampled time.  Without it, the
wakeup cannot be shown to survive a pass: during the pass it is not armed, and
it is `FinishPass` that must arm it for tasks it did not see.  Proved: types,
conservation, wakeups, precision of the timer, and that every step is a step
or a stutter of TaskRunner.

**PagePoolProofs.**  The invariant names the roles of the pages: the current
page's textures are the frame in flight, the other's are the scene, and only
the current page has unused ones; `FenceInv` says which frame the fence
covers.  Proved: types, scene, lists, bound and fence.

**PointerInputProofs.**  The invariant says that a handle once issued is not
fresh again and that a grab knows the view it began with; hence the button
table holds live surfaces only and a step moves or resizes no view but the
grab's.  A second invariant has the types and, for the wheel, that every turn a
client knows is a past one and not the one that is still in the cache
(`ScrollsTold`).  The third is about the buttons, on the path that direct input
does not bypass (`ButtonPath`).  `EventsFollow`: each event under way carries
the buttons of the one before, but for a press and its release, so the oldest
tells what Flutter has seen (`Seen`).  `TargetHolds`: only the surface that took
the last press has buttons in the table, no more than Flutter has seen, and its
client was told of them all unless their release is under way.  `GrabHolds`: a
grab keeps the left button down until the release that ends it is sent; without
it a release could be swallowed by a grab that goes on.  Proved: types,
`NoLeakedButtons`, `GrabMovesOnlyItsView`, `ScrollAtMostOnce` and
`ButtonsConverge`.

**OutputsProofs.**  That the fastest output is one that is connected needs the
existence of a maximum, which is derived from the well-foundedness of the
naturals (a rate is bounded by `MaxRefresh`, INT32_MAX in the runs).  For the
baton the invariant adds that between handlers the platform thread holds none;
then the exchange cannot overwrite one.  For the copy in Dart, what is said of
one output by a queue of messages is said by the last of them that names it
(`Hears`); the invariant is that this is the truth, before Dart listens as well:
then the channel keeps one message at most and the answer to
`compositor_ready` is still to come.  Proved: types, `VsyncOutputConnected`,
`BatonConserved` and `MirrorConverges`.

**TextureCacheProofs.**  The checked properties are about the moments between
callbacks; the invariant must also say what the steps inside one leave behind.
A failed import may have destroyed the current image, but then the same
callback drops all of them before it ends (`CurrentLives`); a copy may change
the texture's size, but only when nothing is current, and then the slots are
empty (`SlotsAgree`, `InHand`).  Proved: types, ownership of images, the
current image and the one size, for any number of slots and with the surface
destroyed at any step.

**WindowsProofs.**  The invariant says what a client may believe: nothing
unless it has the seat's focus, and only keys some keyboard has down; and that
the list holds each live view once.  The refinement needs it because a step
that moves the focus must be shown to take the old client's keys away.  Proved:
types, no stuck key, that only grabs and clears split the records, and that
every step is a step or a stutter of KeyboardSeat, for any number of windows,
keyboards and keys.  For Alt+Tab the list is a ring, and the invariant of
WindowTurns (`TurnsInv`) says of a window that has been passed that, walking on
from the current one, it comes before every window that was left while it
waited and is still alive (`Sooner`).  A press goes to the first mapped window
of the walk, so not past the one that waits, and what it leaves is last in the
walk from there; a view put at the head or taken out leaves the order of the
others as it was, and a handle is not issued twice.  The current window is not
behind itself, hence `AltTabReachesAll`.

**ChannelProofs.**  The builder's invariant is the types and the length within
the capacity, without which the subtraction in `reserve` would wrap.  Each push
is shown to append no more than it reserved: the padding before a double is at
most seven bytes, `WRITE_SIZE_LEN` appends what `CALC_SIZE_LEN` announces, and
overwriting the start of a message does not change its length.  That a value
is written as its image is an induction over its parts, once for each encoder:
the set of the numbers of parts after which they differ has no least element.
The sizes that `platform_channel.c` computes beforehand agree with the image in
the same way, alignment being the same whether taken of a size or of a length.
`SentInv` says what a message under construction is: the image of what was
pushed as long as no length was long; and behind the last long one, its low
bytes are the first two of the message (`Starts`), because later pushes append
and short lengths store nothing there.  `Replied` says of each way to answer
that its bytes are the image and that they fill their buffer.

What is read of a call is a matter of the decoders, not of states.  Each reads
one part off its image: the tag, the length in one, three or five bytes, the
padding, and the data, wherever the part stands and whatever is behind it.  It
then reads the parts of a value by induction over those that are done, how
many are still pending being known from a list's or a map's length
(`ReadsImage`, `DecodesImage`).  This is stated for values whose members are
not collections themselves, which is all that Dart sends.  The images of name
and arguments begin the bytes of a call, so the name is read off them and the
arguments behind it (`ReadsCall`).  What the handlers look for is then compared
with what Dart declares, method by method and field by field (`Fits`): the
place, the type, and that of an integer that may be negative no more than four
bytes are used, since only those are right (`Int32Used`).  The invariant
`CallInv` joins the two: a call is one that Dart makes, its bytes are the
request, nothing is taken before it is answered, and what is taken is what
Dart means.  `ArgumentsArrive` alone would not be inductive, as it says nothing
of a call that has yet to be answered.

`ChannelAssumption` says that the source's names are spelled differently in
less than 254 bytes, that Dart gives a double, a bool or an integer where its
declarations say so, that the name of a cursor has a length of 32 bits, and
that plugins answer with values.  Proved: types, `CapacityOK`,
`ShortMessagesRead`, `LongLengthsAtStart`, `ReplyUnderstood` and
`ArgumentsArrive`, for values, strings and arrays of any length.

**SurfacesProofs.**  The invariant has two sides and what holds them together.
The clients' side: the fields a handler reads are filled in, and a texture is
registered as long as its surface is mapped.  Dart's side: lists hold own
children.  Between them lies the queue.  `OneParent` says that one assignment
of parents explains the records, the messages under way and Dart's copies, so
that a list can be found through the child's copy even after the child or the
parent is destroyed.  `UnmapsMatched` says that before each unmap message in
the queue Dart knows the toplevel, by an earlier message or already, and that
a mapped toplevel will be known when the queue is empty; it is stated about
positions of the queue, which needs no recursion.  The messages of a group of
children are a sequence made from a set, which exists because the set is
finite (`FiniteClients`).  `Mirrored` is about what Dart will know of one
surface once the queue is empty: the last message in it that is about the
surface decides, or Dart's copy if there is none, and either agrees with what
was last read of the surface.  A message appended changes this for its own
surface only, and one that Dart handles for none.  Proved: types,
`TextureLifetime`, `ListsHoldOwnChildren`, `UnmapFindsSurface` and
`MirrorConverges`, for any number of surfaces, requests and messages in the
queue.

Model-checked only: liveness (`EveryTaskRuns`, `BatonReturned`), which is out
of the prover's reach, and the three runs that expect a violation.  Every
invariant, action property and refinement the passing runs check is proved as
well.

## What is not modelled

- Positions and scales of outputs, window metrics, software cursors.  The
  vsync rate limit, which changes no state: it lengthens the frame target time
  handed to the engine, and the baton still goes back at every refresh.
- Touch, chords of buttons, the enter and exit messages Dart never sends, and
  the pointer half of `surface_clear_focus` (`wlr_seat_pointer_clear_focus`),
  which `compositor_dart` offers to applications and does not use itself; its
  keyboard half is in Windows.
- Titles, decorations, maximizing, the resize protocol (`resize_ready` is
  awaited in Dart and sent by nobody), a second toplevel role on one surface.
- A subsurface's new position is applied by wlroots with its parent's commit;
  `surface.c` looks at it when the subsurface itself commits.  The mirror is
  compared with what was last read.
- In the texture cache: the frame buffer object and the parameters of
  textures, GL running out of names, an EGL context that cannot be bound when
  a surface is destroyed (its images then leak), and which surface stands for
  a popup's content.  Looking a record up in the `std::map` of the handle map
  while another thread changes it is one step.
- Of windows: where tiling puts them, the scene's stacking, the maximized flag
  (a request to maximize sends the opposite of the flag), and the text of keys.
- Of the codecs: JSON, the pushes of typed lists, which nothing calls,
  equality of keys other than strings, and calls from C to Dart with a reply
  (`platch_send`), which nothing in `src/src` makes with std values.  Running out
  of memory.
- Text input: `fwr_text_input_handle_key` has no caller, so the C side stores
  what Flutter sets and sends nothing.
- The order of start-up, but for the outputs announced while Dart starts.
- Data races inside libwayland (a timer armed from another thread) and the
  order of two GL contexts on the GPU, below the level of the models.
- Cursor names, shaders, key tables, widgets, the plugin registry and vendored
  code: no state the rest depends on.

## Plan

1. *Resize protocol and decorations* added to Surfaces, and the places of
   windows (tiling, moves) to Windows.
2. *Start-up*: what is sent before Dart listens, for all three mirrors.
3. *Surfaces*: an abstract mirror that follows its source with a lag, to be
   implemented by Outputs and by Surfaces.
