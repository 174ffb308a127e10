# A verification of Green Island

Green Island is a library for writing Wayland compositors and shells on top of Qt Quick: the
protocol core (`src/src/waylandcompositor`), the server helpers a shell uses (`src/src/server`),
platform integration (`src/src/platform`), a client library (`src/src/client`), plugins, QML
types and a launcher. This directory holds TLA+ models of its core, checked with TLC on small
instances and, for the part that matters most, proved with TLAPS for instances of any size.
Paths below are relative to `src/src/` unless they start with `src/`; `CA/` is
`waylandcompositor/compositor_api/`, `EX/` is `waylandcompositor/extensions/`.

Contents: [inventory](#inventory) · [modules](#modules) · [runs](#runs) ·
[disagreements](#disagreements) · [fairness](#fairness) · [proofs](#proofs) ·
[only model-checked](#only-model-checked) · [not modelled](#not-modelled) · [plan](#plan)

## Inventory

A compositor process runs one GUI thread, which dispatches Wayland requests, Qt events, D-Bus
replies and timers, and one render thread per window, which meets the GUI thread only in the
scene graph's synchronisation (GUI thread blocked). So most concurrency is between *handlers*:
what a client has sent and not yet heard of, queued calls, signals whose slots call back, and
objects (surfaces, resources, views) that go away between two handlers.

| Component | State it keeps | Operations | What makes it hard | What makes it correct |
|---|---|---|---|---|
| Surfaces, buffer pool, references, views (`CA/qwaylandsurface.cpp`, `qwaylandview.cpp`, `qwaylandbufferref.cpp`, `qwaylandquickitem.cpp`, `waylandcompositor/wayland_wrapper/qwlsurfacebuffer.cpp`) | per surface: pending and current buffer, pool of `SurfaceBuffer`s; per view: next and current buffer, locks; per item: texture provider | attach, commit, destroy; `setSurface`, `setThrottlingView`, `advance`, `updatePaintNode`, destruction of each object | counts that reach zero inside a handler; pool entries that are reused; views that outlive surfaces | who shows a buffer keeps it; who stops showing it gives it back, once |
| Seat: keyboard (`CA/qwaylandkeyboard.cpp`, `qwaylandseat.cpp`) | focus, its `wl_keyboard`, destroy listener, keys, modifiers, keymap in use and pending | bind, release, focus, key events in three steps, keymap and rate changes | the scene's handlers run between recording a key and finishing it; surface and resource go away in any order | who has the focus, and nobody else, was told to enter and knows the modifiers |
| Seat: pointer, touch (`CA/qwaylandpointer.cpp`, `qwaylandtouch.cpp`, `qwaylandquickitem.cpp`) | mouse focus (a view), `focusResource`, `hasSentEnter`, button count, listener | hover, press, release, leave, bind, release, destruction | focus is a view, events go to a surface; both change under it | enter before events, leave before the next enter, balanced counts |
| xdg-shell windows (`EX/qwaylandxdgshell.cpp`, `qwaylandxdgshellintegration.cpp`) | pending configure events, last acknowledged one, grabber state | `sendMaximized` etc., focus change, `ack_configure`, move and resize grabs | asynchronous acknowledgements; the next event is built from an earlier one | what was asked for last is what the client is told last |
| Popups (`EX/qwaylandxdgshell.cpp`, the two shell integrations, `EX/qwaylandquickshellsurfaceitem.cpp`) | the popups of each client, one event filter with its timer | create, destroy, close all; press, release | two shells share the filter; popups go one by one | the mouse is grabbed while, and only while, a popup is open |
| Outputs (`CA/qwaylandoutput.cpp`, `qwaylandquickoutput.cpp`) | views per surface, entered surfaces, frame callbacks | `addView`, `removeView`, `frameStarted`, `sendFrameCallbacks`, bind | a frame starts on the render thread, the callbacks follow from a queued call | callbacks in order, never forgotten; enter and leave in pairs |
| Surface roles, double-buffered state, subsurfaces, grabber | pending and current regions, role, parent | commit, roles, grabs | which state waits for commit | nothing is visible before commit |
| Data devices (`waylandcompositor/wayland_wrapper/qwldata*.cpp`) | selection of device and manager, retained data; drag source, origin and focus | set, retain, override; start, motion, drop | source, offer and target in three clients; data comes in pieces | the focused client knows the selection, a drag ends in a drop or a cancel |
| Text input, input method (`EX/qwaylandtextinput.cpp`, `CA/qwaylandinputmethodcontrol.cpp`) | text focus, enabled surfaces, pending and current state | enable, focus, `update_state`, commit | a change comes in pieces, which cross moves of the focus and commits | the input method knows the text of the surface that has the focus |
| wl_shell, shell items, Qt extensions | states, popups; geometry of items | requests, moves | shared activation with xdg windows | one active window |
| Compositor core, containers | clients, outputs, surfaces, extensions | create, destroy | order of destruction | – |
| Application manager, client windows (`server/extensions/applicationmanager.cpp`, `server/shell/clientwindow.cpp`) | windows, parents, application ids, active windows | create, name, parent, activate, close | two shells activate windows in two ways; closing windows hand on the focus | an application is known while it has a window; the focused window is the active one |
| Screencaster (`server/extensions/screencaster.cpp`, `client/screencaster.cpp`), screenshooter | buffer being recorded, requests, posted events; the client's free buffers | record, frame, cancel | an event of an earlier buffer is on its way; two threads of the client record | no request is forgotten; the client never stops |
| Output configuration, screens (`server/output/*.cpp`, `server/screen/*.cpp`, `CA/qwaylandoutput.cpp`, `client/output.cpp`) | properties and modes of an output, change sets of each configuration, what each client library knows | request, apply; add a mode, change it, resize; bind | a change set is a copy of an earlier time; changes reach clients in pieces | an output is as it was asked to be, and clients know it |
| Server core: home application, plugins, settings | – | start, fail-safe | crash of the shell | – |
| Platform: logind session, vt (`platform/logind/*.cpp`) | connection, session control, Active, VTNr; vt active | D-Bus calls, replies and signals; `setup`, `activate` | the service restarts; replies cross signals | the cache agrees with the service when all is answered |
| Platform: libinput (`platform/libinput/*.cpp`) | devices and their counts, touch points, repeat timer, open handles | device, key and touch events; suspend, resume | hot-plug and sessions cross; fingers end frames | Qt has the devices and fingers there are |
| KMS plugin (`src/plugins/egldeviceintegration/kms`) | buffers of each screen, flip under way, mutex around the events of the device | render, flip, resize, suspend, resume | one thread per screen, any of which reads the events of all; the main thread suspends | nobody renders into what is shown, and each thread goes on painting |
| Platform: udev, EGL full screen | – | – | – | – |
| xwayland (`src/declarative/xwayland`, `src/plugins/extensions`) | X11 windows, unpaired windows; lock file and sockets of the display | window messages; search for a display, crash, shutdown | X window and surface arrive in any order; compositors race for displays and crash | each window gets its surface; who listens on a display has both of its sockets |
| Client library (`client/*.cpp`) | globals, buffers of a pool | roundtrips, bind | globals that go away | a buffer in use is not handed out |
| Launcher (`src/launcher/*.cpp`) | two processes, retries, timers, socket watchers | start, stop, crash, respawn | crashes of weston and of the compositor in it, timers between | one child each, retries run out, the compositor follows weston |

They meet as follows. A client's requests reach surfaces, shells and the seat. A commit emits
signals that items, views and the shell integration follow. Items give views to outputs and
input to the seat. Outputs drive views (`advance`) and frame callbacks. The seat reports focus
changes to shells. The platform gates all of it through the vt.

The hazards, each at the line where it bites, are listed in `PROJECT.json` with the properties
that watch them.

## Modules

**SurfaceBuffers** – surfaces, the pool, references, views and the texture providers. A
`SurfaceBuffer` is a pair of its surface and its place in `bufferPool`. `m_refCount` is no
variable: the holders are the state (`bufferRef`, `next`, `current`, `provider`), and what a step
leaves without holder is disowned in the same step (`DisownUnused`: `deref`, `disown`,
`destructBufferState`, `destroyIfUnused`). Actions: `CreateSurface`, `CreateBuffer`,
`DestroyBuffer`, `AttachBuffer`/`AttachNull`, `CommitBuffer` and its other cases,
`DestroySurface`, `SetSurface`, `SetThrottlingView`, `DestroyView`, `Advance` (with
`discardFrontBuffers`), the two branches of `updatePaintNode` and the flags. Behaviour constants:
`ClientReuses` (may a client commit a `wl_buffer` it has not got back? The protocol only says
that the content is then undefined), `Lockable`, `Discarding` and `Hideable` (which views the shell
uses `bufferLocked`, `discardFrontBuffers` and `paintEnabled` with). Bound: `MaxPool`.

**SurfaceBufferCounts** – the same handlers statement by statement: every constructor,
assignment and destructor of a `QWaylandBufferRef` with its `ref()` and `deref()` in source
order, temporaries included, as functions of a heap. It is proved to implement SurfaceBuffers;
this is what justifies leaving the counters out there.

**KeyboardFocus** – a seat's keyboard. `told` is the history of what each `wl_keyboard` was
told. A key event is `KeyEvent` (recorded), then anything the scene's handlers do, then
`FinishKeyEvent` (pending keymap, modifiers). The seat records a key once, `xkb_state` counts its
presses: `downOn` says on how many keyboards a key really is down. `CreateXKBKeymap` has the outcomes
of loading a keymap: done, not compiled (`Loadable`), or no file for it (`keymap_fd` is -1 then, and
clients are told no keymap). `OneEach`: clients hold at most one `wl_keyboard`; `CursorSurfaces`: those
that may become cursors. Bound: `MaxHeld`.

**PointerFocus** – mouse focus, `wl_pointer` and `wl_touch`. A destroy listener that is put into a
second list while in a first corrupts that one; the model stops there (`Corrupt`). `OrderlyClients`
(one `wl_pointer` from before the first surface to the end) and `OrderlyShell` (a view stays on its
surface while that lives) describe toolkits and the shells of the repository; neither is enforced by
the code. A drag (`DragStarted`) sets `isDragging` of the items of its origin: their moves, and the
next release, then go to the drag and not to the pointer. `taken` is the history of presses whose
release went there. Touch points take the mouse grab and move the mouse focus. `TouchViews`: the
items with `touchEventsEnabled`; `TouchAlone`: no touch point while a button is down. Bound:
`MaxTaken`.

**XdgConfigure** – configure events and acknowledgements of xdg windows, both directions as
queues, focus, and the grabs of the shell integration. `wanted` is the history of what was asked
for. `Prompt`: the windows for which the compositor sends only while at most one event is
unacknowledged; `WrongAcks`: those whose client may acknowledge any serial; `OneGrab`: no
`start_move` or `start_resize` during a grab. Bound: `MaxSerial`. The serial is taken from a
surface cast to a compositor (`EX/qwaylandxdgshell.cpp:917`): undefined, so that the model uses
nothing of it but that the serials of a window grow.

**FrameCallbacks** – the relation of surfaces, views and outputs, kept in three places, and the
life of a frame callback: committed, marked in a frame (`FrameStart`), sent by a queued call
(`SendFrameCallbacks`). `StableViews`: items stay in their window with their surface;
`BindsFirst`: the client binds every `wl_output` at once; `Automatic`: the outputs with
`automaticFrameCallback`. The shell may send the callbacks of the others at any time. Bounds:
`MaxCallbacks`, `MaxQueued`.

**WaylandOutput** – an output's position, transform, scale and modes, the change sets of
configurations, and what the client library makes of the events. The output is that of a fake screen,
to whose properties `ScreenView.qml` binds it; the shell's answer to `changeRequested()` (give each
change set to `applyChangeset()`, then `setApplied()`) is external. `wanted` is the history of what
was asked for. `Alone`: one configuration is filled and applied at a time; `Careful`: the current
mode is not added again without its flag. The library keeps the current mode apart from the flags, as
an iterator (`clientMode`) that moves only when a mode is inserted, and is left behind when the vector
then moves. Bound: `MaxEvents`.

**LogindSession** – login1 (external), the D-Bus queues in both directions, `Logind`'s cache and
`VtHandler`. The service may stop, with calls outstanding, and come back. `OpensActive`: the
session is active until the vt is open; `SwitchesWork`: `SwitchTo` is never refused; `OneTake`:
one `TakeControl` under way at a time. A service that is up does not refuse `GetSession`. Control and the
vt are looked at until the service goes away for the first time. Bounds: `MaxStops`, `MaxSwitches`, `MaxCalls`.

**Selection** – copy and paste: the selection of the data device, that of the manager, and the
data the manager reads from the client type by type, so that it outlives it. `offered` is the
history of what each client was told. `Overrides`: the compositor sets a selection of its own.

**DragAndDrop** – a drag from the press to the drop, with the items of the scene, each of which
decides whether the mouse drags. `over` and `offer` are what each client was told. `OrderlyClients`
(drags have a source, and source and client outlive them) and `OrderlyShell` (a surface has one
view for life) hold of the toolkits and shells of the repository; the code enforces neither.

**PopupGrab** – the popups of both shells and the event filter they share, with the press that
waits for its release and the timer of 0 ms. `excused` are the popups that a user could not
expect to be guarded. `Mixes`: which shells are used together.

**LibInputTouch**, **LibInputHandler** – touch points from slot changes and frames to Qt; devices,
sessions, key repeat, file descriptors. libinput's own queue is external. `OncePerFrame`: a slot
changes once between two frames. `ResumeWorks`: `libinput_resume()` succeeds. Bounds: `MaxQueue`,
`MaxOpened`.

**ApplicationWindows** – the windows of both shells, their applications, parents and activation.
A window of xdg-shell becomes active when its client acknowledges, one of wl_shell at once; a
window that closes leaves the list and is deleted by a later event. A configure event of a mode
(`SendMode`: maximized, fullscreen, resizing) repeats the activation of `lastSentConfigure()`, which is the
*first* of the pending events. `StableIds`: clients name a
window once; `KeepUp`: the windows that are sent a mode only while at most one event is pending (with
two, the mode may take a newer activation back). Bound: `MaxPending`.

**XWaylandWindows** – Xwayland's two connections, and the pairing of X windows with surfaces.
`Patient` (a mapped window stays until it is shown), `Remaps`, `Reuses` describe X clients.
Bound: `MaxObjects`.

**CompositorProcess** – the launcher in nested mode: weston, the compositor inside it, and the
`CompositorProcess` that keeps each. A child's end and the launcher's hearing of it are two steps.
Children exit, fail or crash (`EndsOf`). A process that is started again before its socket was
seen leaves the earlier watcher connected (`leftover`); if that one fires when `m_watcher` is null, the
launcher is `broken`. `Prompt`: a compositor that was orphaned or has ended is gone, and heard of,
before a respawn timer (three seconds) fires. Bound: `MaxEnds`.

**Screencast**, **ScreencastClient** – the compositor's recording for a client that may do
anything, and the same composed with the client library, whose two threads both record. `Sound`:
the second thread's check and recording are not interrupted. Bound: `MaxPosted`.

**TextInput** – text focus and the text around the cursor. `textTold` is what each text input was told,
`heard` what its client believes; `editor` is the client's text, which it sends field by field and
then with `update_state`. `OrderlyClients`: one text input per client, from before its first
surface to the end, disabled before it is enabled elsewhere. Bounds: `MaxRequests`, `MaxEvents`.

**PageFlip** – the KMS plugin: a render thread per screen in `swapBuffers()`, the main thread that
changes modes and power states and follows the vt, and the kernel, which finishes flips. `Windowed`
are the screens that have a render thread, `Changing` those whose mode and power change. The buffers
of a GBM surface are `locked` between a flip and the end of the next one; one that is not may be
rendered into. `FlipsFail`: the kernel refuses flips for reasons of its own. Bound: `MaxSwitches`.

**XWaylandSetup** – `XWaylandServer::setup()`, a system call at a time, of several compositors:
lock file, abstract socket, socket in the file system. `Crashes`; `Foreign`: another user left a
lock file; `Alone`: one compositor searches at a time; `Errors`: the compositors for which `socket()`,
`bind()` or `listen()` may fail for a reason other than an address in use. Without the abstract
socket the code goes on (`bare`), without the other it gives up. Writing the lock file does not
fail, as `QFile` buffers it. Bound: `MaxDisplay`.

The modules `MC…` name instances. Components that do not depend on each other share a run: the
initial state picks one of them (`part`), and the others rest in an initial state. So `MCSeat` holds
keyboard, pointer and touch devices, the two modules of libinput, text input, selection and drags;
`MCWindows` configure events, applications, their activation, X windows and popups; `MCServices`
logind, the launcher and the X display; `MCFrameCallbacks` frame callbacks, the configuration of an
output and its modes; `MCOutputs` frame callbacks, the two screencasts and page flips. A property of
such a run is that of the component's module, in the behaviours of its part. `Null` declares the
`None` that modules of a run share, `SeatClients` what the devices of a seat do.
`SurfaceBuffers_proofs`, `SurfaceBufferCounts_proofs`, `Seat_proofs` (of KeyboardFocus,
PointerFocus, Selection, DragAndDrop, TextInput, LibInputTouch and LibInputHandler),
`Outputs_proofs` (of PageFlip, Screencast and ScreencastClient), `Services_proofs` (of
XWaylandSetup, LogindSession and CompositorProcess), `FrameCallbacks_proofs` (of FrameCallbacks and
WaylandOutput), `XdgConfigure_proofs` and `Windows_proofs` (of ApplicationWindows, PopupGrab and
XWaylandWindows) hold the proofs. The operators marked *(Mutant)* are plausible bugs in the operator
that follows: they show that a property can fail, and no specification uses them. `PROJECT.json`
maps every other definition to its lines.

The models keep control and abstract data: a configure event is its serial and states, a keymap
a name, a region, position, time stamp or texture nothing.

## Runs

| Run | Instance | Shows |
|---|---|---|
| `sb_views` | 1 surface, 2 views (one lockable, one discarding), 1 buffer, pool of 3 | types; the pool never hands out an entry that is shown (`SlotsAccounted`); a referenced buffer is not the client's (`ReferencedNotOwned`) |
| `sb_surfaces` | 2 surfaces, 1 view that the shell may hide, 2 buffers, pool of 2, fair | no release is lost, views wait for the right buffer, a reference never changes its buffer (`ContentStable`), superseded buffers of painted items come back |
| `sbc_views` | 1 surface, 2 views (one lockable, one discarding), 1 buffer, pool of 2, client reuses buffers | counts are exact, no reference dangles, SurfaceBuffers is implemented |
| `seat` | keyboard: 2 clients with a `wl_keyboard` each and 3 surfaces, a letter, a modifier on 2 keyboards, 3 keymaps, one of which does not compile, 2 rates. Pointer: 2 clients, 3 surfaces, 2 views, one of them touched, 1 button, 1 `wl_touch`, 1 press taken by a drag, orderly. libinput: 3 touch slots; 2 keyboards, a touch screen, 2 keys, queue of 3. Text: 3 clients with a surface each, 2 of them with a text input, 1 batch of requests and 1 event under way, orderly. Selection: 2 sources of 2 clients, 2 types, retained. Drags: 2 clients, surfaces and views, 3 sources, orderly | enter and leave, modifiers and keymap reach who they should whatever the scene does in a key event (`FocusIsTold`, `KeysSettle`); no event without enter, no enter without leave, no button counted but those a drag took; Qt has the fingers, the devices and the key repeat there should be; the text focus is told, and the input method knows the text of who has it; the focused client knows the selection, retained data is of one; clients enter and leave a drag in balance and every drag is resolved |
| `pf_touch` | 2 surfaces, 2 views, 2 `wl_touch` | **violated**: touch points go to another client |
| `windows` | configure: 2 windows, 3 serials, one prompt, one acknowledging anything; one grab at a time, and no window goes with a configure pending. Applications: 1 xdg and 2 wl windows, 2 ids. Activation: the same windows without names, modes, 3 events behind. X11: 2 windows, 2 surface ids, 3 shell surfaces, patient. Popups: 3 of xdg-shell, 2 of wl_shell, 2 clients, each shell alone and both | the prompt window is told what was last asked for, acknowledgements never go back; applications are those of the windows, the focused window alone is active once all is acknowledged; each X window gets its surface; the grab of the mouse is that of the open popups |
| `xc_stale` | 1 window, 4 serials | **violated**: with two events pending the next is built on the oldest |
| `fc_moves` | moves: 2 surfaces, one of which asks for frames, 2 views, 2 outputs, one automatic, 2 callbacks, 1 queued call. Configurations: 1 client, 2 that change position and scale, 2 events under way. Modes: 1 client, 3 modes, 2 events under way | callbacks in order, the three places agree, each enter has its leave while everything moves (`FramesFollowMoves`); the properties are those asked for last (`IsAsAsked`); a client that has heard everything knows them and the modes with their flags (`IsKnown`) |
| `outputs` | frames: 1 surface, 2 views, 2 outputs, stable, fair. Screencast: 4 buffers, one refused, one too large, 4 events. Client: 3 buffers, sound, fair. Flips: 2 screens with a window, 3 buffers each, one screen changing mode and power, fair; and one with a window next to one without, 2 switches of the vt | every committed callback is sent; no recording is forgotten; the client waits for one buffer at a time and keeps recording; nobody renders into a buffer that is shown and every thread goes on painting |
| `pf_vt` | 1 screen, 2 switches of the vt, fair | **violated**: the mutex taken to suspend is never given back, and the screen is not painted again |
| `services` | session: 2 stops, 2 switches by the user, 3 of both in all, 1 call, switches may fail, fair. Launcher: 2 retries, 4 ends of any kind, stop, fair. Display: 3 compositors that crash, sockets of one that may fail, a foreign X server or none, 5 displays, fair | the cache catches up after every restart; control and vt are right for the first service; crashes use up the retries, no running child is started over, a compositor runs in each weston, until one exits or fails; who listens on a display has both of its sockets, unless they failed, and the search for one ends |
| `lg_control` | 1 stop | **violated**: after a restart control is never taken again |

Why these bounds are enough. Two of each actor is what every interaction here needs: a focus moves
from one surface to another (of the same client, which uses the same `wl_keyboard`, or of another:
hence three surfaces in `seat`), a buffer from one holder to the next, a view between two outputs. A
pool of two has one entry that is shown while another is pending; with three an entry is reused
while two are held (a view that keeps its buffer, a newer one, a pending one). Three serials are an
acknowledged event, a pending one and the next one sent. Two stops let replies of two earlier
services meet the third. Three sources let a drag or selection be replaced while an older source
still exists; three popups of xdg-shell give one client a nested pair while another client has one.
Three slots are a finger that goes, one that stays and one that comes in the same frame. Three shell
surfaces for two X windows let one window be created again. Four ends with two retries exhaust the
retries of either process after a crash of the other. Two screens let one thread read the event of
another; three buffers are one shown, one under way and one rendered into. Three compositors are one
that left its files, one that removes them and one that makes its own; five displays are more than
they and the foreign server can use up. Two buffers suffice for a client to find none free while one
is shown and one recorded; the third and fourth are refused ones. Two configurations are enough for
the change set of one to be older than an apply of the other. A modifier on two keyboards is what
tells the seat's set of keys from `xkb_state`'s counts. Two events pending let a mode repeat an
activation that is no more; with the third the focus moves again before any is acknowledged. Three
modes are a current one, a new one and one that moves the vector. One compositor whose sockets may
fail meets two whose sockets do not. `ConfigureBound`, `SessionBound` and `OneSurfaceDraws` keep the
instances of three components small: windows do not share a grab, a window that is gone is read by
nobody, and the frame callbacks of a surface do not depend on those of another. The cases that only
a larger instance might add are covered by the proofs. `CHECK_DEADLOCK FALSE` is set where a system
may really stop: a bound is used up, or all objects are gone and the client binds nothing more.

## Disagreements

Four runs keep a disagreement between the code and what the repository says of it; `findings` in
`PROJECT.json` quotes the lines. The following are the same kind of thing, met while modelling. The
behaviour constants exclude them so that the other behaviour can be checked; with the constants
given here, and those of the component's passing run otherwise, TLC shows a behaviour that violates
the property.

| Code | Property, and how to see it | What happens |
|---|---|---|
| `CA/qwaylandbufferref.cpp:61` | `ReferencedNotOwned`, `sb_views` with `ClientReuses = TRUE` | "it is owned by the compositor and the client cannot modify it": a `wl_buffer` committed twice gets two `SurfaceBuffer`s; the release of the first gives it back while the second is shown |
| `CA/qwaylandquickitem.cpp:1073` | `UnreadComesBack`, `sb_surfaces` with `Surfaces <- OneSurface` | wayland.xml:1355: after a commit of no buffer the item has nothing to paint, and its provider keeps the last buffer for ever |
| `CA/qwaylandquickitem.cpp:1107` | `NoProviderForGeometry`, `sb_views` | `Q_ASSERT(!d->provider)` fails when a buffer without texture format follows one with |
| `CA/qwaylandquickitem.cpp:1075` | `HiddenTextureUpdated`, `sb_surfaces` as it is | "the item is hidden, though the texture will still be updated" (:996): without `paintEnabled` the view advances and its provider keeps the superseded buffer |
| `CA/qwaylandkeyboard.cpp:107` | `LeftWithFocus`, `OneEach = FALSE`, with `c1` the owner of both `wl_keyboard`s | a second `wl_keyboard` of the focused client takes over, the first is never left |
| `CA/qwaylandkeyboard.cpp:491` | `RateKnown`, `seat` as it is | `setRepeatRate()` sends the old rate before it assigns the new one |
| `CA/qwaylandkeyboard.cpp:239` | `KeymapWaitsForKeys`, `seat` as it is | a key that is down on two keyboards is recorded once: the first release looks like the last, and the keymap changes with a key down |
| `CA/qwaylandpointer.cpp:209` | `EventsAfterEnter`, `OrderlyClients = FALSE`, with `c1` the owner of everything | `hasSentEnter` is kept per seat: a `wl_pointer` bound while its surface has the mouse gets motion without enter |
| `CA/qwaylandview.cpp:132` | `LeftWithMouse`, `OrderlyShell = FALSE` | `setSurface()` of the view with the mouse: the entered surface is never left |
| `CA/qwaylandview.cpp:95` | `MouseFocusExists`, `OrderlyClients = FALSE` | a view deleted after its surface stays the seat's mouse focus if the client has no `wl_pointer` |
| `CA/qwaylandquickitem.cpp:550` | `NoPhantomButtons` (PointerFocus), `OrderlyClients = FALSE` | a counted press whose release is ignored: `isButtonPressed()` stays true |
| `CA/qwaylandquickitem.cpp:544` | `PressedIfHeld`, `seat` as it is | "Returns true if any button is currently pressed. Otherwise returns false." (`CA/qwaylandpointer.cpp:277`): the release that ends a drag goes to `drop()`, and its press stays counted |
| `CA/qwaylandquickitem.cpp:682` | `NoPhantomButtons`, `TouchAlone = FALSE` | a touch point moves the mouse grab to another item, which then hears the release of the button |
| `EX/qwaylandxdgshellintegration.cpp:116` | `ResizeEnds`, `OneGrab = FALSE` | a move that starts during a resize overwrites it; the client is never told that the resize is over |
| `EX/qwaylandxdgshell_p.h:133` | `FocusedIsActive`, `windows` with `KeepUp = {}` | a mode sent while two events are pending repeats the activation of the first: the focused window ends inactive, or another active |
| `CA/qwaylandsurface.cpp:757` | `Answered`, `outputs` (frames) with `StableViews = FALSE` | the first view changes between frame and queued call: nobody sends the callback, nothing schedules a frame on the new output |
| `CA/qwaylandoutput.cpp:1011` | `EnteredWhereShown`, `BindsFirst = FALSE` | a surface shown before its client binds the `wl_output` never gets enter, and gets leave with a null output |
| `server/output/outputchangeset.cpp:41` | `IsAsAsked`, `Alone = FALSE` | a change set copies every property with its first request: what another configuration changes before it is applied is taken back |
| `CA/qwaylandoutput.cpp:519` | `IsKnown`, `Careful = FALSE` | `addMode()` of the current mode without its flag: it stays current for the output, and no mode is for the clients |
| `client/output.cpp:166` | `SizeIsKnown`, `fc_moves` as it is | "Update flags if the mode is already present": the iterator `currentMode` moves only when a mode is inserted, so that after `setCurrentMode()` `size()`, `geometry()` and `refreshRate()` are still those of the old mode |
| `platform/logind/vthandler.cpp:167` | `VtFollowsSession`, `services` with `OpensActive = FALSE`, `MaxStops = 0`, `MaxCalls = 0` | "Vt is active when the session is" (:392): the vt becomes active when opened, whatever the session is |
| `platform/logind/vthandler.cpp:439` | `VtFollowsSession`, `services` with `MaxStops = 0`, `MaxSwitches = 0` | the vt is declared inactive when the switch is sent; a refused one leaves it so |
| `platform/logind/logind.cpp:475` | `ControlAgrees`, `services` with `OneTake = FALSE`, `MaxStops = 0`, `MaxCalls = 3` | two `takeControl()` under way around a `releaseControl()`: belief and service differ |
| `server/extensions/applicationmanager.cpp:145` | `WindowsHaveApplications`, `StableIds = FALSE`, `MappedId` the identity | ":108 if there is no window with the same appId left it means the application was closed": a window that is renamed removes its old application although another window has it |
| `server/extensions/applicationmanager.cpp:234` | `FocusedWindowHasFocus`, `FocusedWindowExists` | `focusedWindow` is set by whoever became active last and never reset: it may be a closed window |
| `server/shell/clientwindow.cpp:302` | `ParentIsCurrent`, `ParentExists` | a change of parent without a change of type is not noticed; a parent that closes stays the parent |
| `server/shell/clientwindow.cpp:343` | `StaysMinimized` | any change of activation, also a loss, restores a minimized window |
| `src/launcher/compositorprocess.cpp:113` | `StaysStopped` | `stop()` between a crash and its respawn returns early, and the timer starts the process again; SIGTERM itself counts as a crash |
| `src/launcher/compositorlauncher.cpp:106` | `CompositorFollowsWeston`, `Prompt = FALSE` | "Starts the compositor as soon as Weston is started": a timer that fires while the orphan of the last weston still runs, or its end has not been heard of, starts nothing |
| `src/launcher/compositorprocess.cpp:153` | `CompositorFollowsWeston` excuses it | a compositor that exits or fails is not started again: weston stays up without one |
| `src/launcher/compositorprocess.cpp:103` | `LauncherLives`, `services` as it is | a compositor that exits before its socket is seen leaves its watcher connected; started again by a restarted weston, it crashes after its socket was found, and the earlier watcher calls `socketAvailable()`, which uses the null `m_watcher` (:184) |
| `EX/qwaylandxdgshell.cpp:113` | `TopmostIsValidParent` | xdg-shell.xml:539: `values()` lists the newest first, `last()` is the oldest popup; a third nested popup is refused. `closeAllPopups()` goes the same way round, against :544 |
| `EX/qwaylandquickshellsurfaceitem.cpp:198` | `CallbackExists`, `NoneUnguarded`; `AllGuarded` with both shells | the filter keeps the callback of the popup that installed it, also when its integration is deleted; each shell cancels the filter without asking the other |
| `server/extensions/screencaster.cpp:389` | `FramesAreFilled`, `FramesHaveBuffers` | the posted event names whatever buffer is current when it is delivered, filled or not, or none |
| `server/extensions/screencaster.cpp:118` | `NothingToTheGone` | "invalidate all its screencast requests": none is, and an event that was posted is sent to the client that is gone |
| `client/screencaster.cpp:92` | `OneAtATime` and deadlock, `Sound = FALSE` | the two threads record the same buffer, or none any more |
| `client/screencaster.cpp:86` | `FramesAreStable` | "We are not using this buffer anymore": the buffer is marked free before the application has seen the frame |
| `CA/qwaylandsurface.cpp:704` | `RetainedIsOffered` | the retained selection is offered only in `updateSelection()`, not when the focus comes |
| `waylandcompositor/wayland_wrapper/qwldatadevice.cpp:180` | `NoSelectionIsKnown`, `OneSelection`, `SelectionIsNotCancelled`, `CurrentExists` | device, manager and clients each remember the selection; clearing it, or an older serial, updates some of them |
| `waylandcompositor/wayland_wrapper/qwldatadevice.cpp:88` | `DragBalanced`, `DragResolved`, `NeverMisused`, `OnlyPressedDrags`, each with `OrderlyClients = FALSE` or `OrderlyShell = FALSE` | wayland.xml:771: a drag without a source, or whose source goes away, follows null and stale pointers; another view of the origin keeps its mouse events for a drag that is over |
| `platform/libinput/libinputtouch.cpp:167` | `FingersAgree`, `OncePerFrame = FALSE` | a slot that is pressed and moved within a frame is told as stationary, one that goes and comes back is lost |
| `platform/libinput/libinputtouch.cpp:202` | `FingersAgreeAfterCancel` | a cancel tells Qt, and keeps the list, which comes back with the next frame |
| `platform/libinput/libinputhandler.cpp:447` | `NothingWaits`; `SuspendedWhileInactive`; `ResumedWhileActive` with `ResumeWorks = FALSE` | events that `libinput_resume()` queues wait for other input; a session inactive at the start is not suspended; a failed resume is not tried again |
| `platform/libinput/libinputhandler.cpp:367` | `HandlesAreClosed` | `restrictedClose()` does not close the descriptor |
| `src/declarative/xwayland/xwaylandmanager.cpp:515` | `Paired`, `NoStranger`, `NeverMisused`, with `Patient = FALSE`, `Remaps = TRUE`; `Paired` with `Reuses = TRUE` | a window that goes away while it waits stays in `m_unpairedWindows`; a window mapped again keeps the surface that is gone |
| `EX/qwaylandtextinput.cpp:347` | `FocusedWasTold`, `ListenerIsOnce`, `TextIsOfFocus`, `EnabledAgrees`, `OrderlyClients = FALSE` | a text input destroyed or bound while its client has the focus is not told and leaves the listener where it is; the next focus links it again; a text input enabled on a second surface leaves the first enabled |
| `EX/qwaylandtextinput.cpp:327` | `TextFocusExists` | the focus is a pointer that nobody clears when the surface belongs to a client without text input |
| `src/plugins/egldeviceintegration/kms/eglfskmsscreen.cpp:323` | `ScanoutIsStable` without `switches = 0`, `MaxSwitches = 1` with `Changing`, or 2 | a suspend lets a thread pass `waitForFlip()` with a flip under way: a mode change then destroys its buffers, a resume releases the wrong one |
| `src/plugins/egldeviceintegration/kms/eglfskmsscreen.cpp:398` | `ScanoutIsStable`, `FlipsFail = TRUE` | a flip that is refused after the mode was set releases the buffer that is on the screen |
| `src/declarative/xwayland/xwaylandserver.cpp:208` | `SetupEnds`, `Foreign = TRUE` | "The lock file is stale: unlink and try again": `EEXIST` and `EAGAIN` are swapped: a display whose file was removed is passed over, one whose file cannot be removed is tried for ever |
| `src/declarative/xwayland/xwaylandserver.cpp:175` | `LockNamesOwner`, two compositors with `Alone = FALSE` | the lock file is opened without `O_EXCL` before it is made read-only: two compositors write it, and the one that loses the socket removes it |
| `src/declarative/xwayland/xwaylandserver.cpp:181` | `NeverFails` | a lock file that goes away between `open()` and `exists()` ends the search |
| `src/declarative/xwayland/xwaylandserver.cpp:134` | `HasBothSockets`, `services` as it is | only `EADDRINUSE` counts as a failure of the abstract socket: after any other one the display is announced without it |

Met while reading, beyond the models. `NativeScreenBackend::handleScreenRemoved()`
(`server/screen/nativescreenbackend.cpp:127`) does not advance its iterator past a screen that stays,
and loops for ever unless the removed screen is the first; it erases from a copy of the list, so the
backend keeps the deleted screen. A native screen's `applyChangeset()`
(`server/screen/screenbackend.cpp:258`) returns true without regard to transform, scale or primary,
and reports a new position with the old available geometry, which is what the screen reads its position
from: the client hears `applied`, which greenisland-outputmanagement.xml explains with "Fired after the
compositor has applied the changes successfully". An output whose size follows its window sends a mode
of a new size, which the client library adds to the old ones, all of them flagged as current
(`client/output.cpp:177`); so `IsKnown` speaks of that flag only for the others. Inserting a mode may
also leave `currentMode`, an iterator of the vector, pointing into memory that was freed
(`clientMode` is then empty).

## Fairness

`SurfaceBuffers`: weak fairness of `Advance` and `PaintTexture` of each view. Each commit asks the
items of the surface for an update (`CA/qwaylandquickitem.cpp`), and the render loop serves windows
that asked. This is about items that are visible and painted: `PaintTexture` is enabled for no
other, and an item that Qt Quick does not draw at all is not modelled. `PaintGeometry`, requests and
operations of the shell are not fair. `FrameCallbacks`: a *scheduled* frame starts, a queued call is
run (render loop and event loop), on `Automatic` outputs, which are all in the fair run; no fairness
makes anybody schedule a frame, or the shell of another output send what it must send itself.
`LogindSession`: the service answers, and the event loop delivers what arrived; the user, the
application and the service's coming and going are free. `CompositorProcess`: the launcher's event
loop runs (ends are delivered, timers fire, directories are watched), a child that starts comes up
or ends, an orphan ends; crashes, exits and `stop()` are free. `ScreencastClient`: both threads of
the client library and the compositor's event loop run, frames of the output come; these are the
library's own threads. `PageFlip`: render threads run (one that asks for the mutex again and again
gets it, as its rivals render a frame before they ask again: strong fairness of `Lock`), flips
finish, and the main thread handles a switch; mode and power changes and the switches are free.
`XWaylandSetup`: a compositor that searches goes on, until it crashes. Nothing else a client does is
ever fair. In the runs with parts, only the fairness of the part that was picked is assumed.

## Proofs

`SurfaceBuffers_proofs` proves for any sets of surfaces, views and buffers, any pool bound and
any lockable, discarding or hideable views:

* `Invariance`: `Spec => []Inv`, and from it `TypeCorrect` and `SlotsAreAccounted`, with no
  condition on the client;
* `ReferencedBuffersAreNotOwned` and `ReleasesAreNotLost`, for clients that wait for the release
  (`~ClientReuses`). Without that condition the first is false (see above).

Assumptions: those of SurfaceBuffers, that `MaxPool` is positive, that the lockable, discarding and
hideable views are views, and that `None` is no object.

The argument. `SlotsAccounted` (registered = held or pending, never both; committed = held) is not
inductive: a step that drops a reference must know that nothing else of the slot survives. `Inv`
adds to `TypeOK` and `SlotsAccounted`: `SurfaceState` (pending buffers are the surface's own, and
only living surfaces have buffers), `ContentState` (content means registered, and an existing
`wl_buffer`), `OrphansAreShown` (a slot of a dead surface lives only while shown),
`NextIsSurfaceBuffer` (so that destroying a surface takes the `next` of its views along) and, for
clients that wait, `Ownership` (at most one committed slot per `wl_buffer`, none for one the client
owns, one for each it does not). The lemma `DisownKeepsSlots` carries the weight: whatever
references a step drops, and whichever slot it hands over, disowning what is unused restores the
accounting. Each action then only has to show which references it drops; views share
`ViewStepInv`, flags `FlagStepInv`. From the same invariant follows the action property:
`ContentIsStable`, a reference that a step keeps has the buffer it had, for any client.

`SurfaceBufferCounts_proofs` proves for any finite numbers of surfaces and views, any buffers, any size
of the pool, and any client: `CountsAlwaysExact`, `ReferencesExact` between any two handlers, and
`CountingRefines`, the refinement of SurfaceBuffers step by step, so that what is proved of
SurfaceBuffers holds of the counted references. Assumed is what SurfaceBuffers assumes, and that
surfaces and views are finitely many: a count is a number.

* The invariant (`Inv`) says of the heap (`HeapOK`) that each count is the number of holders, that
  what they point to is in the pool, and that what waits to be destroyed is still pointed to. It
  adds that an entry waits to be destroyed exactly if its surface is gone, and that what is pending is in
  the pool of its surface, which is alive. Without the last two a later `deref()` could delete an entry
  in use, or the commit revive a deleted one.
* Within a handler the invariant does not hold, as a temporary counts too; `HeapOK` therefore has a
  parameter for it. An assignment (`ref` of the new target, `deref` of the old one, in that order) from
  such a heap has a closed form, `Settled`: the new references, the counts that go with them, and
  disowned what nothing points to any more (`AssignSettles`, `AssignTemporarySettles`).
* Two assignments in a row have the closed form of both at once, if the second points to nothing that
  the first did not (`SettledTwice`). This is what would fail if a handler let a buffer
  go and took it up again. All handlers but the commit only let go or hand on (`Reached`), and the
  commit takes up one reference, to what was pending.
* So one step of SurfaceBuffers, which drops the holders and disowns what is unused in one go,
  is the whole handler (the lemmas `…Steps`).
* The handlers' loops over views and over the pool are folds over a set, in an order that is not
  specified. That such a fold is its closed form is an induction over the set; it is done with a smallest
  counterexample (`SameFold`, from the well-foundedness of the natural numbers), for the function that
  defines the fold (`AssignAllUnfolds`, `MarkPoolUnfolds`), and so needs no operator as parameter.

`Seat_proofs` proves, of the keyboard, `KeysAlwaysSettle` for any clients, surfaces, `wl_keyboard`s,
keys and keymaps, and `FocusIsAlwaysTold` for clients with at most one `wl_keyboard` each
(`OneEach`; false without, see above), from what the owners, keys and `None` are assumed to be.
Neither property is inductive. `KeysSettle` says nothing while the scene has an event, so `Inv` adds
`EventIsAllThatIsMissing` (`xkb_state` knows of no press but of keys that were down before that
event, and of each key that is down on a single keyboard, whatever the handlers did in the meantime;
a press that a new `xkb_state` forgot makes it count too few, never too many) and
`OnlyPendingIsMissing` (a keymap that could be had and is not installed waits, with a key down
unless an event is under way; every `wl_keyboard` has what is in the file). No condition is put on
which keymaps load. `FocusIsTold` needs `Lists` (clients' keyboards are their own and listed once),
`OnlyFocusEntered` and `OneEntered` (the focus has its client's one keyboard, and no other was told
to enter), and that the destroy listener is on the focus, so that the focus does not outlive its
surface. Taking a keyboard out of a list is the lemma `RemovedLeavesTheRest`.

Of the mouse it proves `EventsAlwaysFollowMouse`, for any clients, surfaces, views and
`wl_pointer`s, if clients and shell are orderly, the mouse has one button, and nobody touches the
screen while it is down (`TouchAlone`; false without each, see above), and `MouseIsAlwaysPlaced`,
its part about enter, leave and motion, for any buttons. The code decides from `mouseFocus`,
`focusResource` and `hasSentEnter`, which change at different times; `MouseInv` says that there are
only two situations. Either the mouse is nowhere, and no `wl_pointer` is in a surface and no
listener in a list (`Nowhere`); or it is over a view that shows a surface, whose owner's one
`wl_pointer` entered it, nobody else entered anything, and the listener is in the list of that
surface only (`OnSurface`). `AfterMove` and `AfterLeave` show that `setMouseFocus()` and
`sendMouseMoveEvent()` lead from either to the one they should, whichever view comes next. For the
buttons, `PressIsGrabbed` adds that the presses counted are those that drags took (`taken`) and at
most one more (`Counts`): of the item that grabs the mouse, as long as that shows a surface and does
not drag. That surface is then under the mouse, so the surface that takes the release with it is the
one whose `focusDestroyed()` forgets the press. That what is referred to exists (`MouseTypeCorrect`)
needs none of these conditions.

Of the selection it proves `SelectionAlwaysKnown`, for any clients, sources and types, if the compositor
does not override the selection (false without: the data of a read under way is appended to its
own), and `SelectionAlwaysTold`, its part about who is told, also if it does. What is added
is that who listens has a data device and that what is being read exists (`ListenersExist`): a
source may go between two types, and takes its reader with it.

Of drags it proves `DragAlwaysSettles`, for any clients, surfaces, views and sources, if clients
and shell are orderly (false without each, see above). The invariant (`DragInv`) knows two situations:
nothing is dragged, and then no view drags, no client is between enter and leave and nothing dangles
(`DragRests`); or the pressed view, which shows the origin, drags a source that is neither
dropped nor cancelled, and exactly the client of the focus was told to enter, with an offer of that
source (`DragRuns`). No source is dragged twice. `DragTypeCorrect` needs no condition.

Of text input it proves, for clients with one text input at the most (`OrderlyClients`,
`OneTextInput`; false without, see above), `TextFocusIsAlwaysTold` and `TextAlwaysSettles`. The
first is of the kind of `EventsAlwaysFollowMouse`: the focus is held, of a living client, and the
listener for its end is in one place (`TextPlaced`). The second speaks of the moment in which
everything sent is handled, so the invariant (`TextInv`) reads what is under way, as a client sends
its text a piece at a time. `PiecesTakeEffect`: the last piece on the wire to the compositor is an
`update_state`, so none is left pending. `FocusSettles`: either the client of the focus will hear
that it has it, or it has heard it, and then for every field the last piece on the wire that sets it
carries the editor's value, or, if there is none, the pending or the current state has it already
(`Arrives`). The editor may change in between, whatever the input method commits: each change
appends pieces, and appending only has to keep what it does not set. `TextTypeCorrect` needs no
condition.

Of libinput it proves `InputAlwaysSettles`, for any slots, devices and keys and a queue of any length, if
a slot changes once in a frame (false without, see above). For the fingers, each slot is in one of four
situations (`SlotAgrees`): Qt knows of its finger, or of none, or will know the one or the other with
the next frame, for which the slot then has to be in `changed`. `DevicesSettle` says nothing while
events wait, so the invariant (`QueueInv`) says where they lead: there is a state that Qt knows, and a path
that takes an event of the queue at each step (`Leads`), from that state to the one libinput is in.
`Handled` follows the path (`HandledLeads`, by induction: the first step at which it would leave
the path does not exist), so handling the queue ends where libinput is; whoever appends to the queue
has to show a path from the old state of libinput to the new one (`Tell`). It does not matter whether
`libinput_resume()` works.

`Outputs_proofs` proves, of page flips, `ScanoutStaysStable` for any screens, windows and buffers, until the
virtual terminal is switched for the first time, if no flip is refused (`~FlipsFail`, in
`Parameters`). Both conditions are needed (see above); with both, it does not matter which thread
reads which event. `ScanoutIsStable` says nothing of the kernel's queue and of the
threads, so `Inv` adds, for each screen, `BuffersOf` (what it has locked is the buffer that goes and
the one that comes, two different ones) and `FlipOf` (its flip is under way, or done with its event
not read, or there is none; a thread that is about to render has none), and that no screen has two
events (`Distinct`). Reading an event is where it could go wrong, as it ends the flip of another
thread's screen: by `FlipOf` that thread still waits and the buffer that came is shown.

Of the screencasts it proves `BuffersAreAccounted`, for any buffers that are usable and as large as the
frame, if nothing interrupts the handler's `recordFrame()` (`Sound`; false without, see above): the
client waits for one buffer at a time and no buffer is forgotten. `OneAsks` says where the one request is:
on its way in either direction, or being recorded, or with the thread that is about to ask; and `starving`
is what hands it over from one thread to the other. `NothingIsForgotten` is the compositor's part, for
a client that does anything.

`Services_proofs` proves `ListenersAreAlone` (and `TypeCorrect`) for any number of compositors
and displays, whatever files were left, whether compositors crash or search at the same time, from
`Parameters` (what the constants are). The lock file is of no use for it, as a file that was
thought stale may be another's new one. What counts is `SocketsHeld`: the kernel lets one compositor
bind the abstract socket, which is then its own until it ends, and the socket in the file system is
replaced only by the one that has it, or by one for which that failed (`bare`). So the theorem holds
for any `Errors`: who listens and is not `bare` has its abstract socket, and its own socket in the file
system unless a `bare` one has come to the same display.

It also proves `SessionFollowsService`: `FollowsService` of LogindSession, for any number of
restarts, switches and calls, if there is one `TakeControl` at a time (`OneTake`; false without, see
above). `SessionCatchesUp` is what holds without it. The property speaks of the moment in
which nothing is under way, so `SessionInv` says of the calls and of the messages, by their places
in the two queues, what they will make of Logind's cache:

* While the service is away this is known, or its end is on the way with nothing but failures behind
  it (`DownKnown`); while it is there we are connected, or its start, our call or its answer are on
  the way behind the last end (`Connecting`).
* If we are connected and stay it, the last reply under way with the session's activity is right, or
  there will be one more (`ActiveComes`).
* Until the service goes away for the first time, the one `TakeControl` is the last call about control, and
  `controller` is what the last reply, or the belief, says of it (`ControlComes`).
* The vt is asked for behind the activity, so that it is not opened before the session is known to be
  active (`VtFollows`): the order of the two calls in `_q_sessionPropertiesChanged()` matters.

And of the launcher `AlwaysSupervised`, for any number of retries, any ways in which the two processes
may end, and `stop()` at any moment. Inductive is the account of the retries (`RetriesCounted`): crashes and
retries left add up to the retries there were, but for a crash that the launcher has not heard of, and
for the one that made it quit.

Of WaylandOutput, `FrameCallbacks_proofs` proves `AskedForArrives` for any number of configurations
and values, if one is filled and applied at a time (`Alone`; false without, see above). `IsAsAsked`
says nothing of the copies that change sets are. `Inv` adds that a change set is, at every moment,
what its configuration asks for over the properties of now (`ChangesetOf`), and that one
configuration at most asks for anything; so whoever applies leaves the change sets of the others as
they should be. `ClientsKnowTheOutput` is the other end: a client that has heard everything knows
the properties, the modes and their flags (`IsKnown`), for any clients and any number of events on
their way, if the current mode is not added again without its flag (`Careful`). Of the iterator that
`size()` reads it says what is so: if the size follows the window, it is at the mode that is last in
the list. `IsKnown` says nothing while an event is under way, so the invariant (`KnownInv`) speaks
of the wire: an event in it that contradicts the output has one behind it that says what is so
(`Corrected`), and what no event there tells is known already. Then hearing the first event never
loses anything, and appending one only has to correct what it contradicts.

`XdgConfigure_proofs` proves for any number of windows, of events that clients are behind, and any
bound of the serials: `WantedIsAlwaysSent`, the event sent last carries what is wanted, for windows
that keep up (`Prompt`), if there is one grab at a time (`OneGrab`; false without, see above); and
`AcksAreUnderstood`, for any windows: an acknowledgement never takes a state back, client and
compositor end up with the same one, and every change is announced. Nothing is assumed of the
clients in `WrongAcks` but that they are not the ones spoken of. `Inv` adds `PendingState` (the
pending events are in the order of their serials and younger than the acknowledged one),
`ClientState` (what is on the way to the client is pending and younger than what it applied, an
acknowledgement on the way back names a pending event, and the last of these what the client
applied) and `WantsSent` (the newest event is the one wanted). The comparison of two lists of states
is a recursion; it ends after as many steps as the lists have elements, five at the most, and
is unfolded that often (`UnfoldedAgree`). That those lists never hold a state twice is part of
`TypeCorrect`, and needed for it.

`FrameCallbacks_proofs` proves for any surfaces, views and outputs that move in any way between the
halves of a frame: `CallbacksAreInOrder`, `ViewsAlwaysAgree` (surface, item and output name the same
views) and, for clients that bind each `wl_output` before they have a surface (`BindsFirst`; false
without), `FramesAlwaysFollowMoves`, which adds that each enter has its leave. The order of what was
sent is not inductive: the callbacks that a frame marked must come before those it did not
(`MarkedFirst`), as only they are sent. Nor is the agreement: an entry that was told to the client
must have views as long as it is (`ShownInv`), and the outputs must be bound before the surface is
shown. `Enumeration` says, with the library's facts about finite sets, that taking the marked
entries of a list keeps their order.

`Windows_proofs` proves, of the three components in the run `windows` that concern windows and their
lists:

* `ActivationAlwaysFollows`: for any windows of both shells and any number of unacknowledged
  events, whoever closes, changes its parent or its mode, or gets the focus. The property is about the state
  after the last acknowledgement; inductive is what the last event that is *not* acknowledged says
  (`FocusTold` over `WillBeActive`), of the windows in `KeepUp`: for them a mode repeats that last event,
  as it is the first. Nothing is claimed of, and nothing spoilt by, the other windows of xdg-shell.
* `ApplicationsAlwaysHaveWindows`, for windows that name their application once (`StableIds`; false
  without).
* `GrabAlwaysMatches`: any clients and popups of one shell (the property is false for both together).
  The invariant has to know, besides the two lists of each client, that the filter's callback is of
  a popup of the shell in use (`OfShellsUsed`, `HasCallback`), and that a press that waits for its release
  leaves only popups that were told or appeared in the meantime (`ClosedByPress`).
* `WindowsAreAlwaysPaired`: any X windows, surfaces and messages on the two connections, read in any
  order, for clients as the run has them (`Patient`, not `Remaps`, not `Reuses`; false without
  each). `Paired` speaks of states in which nothing is on its way. The invariant follows a window
  through its life: its events come in the order of that life (`EventsInOrder`); the surface of a
  mapped window exists or is requested (`WindowState`), and is no other's (`SurfaceState`); its
  shell surface is in `m_unpairedWindows` exactly from the event with the id to the surface, and has
  no surface but its own (`PairingState`). From that, at most one entry of the list has the id of a
  new surface, and it is that of the right window (`SurfacePaired`).

The types of the variables are proved with them, for the most part as theorems of their own
(`…TypeCorrect`).
Assumptions are those named in the
modules (`…Assumption`): what the constants are, and that `None` is no object. The bounds of the
models (`MaxPending`, `MaxObjects`, `MaxSerial`, `MaxEvents`, ...) stay in the specifications, and
the theorems hold for each value of them.

## Only model-checked

Liveness (`SupersededComesBack`, `FramesAnswered`, `SessionStaysConnected`,
`CompositorStarts`, `RecordingGoesOn`, `FlipsGoOn`, `DisplayFound`), as temporal reasoning about
fairness is out of the prover's reach. The types that runs of several components check together
(`TypesOK`) are proved of each component on its own, under that component's conditions where its
theorem has some.

## Not modelled

Geometry, rendering, wording, logging, decoding of files and protocol marshalling. Of the modelled
components: opaque and input regions, buffer transform and scale; the grabber; cursors' contents;
key repeat in clients; inhibitors and device descriptors of logind and the vt's signals without
logind; actions and data of a drop; keys and language of text input; connectors and cursors of the
KMS plugin; the process of the X server; stacking, properties and focus of X windows; the launcher's
other modes. Whole components: see `components` in `PROJECT.json`, each with its reason. They are
either planned below, or a sequence of single calls without state to get wrong, or graphics and
input through libraries.

## Plan

Done: surfaces and buffers with proofs, reference counts as a refinement; the seat's keyboard,
pointer, touch, text input, selection and drags; configure events, popups, applications and X
windows; frame callbacks, output configuration, screencasts and page flips; logind, libinput, the
launcher and the display of the X server. Next, in this order:

1. `SurfaceState` – what is double-buffered and what is not; roles, subsurfaces, the grabber.
2. The screenshooter; wl_shell's states; native and hot-plugged screens.
3. The client library's registry and shm pool; the process of the X server.

Abstract specifications worth stating: a focus that is in one place and told so (KeyboardFocus and
PointerFocus, whose invariants are proved), and a mailbox of states for XdgConfigure (the client ends at
what was wanted).

Theorems worth proving next: what of page flips holds while the vt is switched, and the abstract
specifications above.

The number of runs is kept small on purpose: a new module replaces the weaker properties of an
older one where its proofs make them redundant.
