# A verification development for GRWL

GRWL (a fork of GLFW) creates windows and OpenGL contexts and receives input
on X11, Wayland, Win32 and Cocoa.  This directory holds TLA+ models of its
shared code and of the parts of the four platforms that decide something, the
TLC configurations that check them on small instances, and TLAPS proofs for
instances of every size.

Paths below are relative to the repository, which is at `src/`: the library's
code is in `src/src/`, its documentation in `src/docs/` and in
`src/include/GRWL/grwl.h`.

## Inventory

All state is in one global, `_grwl`, and in the objects it links: windows,
monitors, cursors, joysticks, error records.  Nearly every function must be
called on the main thread; contexts, errors, time and `grwlPostEmptyEvent` may
be used on any thread.  There is a single mutex (`errorLock`) and three
thread-local slots.  What interleaves with the main thread is therefore mostly
outside of it: the display server and its queues, the window manager, other
programs, the kernel, and the application's own callbacks, which run in the
middle of GRWL's loops and may call GRWL again.

| component | state | operations | what is hard |
|---|---|---|---|
| Contexts (`context.cpp`, `glx_`, `egl_`, `wgl_`, `nsgl_context`) | `contextSlot`, `usercontextSlot` per thread; the native API's own idea of what is current; what a creation has made so far | make current, detach, create and destroy windows and user contexts, choose a framebuffer configuration | threads interleave between a native call and the store into a slot; native calls fail; window creation borrows the thread's context; a creation fails half-way |
| Windows and full screen (`window.cpp`, `x11_window.cpp`) | window list, `window->monitor`, `x11.iconified` | create, destroy, full screen, iconify, restore, show, hide, resize | the window manager acts on its own; events are late and are read against present state |
| Monitors and video modes (`monitor.cpp`, the platforms' `*_monitor` files) | the monitor array, `monitor->window`, the list of modes, `oldMode` | poll outputs, list, choose, set and restore modes | plugging during the poll; the callback, or a system message, re-enters GRWL; other clients change the server between two requests |
| Initialization and termination (`init.cpp`, `platform.cpp`, the platforms' `*_init` files) | `_grwl.initialized`, the pointers to libraries and objects | `grwlInit`, `grwlTerminate`, loading on first use | half an initialization is undone by the code for a whole one |
| Errors (`init.cpp`, `posix_thread.cpp`) | one record per thread, a shared list | raise, read | allocation inside the error path; a shared record before initialization |
| Key and button state (`input.cpp`, `window.cpp`) | `keys`, `mouseButtons`, sticky modes | events, polling, modes | releases that are made up when the focus goes, and come again |
| Cursor modes and cursors (`input.cpp`, `x11_window.cpp`) | `cursorMode`, `disabledCursorWindow`, the grab, the cursor list | set mode, set and destroy cursors, focus events | the setter asks the server, the handlers act on queued events |
| Event loop (`x11_window.cpp`, `posix_poll.cpp`) | Xlib's queue, the empty event pipe, the timeout | wait, wait with timeout, post | lost wake-ups, interrupted waits, another thread that empties the connection |
| Joysticks (`linux_joystick.cpp`, `win32_joystick.cpp`, `cocoa_joystick.m`, `input.cpp`) | the slots, the flag for dropped events, the files and devices behind the slots | detection, polling, removal | a device vanishes at any point; dropped events; a poll inside a callback of a poll |
| Gamepad mappings (`input.cpp`) | the mapping table, pointers into it | update, find, state of a gamepad | reallocation under pointers, fallback matches, halves of axes |
| Clipboard and selections (`x11_window.cpp`, `wl_window.cpp`) | the owner and the strings; data offers and sources | set, get, answer requests, hand over at the end | replies that never come; objects that have one owner at a time |
| Drag and drop, input methods (all platforms) | XDND source, drag offer; the composed text | enter, move, drop; edit, commit, reset | the answer arrives when the next drag has begun; conversions between units, half-done reallocations |
| Wayland (`wl_*.cpp`) | outputs, shell objects, decorations, scale; keyboard, pointer, locks, timers | configure, acknowledge, show, hide, full screen; key repeat, pointer focus | events are on the wire, in the queue or dispatched; objects disappear under pointers |
| Win32 (`win32_*.cpp`) | focus, captured and disabled cursor, raw input, monitor holders | messages, full screen, modes | messages are sent inside calls, modal loops run inside messages |
| Cocoa (`mac/*.m`) | monitors, joysticks, contexts, the text input client | the same, in Objective-C | the run loop runs inside calls |
| Vulkan, WebGPU, time | loaded functions, a time offset | load, query | |

The components meet in few places.  `grwlDestroyWindow` detaches the context,
then enables the cursor, releases the monitor and destroys the context.  A
monitor event makes windows windowed.  A focus event changes cursor, key state
and, for full screen windows, iconifies.  A joystick uses a mapping of the
table that an update may move.  Every component raises errors.
`grwlTerminate` destroys what the others have left.

What makes each correct: contexts: what is reported is current, on one thread
only, and exists.  Windows and monitors: no pointer dangles, the list is what
is plugged in, and the desktop is the user's when no window holds a monitor.
Initialization: what was acquired is released once, and nothing is used that is
not there.  Errors: each thread reads its own, none leaks, none blocks.  Input:
every press is reported as long as the documentation says and no longer.
Cursors: the grab follows focus and mode, and nothing destroyed is used.  Event
loop: a posted event ends a wait, a timeout is kept.  Joysticks: the slots are
what is plugged in, and their values are the device's.  Selections: what is
read was current, and a read ends.  Composed text: the application was told
what the input method shows.

PROJECT.json lists the hazards, each at its line of the source, with the
properties that are about it.

## Modules

| module | models | checked in | theorems in |
|---|---|---|---|
| `CurrentContext` | what is promised about current contexts, abstractly | `contexts` | |
| `Contexts` | the two slots, GLX and EGL, native steps of every thread; implements `CurrentContext` | `contexts` | `Contexts_proof` |
| `ContextCreation` | the stages of creating a window's or a user's context in GLX, EGL, WGL, NSGL, and who gives back what | `desktop` | `Desktop_proof` |
| `FBConfigs` | the filters of four back ends and `_grwlChooseFBConfig` | `choices` | `Choices_proof` |
| `Windows` | windows, monitors, video modes, screen saver, `grwlInit` and `grwlTerminate` on X11 | `windows` | `Windows_proof` |
| `VideoModes` | the list of modes of a monitor, the closest mode, setting and restoring it on X11 | `choices` | |
| `MonitorLists` | the comparison of monitors with displays on Win32 and macOS, and full screen meanwhile | `windows`, `monitors_left` | `Windows_proof` |
| `Errors` | `_grwlInputError`, `grwlGetError`, the record list and its mutex | `threads` | `Threads_proof` |
| `KeyState` | `_grwlInputKey`, `_grwlInputMouseClick`, sticky modes, focus loss | `devices` | `Devices_proof` |
| `CursorMode` | cursor modes, the grab, raw motion, focus events, cursor objects on X11 | `desktop` | `Desktop_proof` |
| `EventLoop` | the waits for events on X11, `_grwlPollPOSIX`, posted events | `threads` | `Threads_proof` |
| `Joysticks` | joysticks on Linux: inotify, evdev, polling, callbacks | `choices` | `Choices_proof` |
| `Controllers` | joysticks on Win32 (XInput, DirectInput) and macOS | `devices` | |
| `Gamepads` | the mapping table, the search in it, the state of a gamepad | `choices` | `Choices_proof` |
| `WaylandWindows` | outputs, shell objects, decorations, full screen, visibility | `windows` | `Windows_proof` |
| `WaylandSeat` | `handleEvents`, keyboard and repeat timer, pointer, locks, cursor images | `devices` | `Devices_proof` |
| `WaylandData` | clipboard and drags on Wayland | `services` | `Services_proof` |
| `X11Selection` | selections between programs, `MULTIPLE`, `INCR`, the clipboard manager | `selections` | `Selections_proof` |
| `X11Drop` | XDND | `services` | `Services_proof` |
| `Preedit` | the text that IMM, Cocoa, XIM and two text-input protocols compose | `services` | |
| `Win32Windows` | focus, cursor, raw input, full screen and nested messages on Win32 | `desktop` | `Desktop_proof` |
| `Platform` | what initialization acquires and termination releases, on four platforms | `services` | |

`MC_Contexts` and `MC_Selections` extend one module each.  `MC_Windows`,
`MC_Threads`, `MC_Choices`, `MC_Desktop`, `MC_Services` and `MC_Devices` put
several modules into one run: the first one is extended and the others are
instantiated beside it.  These modules share no state that they
test, so nothing would come of interleaving them; the variable `subject` picks
the one whose behaviour this is, and the others rest in an initial state.  A
property of such a run starts with `subject = ... =>` and conjoins what one
module promises, together with its type invariant; the properties of the module
that is extended hold in its initial states too and keep their names.

`EXTENDS` and `INSTANCE` are where modules compose.  Components that do
interact through shared state are in one module (windows, monitors, modes and
the screen saver in `Windows`; focus, cursor and monitors in `Win32Windows`;
the joysticks of Linux and the mapping table they point into in `Joysticks`).

Where a property comes with a way to break it, the model holds a *fault*: a
variant of an operator with a plausible programming error, defined just before
it, that no action uses.  Putting the fault in place of the operator makes TLC
report the property violated.

Some properties hold with exceptions, because the code has them: `KnownLeaks`,
`KnownOrphans`, `KnownWrong` and the like name what the code does get wrong,
at which line, so that anything else is reported.  They are collected under
"What the models say of the code".

### Contexts

State: the two thread-local slots; `native`, the context that GLX or EGL
itself has on each thread; and `call`, the rest of the GRWL call a thread is
in.  A call of `grwlMakeContextCurrent` is two steps, `Clear` (slots cleared,
previous context detached) and `Bind` or `BindFails`, because the native call
and the stores are not atomic for other threads.  Window creation is
`CreateWindow`, `Refresh`, `Probe`, `Restore`, `Rebind`:
`_grwlRefreshContextAttribs` makes the new context current and then the
previous one again.  The guard `Usable` is what the documentation asks of
applications ("you must make it non-current on the old thread before making it
current on the new one"); `FreeElsewhere` is the native APIs' own refusal.  A
detach is taken to succeed.

`Unreliable` names the contexts whose bind may fail although they are free.
The run makes one window and one user context unreliable.

### ContextCreation

A creation is a sequence of stages (`Stages`) that each make a thing: a
library, a pixel format, a context, a drawable.  `FailToCreate` stops at any of
them; what is `made` then is given back only if the functions of the window's
context are stored by then, which is the last stage.  `has` is what the driver
supports.  `OrphansAreKnown` compares the loss of every back end with
`KnownOrphans`; `UserContextFits` relates the hints, which are global and may
have changed, to the window that the user context must share with.

### FBConfigs

A behaviour is one call: `Init` picks back end, request and the driver's list;
`Keep` and `Reject` are the filter of the back end, `Take` and `Pass` the scan
of `_grwlChooseFBConfig`.  `ChosenIsClosest` is the reference: no acceptable
configuration is closer in the order that the documentation gives (missing
buffers, then colours, then the rest), and the first of the closest is taken.

### Windows

State: `monitors`, `windows` and the fields of each object; `display`, what
full screen windows change of the desktop, as one record that the operators
`AcquireMonitor` and `ReleaseMonitor` map to a new one, as the functions of
these names do; `phase`, `unseen`, `departed` and `callback`, the local state
of `_grwlPollMonitorsX11`; and the server's side, which moves at any time.
Handlers of events and API calls are single actions, since nothing else runs on
the main thread; `_grwlPollMonitorsX11` is one step per output and per
disconnected monitor, since outputs change and the callback runs between them.
In the callback the application may call everything but `grwlDestroyWindow`,
`grwlTerminate` and event processing, which the documentation forbids there.

The handler of `PropertyNotify` reads `WM_STATE` as it is when it runs
(`HandleWmState`), not as it was when the event was sent.

Not modelled: CRTC reassignment, window managers without EWMH (override
redirect), positions, and every attribute that is only passed on.

### VideoModes

One monitor on X11.  The requests of `_grwlSetVideoModeX11`,
`_grwlGetVideoModesX11` and `_grwlRestoreVideoModeX11` are steps, and other
clients add, remove and rotate modes between any two.  The insertion into the
sorted list, the comparison of `_grwlCompareVideoModes` and the search of
`_grwlChooseVideoMode` are as in the code, with an `int` of `2 * Half` values,
because the difference of sizes is a sum of squares in an `int`.  `ListAgrees`
and `ClosestIsShown` compare with the output's modes in whole numbers;
`DiesOnlyOfChanges` says when a null pointer of the server's can be met.

### MonitorLists

`Displays[a]` is the number of displays of adapter `a`.  The comparison with
the displays (`StartPoll`, `PassDisplay`, `MeetKnown`, `MeetNew`,
`MeetNameless`, `Disconnect`, `Drop`, `FreeMonitor`, `EndPoll`) is a frame of
`stack`, with its copies (`disconnected`, an index into the list) in the
frame, because it is entered again inside itself: on Win32 a mode that changes
sends `WM_DISPLAYCHANGE`, on macOS `_grwlSetWindowMonitorCocoa` processes
events.  Full screen windows are `SetWindowMonitor`, `Acquire`, `Set`, `Leave`,
`HasLeft`.  A call that processes events or sends messages may have callbacks in
its middle (`Messages`, `ProcessEvents`), also when it is the comparison that
makes a window leave; what the callbacks of callbacks do is left out.  When one
puts a window back on a monitor that goes, `back` remembers it, and
`WindowedBeforeCallback` says that this does not happen.  `ListIsShown` is about the list when no change is pending, and
`FullScreenIsListed` about the monitor of a window and the mode of the desktop.

### Errors

Each access to shared state in `_grwlInputError` is a step of its own: the
allocation, the lock, the read of the list head, the store, the unlock.
`Quiescent` is the documentation's rule that no thread may use GRWL while it
is initialized or terminated.  `EarlyCallers` are the threads that call while
it is not initialized; the documentation allows a few functions then.
`MaxFailures` bounds nested allocation failures.  `last` is a history variable.

### KeyState

One window.  The loops of `_grwlInputWindowFocus` are a step per key and
button (`VisitKey`, `VisitButton`): the callbacks run between them and may poll
and change modes.  `heard` and `owed` are history variables: the last thing the
callbacks said, and whether the documentation of the sticky modes still owes a
press to polling.

### CursorMode

The X server's focus and the queue of focus events are separate from
`cursorMode`: handlers act on the event, `_grwlSetCursorModeX11` on the focus
as it is now.  Positions are `Centre` and others.  `MaxQueue` bounds the queue.
Events of a window that has been destroyed stay in the queue and are dropped
when they are reached (`EventOfDestroyed`), as `processEvent` does when
`XFindContext` finds no window.  A window's name is used again only when no
event of the old one is left, since X does not give out an XID twice.

### EventLoop

`main` is where the main thread is in `waitForAnyEvent`, `waitForX11Event` or
`_grwlPollPOSIX`.  Events are on the connection or in Xlib's `queue`; another
thread's call moves them from one to the other (`stolen`).  `pipe` is the pipe
of empty events, `PipeSize` what it holds; `remaining` is what `_grwlPollPOSIX`
has left after signals and wake-ups in vain.  `TimeoutKept` is about that
subtraction; `PostWakes` and `TimedWaitEnds` are liveness.

### Joysticks, Controllers, Gamepads

In `Joysticks` the call stack is part of the state, since callbacks call GRWL
again.  `node` and `inotify` are the kernel's; `js` are the slots, each with
its queue of events of `QueueSize`, which overflows (`SYN_DROPPED`).  A poll
reads one event per step; a device vanishes between any two.
`SlotsMatchDevices` compares slots with nodes once the notices are handled,
`InputInSync` the reported axis and button with the device's, and
`MappingLives` the pointer into the mapping table with its address.

`Controllers` has `driver`: on Win32 a notice only says that something came or
went, so that XInput's indices are asked for and DirectInput's devices
enumerated; on macOS the run loop says which device it was.  Loops over slots
and elements are steps, and callbacks poll again (`MaxNested`).  `index` is
XInput's numbering, `skipped` the devices that found no slot, or that an
enumeration which stopped early left out.  After a crash (`crash`) nothing
happens; `CrashesAreKnown` says of what it can be.

`Gamepads` has the parsing of elements, the search by GUID with its fallback,
the update of the table, and the state that a gamepad reports from buttons,
axes with scale and offset, and hats.

### Wayland

In `WaylandWindows` the compositor sends what the protocol allows; `win` holds
the fields of a window, `shell` and `mode` how far the configuration is.
`FramebufferFits`, `MappedIsConfigured` and `RequestsFollowMonitor` relate the
fields to each other and to what was asked of the compositor.

In `WaylandSeat` an event is on the `wire`, in the `queue`, or dispatched;
`loop` is where `handleEvents` is.  An object that the library has destroyed is
null in the events that still come.  Timers expire at any time they are armed.
`PressedIsDown` compares the cached keys with `down`, what the compositor has
said in the events dispatched; `LockFollowsMode` and `CursorShown` are about
the window that the pointer is over.

In `WaylandData` each offer is created by the compositor and owned by the list,
by the drag or by the selection (`OffersOwned`).  `read` is the result of the
last call of `grwlGetClipboardString`; `ReadsTheSelection` compares it with what
the compositor had at that time, if no event was on the wire.

### X11Selection, X11Drop

`X11Selection` has several programs that all run this code, and one that does
not (`Foreign`).  `doing` is the wait a program is in, `requests` its queue of
`SelectionRequest`s.  A read converts to `UTF8_STRING`, then `STRING`; the
answer is refused, data, or chunks (`INCR`); `seen` holds, of each selection, what has
been current since the call began; at the end a program pushes its
clipboard to the clipboard manager.  `ReadsWhatWasCurrent` is about what is
read; `ReadEnds` is liveness.

In `X11Drop` drags enter, move, leave and drop while the window's `inbox` still
holds what came before; the window remembers one source.  `FilesWereDropped`
and `DropsAreAnswered` are what a drag's source and the application may expect.

### Preedit

An input method (`im`) holds a composition: characters of the kinds `latin`
(one unit in every encoding) and `rare` (two UTF-16 units, four bytes), blocks,
a focused block and a caret.  Each platform's handler converts it into `pre`,
the fields of `_GRWLpreedit`, with reallocations (`textRoom`, `blockRoom`) that
may fail half-way; `seen` is what the callback was told.  `PreeditIsTold`
compares `seen` with `im`.

### Win32Windows

`foreground` is the system's; `inbox` holds the messages that wait, those of a
destroyed window included, whose handle is not used again meanwhile.  Some are
sent inside calls: `Nested` says what the application calls in the iconify
callback (`InCallback`), and `Late` whether it changes cursor modes while a
message about the focus waits.  `holder` is `monitor->window`.
`CursorFollowsFocus` and `HeldWhileShown` are what must be true when the messages
are handled, `RawFollowsCursor` and `MonitorsCounted` at all times.

### Platform

`Steps` gives for each platform and each library that is loaded later what it
acquires and in which order, and what happens when a step fails; `GrwlTerminate`
releases what the pointers name (`kept`), in the order of the code; `live` is
what is really held.  `NothingStays`, `ReleasedOnce`, `UsedAlive` and
`ReadyIsWhole` compare the two, with the exceptions named there.

## Runs

| run | instance | shows |
|---|---|---|
| `contexts` | 2 threads, 2 windows, 2 user contexts, 2 native APIs, 1 window and 1 user context unreliable | reports are true (`ReportedIsCurrent`) and implement `CurrentContext` (`KeepsPromise`); creation restores (`CreationKeepsContext`) |
| `windows` | on X11 2 windows, 2 monitors, 2 outputs, 2 modes; adapters with 2 and 1 displays, 3 monitor objects, 1 change meanwhile; on Wayland 1 window on 2 outputs with scales 1 and 2 | `NoDanglingMonitor`, `SaverCounted`, `DesktopRestored`, `MonitorsSettled`, `MonitorsListed`, `WindowsAgree` |
| `threads` | 3 threads, 2 records, 2 codes, one failing allocation; 1 awaited kind, 2 events, a pipe of 2, a timeout of 2, 1 signal | `LastErrorOfThread`, `NoRecordLost`, `ErrorsDelivered`, `WaitsKeepTimeout`, `PostWakes`, `TimedWaitEnds` |
| `choices` | lists of 3 of the driver's configurations and 2 modes, 2 changes of the server, 2 lines of mappings and an update, 2 joysticks | `ChosenIsClosest`, `ModesAreChosen`, `MappingFits`, `JoysticksInSync`, `MappingLives` |
| `desktop` | 2 windows, 1 cursor, 2 queued events; 2 windows and 2 monitors on Win32, 1 message under way; 4 back ends | `CursorFollowsMode`, `CursorFollowsFocus`, `MonitorsHeld`, `ContextsFit` |
| `services` | 1 window, 3 offers, 2 sources, 3 events under way; 2 drags of 4 protocol versions; 4 compositions in 5 input methods; 2 initializations on 4 platforms with any one thing missing | `ClipboardIsCurrent`, `DropsAreHonest`, `PreeditIsTold`, `ReleasedInOrder` |
| `selections` | 2 programs, 1 foreign client, 1 selection, 1 chunk | `SelectionsAreTrue`, `ReadEnds` |
| `devices` | 2 keys and 2 buttons; 1 pad and 1 stick for 1 slot, 3 plugs; on Wayland 2 windows with 1 key and 1 pointer, 2 key events and 1 pointer event under way | `KeyPolledAsOwed`, `ButtonPressKept`, `ControllersInSync`, `SeatAgrees` |

Why the bounds are enough.  A conflict over a monitor, a context or the grab
needs two windows.  A race needs two threads, and three make two of them
compete for the mutex while the main thread reads.  A mode is the desktop's or
another; a monitor is polled while another is known.  A queue of two events
holds a `FocusOut` and the `FocusIn` after it; three events on the wire hold an
offer, what it is for, and the next offer.  Of configurations three are
enough for a best so far, one that beats it and one that ties (and the proof
holds for any number); `UintMax` and `Half` are small stand-ins for the widths
of `unsigned` and `int` that the lists reach.  Two devices for one slot make one of them wait, two
joysticks share the flag for dropped events, and a queue of three events
overflows.  Two drags are what one remembered source can confuse.  A nested
poll inside a poll is the shortest recursion, and deeper ones repeat it.  Two
initializations show what the first leaves to the second.

Three runs check statements of the documentation that the code does not keep,
and find counterexamples (PROJECT.json, "findings"):

- `contexts_user` (`CreationKeepsUserContext`): creating a window detaches the
  user context.
- `monitors_left` (`LeftBeforeCallback`): a callback makes a window full screen
  again on the monitor that it leaves because the monitor has gone; the monitor
  callback finds it there, and then the monitor is freed.
- `selections_both` (`ReadEnds`): two programs that read each other's
  selections at the same time wait for each other forever.  `selections`, with
  one selection, shows that this takes two: a program that reads a selection
  does not own it.

Symmetry is declared in `contexts`, `windows` and `services` (whose names are
model values the modules do not tell apart), and in no run with liveness.
Deadlock is checked except where the system does stop: in `threads`, where a
crashed process stops, in `selections`, where programs end, and in the
composite runs, where some behaviours end: a call that is over, a bound that is
reached, a compositor that has failed.

### Fairness

- `threads`, for errors: `WF_vars(Continue(t))`: a thread that is inside a GRWL function
  keeps running.  Weak fairness is enough although threads compete for the
  mutex, because a thread takes it once per record and there are finitely many
  of those before `grwlTerminate`, which waits for every thread.
- `threads`, for waits: `WF_loopVars(L!MainStep)`: the operating system runs the main thread,
  and time passes while it sleeps.  Nothing is assumed of the server, of other
  threads or of signals.
- `selections`: a program that waits takes the answer that has come
  (`WF` of `Receive`, `ReceiveChunk`); the programs process events again and
  again, so requests are handled, although a program that is in a wait of its
  own does not handle them meanwhile (`SF` of `HandleSelectionRequest`,
  `Pushed`); and the other client and the clipboard manager answer (`WF` of
  `ForeignAnswers`, `ForeignSends`, `SF` of `ManagerAsks`).  That a program
  ends before it answers is possible, and `ReadEnds` excepts it.

## Proofs

`tlapm <module>` checks a proof module.  What is proved holds for every value of
the constants that satisfies the `ASSUME`s of the module (null pointers differ
from objects, and the like).

**`Contexts_proof`.**  `ReportedIsCurrent` is not inductive: a bind of a context
that another thread is about to report would break it.  `IInv` adds that a
context a thread reports or has in hand in its call (`Claims`) exists and is
claimed by no other thread, and what is known at each step of a call
(`CallShape`).  `ThreadStep` is the lemma that a step of one thread preserves
this; one lemma per kind of step follows.  From it: `TypeCorrect`,
`ReportIsTrue`, `OneKindOnly`, the refinement `Implements` (initial states and
steps map to those of `CurrentContext`), and `ReportsExclusive`, what
`CurrentContext` is for.

`CreationRestores` is the action property: the end of a creation leaves the
thread with the window context it had.  The restoring bind can fail in the code,
and then the slot is empty; what has to be shown is that it does not.
`Replaces` says of every creation under way that the context to restore is still
the thread's own natively or was given up by this very call, in the same native
API, and `WindowsAreReported` that a window context which a thread has natively
is one it reports or has in hand.  With `Claims` no other thread can have it, so
the native API finds it free.

**`Threads_proof`** has two arguments; `ProgramSteps` splits a step into one of
threads that report errors and one of threads that wait.

- `NoLeak` and `LastError` (`Errors`): the mutex gives that only its holder is
  between reading the list head and storing it, so the head it read is still the
  list; from that no record is lost.  `LastError` needs that records of different
  threads differ and, as an assumption, that only the main thread calls before
  initialization; the model without that assumption has counterexamples, since
  all threads then share one record.
- `WaitsKeepTimeoutAlways` (`EventLoop`): `TimeoutKept` is inductive with the
  types: every way out of `poll()` goes through the one subtraction of
  `_grwlPollPOSIX` (`PollDeducts`), and every other step leaves limit, rest and
  spent time alone (`QuietStep`) or begins a wait.  `SleepsIdle` says that the
  main thread sleeps beside queued events only if another thread has put them
  there; this is why the liveness properties are about the pipe and the timeout.

**`Windows_proof`** has three arguments.

On X11 (`Windows`) none of the properties is inductive alone.  `IInv` has three
parts.  `GraphInv` is the graph: a holder is full screen on what it holds,
no monitor pointer dangles, no two monitors have the same output, and
`DisplayOK`, which ties the record of the desktop to the set of held monitors:
how many there are, that the remembered modes and the remembered screen saver
setting are the user's, and that only an output of a held monitor shows another
mode.  `PollInv` is the progress of `_grwlPollMonitorsX11`: the monitors it has
accounted for are those of the outputs it has looked at, unless an RRNotify is
queued that will make it look again; that is what `MonitorsAreSettled` rests on.
`NotifiedLive` says that queued events are for live windows.  `AcquireOK`,
`ReleaseOK` and `LeaveOK` are the lemmas about the operators: each keeps
`DisplayOK` and changes the holder of one monitor.  The assumption that there
are finitely many monitor objects (`FiniteAssumption`) is what lets them be
counted.

On Wayland (`WindowsAgreeAlways`, `WaylandWindows`) the list of scales of a
window has an entry for exactly the outputs that it is on
(`ScalesOfOutputs`), and its scale is the largest of the list at all times
(`Scaled`): every handler that changes the list updates the scale in the same
step.  `Mapped` says that a visible window has shell objects which are
configured and, if the compositor offers to decide on decorations, that it has
decided; `Follows` that shell objects have been asked for the monitor that the
window has, and that without them nothing has been asked for.  The operators on
the record of a window each keep these (`RecordOK`), and the step lemmas say
which operators a handler applies.

On Win32 and macOS (`MonitorsListedAlways`, `MonitorLists`) the invariant
`ListsInv` is about a stack of calls of any depth, so that its parts speak of
every frame.  `CallsOK` says what a call may rely on when those above it return:
a monitor that is being dropped is still alive and no poll awaits it, and a
window that leaves is still where it was.  `WindowOK` keeps the window on
monitors of the list, `ModesOK` says for which call or window a mode was
changed.  `PollOK` is the progress of the poll: what it has met (`Met`) is shown
now and is there once, and every output that it has passed has been met; when
its frame is gone, everything is met and passed, which is `ListIsShown`.  That
part needs that there is one poll (`nested`), that it was not cut short (`cut`)
and that no change is pending.  A step pops frames, pushes some, or replaces the
last one; the lemmas about each part (`CallsKept`, `WindowKept`, `ModesKept`,
`PollSame` and so on) say what it needs to survive that, and the lemma of each
step cites them.  The list's length is that of a bijection onto what is shown.

**`Devices_proof`** has three arguments.

- `KeyState`: `KeyPolling` needs that a key the callbacks said is pressed is
  cached as pressed; `ButtonPolling` the same for buttons; `FocusLossReleases` an
  invariant on the keys the loop has visited.
- `SeatAgreesAlways` (`WaylandSeat`): what is pressed was said to be, or strayed,
  if the key that the timer repeats was (`RepeatsPressed`).  For that the keyboard
  must not move to another window while the timer is armed.  `FocusFollows` says
  so of all events that are under way: each enters a window only after the one
  before has been left, and the chain begins where the library has the focus and
  ends where the compositor has it, or the keyboard is going and the focus
  stays behind.  Events that lose their window leave the chain intact
  (`FocusOrphans`), and so do a new event (`FocusAppend`) and the dispatch of
  the first (`FocusTail`).  For the pointer, `PointerIsOver` says that the window
  that it is over is the one in which the library has it, with the lock and
  image of its mode, and `EntersAfterDevices` that it enters nothing before it is
  known whether there is a pointer.
- `ControllersInSyncAlways` (`Controllers`): callbacks poll again, to any depth,
  so that the invariant `SlotsInv` is about every call of the stack.  `CallsOK` and
  `ClosingOK` say which call may be above which, and that a slot which is being
  closed is closed by one call; `SlotOK` and `SlotsApart` that a slot in use is of
  one device, or of one index of XInput, that no other slot is of, and that a
  device which is gone has been lost, as the next poll sees.  On Win32, where a
  notice does not say what came or went, `DueOK` has a check of presence come
  for each slot whose device is gone, or has been and is back: one that is under
  way and has not passed the slot, or one that a notice brings, with an arrival
  after it if the device is there.  `ListedOK` has a detection come for each
  device without a slot, or go on to it.  The order of removal and arrival in
  the queue matters: the other order would close the slot of a device that is
  there and never look again.  On macOS `NoticesOK` says that the last notice of a
  device tells whether it is there, and `MatchedOK` that a slot which is not as
  its device is has a notice coming.  `ReportsOK` says that a slot reports what its
  device is at, or a poll in progress has the element still to read; and that,
  on Win32, all polls of a slot have seen the same, without which an outer poll
  would put an old state back.  `FreeOK` is what is left when the program has died.
  Slots, indices, devices and the depth of callbacks are any; the positions of a
  device are the three of the run.

**`Choices_proof`** has three arguments.

- `ChosenCorrect` (`FBConfigs`): `IInv` says, while the filter runs, that the
  kept candidates are in the order of the list, all acceptable, and all there
  are up to the present one (`Sound`, `Ordered`, `CompleteTo`); while the scan
  runs, that the best so far is not beaten by any that was passed and beats all
  before it (`BestOf`).  That the code's comparison, a sequence of `if`s, is the
  lexicographic order of the documentation is `LessIsCloser`; that it is a
  strict order, without which the best so far says nothing about those passed
  earlier, is `LessOrder` and `LessIrreflexive`.
- `MappingFitsAlways` (`Gamepads`): the table holds what lines are parsed to
  (`ElementIs`), a search ends at the first mapping of a GUID (`FindIs`), and
  every slot has what the search finds in the present table, the invariant
  `PadsInv`.  An update is a fold over any number of lines, and the table after
  it is a table by induction (`FoldExists`, `FoldKeeps`).  The induction theorems
  of the library take a predicate, which the provers cannot instantiate;
  `Induction` states the principle for sets instead, from the theorem that `<` is
  well-founded on the natural numbers (`LeastNatural`).
- `MappingLivesAlways` and `JoysticksInSyncAlways` (`Joysticks`).  Callbacks
  call the library again, so everything is about the stack of calls.  `Shape`
  says which call may be below which: initialization below nothing, and the
  handling of a notice below polls of all joysticks only, so that at most one
  joystick is being opened by detection at a time.  `Fit` says that a slot which is
  allocated and not connected is in the hands of exactly one call, which opens
  or closes it, and that a poll finds its joystick connected or freed when it
  goes on; `Slots` that no device is in two slots, and `Filled` that until
  initialization has sorted them the first slots are those in use.
  `SortPermutes` shows that the sort loses and doubles none: the ranks are a
  permutation by the pigeonhole principle.  These parts (`CallsInv`) carry the
  other four.
  `Mapped` gives the mapping: the table moves only in a callback, and a slot that
  the update passes over is the one in such hands (`overtaken`).
  `Heard` says of a slot's queue that it ends with a report, that its last key
  event has the button as it is, and that without one the cached button is right
  or a change was unheard of.  `DropInv` limits what another joystick's
  `SYN_DROPPED` can hide: the slot that the flag stands for is in use and, while
  connected, is the one being polled, with its report still to be read.
  `NoticeInv` ties slots to nodes through inotify's queue: the last notice of a
  device says what its node is (`Told`), an open file is that of a ready node, a
  slot whose device has gone has the deletion queued or is being closed (`Gone`,
  `Stays`), and a ready device without a notice is in a slot (`Unnoticed`).
  The second theorem has the hypothesis `NumDevices <= LastSlot + 1`, as the run
  has: a device that finds no free slot is not tried again when a slot becomes
  free, in the code too, and would stay unopened.  `FreeSlot` turns it into a free slot for each
  device without one.

**`Desktop_proof`** has four arguments.

- `CursorFollowsModeAlways` (`CursorMode`): while focus events wait, the last one
  says where the focus is now (`LastEventIsOfFocus`).  Whatever the handlers of
  earlier events make of the grab, the handler of the last one puts it right.
  The focus of the X server alone would not be enough, since
  `_grwlSetCursorModeX11` asks for it while events about it still wait.
- `MonitorsHeldAlways` (`Win32Windows`): `Holds` says that a full screen window
  that is not iconified holds its monitor, except while it acquires or loses it;
  `Counted` that the count of acquisitions is the cardinality of the set of held
  monitors, which the assumption that there are finitely many lets one count;
  `InProgress` and `HolderIsOnMonitor` say for which windows callbacks run and
  who may hold.  This is why a nested message in the middle of `WM_SIZE` cannot
  release a monitor twice.
- `CursorFollowsFocusAlways` (`Win32Windows`): the messages about the focus that
  wait are a chain from the window that the handled ones left in focus (`Known`)
  to the foreground window (`IsChain`), destroyed windows left out; the cursor and
  raw input are always those of the known window, or free while it is moved
  (`CursorIsOfKnown`, `LoopsAreKnown`).  When nothing waits, the known window is
  the foreground window.  The theorem assumes `~Late`: without it the property
  is false, as "What the models say of the code" has it.
- `ContextsFitAlways` (`ContextCreation`): that a window's context is what its
  configuration yields (`HasItsContext`) and that a user context's window stays
  open (`UserOfOpenWindow`).  What a creation loses is computed from what its
  stages make, which lemmas about the concatenation of stages bound.

**`Selections_proof`.**  `SelectionsAreTrue` needs to know where an answer comes
from.  Every request in a queue is one its author still waits for
(`RequestsAreOut`), no program has two (`OneRequest`), and whoever may answer it
answers with its own text, as an owner that the author has seen, or with text that it has
read itself since a moment after the author began to wait, so that all it may
have read is current for the author too (`MayAnswer`).  The last part is what
makes chains of programs that serve each other right, for any number of them.

**`Services_proof`** has two arguments.  The queues are of any length, so each
part is about every place of the queue and what has come before it.

- `DropsAreHonestAlways` (`X11Drop`): between a source's XdndEnter and its drop
  no other source enters (`DropsFollowEnter`, `OverEnteredLast`), so that the
  window answers to the source that has dropped; files are asked for only when a
  source has dropped (`AskedForDrops`), and what is delivered comes from such a
  request (`DataOfDrops`).  Every drop that is not answered waits itself, or its
  conversion does, or the data (`AnswersCome`); the exceptions are those that
  `DropsAreAnswered` names.
- `ClipboardIsCurrentAlways` (`WaylandData`): each offer is announced once, before
  it is said what it is for, and nothing mentions it later; the last event about
  the selection on the wire tells which it is now (`SelectionComes`), and if
  there is none the client has it (`SelectionHeld`).  The library's own source is
  the compositor's selection, or its cancellation is on the wire, or the
  compositor ignored it (`SourceIsHeld`).  With nothing on the wire the clipboard
  is therefore what was selected last.  `LostApart` and `ListedOnce` give that
  each offer has one owner.

Only model-checked: `VideoModes`, `Preedit` and `Platform`; and all liveness
(`ErrorsDelivered`, `PostWakes`, `TimedWaitEnds`, `ReadEnds`): liveness and `ENABLED`
are out of this prover's reach.  The three modules are, too, as they stand: the
prover has no definitions of `SortSeq` and `SelectSeq`, which `VideoModes` (and with
it `ChoicesTypeOK`) is built on, nor of the folds over sequences, with which
`Preedit` converts text and `Platform` releases what it holds.

## What the models say of the code

Besides the three findings, the models contain what the code does where it
departs from what one would expect.  A property excepts each of these by name
or by a history variable, so that nothing else hides behind it.

- Contexts: a detach looks at `contextSlot` only, so that a user context stays
  current natively.  A creation that fails half-way loses what it has made, in
  each back end something else (`KnownOrphans`).
- Windows on X11: a window that changes monitors around its iconification stays
  iconic and holds the new monitor.
- Errors: a record that cannot be allocated is dereferenced (`crashed`).
- Keys: with sticky mouse buttons, a press is polled twice after a focus loss.
- Cursor on X11: a window that leaves the disabled mode between losing the
  focus and hearing of it keeps the grab; disabling twice overwrites the
  position to restore.  Win32 has the first as well: with `Late = TRUE` in
  place of the run's `FALSE`, TLC finds a state in which the grab is not that of
  the foreground window.
- Event loop: the wait for one kind of event (`waitForX11Event`) takes every
  event in Xlib's queue for a reason to look again; while another kind of event
  is there it does not sleep, and its timeout does not pass.  The liveness
  properties are therefore about the waits for any event.
- Joysticks: a mapping table that moves inside the callback of a joystick that
  is being opened leaves that joystick's pointer behind (`overtaken`); the flag
  for dropped events is shared (`unheard`).  XInput's arrays are freed under a
  poll whose callback polls; opposite directions of a pad meet an assertion; a
  device of macOS without a slot is a null pointer (`crash`).
- Monitors of Win32: the handle that is refreshed is that of
  `_grwl.monitors[i]` where `i` counts `disconnected` (`missed`); a monitor
  that cannot be created ends the poll (`cut`).  macOS may begin a comparison
  inside one (`nested`).  A window that a callback moves while it acquires a
  monitor leaves the mode behind (`stray`), and one that a callback brings back
  to a monitor that goes points to it when it is freed (`back`, `failed`).
- Wayland: a keyboard that goes leaves its repeat timer (`strayed`); a cursor
  set while there is no pointer is not kept (`missed`); a drag over a
  decoration or a destroyed window meets null pointers.
- X11 selections and drops: the answer to a drop goes to the source that
  entered last (`overtaken`); a source without time stamps may get another
  one's files.
- Composed text: offsets of characters of several units (`KnownWrong`), and
  reallocations that fail (`DiesOnlyAsKnown`).
- Initialization: `KnownLeaks`, `KnownAgain` and `KnownBlind` in `Platform`.

## Not modelled

- Time: `grwlGetTime` and `grwlSetTime` are one unsigned subtraction each.
- Cocoa's windows and events: AppKit's run loop orders them, in code that is
  not here.
- Vulkan's and WebGPU's queries: no state changes after loading, which
  `Platform` has.
- `mappings.hpp`, the key tables and the protocol code of Wayland: data.
- Translation of keys, text input outside of composition, candidate windows of
  input methods, the DBus progress indicator.
- Size limits, aspect ratio, DPI, decoration, opacity, titles, icons, gamma
  ramps, positions and work areas: each passes a value on to the system.
- The clipboards of Win32 and Cocoa: single calls of the system.
