---------------------------- MODULE MonitorLists ----------------------------
(***************************************************************************)
(* The list of monitors on Win32 and macOS: how it is compared with the    *)
(* displays there are, while a full screen window comes and goes and the   *)
(* comparison starts again inside itself.                                  *)
(*                                                                         *)
(* Code: src/src/win32/win32_monitor.cpp, src/src/mac/cocoa_monitor.m,     *)
(* src/src/monitor.cpp, and the parts of win32_window.cpp and              *)
(* cocoa_window.m that give a window its monitor.                          *)
(*                                                                         *)
(* Win32 enumerates adapters and the displays of each, and changing a      *)
(* video mode may send WM_DISPLAYCHANGE before it returns.  macOS lists    *)
(* displays by unit number (an adapter with one display here), and         *)
(* _grwlSetWindowMonitorCocoa processes events in its middle.              *)
(***************************************************************************)
EXTENDS Naturals, Sequences, FiniteSets

CONSTANTS
    System,       \* subset of {"win32", "cocoa"}
    Displays,     \* how many displays each adapter can have, in a sequence
    Monitor,      \* addresses of monitor objects
    NoMonitor,
    MaxChanges, MaxFailures   \* bounds of the model

MonitorListsAssumption ==
    /\ System \subseteq {"win32", "cocoa"}
    /\ Displays \in Seq(Nat \ {0}) /\ Displays # <<>> /\ NoMonitor \notin Monitor
    /\ MaxChanges \in Nat /\ MaxFailures \in Nat

Adapter == DOMAIN Displays
Display == UNION {{<<a, d>> : d \in 1..Displays[a]} : a \in Adapter}
\* A monitor can also stand for an adapter without displays.
Connector == Display \union (Adapter \X {0})

VARIABLES
    system,            \* the platform
    display, active,   \* state of the displays, and the adapters that are in use
    primary,           \* the adapter of the primary display
    handle,            \* the handle, or displayID, an adapter has by now
    mode,              \* the mode an adapter's displays are in
    pending,           \* a display change that GRWL has not been told of
    monitor,           \* the monitor objects
    list,              \* _grwl.monitors
    full, holds,       \* window->monitor, and whether monitor->window is the window
    ready,             \* the first poll is done, and callbacks can be set
    stack,             \* calls in progress, the last one on top
    failed,            \* a window or a call in progress has a freed monitor, or a call none
    cut, nested,       \* history: the last poll failed to create a monitor, and
                       \* another one ran inside it
    missed,            \* history: monitors whose handle that poll did not look up
    stray,             \* history: a callback gave the window another monitor while
                       \* it was changing the mode of its own
    back,              \* history: a callback gave the window a monitor that was
                       \* being disconnected
    changes, failures  \* bounds

desktop == <<system, display, active, primary, handle, changes>>
window == <<full, holds>>
history == <<cut, nested, missed, stray, back>>
vars == <<desktop, mode, pending, monitor, list, window, ready, stack, failed, history,
          failures>>

Gone == [output |-> <<0, 0>>, handle |-> 0, screen |-> FALSE, modeChanged |-> FALSE]

\* m: the monitor in the hands of the call; old: those a poll has not come across;
\* a, d: where its enumeration is; first: it has inserted nothing for a.
Frame(fn, m) == [fn |-> fn, m |-> m, old |-> <<>>, a |-> 0, d |-> 1, first |-> TRUE]

IsOn(x) == display[x] = "on" /\ (system = "win32" => x[1] \in active)
IsBare(a) == /\ system = "win32" /\ a \in active
             /\ \A d \in 1..Displays[a] : display[<<a, d>>] = "none"
Shown == {x \in Display : IsOn(x)} \union {<<a, 0>> : a \in {b \in Adapter : IsBare(b)}}
Lives(a) == \E x \in Shown : x[1] = a

TypeOK ==
    /\ system \in System
    /\ display \in [Display -> {"none", "idle", "on"}]
    /\ active \subseteq Adapter /\ primary \in Adapter
    /\ handle \in [Adapter -> 0..MaxChanges]
    /\ mode \in [Adapter -> {"desktop", "game"}]
    /\ \A m \in Monitor : /\ DOMAIN monitor[m] = DOMAIN Gone
                          /\ monitor[m] = Gone \/ monitor[m].output \in Connector
    /\ list \in Seq(Monitor)
    /\ full \in Monitor \union {NoMonitor}
    /\ {pending, holds, ready, failed, cut, nested, stray, back} \subseteq BOOLEAN
    /\ missed \subseteq Monitor
    /\ \A i \in DOMAIN stack :
          stack[i].fn \in {"poll", "leave", "left", "set", "acquire", "drop", "free", "app"}
    /\ changes \in 0..MaxChanges /\ failures \in 0..MaxFailures

\* A unit of macOS has one display.
Init ==
    /\ system \in System
    /\ display \in [Display -> {"none", "on"}]
    /\ active = Adapter
    /\ system = "cocoa" => \A x \in Display : x[2] > 1 => display[x] = "none"
    /\ primary = 1
    /\ handle = [a \in Adapter |-> 0]
    /\ mode = [a \in Adapter |-> "desktop"]
    /\ pending = FALSE
    /\ monitor = [m \in Monitor |-> Gone] /\ list = <<>>
    /\ full = NoMonitor /\ holds = FALSE
    /\ ready = FALSE /\ stack = <<Frame("poll", NoMonitor)>>
    /\ failed = FALSE /\ cut = FALSE /\ nested = FALSE /\ missed = {}
    /\ stray = FALSE /\ back = FALSE
    /\ changes = 0 /\ failures = 0

-----------------------------------------------------------------------------
(* The call stack.                                                         *)

Top == stack[Len(stack)]
Below == SubSeq(stack, 1, Len(stack) - 1)
Running(fn) == ~failed /\ stack # <<>> /\ Top.fn = fn
Idle == ~failed /\ stack = <<>>
\* The application; what it does in callbacks of its callbacks is left out.
Calls(fn, frames) == \E i \in DOMAIN frames : frames[i].fn = fn
AppRuns == Idle \/ (Running("app") /\ ~Calls("app", Below))

InApp(frames) == Append(frames, Frame("app", NoMonitor))
Tell(frames) == stack' = IF ready THEN InApp(frames) ELSE frames
\* A message or an event may have a callback, or none.
Messages(frames) ==
    stack' \in IF Calls("app", frames) THEN {frames} ELSE {frames, InApp(frames)}

\* A poll begins, perhaps inside another one.
BeginPoll(frames) ==
    LET inside == Calls("poll", frames) IN
    /\ stack' = Append(frames, Frame("poll", NoMonitor))
    /\ nested' = inside
    /\ cut' = (cut /\ inside)

\* The monitors that calls in progress come back to.
InUse(frames) ==
    UNION {{f.m} \union {f.old[i] : i \in DOMAIN f.old} :
             f \in {frames[j] : j \in {k \in DOMAIN frames :
                       frames[k].fn \in {"poll", "left", "acquire", "drop", "free"}}}}

-----------------------------------------------------------------------------
(* The desktop.                                                            *)

\* Displays come, go, sleep and wake; adapters are switched on and off, and
\* another one becomes the primary; handles change.
Change ==
    /\ ~failed /\ changes < MaxChanges
    /\ changes' = changes + 1 /\ system' = system
    /\ \/ /\ \E x \in Display, state \in {"none", "idle", "on"} :
                /\ system = "cocoa" => x[2] = 1
                /\ state # display[x]
                /\ display' = [display EXCEPT ![x] = state]
          /\ UNCHANGED <<active, primary>>
       \/ /\ system = "win32"
          /\ \E a \in Adapter : active' = IF a \in active THEN active \ {a}
                                          ELSE active \union {a}
          /\ UNCHANGED <<display, primary>>
       \/ /\ system = "win32"
          /\ primary' \in Adapter \ {primary}
          /\ UNCHANGED <<display, active>>
    /\ handle' \in {handle, [a \in Adapter |-> changes + 1]}
    /\ mode' = [a \in Adapter |->
                  IF Lives(a)' /\ (system = "cocoa" => handle'[a] = handle[a])
                  THEN mode[a] ELSE "desktop"]
    /\ pending' = TRUE
    /\ UNCHANGED <<monitor, list, window, ready, stack, failed, history, failures>>

\* helperWindowProc and applicationDidChangeScreenParameters, from the events.
HandleChange ==
    /\ Idle /\ pending
    /\ pending' = FALSE
    /\ BeginPoll(<<>>)
    /\ UNCHANGED <<desktop, mode, monitor, list, window, ready, failed, missed, stray, back,
                   failures>>

-----------------------------------------------------------------------------
(* Polling: the enumeration.                                               *)

OnlyStack(frames) ==
    /\ stack' = frames
    /\ UNCHANGED <<desktop, mode, pending, monitor, list, window, ready, failed, history,
                   failures>>

\* The list is copied; macOS forgets the screens of all monitors.
StartPoll ==
    /\ Running("poll") /\ Top.a = 0
    /\ stack' = Append(Below, [Top EXCEPT !.old = list, !.a = 1])
    /\ monitor' = IF system = "win32" THEN monitor
                  ELSE [m \in Monitor |-> [monitor[m] EXCEPT !.screen = FALSE]]
    /\ UNCHANGED <<desktop, mode, pending, list, window, ready, failed, history, failures>>

Enumerating == Running("poll") /\ Top.a \in Adapter
NextAdapter(f) == [f EXCEPT !.a = @ + 1, !.d = 1, !.first = TRUE]
NextDisplay(f) == IF system = "cocoa" \/ f.d > Displays[f.a] THEN NextAdapter(f)
                  ELSE [f EXCEPT !.d = @ + 1]
\* The output that the poll is at, and whether there is a monitor to be for it.
Here == <<Top.a, IF Top.d > Displays[Top.a] THEN 0 ELSE Top.d>>

\* Monitors go by the names of their displays, or of the adapter if it is bare.
IsFor(m, x) ==
    m # NoMonitor /\ IF x[2] = 0 THEN monitor[m].output[1] = x[1] ELSE monitor[m].output = x
IsKnown(x) == \E i \in DOMAIN Top.old : IsFor(Top.old[i], x)
KnownAt(x) == CHOOSE i \in DOMAIN Top.old :
                /\ IsFor(Top.old[i], x)
                /\ \A j \in 1..(i - 1) : ~IsFor(Top.old[j], x)

PassDisplay ==
    /\ Enumerating /\ Here \notin Shown
    /\ OnlyStack(Append(Below, NextDisplay(Top)))

Seen(i) == Append(Below, NextDisplay([Top EXCEPT !.old[i] = NoMonitor]))

\* Win32 looks up the handle of what is at the same place in the list by now, and
\* none for a bare adapter; macOS finds the screen, and keeps the displayID.
MeetKnown ==
    /\ Enumerating /\ Here \in Shown /\ IsKnown(Here)
    /\ LET i == KnownAt(Here)
           m == Top.old[i]
           looked == IF system = "win32" /\ Here[2] # 0 /\ i \in DOMAIN list
                     THEN {list[i]} ELSE {}
       IN /\ monitor' = [n \in Monitor |->
                 CASE n \in looked /\ Lives(monitor[n].output[1]) ->
                        [monitor[n] EXCEPT !.handle = handle[monitor[n].output[1]]]
                   [] n = m /\ system = "cocoa" -> [monitor[n] EXCEPT !.screen = TRUE]
                   [] OTHER -> monitor[n]]
          /\ missed' = (missed \union {m}) \ looked
          /\ stack' = Seen(i)
    /\ UNCHANGED <<desktop, mode, pending, list, window, ready, failed, cut, nested, stray,
                   back, failures>>

\* A new monitor; that of the primary adapter goes to the front.  Which address it
\* gets does not matter: they are only told apart, and a model in which one is
\* freed while a call still has it ends there (failed).
Unused == {m \in Monitor : monitor[m] = Gone}
MeetNew ==
    /\ Enumerating /\ Here \in Shown /\ ~IsKnown(Here) /\ Unused # {}
    /\ LET m == CHOOSE n \in Unused : TRUE IN
       /\ monitor' = [monitor EXCEPT ![m] =
              [output |-> Here, handle |-> handle[Top.a], screen |-> TRUE,
               modeChanged |-> FALSE]]
       /\ list' = IF system = "win32" /\ Top.a = primary /\ Top.first
                  THEN <<m>> \o list ELSE Append(list, m)
    /\ Tell(Append(Below, NextDisplay([Top EXCEPT !.first = FALSE])))
    /\ UNCHANGED <<desktop, mode, pending, window, ready, failed, history, failures>>

\* No name for it: Win32 gives up the whole poll, macOS only this monitor.
MeetNameless ==
    /\ Enumerating /\ Here \in Shown /\ ~IsKnown(Here) /\ failures < MaxFailures
    /\ failures' = failures + 1
    /\ cut' = TRUE
    /\ stack' = IF system = "win32" THEN Below ELSE Append(Below, NextDisplay(Top))
    /\ ready' = (ready \/ (system = "win32" /\ Below = <<>>))
    /\ UNCHANGED <<desktop, mode, pending, monitor, list, window, failed, nested, missed,
                   stray, back>>

-----------------------------------------------------------------------------
(* Polling: _grwlInputMonitor for what was not come across.                *)

Left == {i \in DOMAIN Top.old : Top.old[i] # NoMonitor}
Ending == Running("poll") /\ Top.a > Len(Displays)

\* Fault: the window of the monitor is not looked for.
DisconnectOnly ==
    /\ Ending /\ Left # {}
    /\ LET i == CHOOSE j \in Left : \A k \in Left : j <= k
       IN OnlyStack(Append(Append(Below, [Top EXCEPT !.old[i] = NoMonitor]),
                           Frame("drop", Top.old[i])))

\* The window on it becomes windowed before anything else.
Disconnect ==
    /\ Ending /\ Left # {}
    /\ LET i == CHOOSE j \in Left : \A k \in Left : j <= k
           m == Top.old[i]
           frames == Append(Append(Below, [Top EXCEPT !.old[i] = NoMonitor]), Frame("drop", m))
       IN OnlyStack(IF full = m THEN Append(frames, Frame("leave", m)) ELSE frames)

\* The first place of m in the list is closed, if there is one.
Without(m) ==
    IF \A i \in DOMAIN list : list[i] # m THEN list
    ELSE LET i == CHOOSE j \in DOMAIN list :
                      list[j] = m /\ \A k \in 1..(j - 1) : list[k] # m
         IN SubSeq(list, 1, i - 1) \o SubSeq(list, i + 1, Len(list))

Drop ==
    /\ Running("drop")
    /\ list' = Without(Top.m)
    /\ Tell(Append(Below, Frame("free", Top.m)))
    /\ UNCHANGED <<desktop, mode, pending, monitor, window, ready, failed, history, failures>>

FreeMonitor ==
    /\ Running("free")
    /\ monitor' = [monitor EXCEPT ![Top.m] = Gone]
    /\ missed' = missed \ {Top.m}
    /\ failed' = (Top.m \in InUse(Below) \union {full})
    /\ stack' = Below
    /\ UNCHANGED <<desktop, mode, pending, list, window, ready, cut, nested, stray, back,
                   failures>>

EndPoll ==
    /\ Ending /\ Left = {}
    /\ ready' = TRUE
    /\ stack' = Below
    /\ UNCHANGED <<desktop, mode, pending, monitor, list, window, failed, history, failures>>

-----------------------------------------------------------------------------
(* A window goes full screen and leaves again.                             *)

\* The mode of a's displays changes: Win32 sends WM_DISPLAYCHANGE, now or later;
\* macOS has an event for it.
SetMode(a, to, frames) ==
    /\ mode' = [mode EXCEPT ![a] = IF Lives(a) THEN to ELSE @]
    /\ \/ /\ system = "win32" /\ Lives(a)
          /\ BeginPoll(frames)
          /\ UNCHANGED pending
       \/ /\ pending' = (pending \/ Lives(a))
          /\ stack' = frames
          /\ UNCHANGED <<nested, cut>>

KeepMode(frames) == stack' = frames /\ UNCHANGED <<mode, pending, nested, cut>>

\* _grwlPollEventsCocoa, where a change may be waiting, or an event with a callback.
ProcessEvents(frames) ==
    \/ Messages(frames) /\ UNCHANGED <<pending, nested, cut>>
    \/ pending /\ pending' = FALSE /\ BeginPoll(frames)

\* grwlSetWindowMonitor with a monitor.
SetWindowMonitor(m) ==
    /\ AppRuns /\ full = NoMonitor /\ \E i \in DOMAIN list : list[i] = m
    /\ full' = m
    /\ stray' = (stray \/ Calls("left", stack) \/ Calls("acquire", stack))
    /\ back' = (back \/ \E i \in DOMAIN stack : stack[i].fn = "drop" /\ stack[i].m = m)
    /\ IF system = "cocoa" THEN ProcessEvents(Append(stack, Frame("set", m))) /\ UNCHANGED mode
       ELSE IF mode[monitor[m].output[1]] = "desktop" /\ Lives(monitor[m].output[1])
       THEN \/ SetMode(monitor[m].output[1], "game", Append(stack, Frame("acquire", m)))
            \/ KeepMode(Append(stack, Frame("set", m)))
       ELSE KeepMode(Append(stack, Frame("set", m)))
    /\ UNCHANGED <<desktop, monitor, list, holds, ready, failed, missed, failures>>

\* The mode of Win32 has changed; the monitor is acquired that the window has now.
Acquire ==
    /\ Running("acquire")
    /\ monitor' = [monitor EXCEPT ![Top.m].modeChanged = TRUE]
    /\ holds' = TRUE
    /\ failed' = (full = NoMonitor)
    /\ stack' = Below
    /\ UNCHANGED <<desktop, mode, pending, list, full, ready, history, failures>>

\* The mode stays, or it is macOS, which changes it now if the window still has
\* its monitor.
CanChange(m) == /\ system = "cocoa" /\ monitor[m].output \in Shown
                /\ monitor[m].handle = handle[monitor[m].output[1]]
Set ==
    /\ Running("set")
    /\ IF full # Top.m THEN KeepMode(Below) /\ UNCHANGED <<monitor, holds>> ELSE
       /\ holds' = TRUE
       /\ \/ KeepMode(Below) /\ UNCHANGED monitor
          \/ /\ CanChange(full) /\ mode[monitor[full].output[1]] = "desktop"
             /\ SetMode(monitor[full].output[1], "game", Below)
             /\ monitor' = [monitor EXCEPT ![full].modeChanged = TRUE]
    /\ UNCHANGED <<desktop, list, full, ready, failed, missed, stray, back, failures>>

\* grwlSetWindowMonitor without one.
LeaveFullScreen ==
    /\ AppRuns /\ full # NoMonitor
    /\ OnlyStack(Append(stack, Frame("leave", full)))

\* releaseMonitor: what the window holds, it releases and its mode is restored.
LeaveWin32 ==
    LET m == Top.m IN
    IF ~holds \/ ~monitor[m].modeChanged
    THEN /\ full' = NoMonitor /\ holds' = FALSE
         /\ Messages(Below) /\ UNCHANGED <<mode, pending, nested, cut, monitor>>
    ELSE /\ holds' = FALSE /\ UNCHANGED <<full, monitor>>
         /\ SetMode(monitor[m].output[1], "desktop", Append(Below, Frame("left", m)))

LeaveCocoa ==
    LET m == Top.m
        a == monitor[m].output[1]
        restores == holds /\ monitor[m].modeChanged
    IN /\ full' = NoMonitor /\ holds' = FALSE
       /\ monitor' = [monitor EXCEPT ![m].modeChanged = @ /\ ~restores]
       /\ mode' = [mode EXCEPT ![a] = IF restores /\ CanChange(m) THEN "desktop" ELSE @]
       /\ \/ /\ Messages(Below)
             /\ pending' = (pending \/ mode' # mode)
             /\ UNCHANGED <<nested, cut>>
          \/ /\ pending \/ mode' # mode
             /\ pending' = FALSE
             /\ BeginPoll(Below)

Leave ==
    /\ Running("leave")
    /\ IF system = "win32" THEN LeaveWin32 ELSE LeaveCocoa
    /\ UNCHANGED <<desktop, list, ready, failed, missed, stray, back, failures>>

\* The mode of Win32 is restored, and the window gets its old place.
HasLeft ==
    /\ Running("left")
    /\ monitor' = [monitor EXCEPT ![Top.m].modeChanged = FALSE]
    /\ full' = NoMonitor /\ holds' = FALSE
    /\ Messages(Below)
    /\ UNCHANGED <<desktop, mode, pending, list, ready, failed, history, failures>>

CallbackReturns ==
    /\ Running("app")
    /\ OnlyStack(Below)

-----------------------------------------------------------------------------
Polling == \/ StartPoll \/ PassDisplay \/ MeetKnown \/ MeetNew \/ MeetNameless
           \/ Disconnect \/ Drop \/ FreeMonitor \/ EndPoll

FullScreen == \/ \E m \in Monitor : SetWindowMonitor(m)
              \/ LeaveFullScreen \/ Acquire \/ Set \/ Leave \/ HasLeft

Next == Change \/ HandleChange \/ Polling \/ FullScreen \/ CallbackReturns

Spec == Init /\ [][Next]_vars

-----------------------------------------------------------------------------
(* Properties.                                                             *)

Listed == {list[i] : i \in DOMAIN list}
Settled == Idle /\ ready /\ ~pending /\ ~cut /\ ~nested

\* Once GRWL knows of every change, the list has a monitor for each output that
\* shows something and for nothing else, the handles are the present ones but for
\* those that the poll missed, and macOS knows every screen; but for polls that
\* were cut short, or that another one ran inside of.
ListIsShown ==
    Settled =>
      /\ Len(list) = Cardinality(Shown)
      /\ \A x \in Shown : \E m \in Listed : IsFor(m, x)
      /\ \A m \in Listed : m \in missed \/ monitor[m].handle = handle[monitor[m].output[1]]
      /\ \A m \in Listed : monitor[m].screen

\* The window is on a monitor of the list whenever the application can see it,
\* unless a callback brought it back to one that goes; and when it is on none every
\* mode is the desktop's, unless a callback interfered.
FullScreenIsListed ==
    /\ AppRuns /\ full # NoMonitor /\ ~back => full \in Listed
    /\ Idle /\ full = NoMonitor /\ ~stray => \A a \in Adapter : mode[a] = "desktop"

\* "If a monitor is disconnected, all windows that are full screen on it will be
\* switched to windowed mode before the callback is called" (docs/monitor.dox:88).
WindowedBeforeCallback ==
    Running("app") /\ Len(stack) > 1 /\ stack[Len(stack) - 1].fn = "free" =>
      full # stack[Len(stack) - 1].m
=============================================================================
