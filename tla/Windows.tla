------------------------------ MODULE Windows ------------------------------
(***************************************************************************)
(* The object graph of GRWL on X11: the windows, the monitors, which       *)
(* window is full screen on which monitor, and what that does to the       *)
(* desktop (video mode of an output, screen saver).                        *)
(*                                                                         *)
(* Shared code: src/src/init.cpp, src/src/window.cpp, src/src/monitor.cpp. *)
(* Platform code: src/src/linux/x11_window.cpp, x11_monitor.cpp.           *)
(*                                                                         *)
(* Everything runs on the main thread.  What interleaves with it is the X  *)
(* server: outputs are plugged and unplugged and the window manager        *)
(* iconifies and restores windows at any moment, also in the middle of     *)
(* _grwlPollMonitorsX11, and the application's monitor callback, which is  *)
(* called from inside that function and may call back into GRWL.           *)
(***************************************************************************)
EXTENDS Naturals, FiniteSets

CONSTANTS
    Window,       \* addresses of _GRWLwindow objects
    Monitor,      \* addresses of _GRWLmonitor objects
    Output,       \* RandR outputs of the X server
    Mode,         \* video modes; every output supports all of them
    DesktopMode,  \* the mode the user runs every output in
    NoWindow, NoMonitor, NoMode   \* the null pointers and RandR's None

ASSUME NullAssumption ==
    /\ NoWindow \notin Window
    /\ NoMonitor \notin Monitor
    /\ NoMode \notin Mode

ASSUME DesktopAssumption == DesktopMode \in Mode

\* There is an object per output, and memory for no more than finitely many.
ASSUME FiniteAssumption == IsFiniteSet(Monitor)

VARIABLES
    initialized,  \* _grwl.initialized
    windows,      \* the list at _grwl.windowListHead
    monitorOf,    \* window->monitor
    videoMode,    \* window->videoMode
    iconified,    \* window->x11.iconified
    monitors,     \* the array _grwl.monitors
    output,       \* monitor->x11.output
    display,      \* what full screen windows change, see DisplayType
    phase,        \* which handler the main thread is in
    unseen,       \* outputs _grwlPollMonitorsX11 has yet to look at
    departed,     \* its array `disconnected', without the null entries
    callback,     \* the monitor the monitor callback is running for
    connected,    \* server: outputs with a monitor plugged in
    rrNotify,     \* server: an RRNotify event is queued
    wmState,      \* server: the WM_STATE property of the window
    wmNotify      \* server: windows with a queued PropertyNotify for WM_STATE

windowVars == <<windows, monitorOf, videoMode, iconified>>
monitorVars == <<monitors, output>>
pollVars == <<phase, unseen, departed, callback>>
serverVars == <<connected, rrNotify, wmState, wmNotify>>
vars == <<initialized, windowVars, monitorVars, display, pollVars, serverVars>>

(***************************************************************************)
(* owner and oldMode are monitor->window and monitor->x11.oldMode; count   *)
(* and saved are _grwl.x11.saver; saver and crtcMode are the server's      *)
(* screen saver setting and the mode each output shows.                    *)
(***************************************************************************)
Saver == {"user", "disabled"}

DisplayType ==
    [owner    : [Monitor -> Window \union {NoWindow}],
     oldMode  : [Monitor -> Mode \union {NoMode}],
     count    : Nat,
     saved    : Saver,
     saver    : Saver,
     crtcMode : [Output -> Mode]]

Phase == {"idle", "outputs", "departures", "terminating"}
WmState == {"normal", "iconic", "withdrawn"}

TypeOK ==
    /\ initialized \in BOOLEAN
    /\ windows \in SUBSET Window
    /\ monitorOf \in [Window -> Monitor \union {NoMonitor}]
    /\ videoMode \in [Window -> Mode]
    /\ iconified \in [Window -> BOOLEAN]
    /\ monitors \in SUBSET Monitor
    /\ output \in [Monitor -> Output]
    /\ display \in DisplayType
    /\ phase \in Phase
    /\ unseen \in SUBSET Output
    /\ departed \in SUBSET Monitor
    /\ callback \in Monitor \union {NoMonitor}
    /\ connected \in SUBSET Output
    /\ rrNotify \in BOOLEAN
    /\ wmState \in [Window -> WmState]
    /\ wmNotify \in SUBSET Window

Init ==
    /\ initialized = FALSE
    /\ windows = {}
    /\ monitorOf = [w \in Window |-> NoMonitor]
    /\ videoMode = [w \in Window |-> DesktopMode]
    /\ iconified = [w \in Window |-> FALSE]
    /\ monitors = {}
    /\ output \in [Monitor -> Output]
    /\ display = [owner    |-> [m \in Monitor |-> NoWindow],
                  oldMode  |-> [m \in Monitor |-> NoMode],
                  count    |-> 0,
                  saved    |-> "user",
                  saver    |-> "user",
                  crtcMode |-> [o \in Output |-> DesktopMode]]
    /\ phase = "idle"
    /\ unseen = {}
    /\ departed = {}
    /\ callback = NoMonitor
    /\ connected \in SUBSET Output
    /\ rrNotify = FALSE
    /\ wmState = [w \in Window |-> "withdrawn"]
    /\ wmNotify = {}

-----------------------------------------------------------------------------
(* The video mode of an output *)

\* Fault: the remembered mode is overwritten by every change of mode.
SetVideoModeForgetting(d, m, best) ==
    IF d.crtcMode[output[m]] = best
      THEN d
      ELSE [d EXCEPT !.oldMode[m] = d.crtcMode[output[m]],
                     !.crtcMode[output[m]] = best]

\* _grwlSetVideoModeX11: the desktop's mode is remembered once.
SetVideoMode(d, m, best) ==
    LET o == output[m]
    IN  IF d.crtcMode[o] = best
          THEN d
          ELSE [d EXCEPT !.oldMode[m] = IF @ = NoMode THEN d.crtcMode[o] ELSE @,
                         !.crtcMode[o] = best]

\* _grwlRestoreVideoModeX11
RestoreVideoMode(d, m) ==
    IF d.oldMode[m] = NoMode
      THEN d
      ELSE [d EXCEPT !.crtcMode[output[m]] = d.oldMode[m],
                     !.oldMode[m] = NoMode]

-----------------------------------------------------------------------------
(* Full screen windows and the screen saver *)

\* Fault: every acquisition is counted, also that of a monitor already held.
AcquireSaverAlways(d, m) ==
    [d EXCEPT !.saved = IF d.count = 0 THEN d.saver ELSE @,
              !.saver = IF d.count = 0 THEN "disabled" ELSE @,
              !.count = @ + 1]

\* acquireMonitor remembers and disables the screen saver for the first
\* acquisition and counts one per monitor, not one per window.
AcquireSaver(d, m) ==
    [d EXCEPT !.saved = IF d.count = 0 THEN d.saver ELSE @,
              !.saver = IF d.count = 0 THEN "disabled" ELSE @,
              !.count = IF d.owner[m] = NoWindow THEN @ + 1 ELSE @]

AcquireMonitor(d, w, m, mode) ==
    [SetVideoMode(AcquireSaver(d, m), m, mode) EXCEPT !.owner[m] = w]

ReleaseSaver(d) ==
    [d EXCEPT !.count = d.count - 1,
              !.saver = IF d.count - 1 = 0 THEN d.saved ELSE @]

\* Fault: a monitor is released by whichever window was made for it.
ReleaseMonitorOfOther(d, w, m) ==
    ReleaseSaver(RestoreVideoMode([d EXCEPT !.owner[m] = NoWindow], m))

\* releaseMonitor does nothing for a window that does not hold the monitor.
ReleaseMonitor(d, w, m) ==
    IF d.owner[m] # w
      THEN d
      ELSE ReleaseSaver(RestoreVideoMode([d EXCEPT !.owner[m] = NoWindow], m))

\* Fault: the monitor is not released.
LeaveMonitorHeld(d, w) == d

\* `if (window->monitor) releaseMonitor(window);'
LeaveMonitor(d, w) ==
    IF monitorOf[w] = NoMonitor THEN d ELSE ReleaseMonitor(d, w, monitorOf[w])

-----------------------------------------------------------------------------
(* The X server and the window manager *)

\* RRNotify is selected for while the display is open.
DisplayOpen == initialized \/ phase # "idle"

PlugOrUnplug(o) ==
    /\ connected' = IF o \in connected THEN connected \ {o}
                                       ELSE connected \union {o}
    /\ rrNotify' = DisplayOpen
    /\ UNCHANGED <<initialized, windowVars, monitorVars, display, pollVars,
                   wmState, wmNotify>>

\* WM_STATE changes to s and a PropertyNotify is queued.
WmChange(w, s) ==
    /\ wmState' = [wmState EXCEPT ![w] = s]
    /\ wmNotify' = wmNotify \union {w}
    /\ UNCHANGED <<connected, rrNotify>>

\* The user, or the window manager on behalf of _grwlIconifyWindowX11 (called
\* by grwlIconifyWindow and by the FocusOut handler of a full screen window).
WmIconify(w) ==
    /\ w \in windows
    /\ wmState[w] = "normal"
    /\ WmChange(w, "iconic")
    /\ UNCHANGED <<initialized, windowVars, monitorVars, display, pollVars>>

WmRestore(w) ==
    /\ w \in windows
    /\ wmState[w] = "iconic"
    /\ WmChange(w, "normal")
    /\ UNCHANGED <<initialized, windowVars, monitorVars, display, pollVars>>

-----------------------------------------------------------------------------
(* Application calls: from the event loop, or from the monitor callback *)

AppRunning ==
    initialized /\ (phase = "idle" \/ callback # NoMonitor)

\* Mapping a window that is not viewable, then waiting for the server.
MapWindow(w) ==
    IF wmState[w] = "normal" THEN UNCHANGED serverVars ELSE WmChange(w, "normal")

\* grwlCreateWindow when the platform part succeeds.  A window that is visible
\* or full screen is mapped.
CreateWindow(w, m, mode, visible) ==
    /\ AppRunning
    /\ w \notin windows
    /\ m \in monitors \union {NoMonitor}
    /\ windows' = windows \union {w}
    /\ monitorOf' = [monitorOf EXCEPT ![w] = m]
    /\ videoMode' = [videoMode EXCEPT ![w] = mode]
    /\ iconified' = [iconified EXCEPT ![w] = FALSE]
    /\ wmState' = [wmState EXCEPT ![w] = IF m # NoMonitor \/ visible
                                           THEN "normal" ELSE "withdrawn"]
    /\ wmNotify' = IF m # NoMonitor \/ visible THEN wmNotify \union {w}
                                               ELSE wmNotify
    /\ display' = IF m = NoMonitor THEN display
                                   ELSE AcquireMonitor(display, w, m, mode)
    /\ UNCHANGED <<initialized, monitorVars, pollVars, connected, rrNotify>>

\* grwlDestroyWindow, also reached when the platform part of grwlCreateWindow
\* fails (before the monitor is acquired).
FreeWindow(w) ==
    /\ w \in windows
    /\ display' = LeaveMonitor(display, w)
    /\ windows' = windows \ {w}
    /\ monitorOf' = [monitorOf EXCEPT ![w] = NoMonitor]
    /\ wmNotify' = wmNotify \ {w}
    /\ UNCHANGED <<initialized, videoMode, iconified, monitorVars, pollVars,
                   connected, rrNotify, wmState>>

DestroyWindow(w) ==
    /\ initialized
    /\ phase = "idle"    \* must not be called from a callback
    /\ FreeWindow(w)

\* grwlSetWindowMonitor
SetWindowMonitor(w, m, mode) ==
    /\ AppRunning
    /\ w \in windows
    /\ m \in monitors \union {NoMonitor}
    /\ videoMode' = [videoMode EXCEPT ![w] = mode]
    /\ monitorOf' = [monitorOf EXCEPT ![w] = m]
    /\ IF m = monitorOf[w]
         THEN /\ display' = IF m # NoMonitor /\ display.owner[m] = w
                              THEN AcquireMonitor(display, w, m, mode)
                              ELSE display
              /\ UNCHANGED serverVars
         ELSE IF m = NoMonitor
           THEN /\ display' = LeaveMonitor(display, w)
                /\ UNCHANGED serverVars
           ELSE /\ display' = AcquireMonitor(LeaveMonitor(display, w), w, m, mode)
                /\ MapWindow(w)
    /\ UNCHANGED <<initialized, windows, iconified, monitorVars, pollVars>>

\* grwlSetWindowSize: a new video mode for a full screen window.
SetWindowSize(w, mode) ==
    /\ AppRunning
    /\ w \in windows
    /\ videoMode' = [videoMode EXCEPT ![w] = mode]
    /\ LET m == monitorOf[w]
       IN  display' = IF m # NoMonitor /\ display.owner[m] = w
                        THEN AcquireMonitor(display, w, m, mode)
                        ELSE display
    /\ UNCHANGED <<initialized, windows, monitorOf, iconified, monitorVars,
                   pollVars, serverVars>>

\* grwlShowWindow, ignored for full screen windows.
ShowWindow(w) ==
    /\ AppRunning
    /\ w \in windows
    /\ monitorOf[w] = NoMonitor
    /\ wmState[w] # "normal"
    /\ WmChange(w, "normal")
    /\ UNCHANGED <<initialized, windowVars, monitorVars, display, pollVars>>

\* grwlHideWindow, ignored for full screen windows.
HideWindow(w) ==
    /\ AppRunning
    /\ w \in windows
    /\ monitorOf[w] = NoMonitor
    /\ wmState[w] # "withdrawn"
    /\ WmChange(w, "withdrawn")
    /\ UNCHANGED <<initialized, windowVars, monitorVars, display, pollVars>>

\* grwlRestoreWindow asks the server, not window->x11.iconified.
RestoreWindow(w) ==
    /\ AppRunning
    /\ WmRestore(w)

-----------------------------------------------------------------------------
(* Events *)

\* PropertyNotify for WM_STATE.  The handler reads the property anew, so it
\* sees the state at this moment and not the one the event was sent for.
HandleWmState(w) ==
    /\ initialized
    /\ phase = "idle"
    /\ w \in wmNotify
    /\ wmNotify' = wmNotify \ {w}
    /\ LET icon == wmState[w] = "iconic"
           m == monitorOf[w]
       IN  IF wmState[w] = "withdrawn" \/ icon = iconified[w]
             THEN UNCHANGED <<iconified, display>>
             ELSE /\ iconified' = [iconified EXCEPT ![w] = icon]
                  /\ display' = IF m = NoMonitor THEN display
                                ELSE IF icon
                                  THEN ReleaseMonitor(display, w, m)
                                  ELSE AcquireMonitor(display, w, m, videoMode[w])
    /\ UNCHANGED <<initialized, windows, monitorOf, videoMode, monitorVars,
                   pollVars, connected, rrNotify, wmState>>

\* RRNotify: _grwlPollMonitorsX11 starts by copying _grwl.monitors.
PollMonitors ==
    /\ initialized
    /\ phase = "idle"
    /\ rrNotify
    /\ rrNotify' = FALSE
    /\ phase' = "outputs"
    /\ unseen' = Output
    /\ departed' = monitors
    /\ UNCHANGED <<initialized, windowVars, monitorVars, display, callback,
                   connected, wmState, wmNotify>>

InPoll(p) == phase = p /\ callback = NoMonitor

\* The callbacks are only there once grwlInit has returned.
InvokeCallback(m) == callback' = IF initialized THEN m ELSE NoMonitor

\* XRRGetOutputInfo reports on the output as it is now.
SkipOutput(o) ==
    /\ InPoll("outputs")
    /\ o \in unseen \ connected
    /\ unseen' = unseen \ {o}
    /\ UNCHANGED <<initialized, windowVars, monitorVars, display, phase,
                   departed, callback, serverVars>>

\* Fault: any monitor is taken for that of the output.
KnownMonitorsAny(o) == departed

\* The monitors of output o that are not yet accounted for.
KnownMonitors(o) == {m \in departed : output[m] = o}

KeepMonitor(o, m) ==
    /\ InPoll("outputs")
    /\ o \in unseen \intersect connected
    /\ m \in KnownMonitors(o)
    /\ unseen' = unseen \ {o}
    /\ departed' = departed \ {m}
    /\ UNCHANGED <<initialized, windowVars, monitorVars, display, phase,
                   callback, serverVars>>

\* _grwlAllocMonitor, then _grwlInputMonitor(GRWL_CONNECTED)
ConnectMonitor(o, m) ==
    /\ InPoll("outputs")
    /\ o \in unseen \intersect connected
    /\ KnownMonitors(o) = {}
    /\ m \in Monitor \ monitors
    /\ unseen' = unseen \ {o}
    /\ monitors' = monitors \union {m}
    /\ output' = [output EXCEPT ![m] = o]
    /\ display' = [display EXCEPT !.owner[m] = NoWindow, !.oldMode[m] = NoMode]
    /\ InvokeCallback(m)
    /\ UNCHANGED <<initialized, windowVars, phase, departed, serverVars>>

OutputsDone ==
    /\ InPoll("outputs")
    /\ unseen = {}
    /\ phase' = "departures"
    /\ UNCHANGED <<initialized, windowVars, monitorVars, display, unseen,
                   departed, callback, serverVars>>

\* Fault: only the window that holds the monitor is made windowed.
WindowsOnHolder(m) == {w \in windows : display.owner[m] = w}

\* _grwlInputMonitor(GRWL_DISCONNECTED): every window that is full screen on
\* the monitor is made windowed, then the monitor leaves the array.
WindowsOn(m) == {w \in windows : monitorOf[w] = m}

DisconnectMonitor(m) ==
    /\ InPoll("departures")
    /\ m \in departed
    /\ LET w == display.owner[m]
       IN  display' = IF w \in WindowsOn(m) THEN ReleaseMonitor(display, w, m)
                                            ELSE display
    /\ monitorOf' = [w \in Window |-> IF w \in WindowsOn(m) THEN NoMonitor
                                                            ELSE monitorOf[w]]
    /\ monitors' = monitors \ {m}
    /\ departed' = departed \ {m}
    /\ InvokeCallback(m)
    /\ UNCHANGED <<initialized, windows, videoMode, iconified, output, phase,
                   unseen, serverVars>>

\* The application returns from the callback; a disconnected monitor is freed.
CallbackReturns ==
    /\ callback # NoMonitor
    /\ callback' = NoMonitor
    /\ UNCHANGED <<initialized, windowVars, monitorVars, display, phase,
                   unseen, departed, serverVars>>

\* The end of the poll, and of grwlInit when it was the one to poll.
PollDone ==
    /\ InPoll("departures")
    /\ departed = {}
    /\ phase' = "idle"
    /\ initialized' = TRUE
    /\ UNCHANGED <<windowVars, monitorVars, display, unseen, departed,
                   callback, serverVars>>

-----------------------------------------------------------------------------
(* grwlInit and grwlTerminate *)

GrwlInit ==
    /\ ~initialized
    /\ phase = "idle"
    /\ phase' = "outputs"
    /\ unseen' = Output
    /\ departed' = {}
    /\ UNCHANGED <<initialized, windowVars, monitorVars, display, callback,
                   serverVars>>

\* grwlInit calls terminate() when something after the poll fails.
InitFails ==
    /\ ~initialized
    /\ InPoll("departures")
    /\ departed = {}
    /\ phase' = "terminating"
    /\ UNCHANGED <<initialized, windowVars, monitorVars, display, unseen,
                   departed, callback, serverVars>>

GrwlTerminate ==
    /\ initialized
    /\ phase = "idle"
    /\ phase' = "terminating"
    /\ UNCHANGED <<initialized, windowVars, monitorVars, display, unseen,
                   departed, callback, serverVars>>

\* The loop `while (_grwl.windowListHead) grwlDestroyWindow(...)'
TerminateWindow(w) ==
    /\ phase = "terminating"
    /\ FreeWindow(w)

\* The monitors are freed, the display is closed, _grwl is zeroed.
TerminateDone ==
    /\ phase = "terminating"
    /\ windows = {}
    /\ phase' = "idle"
    /\ initialized' = FALSE
    /\ monitors' = {}
    /\ display' = [display EXCEPT !.count = 0]
    /\ rrNotify' = FALSE
    /\ UNCHANGED <<windowVars, output, unseen, departed, callback, connected,
                   wmState, wmNotify>>

-----------------------------------------------------------------------------
Server ==
    \/ \E o \in Output : PlugOrUnplug(o)
    \/ \E w \in Window : WmIconify(w) \/ WmRestore(w)

Application ==
    \/ GrwlInit
    \/ GrwlTerminate
    \/ CallbackReturns
    \/ \E w \in Window :
         \/ \E m \in Monitor \union {NoMonitor}, mode \in Mode :
              \/ \E visible \in BOOLEAN : CreateWindow(w, m, mode, visible)
              \/ SetWindowMonitor(w, m, mode)
         \/ \E mode \in Mode : SetWindowSize(w, mode)
         \/ DestroyWindow(w)
         \/ ShowWindow(w)
         \/ HideWindow(w)
         \/ RestoreWindow(w)

Handler ==
    \/ PollMonitors
    \/ \E o \in Output : SkipOutput(o)
    \/ \E o \in Output, m \in Monitor : KeepMonitor(o, m) \/ ConnectMonitor(o, m)
    \/ OutputsDone
    \/ \E m \in Monitor : DisconnectMonitor(m)
    \/ PollDone
    \/ InitFails
    \/ \E w \in Window : HandleWmState(w) \/ TerminateWindow(w)
    \/ TerminateDone

Next == Server \/ Application \/ Handler

Spec == Init /\ [][Next]_vars

-----------------------------------------------------------------------------
(* Safety properties *)

(***************************************************************************)
(* A monitor is held by a live window that is full screen on that very     *)
(* monitor: whichever of windows, monitor events and window manager events *)
(* comes first, monitor->window never points to a freed window or to one   *)
(* that has moved on (acquireMonitor, releaseMonitor, grwlDestroyWindow,   *)
(* grwlSetWindowMonitor, _grwlInputMonitor).                               *)
(***************************************************************************)
HolderIsFullScreen ==
    \A m \in monitors :
        display.owner[m] # NoWindow =>
            display.owner[m] \in windows /\ monitorOf[display.owner[m]] = m

(***************************************************************************)
(* No window is full screen on a monitor that has left _grwl.monitors.  In *)
(* particular "all windows that are full screen on it will be switched to  *)
(* windowed mode before the callback is called" (docs/monitor.dox), even   *)
(* when the callback of one monitor puts windows on another that is about  *)
(* to be reported disconnected (_grwlInputMonitor).                        *)
(***************************************************************************)
NoDanglingMonitor ==
    \A w \in windows : monitorOf[w] \in monitors \union {NoMonitor}

(***************************************************************************)
(* _grwl.x11.saver.count counts the monitors that are held, and the screen *)
(* saver is off exactly while that is not zero, however windows take       *)
(* monitors from each other (acquireMonitor, releaseMonitor).              *)
(***************************************************************************)
HeldMonitors == {m \in monitors : display.owner[m] # NoWindow}

SaverCounted ==
    DisplayOpen =>
        /\ display.count = Cardinality(HeldMonitors)
        /\ display.saver = IF HeldMonitors = {} THEN "user" ELSE "disabled"

(***************************************************************************)
(* An output shows a mode other than the user's only while some window     *)
(* holds its monitor, so the desktop is as it was after the last full      *)
(* screen window, after grwlTerminate and when a monitor is unplugged      *)
(* (_grwlSetVideoModeX11, _grwlRestoreVideoModeX11).                       *)
(***************************************************************************)
DesktopRestored ==
    \A o \in Output :
        display.crtcMode[o] # DesktopMode => \E m \in HeldMonitors : output[m] = o

(***************************************************************************)
(* With no monitor event in the queue or in progress the monitors GRWL     *)
(* reports are those plugged in, one per output: no plug or unplug during  *)
(* _grwlPollMonitorsX11 is missed.                                         *)
(***************************************************************************)
MonitorsSettled ==
    initialized /\ phase = "idle" /\ ~rrNotify =>
        /\ {output[m] : m \in monitors} = connected
        /\ \A m, k \in monitors : output[m] = output[k] => m = k

=============================================================================
