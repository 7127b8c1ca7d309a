----------------------------- MODULE Win32Windows -----------------------------
(***************************************************************************)
(* Windows on Win32: who has the focus, whose cursor is disabled or        *)
(* captured, which window holds which monitor, and what the window         *)
(* procedure does while the system's messages are still on their way.      *)
(*                                                                         *)
(* Code: src/src/win32/win32_window.cpp.                                   *)
(*                                                                         *)
(* The system changes the foreground window first and tells the windows    *)
(* later: the messages wait until the application polls (or arrive inside  *)
(* the call that changed it).  It ends a modal loop and the capture of the *)
(* mouse before the window that loses the focus is told so.  Hidden        *)
(* windows are left out, and so is what else a position or a size changes. *)
(***************************************************************************)
EXTENDS Integers, Sequences, FiniteSets

CONSTANTS
    Window, NoWindow,
    Monitor, NoMonitor,
    AutoIconify,     \* windows with the attribute
    RawWindow,       \* windows the application may turn raw motion on for
    Late,            \* cursor modes change while focus messages wait, too
    Nested,          \* calls made inside the iconify callback
    MaxInbox         \* no more focus changes once more messages wait

Win32Assumption ==
    /\ NoWindow \notin Window /\ NoMonitor \notin Monitor /\ IsFiniteSet(Monitor)
    /\ AutoIconify \subseteq Window /\ RawWindow \subseteq Window
    /\ Late \in BOOLEAN /\ Nested \subseteq {"monitor", "show"}
    /\ MaxInbox \in Nat

VARIABLES
    win,         \* [Window -> WindowRecord]
    foreground,  \* GetForegroundWindow; NoWindow: another application's
    inbox,       \* focus messages that wait, oldest first
    sync,        \* they are sent inside a call, not posted
    disabledCursorWindow, capturedCursorWindow,
    rawTarget,   \* window registered for raw input
    holder,      \* [Monitor -> Window \union {NoWindow}]: monitor->window
    acquiredMonitorCount,
    awake,       \* SetThreadExecutionState: the display is required
    changed,     \* monitors whose video mode is changed
    taken,       \* windows whose monitor another window acquired after them
    sizing,      \* the WM_SIZE whose iconify callback runs
    creating     \* full screen window that is not on its monitor yet

cursor == <<disabledCursorWindow, capturedCursorWindow, rawTarget>>
monitors == <<holder, acquiredMonitorCount, awake, changed, taken>>
messages == <<foreground, inbox, sync>>
vars == <<win, messages, cursor, monitors, sizing, creating>>

\* iconified is what GRWL knows, minimized what the system does.  frameAction:
\* activated by a click on a caption button.  loop: moved, sized or in a menu.
Blank == [alive |-> FALSE, monitor |-> NoMonitor, mode |-> "normal",
          rawMouseMotion |-> FALSE, iconified |-> FALSE, minimized |-> FALSE,
          frameAction |-> FALSE, loop |-> FALSE]
WindowRecord ==
    [alive : BOOLEAN, monitor : Monitor \union {NoMonitor},
     mode : {"normal", "disabled", "captured"}, rawMouseMotion : BOOLEAN,
     iconified : BOOLEAN, minimized : BOOLEAN, frameAction : BOOLEAN, loop : BOOLEAN]

NoSizing == [window |-> NoWindow, iconified |-> FALSE]
Message == [type : {"kill", "set"}, window : Window]

TypeOK ==
    /\ win \in [Window -> WindowRecord]
    /\ foreground \in Window \union {NoWindow}
    /\ inbox \in Seq(Message) /\ Len(inbox) <= MaxInbox + 2
    /\ sync \in BOOLEAN
    /\ {disabledCursorWindow, capturedCursorWindow, rawTarget, creating}
         \subseteq Window \union {NoWindow}
    /\ holder \in [Monitor -> Window \union {NoWindow}]
    /\ acquiredMonitorCount \in Int
    /\ awake \in BOOLEAN
    /\ changed \subseteq Monitor
    /\ taken \subseteq Window
    /\ sizing \in [window : Window \union {NoWindow}, iconified : BOOLEAN]

Init ==
    /\ win = [w \in Window |-> Blank]
    /\ foreground = NoWindow /\ inbox = <<>> /\ sync = FALSE
    /\ disabledCursorWindow = NoWindow /\ capturedCursorWindow = NoWindow
    /\ rawTarget = NoWindow
    /\ holder = [m \in Monitor |-> NoWindow]
    /\ acquiredMonitorCount = 0 /\ awake = FALSE /\ changed = {} /\ taken = {}
    /\ sizing = NoSizing
    /\ creating = NoWindow

Alive == {w \in Window : win[w].alive}

\* Between two calls of the application, or in a callback other than iconify.
Idle == sizing = NoSizing /\ creating = NoWindow /\ ~(sync /\ inbox # <<>>)

\* Inside a modal loop of the system, which PollEvents is in.
InLoop == \E w \in Alive : win[w].loop \/ win[w].frameAction

-----------------------------------------------------------------------------
(* The cursor.                                                             *)

CursorIs(disabled, captured, raw) ==
    /\ disabledCursorWindow' = disabled
    /\ capturedCursorWindow' = captured
    /\ rawTarget' = raw

EnableCursor(w) ==
    CursorIs(NoWindow, NoWindow, IF win[w].rawMouseMotion THEN NoWindow ELSE rawTarget)

\* The handlers that give the cursor to a window, by its mode.
GrabCursor(w) ==
    CASE win[w].mode = "disabled" ->
           CursorIs(w, w, IF win[w].rawMouseMotion THEN w ELSE rawTarget)
      [] win[w].mode = "captured" -> CursorIs(disabledCursorWindow, w, rawTarget)
      [] OTHER -> UNCHANGED cursor

\* Fault: a disabled cursor is only released.
FreeCursorHalf(w) ==
    IF win[w].mode = "normal" THEN UNCHANGED cursor
    ELSE CursorIs(disabledCursorWindow, NoWindow, rawTarget)

\* The handlers that take it back.
FreeCursor(w) ==
    CASE win[w].mode = "disabled" -> EnableCursor(w)
      [] win[w].mode = "captured" -> CursorIs(disabledCursorWindow, NoWindow, rawTarget)
      [] OTHER -> UNCHANGED cursor

-----------------------------------------------------------------------------
(* Monitors.                                                               *)

\* Fault: counts every time.
NewlyAcquiredAlways(m) == 1

NewlyAcquired(m) == IF holder[m] = NoWindow THEN 1 ELSE 0

AcquireMonitor(w, m) ==
    LET others == {holder[m]} \ {w, NoWindow} IN
    /\ acquiredMonitorCount' = acquiredMonitorCount + NewlyAcquired(m)
    /\ awake' = (awake \/ acquiredMonitorCount = 0)
    /\ changed' \in {changed, changed \union {m}}     \* or it has the mode
    /\ holder' = [holder EXCEPT ![m] = w]
    /\ taken' = (taken \ {w}) \union others

Release(w, m) ==
    IF holder[m] # w THEN UNCHANGED <<holder, acquiredMonitorCount, awake, changed>>
    ELSE /\ acquiredMonitorCount' = acquiredMonitorCount - 1
         /\ awake' = (acquiredMonitorCount # 1)
         /\ holder' = [holder EXCEPT ![m] = NoWindow]
         /\ changed' = changed \ {m}

ReleaseMonitor(w, m) == Release(w, m) /\ UNCHANGED taken

\* _grwlSetWindowMonitorWin32, for another monitor: release, then acquire.
MoveToMonitor(w, m) ==
    LET old == win[w].monitor
        releases == old # NoMonitor /\ holder[old] = w
        released == IF releases THEN [holder EXCEPT ![old] = NoWindow] ELSE holder
        count == acquiredMonitorCount - (IF releases THEN 1 ELSE 0)
        gains == m # NoMonitor /\ released[m] = NoWindow
    IN /\ win' = [win EXCEPT ![w].monitor = m]
       /\ acquiredMonitorCount' = count + (IF gains THEN 1 ELSE 0)
       /\ awake' = \/ m # NoMonitor
                   \/ IF releases THEN count # 0 ELSE awake
       /\ holder' = [x \in Monitor |-> IF x = m THEN w ELSE released[x]]
       /\ LET kept == IF releases THEN changed \ {old} ELSE changed
          IN changed' \in {kept, kept \union ({m} \ {NoMonitor})}
       /\ taken' = (taken \ {w}) \union
            (IF m = NoMonitor THEN {} ELSE {released[m]} \ {NoWindow})

\* SetWindowMonitor(w, the monitor it has) and SetWindowSize set the video mode
\* again, where the window holds its monitor.
Reacquire(w) ==
    LET m == win[w].monitor IN
    /\ m # NoMonitor /\ holder[m] = w
    /\ AcquireMonitor(w, m)
    /\ UNCHANGED win

-----------------------------------------------------------------------------
(* Messages.                                                               *)

FocusMoves(old, new) ==
    (IF old = NoWindow THEN <<>> ELSE <<[type |-> "kill", window |-> old]>>)
      \o (IF new = NoWindow THEN <<>> ELSE <<[type |-> "set", window |-> new]>>)

Shown == {w \in Alive : ~win[w].minimized}

\* The user, or another application, changes the foreground window.
UserActivates(x) ==
    /\ x \in (Shown \union {NoWindow}) \ {foreground}
    /\ Idle /\ Len(inbox) <= MaxInbox
    /\ foreground' = x
    /\ inbox' = inbox \o FocusMoves(foreground, x)
    /\ sync' = FALSE
    /\ UNCHANGED <<win, cursor, monitors, sizing, creating>>

\* A call, or a message that is dispatched, changes it.
Activate(x) ==
    IF x = foreground THEN UNCHANGED messages ELSE
    /\ Len(inbox) <= MaxInbox
    /\ foreground' = x
    /\ inbox' = inbox \o FocusMoves(foreground, x)
    /\ sync' = TRUE

\* WM_SIZE up to the iconify callback; what the callback does comes between.
SizeBegin(w, iconified) == sizing' = [window |-> w, iconified |-> iconified]

\* Fault: a window that is restored does not take its monitor back.
DiffersOnce(w, iconified) == iconified /\ ~win[w].iconified

Differs(w, iconified) == win[w].iconified # iconified

\* WM_SIZE after the callback.  It uses the iconified of the message.
SizeEnd ==
    LET w == sizing.window IN
    /\ w # NoWindow
    /\ win' = [win EXCEPT ![w].iconified = sizing.iconified]
    /\ IF win[w].monitor = NoMonitor \/ ~Differs(w, sizing.iconified)
       THEN UNCHANGED monitors
       ELSE IF sizing.iconified THEN ReleaseMonitor(w, win[w].monitor)
       ELSE AcquireMonitor(w, win[w].monitor)
    /\ sizing' = NoSizing
    /\ UNCHANGED <<messages, cursor, creating>>

Received ==
    /\ sizing = NoSizing /\ inbox # <<>>
    /\ inbox' = Tail(inbox)
    /\ UNCHANGED <<foreground, sync>>

SetFocus ==
    LET w == Head(inbox).window IN
    /\ Received /\ Head(inbox).type = "set"
    /\ IF win[w].frameAction THEN UNCHANGED cursor ELSE GrabCursor(w)
    /\ UNCHANGED <<win, monitors, sizing, creating>>

\* A full screen window is minimized inside the handler.
KillFocus ==
    LET w == Head(inbox).window
        iconifies == /\ win[w].monitor # NoMonitor /\ w \in AutoIconify
                     /\ ~win[w].minimized
    IN /\ Received /\ Head(inbox).type = "kill"
       /\ ~win[w].loop /\ ~win[w].frameAction
       /\ FreeCursor(w)
       /\ IF iconifies
          THEN win' = [win EXCEPT ![w].minimized = TRUE] /\ SizeBegin(w, TRUE)
          ELSE UNCHANGED <<win, sizing>>
       /\ UNCHANGED <<monitors, creating>>

\* The user activates the window by a click on a caption button: MOUSEACTIVATE.
CaptionClick(w) ==
    /\ Idle /\ inbox = <<>> /\ ~InLoop
    /\ w \in Shown \ {foreground} /\ win[w].monitor = NoMonitor
    /\ win' = [win EXCEPT ![w].frameAction = TRUE]
    /\ Activate(w)
    /\ UNCHANGED <<cursor, monitors, sizing, creating>>

\* The capture of the mouse ends, at the latest before the window hears that it
\* has lost the focus.
CaptureChanged(w) ==
    /\ \/ Idle
       \/ sizing = NoSizing /\ inbox # <<>> /\ Head(inbox) = [type |-> "kill", window |-> w]
    /\ w \in Alive /\ win[w].frameAction /\ ~win[w].loop
    /\ win' = [win EXCEPT ![w].frameAction = FALSE]
    /\ GrabCursor(w)
    /\ UNCHANGED <<messages, monitors, sizing, creating>>

EnterSizeMove(w) ==
    /\ Idle /\ inbox = <<>>
    /\ w \in Shown /\ w = foreground /\ ~win[w].loop
    /\ win' = [win EXCEPT ![w].loop = TRUE]
    /\ IF win[w].frameAction THEN UNCHANGED cursor ELSE FreeCursor(w)
    /\ UNCHANGED <<messages, monitors, sizing, creating>>

ExitSizeMove(w) ==
    /\ Idle /\ w \in Alive /\ win[w].loop
    /\ win' = [win EXCEPT ![w].loop = FALSE]
    /\ IF win[w].frameAction THEN UNCHANGED cursor ELSE GrabCursor(w)
    /\ UNCHANGED <<messages, monitors, sizing, creating>>

-----------------------------------------------------------------------------
(* Calls of the application.                                               *)

SetCursorMode(w, mode) ==
    LET focused == w = foreground
        disabled == disabledCursorWindow = w
        raw == win[w].rawMouseMotion
    IN /\ Idle /\ w \in Alive /\ mode # win[w].mode
       /\ Late \/ inbox = <<>>
       /\ win' = [win EXCEPT ![w].mode = mode]
       /\ IF ~focused THEN UNCHANGED cursor ELSE
          CursorIs(IF mode = "disabled" THEN w
                   ELSE IF disabled THEN NoWindow ELSE disabledCursorWindow,
                   IF mode = "normal" THEN NoWindow ELSE w,
                   IF ~raw THEN rawTarget
                   ELSE IF mode = "disabled" THEN w
                   ELSE IF disabled THEN NoWindow ELSE rawTarget)
       /\ UNCHANGED <<messages, monitors, sizing, creating>>

\* Fault: a window whose cursor is not disabled registers as well.
RawAppliesAlways(w) == TRUE

RawApplies(w) == disabledCursorWindow = w

SetRawMouseMotion(w) ==
    LET raw == ~win[w].rawMouseMotion IN
    /\ Idle /\ w \in Alive \intersect RawWindow
    /\ win' = [win EXCEPT ![w].rawMouseMotion = raw]
    /\ rawTarget' = IF ~RawApplies(w) THEN rawTarget
                    ELSE IF raw THEN w ELSE NoWindow
    /\ UNCHANGED <<messages, disabledCursorWindow, capturedCursorWindow, monitors,
                   sizing, creating>>

\* Inside the iconify callback of w.  A window that is being created has none.
InCallback(w, kind) == sizing.window = w /\ w # creating /\ kind \in Nested

\* Between calls, or inside the iconify callback of the same window.
MayCall(w, kind) == (Idle /\ ~InLoop) \/ InCallback(w, kind)

SetWindowMonitor(w, m) ==
    /\ MayCall(w, "monitor") /\ w \in Alive
    /\ IF m # win[w].monitor THEN MoveToMonitor(w, m) ELSE Reacquire(w)
    /\ UNCHANGED <<messages, cursor, sizing, creating>>

\* The system activates another window, if this one was active.
IconifyWindow(w) ==
    /\ Idle /\ ~InLoop /\ w \in Shown
    /\ win' = [win EXCEPT ![w].minimized = TRUE]
    /\ SizeBegin(w, TRUE)
    /\ IF foreground # w THEN UNCHANGED messages
       ELSE \E x \in (Shown \ {w}) \union {NoWindow} : Activate(x)
    /\ UNCHANGED <<cursor, monitors, creating>>

RestoreWindow(w) ==
    /\ Idle /\ ~InLoop /\ w \in Alive \ Shown
    /\ win' = [win EXCEPT ![w].minimized = FALSE]
    /\ SizeBegin(w, FALSE)
    /\ Activate(w)
    /\ UNCHANGED <<cursor, monitors, creating>>

\* RestoreWindow or IconifyWindow inside the iconify callback: the WM_SIZE it
\* sends finds the field as it was, so it changes nothing.
ShowWindowNested(w) ==
    /\ InCallback(w, "show")
    /\ sizing.iconified = win[w].minimized /\ win[w].iconified # sizing.iconified
    /\ win' = [win EXCEPT ![w].minimized = ~@]
    /\ IF sizing.iconified THEN Activate(w) ELSE UNCHANGED messages
    /\ UNCHANGED <<cursor, monitors, sizing, creating>>

\* SetForegroundWindow does nothing where the system does not let it.
FocusWindow(w) ==
    /\ Idle /\ ~InLoop /\ w \in Shown \ {foreground}
    /\ Activate(w)
    /\ UNCHANGED <<win, cursor, monitors, sizing, creating>>

\* The window is shown and focused before it acquires its monitor.
CreateWindow(w, m) ==
    /\ Idle /\ ~InLoop /\ w \notin Alive
    /\ \A i \in DOMAIN inbox : inbox[i].window # w
    /\ win' = [win EXCEPT ![w] = [Blank EXCEPT !.alive = TRUE, !.monitor = m]]
    /\ Activate(w) \/ UNCHANGED messages
    /\ creating' = IF m = NoMonitor THEN NoWindow ELSE w
    /\ UNCHANGED <<cursor, monitors, sizing>>

CreateEnd ==
    /\ creating # NoWindow /\ sizing = NoSizing /\ ~(sync /\ inbox # <<>>)
    /\ AcquireMonitor(creating, win[creating].monitor)
    /\ creating' = NoWindow
    /\ UNCHANGED <<win, messages, cursor, sizing>>

\* The system activates another one.  What waits for the window reaches no
\* window any more: a handler finds it Blank.
DestroyWindow(w) ==
    /\ Idle /\ ~InLoop /\ w \in Alive
    /\ win' = [win EXCEPT ![w] = Blank]
    /\ IF win[w].monitor = NoMonitor
       THEN UNCHANGED <<holder, acquiredMonitorCount, awake, changed>>
       ELSE Release(w, win[w].monitor)
    /\ taken' = taken \ {w}
    /\ IF disabledCursorWindow = w THEN EnableCursor(w)
       ELSE CursorIs(disabledCursorWindow,
                     IF capturedCursorWindow = w THEN NoWindow ELSE capturedCursorWindow,
                     rawTarget)
    /\ IF foreground # w THEN UNCHANGED messages
       ELSE \E x \in (Shown \ {w}) \union {NoWindow} :
              /\ Len(inbox) <= MaxInbox
              /\ foreground' = x
              /\ inbox' = inbox \o FocusMoves(NoWindow, x)
              /\ sync' = TRUE
    /\ UNCHANGED <<sizing, creating>>

-----------------------------------------------------------------------------

Call ==
    \/ \E w \in Window, mode \in {"normal", "disabled", "captured"} :
         SetCursorMode(w, mode)
    \/ \E w \in Window : SetRawMouseMotion(w)
    \/ \E w \in Window, m \in Monitor \union {NoMonitor} : SetWindowMonitor(w, m)
    \/ \E w \in Window : IconifyWindow(w) \/ RestoreWindow(w) \/ FocusWindow(w)
    \/ \E w \in Window : ShowWindowNested(w)
    \/ \E w \in Window, m \in Monitor \union {NoMonitor} : CreateWindow(w, m)
    \/ CreateEnd
    \/ \E w \in Window : DestroyWindow(w)

System ==
    \/ \E x \in Window \union {NoWindow} : UserActivates(x)
    \/ \E w \in Window : \/ CaptionClick(w) \/ CaptureChanged(w)
                         \/ EnterSizeMove(w) \/ ExitSizeMove(w)
    \/ SetFocus \/ KillFocus \/ SizeEnd

Next == Call \/ System

Spec == Init /\ [][Next]_vars

-----------------------------------------------------------------------------
(* Properties.                                                             *)

Settled == Idle /\ inbox = <<>> /\ ~InLoop

\* When every focus message has been handled and no modal loop runs, the cursor
\* is disabled (or confined) for the foreground window if its mode says so, and
\* for no other: clicks on captions, moves, minimizing, destroying, and focus
\* that moves between the windows leave it nowhere else.
CursorFollowsFocus ==
    LET mode == IF foreground = NoWindow THEN "normal" ELSE win[foreground].mode IN
    Settled =>
      /\ disabledCursorWindow = IF mode = "disabled" THEN foreground ELSE NoWindow
      /\ capturedCursorWindow = IF mode # "normal" THEN foreground ELSE NoWindow

\* Raw input goes to the window whose cursor is disabled if raw motion is on for
\* it, and to no window otherwise, in every state.
RawFollowsCursor ==
    rawTarget = IF /\ disabledCursorWindow # NoWindow
                   /\ win[disabledCursorWindow].rawMouseMotion
                THEN disabledCursorWindow ELSE NoWindow

\* The count of acquired monitors is right, the display is kept awake exactly
\* while it is not zero, a changed video mode is that of a held monitor, and who
\* holds a monitor is a full screen window on it.
MonitorsCounted ==
    LET held == {m \in Monitor : holder[m] # NoWindow} IN
    /\ acquiredMonitorCount = Cardinality(held)
    /\ awake <=> held # {}
    /\ changed \subseteq held
    /\ \A m \in held : /\ holder[m] \in Alive
                       /\ win[holder[m]].monitor = m

\* A full screen window that is shown, and known to be, holds its monitor, unless
\* another window took it.
HeldWhileShown ==
    sizing = NoSizing =>
      \A w \in Alive :
        /\ win[w].monitor # NoMonitor /\ ~win[w].minimized /\ ~win[w].iconified
        /\ w \notin taken \union {creating}
        => holder[win[w].monitor] = w
===============================================================================
