------------------------------ MODULE MC_Desktop ------------------------------
(* The cursor on X11 (CursorMode), focus and full screen on Win32            *)
(* (Win32Windows), and the contexts that windows are created with            *)
(* (ContextCreation).  They share no state: a behaviour is a behaviour of    *)
(* one of them; subject says which.                                          *)
EXTENDS CursorMode

CONSTANTS
    Subject,                                              \* what to check
    Monitor, NoMonitor, AutoIconify, RawWindow, Late, Nested,
    MaxInbox,                                             \* Win32Windows
    Source, User                                          \* ContextCreation

VARIABLES
    subject,
    win, foreground, inbox, sync, win32Disabled, capturedCursorWindow, rawTarget,
    holder, acquiredMonitorCount, awake, changed, taken, sizing, creating,
    source, onX11, has, hint, window, user, current, report

N == INSTANCE Win32Windows WITH disabledCursorWindow <- win32Disabled
C == INSTANCE ContextCreation

ASSUME DesktopAssumption == N!Win32Assumption /\ C!ContextAssumption

win32 == <<win, foreground, inbox, sync, win32Disabled, capturedCursorWindow, rawTarget,
           holder, acquiredMonitorCount, awake, changed, taken, sizing, creating>>
contexts == <<source, onX11, has, hint, window, user, current, report>>

DesktopInit ==
    /\ subject \in Subject
    /\ Init /\ N!Init /\ C!Init
    /\ subject # "contexts" => source = "glx" /\ has = {}

DesktopNext ==
    \/ subject = "cursor" /\ Next /\ UNCHANGED <<subject, win32, contexts>>
    \/ subject = "win32" /\ N!Next /\ UNCHANGED <<subject, vars, contexts>>
    \/ subject = "contexts" /\ C!Next /\ UNCHANGED <<subject, vars, win32>>

DesktopSpec == DesktopInit /\ [][DesktopNext]_<<subject, vars, win32, contexts>>

--------------------------------------------------------------------------------
(* The properties of the modules, each with the types of its variables. *)

\* CursorMode: the disabled window lives and, with the focus, has the pointer,
\* and the image of the cursor is what its mode says.
CursorFollowsMode ==
    subject = "cursor" =>
      TypeOK /\ DisabledWindowLives /\ FocusedDisabledIsGrabbed /\ CursorShown

\* Win32Windows: the cursor and raw motion are those of the foreground window.
CursorFollowsFocus ==
    subject = "win32" => N!TypeOK /\ N!CursorFollowsFocus /\ N!RawFollowsCursor

\* Win32Windows: monitors are counted, and held by the windows that cover them.
MonitorsHeld == subject = "win32" => N!MonitorsCounted /\ N!HeldWhileShown

\* ContextCreation: what a failed creation leaves behind is known, and a user
\* context is one that its window's can share with.
ContextsFit ==
    subject = "contexts" => C!TypeOK /\ C!OrphansAreKnown /\ C!UserContextFits
================================================================================
