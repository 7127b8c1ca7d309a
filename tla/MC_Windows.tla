------------------------------ MODULE MC_Windows ------------------------------
(* Windows and monitors: on X11 (Windows), with two windows, two outputs and *)
(* two modes; the lists of monitors of Win32 and macOS (MonitorLists); and   *)
(* windows and outputs on Wayland (WaylandWindows).  They share no state: a  *)
(* behaviour is a behaviour of one of them; subject says which.              *)
EXTENDS Windows, TLC

CONSTANTS
    Subject,                                               \* what to check
    System, MonitorObject, MaxChanges, MaxFailures,        \* MonitorLists
    WaylandWindow, WaylandOutput, NoOutput, MaxScale, Size \* WaylandWindows

VARIABLES
    subject,
    system, displays, active, primary, handle, mode, pending, monitor, list, full,
    holds, ready, stack, failed, cut, nested, missed, stray, back, changes, failures,
    env, registry, factor, win, on, null

\* One adapter with two displays, and one with one, which is off at first.
AdapterDisplays == <<2, 1>>

M == INSTANCE MonitorLists
       WITH Displays <- AdapterDisplays, Monitor <- MonitorObject, display <- displays
W == INSTANCE WaylandWindows
       WITH Window <- WaylandWindow, Output <- WaylandOutput,
            output <- registry, failed <- null

ASSUME ListsAssumption == M!MonitorListsAssumption
ASSUME OutputsAssumption == W!WaylandAssumption

Symmetry ==
    Permutations(Window) \union Permutations(Monitor) \union Permutations(Output)

listVars == <<system, displays, active, primary, handle, mode, pending, monitor, list,
              full, holds, ready, stack, failed, cut, nested, missed, stray, back, changes,
              failures>>
waylandVars == <<env, registry, factor, win, on, null>>

\* What is not the subject stays in one of its initial states.
WindowsInit ==
    /\ subject \in Subject
    /\ Init /\ M!Init /\ W!Init
    /\ displays[<<1, 1>>] = "on" /\ displays[<<2, 1>>] = "none"
    /\ subject # "x11" => connected = {} /\ \A m, n \in Monitor : output[m] = output[n]
    /\ subject # "lists" => system = "win32" /\ displays[<<1, 2>>] = "on"
    /\ subject # "wayland" =>
         /\ env = [libdecor |-> FALSE, manager |-> FALSE, viewporter |-> FALSE]
         /\ registry = [o \in WaylandOutput |-> "absent"]

WindowsNext ==
    \/ subject = "x11" /\ Next /\ UNCHANGED <<subject, listVars, waylandVars>>
    \/ subject = "lists" /\ M!Next /\ UNCHANGED <<subject, vars, waylandVars>>
    \/ subject = "wayland" /\ W!Next /\ UNCHANGED <<subject, vars, listVars>>

WindowsSpec ==
    WindowsInit /\ [][WindowsNext]_<<subject, vars, listVars, waylandVars>>

--------------------------------------------------------------------------------
(* The properties of MonitorLists and of WaylandWindows, each with the types of *)
(* its variables.  Those of Windows have their own names.                       *)

\* MonitorLists: the list has what the system shows, and full screen windows are
\* on monitors of it.
MonitorsListed ==
    subject = "lists" => M!TypeOK /\ M!ListIsShown /\ M!FullScreenIsListed

\* MonitorLists: when the callback reports a monitor that has gone, no window is
\* full screen on it.
LeftBeforeCallback == subject = "lists" => M!WindowedBeforeCallback

\* WaylandWindows: framebuffers have the scale of the outputs entered, buffers
\* are attached to configured surfaces, and requests follow the monitor.
WindowsAgree ==
    subject = "wayland" => /\ W!TypeOK /\ W!FramebufferFits
                           /\ W!MappedIsConfigured /\ W!RequestsFollowMonitor
================================================================================
