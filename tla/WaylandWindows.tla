---------------------------- MODULE WaylandWindows ----------------------------
(***************************************************************************)
(* Windows and outputs on Wayland: how the outputs of the compositor come  *)
(* and go, what a window asks of the compositor, what the compositor tells *)
(* the window, and the fallback decorations in between.                    *)
(*                                                                         *)
(* Code: src/src/linux/wl_window.cpp, wl_monitor.cpp, wl_init.cpp,         *)
(* src/src/window.cpp, src/src/monitor.cpp.                                *)
(*                                                                         *)
(* One thread runs the calls of the application and the handlers of the    *)
(* compositor's events.  The compositor is free in what it sends; it keeps *)
(* to the protocol: no surface event before the events it concludes, no    *)
(* enter twice, nothing about an object that is destroyed.                 *)
(***************************************************************************)
EXTENDS Naturals, FiniteSets

CONSTANTS
    Window,
    Output,        \* registry names of outputs; a name is not used again
    NoOutput,      \* no monitor: windowed mode
    MaxScale,      \* largest scale factor of an output
    Size           \* sizes an application or the compositor asks for

WaylandAssumption ==
    /\ NoOutput \notin Output
    /\ MaxScale \in Nat \ {0}
    /\ Size \subseteq Nat \ {0, 1}
    /\ \E s \in Size : \A t \in Size : t <= s

Border == 1                 \* width of the fallback decorations
Scale == 1..MaxScale
Undecided == "undecided"    \* decorationMode 0: no configure event yet
Client == "client"
Server == "server"

VARIABLES
    env,       \* the globals the compositor offers
    output,    \* [Output -> OutputState]
    factor,    \* [Output -> Scale]: contentScale of its monitor
    win,       \* [Window -> WindowRecord]
    on,        \* [Window -> SUBSET Output]: entered, and not left
    failed     \* a null monitor was dereferenced: nothing runs any more

vars == <<env, output, factor, win, on, failed>>

\* libdecor: it is loaded; manager: xdg-decoration; viewporter: needed for
\* fallback decorations.
Environment == [libdecor : BOOLEAN, manager : BOOLEAN, viewporter : BOOLEAN]

\* bound: its wl_output has not sent done yet.  connected: in _grwl.monitors.
OutputState == {"absent", "bound", "connected", "removed"}

\* shell: waiting is a libdecor frame without its toplevel.  configured: the
\* compositor has configured the shell objects.  sequence: it is about to.
\* requested: output the compositor was asked to make the window full screen
\* on.  decorations: the window has fallback decorations.  scales: factors in
\* window->wl.scales, 0 for none.  Its aspect ratio, and what only that depends
\* on, is left out.
Blank == [state |-> "none", shell |-> "none", visible |-> FALSE,
          configured |-> FALSE, sequence |-> FALSE, requested |-> NoOutput,
          monitor |-> NoOutput, inhibitor |-> FALSE, decorated |-> FALSE,
          mode |-> Undecided, decorations |-> FALSE,
          maximized |-> FALSE, pendingMaximized |-> FALSE, pendingSize |-> 0, size |-> 0, scale |-> 1, framebuffer |-> 0,
          scales |-> [o \in Output |-> 0]]

MaxSize == CHOOSE s \in Size : \A t \in Size : t <= s

WindowRecord ==
    [state : {"none", "creating", "open"},
     shell : {"none", "waiting", "frame", "xdg"}, visible : BOOLEAN,
     configured : BOOLEAN, sequence : BOOLEAN, requested : Output \union {NoOutput},
     monitor : Output \union {NoOutput}, inhibitor : BOOLEAN, decorated : BOOLEAN,
     mode : {Undecided, Client, Server}, decorations : BOOLEAN,
     maximized : BOOLEAN, pendingMaximized : BOOLEAN,
     pendingSize : 0..MaxSize, size : 0..MaxSize, scale : Scale,
     framebuffer : 0..(MaxSize * MaxScale),
     scales : [Output -> 0..MaxScale]]

TypeOK ==
    /\ env \in Environment
    /\ output \in [Output -> OutputState]
    /\ factor \in [Output -> Scale]
    /\ \A w \in Window : win[w] \in WindowRecord
    /\ \A w \in Window : win[w].state = "none" => win[w] = Blank
    /\ on \in [Window -> SUBSET Output]
    /\ failed \in BOOLEAN

Init ==
    /\ env \in Environment
    /\ output \in [Output -> {"absent", "connected"}]
    /\ factor = [o \in Output |-> 1]
    /\ win = [w \in Window |-> Blank]
    /\ on = [w \in Window |-> {}]
    /\ failed = FALSE

-----------------------------------------------------------------------------
(* What the handlers and calls do to a window.                             *)

Resized(r) == [r EXCEPT !.framebuffer = r.size * r.scale]

\* _grwlUpdateContentScaleWayland.
Rescaled(r) ==
    LET factors == {1} \union {r.scales[o] : o \in Output}
        largest == CHOOSE f \in factors : \A g \in factors : g <= f
    IN IF largest = r.scale THEN r ELSE Resized([r EXCEPT !.scale = largest])

\* Decorations that are there already are not destroyed: nothing refers to them
\* any more.
Decorated(r) == [r EXCEPT !.decorations = @ \/ env.viewporter]

Undecorated(r) == [r EXCEPT !.decorations = FALSE]

SetSize(r, size) ==
    IF r.monitor # NoOutput THEN r ELSE Resized([r EXCEPT !.size = size])

Acquired(r) ==
    Undecorated([r EXCEPT !.requested = IF r.shell = "none" THEN @ ELSE r.monitor,
                          !.inhibitor = TRUE])

\* Fault: the inhibitor is kept.
ReleasedButInhibited(r) ==
    LET q == [r EXCEPT !.requested = NoOutput]
    IN IF r.shell \notin {"waiting", "frame"} /\ r.mode # Server /\ r.decorated
       THEN Decorated(q) ELSE q

Released(r) ==
    LET q == [r EXCEPT !.requested = NoOutput, !.inhibitor = FALSE]
    IN IF r.shell \notin {"waiting", "frame"} /\ r.mode # Server /\ r.decorated
       THEN Decorated(q) ELSE q

\* _grwlSetWindowMonitorWayland.
OnMonitor(r, o, size) ==
    LET released == IF r.monitor # NoOutput THEN Released(r) ELSE r
        moved == [released EXCEPT !.monitor = o]
    IN IF r.monitor = o
       THEN IF o = NoOutput THEN SetSize(r, size) ELSE r
       ELSE IF o # NoOutput THEN Acquired(moved) ELSE SetSize(moved, size)

\* createLibdecorFrame: a full screen window waits for the toplevel.
WithFrame(r) ==
    IF r.monitor = NoOutput
    THEN [r EXCEPT !.shell = "frame", !.inhibitor = FALSE]
    ELSE [r EXCEPT !.shell = "waiting"]

\* createXdgShellObjects.
WithToplevel(r) ==
    LET q == [r EXCEPT !.shell = "xdg", !.requested = r.monitor,
                       !.inhibitor = r.monitor # NoOutput]
    IN IF ~env.manager /\ r.decorated /\ r.monitor = NoOutput
       THEN Decorated(q) ELSE q

\* createShellObjects: libdecor may fail.
ShellObjects(r) ==
    (IF env.libdecor THEN {WithFrame(r)} ELSE {}) \union {WithToplevel(r)}

WithoutShellObjects(r) ==
    [r EXCEPT !.shell = "none", !.configured = FALSE, !.sequence = FALSE,
              !.requested = NoOutput, !.mode = Undecided, !.decorations = FALSE]

-----------------------------------------------------------------------------
(* Outputs.                                                                *)

\* The registry announces a wl_output, and it is bound.
AddOutput(o) ==
    /\ output[o] = "absent"
    /\ output' = [output EXCEPT ![o] = "bound"]
    /\ UNCHANGED <<env, factor, win, on, failed>>

OutputDone(o) ==
    /\ output[o] = "bound"
    /\ output' = [output EXCEPT ![o] = "connected"]
    /\ UNCHANGED <<env, factor, win, on, failed>>

\* Fault: the windows on the output are not told.
OutputScaleOnly(o, f) ==
    /\ output[o] \in {"bound", "connected"}
    /\ factor' = [factor EXCEPT ![o] = f]
    /\ UNCHANGED <<env, output, win, on, failed>>

OutputScale(o, f) ==
    /\ output[o] \in {"bound", "connected"}
    /\ factor' = [factor EXCEPT ![o] = f]
    /\ win' = [w \in Window |->
                 IF win[w].scales[o] = 0 THEN win[w]
                 ELSE Rescaled([win[w] EXCEPT !.scales[o] = f])]
    /\ UNCHANGED <<env, output, on, failed>>

\* The windows that are full screen on it become windowed.  It stays among
\* the scales of those that have not left it.
RemoveOutput(o) ==
    /\ output[o] = "connected"
    /\ output' = [output EXCEPT ![o] = "removed"]
    /\ win' = [w \in Window |->
                 IF win[w].monitor # o THEN win[w]
                 ELSE OnMonitor(win[w], NoOutput, win[w].size)]
    /\ UNCHANGED <<env, factor, on, failed>>

\* The monitor of an output that is removed before its done is never freed.
RemoveBoundOutput(o) ==
    /\ output[o] = "bound"
    /\ output' = [output EXCEPT ![o] = "removed"]
    /\ UNCHANGED <<env, factor, win, on, failed>>

Enter(w, o) ==
    /\ win[w].visible /\ o \notin on[w]
    /\ output[o] \in {"bound", "connected"}
    /\ on' = [on EXCEPT ![w] = @ \union {o}]
    /\ win' = [win EXCEPT ![w] = Rescaled([@ EXCEPT !.scales[o] = factor[o]])]
    /\ UNCHANGED <<env, output, factor, failed>>

\* A leave of an output that is removed is taken never to come.
Leave(w, o) ==
    /\ o \in on[w] /\ output[o] # "removed"
    /\ on' = [on EXCEPT ![w] = @ \ {o}]
    /\ win' = [win EXCEPT ![w] = Rescaled([@ EXCEPT !.scales[o] = 0])]
    /\ UNCHANGED <<env, output, factor, failed>>

-----------------------------------------------------------------------------
(* Configure events.                                                       *)

Change(w, r) ==
    /\ win' = [win EXCEPT ![w] = r]
    /\ UNCHANGED <<env, output, factor, on, failed>>

\* The compositor assigns a size, decorations included, or leaves it (0).
ToplevelConfigure(w, size, maximized) ==
    /\ win[w].shell = "xdg"
    /\ Change(w, [win[w] EXCEPT
          !.sequence = TRUE,
          !.pendingMaximized = maximized,
          !.pendingSize = IF size = 0 THEN win[w].size
                          ELSE IF win[w].decorations /\ size > 2 * Border THEN size - 2 * Border
                          ELSE IF win[w].decorations THEN 0 ELSE size])

DecorationConfigure(w, mode) ==
    /\ win[w].shell = "xdg" /\ env.manager
    /\ LET r == [win[w] EXCEPT !.mode = mode]
       IN Change(w, IF mode # Client THEN Undecorated(r)
                    ELSE IF r.decorated /\ r.monitor = NoOutput THEN Decorated(r)
                    ELSE r)

\* Fault: it does not wait for the decorations' configure.
MapsAtOnce(r) == TRUE

MayMap(r) == ~env.manager \/ r.mode # Undecided

SurfaceConfigure(w) ==
    /\ win[w].shell = "xdg" /\ win[w].sequence
    /\ LET r == win[w]
           q == [r EXCEPT !.sequence = FALSE, !.configured = TRUE,
                          !.maximized = r.pendingMaximized,
                          !.size = r.pendingSize, !.visible = @ \/ MayMap(r)]
       IN Change(w, IF r.pendingSize # r.size THEN Resized(q) ELSE q)

\* libdecor draws its own decorations and assigns the content size (0: none).
FrameConfigure(w, size, maximized) ==
    /\ win[w].shell = "frame"
    /\ LET r == win[w]
           s == IF size = 0 THEN r.size ELSE size
           q == [r EXCEPT !.configured = TRUE, !.maximized = maximized,
                          !.size = s, !.visible = TRUE]
       IN Change(w, IF s # r.size THEN Resized(q) ELSE q)

\* The toplevel of the frame exists; the monitor may have gone in the meantime.
FrameReady(w) ==
    /\ win[w].shell = "waiting"
    /\ IF win[w].monitor = NoOutput
       THEN failed' = TRUE /\ UNCHANGED <<env, output, factor, win, on>>
       ELSE Change(w, [win[w] EXCEPT !.shell = "frame", !.state = "open",
                                     !.requested = win[w].monitor, !.inhibitor = TRUE])

-----------------------------------------------------------------------------
(* The application.                                                        *)

\* A window whose frame waits is inside the call that creates or shows it.
Usable(w) == win[w].state = "open" /\ win[w].shell # "waiting"
Connected == {o \in Output : output[o] = "connected"}

CreateWindow(w, o, size, decorated, visible) ==
    /\ win[w].state = "none" /\ o \in Connected \union {NoOutput}
    /\ \E maximized \in BOOLEAN :
          LET r == [Blank EXCEPT !.state = "open", !.monitor = o, !.size = size,
                                 !.framebuffer = size, !.decorated = decorated,
                                 !.maximized = maximized]
          IN \E q \in IF o # NoOutput \/ visible THEN ShellObjects(r) ELSE {r} :
                Change(w, [q EXCEPT !.state =
                              IF q.shell = "waiting" THEN "creating" ELSE "open"])

ShowWindow(w) ==
    /\ Usable(w) /\ win[w].monitor = NoOutput /\ win[w].shell = "none"
    /\ \E q \in ShellObjects(win[w]) : Change(w, q)

\* A window that the compositor has not configured yet is not hidden.
HideWindow(w) ==
    /\ Usable(w) /\ win[w].monitor = NoOutput /\ win[w].visible
    /\ Change(w, WithoutShellObjects([win[w] EXCEPT !.visible = FALSE]))

SetWindowMonitor(w, o, size) ==
    /\ Usable(w) /\ o \in Connected \union {NoOutput}
    /\ Change(w, OnMonitor(win[w], o, size))

SetWindowSize(w, size) ==
    /\ Usable(w)
    /\ Change(w, SetSize(win[w], size))

\* With xdg-decoration the compositor is asked, and answers with a configure.
SetWindowDecorated(w, enabled) ==
    /\ Usable(w)
    /\ LET r == [win[w] EXCEPT !.decorated = enabled]
       IN Change(w, IF r.monitor # NoOutput \/ r.shell # "xdg" \/ env.manager THEN r
                    ELSE IF enabled THEN Decorated(r) ELSE Undecorated(r))

\* Without shell objects the window only remembers it.
MaximizeWindow(w) ==
    /\ Usable(w) /\ win[w].monitor = NoOutput /\ win[w].shell = "none"
    /\ Change(w, [win[w] EXCEPT !.maximized = TRUE])

RestoreWindow(w) ==
    /\ Usable(w) /\ win[w].monitor = NoOutput
    /\ win[w].maximized /\ win[w].shell = "none"
    /\ Change(w, [win[w] EXCEPT !.maximized = FALSE])

\* Fault: the inhibitor is not destroyed.
DestroyWindowInhibited(w) ==
    /\ Usable(w)
    /\ win' = [win EXCEPT ![w] = [Blank EXCEPT !.inhibitor = win[w].inhibitor]]
    /\ on' = [on EXCEPT ![w] = {}]
    /\ UNCHANGED <<env, output, factor, failed>>

DestroyWindow(w) ==
    /\ Usable(w)
    /\ win' = [win EXCEPT ![w] = Blank]
    /\ on' = [on EXCEPT ![w] = {}]
    /\ UNCHANGED <<env, output, factor, failed>>

-----------------------------------------------------------------------------
Outputs ==
    \E o \in Output :
        \/ AddOutput(o) \/ OutputDone(o) \/ RemoveOutput(o) \/ RemoveBoundOutput(o)
        \/ \E f \in Scale : OutputScale(o, f)
        \/ \E w \in Window : Enter(w, o) \/ Leave(w, o)

Configures ==
    \E w \in Window :
        \/ \E s \in Size \union {0}, m \in BOOLEAN :
              ToplevelConfigure(w, s, m) \/ FrameConfigure(w, s, m)
        \/ \E mode \in {Client, Server} : DecorationConfigure(w, mode)
        \/ SurfaceConfigure(w) \/ FrameReady(w)

Application ==
    \E w \in Window :
        \/ \E o \in Output \union {NoOutput}, s \in Size :
              \/ \E d, v \in BOOLEAN : CreateWindow(w, o, s, d, v)
              \/ SetWindowMonitor(w, o, s)
        \/ \E s \in Size : SetWindowSize(w, s)
        \/ \E d \in BOOLEAN : SetWindowDecorated(w, d)
        \/ ShowWindow(w) \/ HideWindow(w) \/ DestroyWindow(w)
        \/ MaximizeWindow(w) \/ RestoreWindow(w)

Next == ~failed /\ (Outputs \/ Configures \/ Application)

Spec == Init /\ [][Next]_vars

-----------------------------------------------------------------------------
(* Properties.                                                             *)

\* The framebuffer of a window has its size times the largest scale of the
\* outputs it has entered and not left, hidden or not, however the scales of
\* these outputs change, and whoever resizes it.
FramebufferFits ==
    \A w \in Window :
        LET factors == {1} \union {factor[o] : o \in on[w]}
        IN win[w].state # "none" =>
              /\ win[w].scale = CHOOSE f \in factors : \A g \in factors : g <= f
              /\ win[w].framebuffer = win[w].size * win[w].scale

\* A buffer is attached only to a surface whose shell objects exist and have
\* been configured, with the mode of the decorations known if it was asked for.
MappedIsConfigured ==
    \A w \in Window :
        win[w].visible =>
            /\ win[w].shell \in {"frame", "xdg"} /\ win[w].configured
            /\ win[w].shell = "xdg" /\ env.manager => win[w].mode # Undecided

\* What the compositor was asked for follows the monitor of the window, which
\* is always one that exists: the output it shall be full screen on, no idling
\* while it is, and no fallback decorations in the way.
RequestsFollowMonitor ==
    \A w \in Window :
        LET r == win[w]
        IN /\ r.monitor \in Connected \union {NoOutput}
           /\ r.shell \in {"frame", "xdg"} => r.requested = r.monitor
           /\ r.shell # "waiting" => (r.inhibitor <=> r.monitor # NoOutput)
           /\ r.monitor # NoOutput => ~r.decorations

=============================================================================
