------------------------------- MODULE Platform -------------------------------
(* Initialization and termination of a platform, and of the libraries that  *)
(* are loaded when they are first needed.                                   *)
(*                                                                          *)
(* Every init function is a sequence of steps that each acquire something,  *)
(* and most of them can fail: some failures end the initialization, after   *)
(* others it goes on with less.  Every terminate function releases what the *)
(* pointers of _grwl name, in an order that must respect who uses whom.     *)
(* The module keeps the two apart: kept is what _grwl says is there, live   *)
(* what really is.                                                          *)
EXTENDS Integers, SequencesExt

CONSTANTS
    Kind,          \* the platforms that the program may select
    MaxInits,      \* bound: how often the library is initialized
    MaxMissing,    \* bound: things that are missing at once
    MaxUses        \* bound: what happens while the library is initialized

VARIABLES
    kind,          \* _grwl.platform, or "none"
    job,           \* the function that runs, or "off" or "idle"
    at,            \* the next step of it
    live,          \* the bag of what the program holds
    kept,          \* what the pointers of _grwl name
    missing,       \* what was not to be had when it was last wanted
    ready,         \* the APIs whose init function has returned true
    whole,         \* the APIs whose last step has been done
    again,         \* released although it was not held, this time
    blind,         \* used although it was not there, this time
    inits, uses

vars == <<kind, job, at, live, kept, missing, ready, whole, again, blind, inits, uses>>

--------------------------------------------------------------------------------
(* The steps of a function. *)

Step(does, r, fails) ==
    [does |-> does, what |-> r, fails |-> fails, with |-> "", undo |-> <<>>]

Must(r) == Step("get", r, "fatal")        \* acquires r, or the function fails
May(r) == Step("get", r, "tolerated")     \* acquires r, or goes on
Get(r) == Step("get", r, "never")
Check(r) == Step("check", r, "fatal")     \* r is nothing to release
Need(r) == Step("need", r, "fatal")       \* fails if r is not kept
Use(r) == Step("use", r, "never")         \* uses r without asking
Clear(r) == Step("clear", r, "never")     \* says that r is not there
With(r, step) == [step EXCEPT !.with = r] \* is left out if r is not kept
\* Without r it goes on, after a release that tests nothing.
Otherwise(step, r) == [step EXCEPT !.undo = <<r>>]

\* What else the release of r uses.
Uses(r) ==
    CASE r \in {"helper window", "hidden cursor", "IM callback", "input method"} ->
           {"X display"}
      \* Closing the display calls what the OpenGL libraries registered with it.
      [] r = "X display" -> {"libX11"} \union (IF "EGL" \in whole THEN {"libEGL"} ELSE {})
                                       \union (IF "GLX" \in whole THEN {"libGL"} ELSE {})
      [] r \in {"cursor theme", "HiDPI theme"} -> {"libwayland-cursor", "wl display"}
      [] r \in {"xkb context", "xkb state", "keymap", "compose state"} -> {"libxkbcommon"}
      [] r = "libdecor context" -> {"libdecor", "wl display"}
      [] r = "wl display" -> {"libwayland-client", "client entries"}
      [] r \in {"registry", "seat", "compositor", "shm", "wm base", "other globals",
                "cursor surface", "data device", "keyboard", "pointer",
                "data offers", "selection source"} -> {"wl display"}
      [] r = "EGL display" -> {"libEGL"}
                              \union (IF kind = "wayland" THEN {"wl display"} ELSE {})
      [] r = "dbus connection" -> {"libdbus"}
      [] r = "device notification" -> {"message window"}
      [] r = "message window" -> {"user32", "helper class"}
      [] r = "dinput8 api" -> {"dinput8"}
      [] OTHER -> {}

Checks == {"client entries"}

--------------------------------------------------------------------------------
(* What each function acquires, in its order. *)

ConnectX11 == <<Must("libX11"), Check("X entries"), Must("X display")>>

ConnectWayland ==
    <<Must("libwayland-client"), Check("connect entry"), Must("wl display")>>

ConnectSteps == CASE kind = "x11" -> ConnectX11 [] kind = "wayland" -> ConnectWayland
                  [] OTHER -> <<>>

DBusSteps ==
    <<May("libdbus"),
      With("libdbus", Otherwise(May("dbus connection"), "dbus connection")),
      With("dbus connection",
           Otherwise(Step("check", "bus name", "tolerated"), "dbus connection")),
      May("executable name")>>

X11Pipe == <<Must("event pipe"), Check("pipe flags")>>

X11Extensions == <<May("libXxf86vm"), May("libXi"), May("libXrandr")>>

X11MoreExtensions ==
    <<May("libXcursor"), May("libXinerama"), May("libX11-xcb"), May("libXrender"),
      May("libXext")>>

X11Init ==
    DBusSteps \o X11Pipe \o X11Extensions \o X11MoreExtensions
    \o <<Get("helper window"), Get("hidden cursor"), May("IM callback")>>

\* Fault: the descriptors are set only when everything has been loaded.
DescriptorsLate == <<Check("shell"), Clear("repeat timer"), Clear("cursor timer")>>

\* These must be set before anything can fail: until then they say 0.
Descriptors == <<Clear("repeat timer"), Clear("cursor timer")>>

WaylandLibraries ==
    <<Check("client entries"), Must("libwayland-cursor"), Must("libwayland-egl"),
      Must("libxkbcommon")>>

\* A libdecor that lacks an entry point is unloaded and forgotten.
WaylandDecorations ==
    <<May("libdecor"),
      With("libdecor", Otherwise(Step("check", "libdecor entries", "tolerated"), "libdecor"))>>

\* What the compositor announces: registryHandleGlobal.
WaylandGlobals ==
    <<May("compositor"), May("seat"), Get("other globals"), May("shm"), May("wm base")>>

CursorThemeSteps ==
    <<Must("cursor theme"), May("HiDPI theme"), Use("compositor"),
      Get("cursor surface"), May("cursor timer")>>

WaylandInit ==
    DBusSteps \o Descriptors \o WaylandLibraries \o WaylandDecorations
    \o <<Get("registry"), Must("xkb context")>> \o WaylandGlobals
    \o <<With("libdecor", May("libdecor context")), Use("seat"), May("repeat timer"),
         Need("wm base"), Need("shm")>>
    \o CursorThemeSteps \o <<With("seat", Get("data device"))>>

Win32Libraries ==
    <<Check("own handle"), May("ntdll"), Must("user32"), May("dinput8"), May("xinput"),
      May("dwmapi"), May("shcore"), May("ntdll"), May("imm32"), May("uxtheme")>>

Win32Helper ==
    <<Must("helper class"), Must("message window"), May("device notification")>>

Win32Init == Win32Libraries \o Win32Helper

TISSteps ==
    <<Check("HIToolbox"), Check("TIS symbols"), Get("input source"), Get("keyboard layout")>>

CocoaInit ==
    <<Get("helper"), Must("delegate"), Get("keyUp monitor"), Must("event source")>>
    \o TISSteps

\* grwlInit, after the platform: the lock and the thread-local slots.
ThreadSteps == <<Must("errorLock"), Must("errorSlot"), Must("contextSlot"),
                 Must("usercontextSlot")>>

InitSteps ==
    (CASE kind = "x11" -> X11Init [] kind = "wayland" -> WaylandInit
       [] kind = "win32" -> Win32Init [] OTHER -> CocoaInit)
    \o ThreadSteps

\* What is loaded when it is first needed.
Apis == {"EGL", "Vulkan", "joysticks"}
        \union (CASE kind = "x11" -> {"GLX"} [] kind = "win32" -> {"WGL"} [] OTHER -> {})

EGLSteps == <<Must("libEGL"), Check("EGL entries"), Must("EGL display"),
              Check("eglInitialize")>>

GLXSteps == <<Must("libGL"), Check("GLX entries"), Use("X display"), Check("GLX 1.3")>>

WGLSteps == <<Must("opengl32"), Use("message window"), Check("pixel format"),
              Check("dummy context")>>

VulkanSteps == <<Must("Vulkan loader"), Check("vkGetInstanceProcAddr"),
                 Check("instance extensions")>>

JoystickSteps ==
    CASE kind \in {"x11", "wayland"} -> <<May("inotify"), Must("regex")>>
      [] kind = "win32" -> <<With("dinput8", Must("dinput8 api"))>>
      [] OTHER -> <<Get("HID manager"), Check("matching array")>>

Steps(f) ==
    CASE f = "connect" -> ConnectSteps [] f = "init" -> InitSteps
      [] f = "EGL" -> EGLSteps [] f = "GLX" -> GLXSteps [] f = "WGL" -> WGLSteps
      [] f = "Vulkan" -> VulkanSteps [] OTHER -> JoystickSteps

\* Fault: Vulkan is there when its loader is.
ShortcutByHandle(api) ==
    CASE api = "EGL" -> "libEGL" \in kept [] api = "GLX" -> "libGL" \in kept
      [] api = "WGL" -> "opengl32" \in kept [] api = "Vulkan" -> "Vulkan loader" \in kept
      [] OTHER -> api \in whole

\* What makes an init function return true at once.
Shortcut(api) ==
    CASE api = "EGL" -> "libEGL" \in kept [] api = "GLX" -> "libGL" \in kept
      [] api = "WGL" -> "opengl32" \in kept [] OTHER -> api \in whole

--------------------------------------------------------------------------------
(* What each function releases, in its order. *)

\* No pointer names these when their owner has released them ...
StaysNamed == {"Vulkan loader", "inotify", "regex", "dinput8 api", "opengl32"}

\* ... but for them, each release tests and clears the pointer.
Released(s, r) ==
    IF r \notin s.kept THEN s
    ELSE [live  |-> s.live (-) SetToBag({r}),
          kept  |-> IF r \in StaysNamed THEN s.kept ELSE s.kept \ {r},
          again |-> IF BagIn(r, s.live) THEN s.again ELSE s.again \union {r},
          blind |-> s.blind \union
                      {u \in Uses(r) : IF u \in Checks THEN u \in missing ELSE ~BagIn(u, s.live)}]

ReleaseAll(s, list) == FoldLeft(Released, s, list)

EGLClose == <<"EGL display", "libEGL">>

\* The regular expression goes only with the watch.
JoysticksClose ==
    CASE kind \in {"x11", "wayland"} ->
           IF "inotify" \in kept THEN <<"inotify", "regex">> ELSE <<>>
      [] kind = "win32" -> <<"dinput8 api">>
      [] OTHER -> <<"HID manager">>

DBusClose == <<"executable name", "dbus connection", "libdbus">>

\* The OpenGL libraries have registered callbacks with the display: they go after it.
X11Close ==
    <<"helper window", "hidden cursor", "primary string", "clipboard string",
      "layout name", "IM callback", "input method", "X display", "libX11-xcb",
      "libXcursor", "libXrandr", "libXinerama", "libXrender", "libXxf86vm", "libXi">>
    \o EGLClose \o <<"libGL", "libX11", "event pipe">> \o DBusClose

WaylandLibrariesClose ==
    EGLClose
    \o <<"libdecor context", "libdecor", "libwayland-egl", "compose state", "keymap",
         "xkb state", "xkb context", "libxkbcommon", "cursor theme", "HiDPI theme",
         "libwayland-cursor">>

WaylandGlobalsClose ==
    <<"data offers", "cursor surface", "compositor", "shm", "wm base",
      "selection source", "data device", "pointer", "keyboard", "seat",
      "other globals", "registry", "wl display", "repeat timer", "cursor timer",
      "clipboard string", "layout name">>

Win32LibrariesClose ==
    <<"xinput", "dinput8", "user32", "dwmapi", "shcore", "ntdll", "imm32", "uxtheme">>

Win32Close ==
    <<"device notification", "message window", "helper class", "main class",
      "clipboard string", "layout name", "raw input", "opengl32">>
    \o EGLClose \o Win32LibrariesClose

CocoaClose ==
    <<"dock view", "keyboard layout", "input source", "event source", "delegate",
      "helper", "keyUp monitor", "clipboard string", "layout name">> \o EGLClose

\* terminate in init.cpp.
CloseSteps ==
    <<"Vulkan loader">> \o JoysticksClose
    \o (CASE kind = "x11" -> X11Close
          [] kind = "wayland" -> WaylandLibrariesClose \o WaylandGlobalsClose \o DBusClose
          [] kind = "win32" -> Win32Close [] OTHER -> CocoaClose)
    \o <<"usercontextSlot", "contextSlot", "errorSlot", "errorLock">>

\* Fault: a connection that fails leaves its library loaded.
FailureCloseNoLibrary(f) == IF f = "connect" THEN <<>> ELSE EGLClose

\* What a function that fails releases itself.
FailureClose(f) ==
    CASE f = "connect" -> <<"libX11", "libwayland-client">>
      [] f = "EGL" -> EGLClose
      [] f = "Vulkan" -> IF "Vulkan loader" \in kept THEN <<"Vulkan loader">> ELSE <<>>
      [] f = "joysticks" -> JoysticksClose
      [] OTHER -> <<>>

--------------------------------------------------------------------------------

Init ==
    /\ kind = "none" /\ job = "off" /\ at = 1
    /\ live = EmptyBag /\ kept = {} /\ missing = {}
    /\ ready = {} /\ whole = {} /\ again = {} /\ blind = {}
    /\ inits = 0 /\ uses = 0

State == [live |-> live, kept |-> kept, again |-> again, blind |-> blind]

Becomes(s) == live' = s.live /\ kept' = s.kept /\ again' = s.again /\ blind' = s.blind

\* memset and _grwlSelectPlatform.
GrwlInit(k) ==
    /\ job = "off" /\ inits < MaxInits
    /\ kind' = k /\ job' = "connect" /\ at' = 1
    /\ kept' = IF k = "wayland" THEN {"repeat timer", "cursor timer"} ELSE {}
    /\ missing' = {} /\ ready' = {} /\ whole' = {} /\ again' = {} /\ blind' = {}
    /\ inits' = inits + 1 /\ uses' = 0
    /\ UNCHANGED live

Running == job \notin {"off", "idle"} /\ at <= Len(Steps(job))
This == Steps(job)[at]
Applies == This.with \in kept \union {""}
StepOn == at' = at + 1 /\ UNCHANGED <<kind, job, ready, whole, inits, uses>>

Skip == Running /\ ~Applies /\ StepOn /\ UNCHANGED <<live, kept, missing, again, blind>>

\* The step does what it is for.
Succeed ==
    /\ Running /\ Applies
    /\ This.does = "need" => This.what \in kept
    /\ live' = IF This.does = "get" THEN live (+) SetToBag({This.what}) ELSE live
    /\ kept' = CASE This.does = "get" -> kept \union {This.what}
                 [] This.does = "clear" -> kept \ {This.what}
                 [] OTHER -> kept
    /\ blind' = IF This.does = "use" /\ ~BagIn(This.what, live)
                THEN blind \union {This.what} ELSE blind
    /\ missing' = missing \ {This.what}
    /\ StepOn /\ UNCHANGED again

\* The step finds nothing: the pointer is null now.
Fails ==
    /\ Running /\ Applies /\ This.fails # "never"
    /\ IF This.does = "need" THEN This.what \notin kept /\ missing' = missing
       ELSE /\ missing' = missing \union {This.what}
            /\ Cardinality(missing') <= MaxMissing

WithoutIt == IF This.does = "get" THEN [State EXCEPT !.kept = @ \ {This.what}] ELSE State

\* A release that tests nothing.
Untested(s, r) == Released([s EXCEPT !.kept = @ \union {r}], r)

GoOnWithout ==
    /\ Fails /\ This.fails = "tolerated"
    /\ Becomes(FoldLeft(Untested, WithoutIt, This.undo))
    /\ StepOn

\* An API that cannot be loaded releases what it has, or leaves it.
GiveUp ==
    /\ Fails /\ This.fails = "fatal" /\ job # "init"
    /\ Becomes(ReleaseAll(WithoutIt, FailureClose(job)))
    /\ job' = (IF job = "connect" THEN "off" ELSE "idle")
    /\ kind' = (IF job = "connect" THEN "none" ELSE kind)
    /\ UNCHANGED <<at, ready, whole, inits, uses>>

\* Everything is released, and the memory is cleared.
Close(s) ==
    /\ LET end == ReleaseAll(s, CloseSteps)
       IN live' = end.live /\ again' = end.again /\ blind' = end.blind
    /\ kind' = "none" /\ job' = "off" /\ kept' = {} /\ ready' = {} /\ whole' = {}
    /\ UNCHANGED <<at, inits, uses>>

FailInit == Fails /\ This.fails = "fatal" /\ job = "init" /\ Close(WithoutIt)

\* The last step has been done.
Finish ==
    /\ job \notin {"off", "idle"} /\ at > Len(Steps(job)) /\ at' = 1
    /\ job' = (IF job = "connect" THEN "init" ELSE "idle")
    /\ whole' = whole \union ({job} \intersect Apis)
    /\ ready' = ready \union ({job} \intersect Apis)
    /\ UNCHANGED <<kind, live, kept, missing, again, blind, inits, uses>>

Happens == job = "idle" /\ uses < MaxUses /\ uses' = uses + 1

\* A window, a surface, a joystick function: something needs an API.
Load(api) ==
    /\ Happens /\ api \in Apis
    /\ IF Shortcut(api) THEN ready' = ready \union {api} /\ UNCHANGED <<job, at>>
                        ELSE job' = api /\ at' = 1 /\ UNCHANGED ready
    /\ UNCHANGED <<kind, live, kept, missing, whole, again, blind, inits>>

\* What functions and events of the running program acquire, to be released at the end.
Later ==
    CASE kind = "x11" -> {"primary string", "clipboard string", "layout name"}
      [] kind = "wayland" ->
           {"keyboard", "pointer", "data offers", "selection source", "clipboard string",
            "layout name"}
      [] kind = "win32" -> {"main class", "raw input", "clipboard string", "layout name"}
      [] OTHER -> {"dock view", "clipboard string", "layout name"}

Acquire(r) ==
    /\ Happens /\ r \in Later /\ r \notin kept
    /\ live' = live (+) SetToBag({r}) /\ kept' = kept \union {r}
    /\ UNCHANGED <<kind, job, at, missing, ready, whole, again, blind, inits>>

\* inputMethodInstantiateCallback; an input method without the style is closed.
InputMethodComes ==
    /\ Happens /\ "IM callback" \in kept /\ "input method" \notin kept
    /\ live' = live (+) SetToBag({"input method"})
    /\ kept' = kept \union {"input method"}
    /\ UNCHANGED <<kind, job, at, missing, ready, whole, again, blind, inits>>

\* inputMethodDestroyCallback: Xlib frees it.
InputMethodGoes ==
    /\ Happens /\ "input method" \in kept
    /\ live' = live (-) SetToBag({"input method"})
    /\ kept' = kept \ {"input method"}
    /\ UNCHANGED <<kind, job, at, missing, ready, whole, again, blind, inits>>

\* keyboardHandleKeymap: of the last keymap's, the compose state is not released.
KeymapComes(composes) ==
    /\ Happens /\ kind = "wayland" /\ "seat" \in kept
    /\ LET made == {"keymap", "xkb state"} \union (IF composes THEN {"compose state"} ELSE {})
       IN /\ live' = (live (-) SetToBag({"keymap", "xkb state"} \intersect kept))
                      (+) SetToBag(made)
          /\ kept' = kept \union made
    /\ UNCHANGED <<kind, job, at, missing, ready, whole, again, blind, inits>>

GrwlTerminate == job = "idle" /\ Close(State) /\ UNCHANGED missing

Next ==
    \/ \E k \in Kind : GrwlInit(k)
    \/ Skip \/ Succeed \/ GoOnWithout \/ GiveUp \/ FailInit \/ Finish
    \/ \E api \in Apis : Load(api)
    \/ \E r \in Later : Acquire(r)
    \/ \E composes \in BOOLEAN : KeymapComes(composes)
    \/ InputMethodComes \/ InputMethodGoes \/ GrwlTerminate

Spec == Init /\ [][Next]_vars

--------------------------------------------------------------------------------
(* Properties. *)

\* Type correctness.
TypeOK ==
    /\ kind \in Kind \union {"none"}
    /\ job \in {"off", "idle", "connect", "init", "EGL", "GLX", "WGL", "Vulkan", "joysticks"}
    /\ at \in 1..50 /\ IsABag(live)
    /\ ready \subseteq Apis /\ whole \subseteq Apis
    /\ inits \in 0..MaxInits /\ uses \in 0..MaxUses /\ Cardinality(missing) <= MaxMissing

\* What stays for good: x11.xshape.handle and wl.client.handle are never
\* freed, ntdll is loaded twice and freed once, the regular expression is freed
\* only if there is a watch, and a second keymap forgets the compose state.
KnownLeaks == {"libXext", "libwayland-client", "ntdll", "regex", "compose state"}

\* Whatever fails, and wherever: when the library is off, nothing else is held.
NothingStays == job = "off" => BagToSet(live) \subseteq KnownLeaks

\* The pointers that stay after their release: the loader of Vulkan and the
\* watch of the joysticks, when their initialization fails, and a connection to
\* DBus that was never made is released.
KnownAgain == {"Vulkan loader", "inotify", "regex", "dbus connection"}

\* Nothing else is released twice.
ReleasedOnce == again \subseteq KnownAgain

\* The version of the seat is asked for, and a surface made with the compositor,
\* without looking whether there is one, and a client library that lacks an
\* entry is used to disconnect.
KnownBlind == {"seat", "compositor", "client entries"}

\* Nothing else is used when it is not there, or when its library is gone.
UsedAlive == blind \subseteq KnownBlind

\* An API is reported as there only if all of it is, but for GLX and WGL: they
\* say so as soon as their library is loaded, whatever failed after that.
ReadyIsWhole == ready \subseteq whole \union {"GLX", "WGL"}

===============================================================================
