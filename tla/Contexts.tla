------------------------------ MODULE Contexts ------------------------------
(***************************************************************************)
(* Which OpenGL context is current on which thread: src/src/context.cpp    *)
(* with the GLX and EGL back ends (src/src/linux/glx_context.cpp,          *)
(* src/src/egl_context.cpp) and the parts of window creation and           *)
(* destruction that change it (src/src/window.cpp).                        *)
(*                                                                         *)
(* GRWL keeps two thread-local slots, one for the window whose context is  *)
(* current and one for the current user context.  The native API keeps the *)
(* truth.  A GRWL call consists of up to two native calls; the threads     *)
(* interleave between them.                                                *)
(***************************************************************************)
EXTENDS FiniteSets

CONSTANTS
    Thread,
    Main,           \* the main thread
    Window,         \* windows that have a context
    UserContext,
    Source,         \* native APIs (window->context.source): GLX, EGL
    NoContext,      \* the null pointer, and the native `no context'
    NoSource,
    Unreliable      \* contexts that glXMakeCurrent and eglMakeCurrent may
                    \* fail to bind although they are free

Context == Window \union UserContext

ASSUME ThreadAssumption == Main \in Thread
ASSUME ContextAssumption ==
    /\ Window \intersect UserContext = {}
    /\ NoContext \notin Context
ASSUME SourceAssumption == NoSource \notin Source
ASSUME BindAssumption == Unreliable \subseteq Context

VARIABLES
    live,             \* contexts that exist
    source,           \* the native API of a context
    parent,           \* usercontext->window
    contextSlot,      \* _grwl.contextSlot, per thread
    usercontextSlot,  \* _grwl.usercontextSlot, per thread
    native,           \* the native API's current context, per thread
    call              \* the rest of the GRWL call a thread is in

slots == <<contextSlot, usercontextSlot>>
objects == <<live, source, parent>>
vars == <<objects, slots, native, call>>

(***************************************************************************)
(* step is what the thread does next: bind call.ctx; or in grwlCreate-     *)
(* Window make the new call.ctx current ("refresh", "probe") and then the  *)
(* previous call.back ("restore", "rebind").  call.user, the user context  *)
(* that was current before the creation, is history.                       *)
(***************************************************************************)
Step == {"idle", "bind", "destroy", "refresh", "probe", "restore", "rebind"}

CallType == [step : Step,
             ctx  : Context \union {NoContext},
             back : Window \union {NoContext},
             user : UserContext \union {NoContext}]

Call(step, c) ==
    [step |-> step, ctx |-> c, back |-> NoContext, user |-> NoContext]

Idle == Call("idle", NoContext)

TypeOK ==
    /\ live \in SUBSET Context
    /\ source \in [Context -> Source]
    /\ parent \in [UserContext -> Window]
    /\ contextSlot \in [Thread -> Window \union {NoContext}]
    /\ usercontextSlot \in [Thread -> UserContext \union {NoContext}]
    /\ native \in [Thread -> [Source -> Context \union {NoContext}]]
    /\ call \in [Thread -> CallType]

Init ==
    /\ live = {}
    /\ source \in [Context -> Source]
    /\ parent \in [UserContext -> Window]
    /\ contextSlot = [t \in Thread |-> NoContext]
    /\ usercontextSlot = [t \in Thread |-> NoContext]
    /\ native = [t \in Thread |-> [s \in Source |-> NoContext]]
    /\ call = [t \in Thread |-> Idle]

-----------------------------------------------------------------------------
(* The two halves of grwlMakeContextCurrent *)

SourceOf(c) == IF c = NoContext THEN NoSource ELSE source[c]

\* Fault: the window that was detached is still reported.
ClearNativeOnly(t, s) ==
    LET previous == contextSlot[t]
    IN  /\ usercontextSlot' = [usercontextSlot EXCEPT ![t] = NoContext]
        /\ native' = IF previous # NoContext /\ source[previous] # s
                       THEN [native EXCEPT ![t][source[previous]] = NoContext]
                       ELSE native
        /\ UNCHANGED contextSlot

\* Fault: the user context slot keeps its value.
ClearWindowOnly(t, s) ==
    LET previous == contextSlot[t]
    IN  /\ IF previous # NoContext /\ source[previous] # s
             THEN /\ native' = [native EXCEPT ![t][source[previous]] = NoContext]
                  /\ contextSlot' = [contextSlot EXCEPT ![t] = NoContext]
             ELSE UNCHANGED <<native, contextSlot>>
        /\ UNCHANGED usercontextSlot

(***************************************************************************)
(* Clear the user context slot; detach the window whose context is current *)
(* unless the next context (of source s) replaces it in the same native    *)
(* API.  A user context that is current is not detached here.              *)
(***************************************************************************)
Clear(t, s) ==
    LET previous == contextSlot[t]
    IN  /\ usercontextSlot' = [usercontextSlot EXCEPT ![t] = NoContext]
        /\ IF previous # NoContext /\ source[previous] # s
             THEN /\ native' = [native EXCEPT ![t][source[previous]] = NoContext]
                  /\ contextSlot' = [contextSlot EXCEPT ![t] = NoContext]
             ELSE UNCHANGED <<native, contextSlot>>

\* The native API refuses a context that is current on another thread.
FreeElsewhere(t, c) ==
    \A o \in Thread \ {t} : native[o][source[c]] # c

\* Fault: a user context is stored in the slot for windows.
BindInWindowSlot(t, c) ==
    /\ FreeElsewhere(t, c)
    /\ native' = [native EXCEPT ![t][source[c]] = c]
    /\ contextSlot' = [contextSlot EXCEPT ![t] = c]
    /\ UNCHANGED usercontextSlot

\* makeContextCurrentGLX/EGL and _grwlMakeUserContextCurrentGLX/EGL
Bind(t, c) ==
    /\ FreeElsewhere(t, c)
    /\ native' = [native EXCEPT ![t][source[c]] = c]
    /\ IF c \in Window
         THEN /\ contextSlot' = [contextSlot EXCEPT ![t] = c]
              /\ UNCHANGED usercontextSlot
         ELSE /\ usercontextSlot' = [usercontextSlot EXCEPT ![t] = c]
              /\ UNCHANGED contextSlot

BindFails(t, c) ==
    /\ c \in Unreliable \/ ~FreeElsewhere(t, c)
    /\ usercontextSlot' = IF c \in Window
                            THEN usercontextSlot
                            ELSE [usercontextSlot EXCEPT ![t] = NoContext]
    /\ UNCHANGED <<native, contextSlot>>

TryBind(t, c) == Bind(t, c) \/ BindFails(t, c)

-----------------------------------------------------------------------------
(* What the documentation asks of the application *)

\* "When moving a context between threads, you must make it non-current on
\* the old thread before making it current on the new one."
NotInUseElsewhere(t, c) ==
    \A o \in Thread \ {t} :
        /\ c \notin {contextSlot[o], usercontextSlot[o]}
        /\ c \notin {call[o].ctx, call[o].back}

Usable(t, c) ==
    /\ call[t] = Idle
    /\ c \in live
    /\ NotInUseElsewhere(t, c)

-----------------------------------------------------------------------------
(* API calls *)

\* grwlMakeContextCurrent(window)
MakeContextCurrent(t, w) ==
    /\ Usable(t, w)
    /\ Clear(t, source[w])
    /\ call' = [call EXCEPT ![t] = Call("bind", w)]
    /\ UNCHANGED objects

\* grwlMakeContextCurrent(nullptr) and grwlMakeUserContextCurrent(nullptr)
DetachContext(t) ==
    /\ call[t] = Idle
    /\ Clear(t, NoSource)
    /\ UNCHANGED <<objects, call>>

\* grwlMakeContextCurrent on a window without a context: the slot is cleared
\* before the error is reported.
MakeNoContextCurrent(t) ==
    /\ call[t] = Idle
    /\ usercontextSlot' = [usercontextSlot EXCEPT ![t] = NoContext]
    /\ UNCHANGED <<objects, contextSlot, native, call>>

\* grwlMakeUserContextCurrent(context)
MakeUserContextCurrent(t, u) ==
    /\ Usable(t, u)
    /\ Clear(t, NoSource)
    /\ call' = [call EXCEPT ![t] = Call("bind", u)]
    /\ UNCHANGED objects

FinishBind(t) ==
    /\ call[t].step = "bind"
    /\ TryBind(t, call[t].ctx)
    /\ call' = [call EXCEPT ![t] = Idle]
    /\ UNCHANGED objects

\* The platform part of grwlCreateWindow up to _grwlRefreshContextAttribs.  A
\* creation that fails later is followed at once by grwlDestroyWindow.
CreateWindow(w, s) ==
    /\ call[Main] = Idle
    /\ w \notin live
    /\ live' = live \union {w}
    /\ source' = [source EXCEPT ![w] = s]
    /\ call' = [call EXCEPT ![Main] = [step |-> "refresh",
                                       ctx  |-> w,
                                       back |-> contextSlot[Main],
                                       user |-> usercontextSlot[Main]]]
    /\ UNCHANGED <<parent, slots, native>>

\* _grwlRefreshContextAttribs: grwlMakeContextCurrent(window) ...
Refresh(t) ==
    /\ call[t].step = "refresh"
    /\ Clear(t, source[call[t].ctx])
    /\ call' = [call EXCEPT ![t].step = "probe"]
    /\ UNCHANGED objects

Probe(t) ==
    /\ call[t].step = "probe"
    /\ TryBind(t, call[t].ctx)
    /\ call' = [call EXCEPT ![t].step = "restore"]
    /\ UNCHANGED objects

\* Fault: an early return leaves the new window's context current.
RestoreSkipped(t) ==
    /\ call[t].step = "restore"
    /\ call' = [call EXCEPT ![t] = Idle]
    /\ UNCHANGED <<objects, slots, native>>

\* ... and on every way out grwlMakeContextCurrent(previous).
Restore(t) ==
    LET back == call[t].back
    IN  /\ call[t].step = "restore"
        /\ Clear(t, SourceOf(back))
        /\ IF back = NoContext
             THEN call' = [call EXCEPT ![t] = Idle]
             ELSE call' = [call EXCEPT ![t].step = "rebind"]
        /\ UNCHANGED objects

Rebind(t) ==
    /\ call[t].step = "rebind"
    /\ TryBind(t, call[t].back)
    /\ call' = [call EXCEPT ![t] = Idle]
    /\ UNCHANGED objects

\* grwlDestroyWindow.  Its user contexts should have been destroyed before.
DestroyWindow(w) ==
    /\ Usable(Main, w)
    /\ \A u \in UserContext \intersect live : parent[u] # w
    /\ IF contextSlot[Main] = w THEN Clear(Main, NoSource)
                                ELSE UNCHANGED <<slots, native>>
    /\ call' = [call EXCEPT ![Main] = Call("destroy", w)]
    /\ UNCHANGED objects

\* grwlCreateUserContext: the context is of its window's native API.  A native
\* context that is still current somewhere is not reused.
CreateUserContext(w, u) ==
    /\ Usable(Main, w)
    /\ u \notin live
    /\ \A t \in Thread, s \in Source : native[t][s] # u
    /\ live' = live \union {u}
    /\ source' = [source EXCEPT ![u] = source[w]]
    /\ parent' = [parent EXCEPT ![u] = w]
    /\ UNCHANGED <<slots, native, call>>

\* Fault: a user context that is current is destroyed without being detached.
DestroyCurrentUserContext(u) ==
    /\ Usable(Main, u)
    /\ call' = [call EXCEPT ![Main] = Call("destroy", u)]
    /\ UNCHANGED <<objects, slots, native>>

\* grwlDestroyUserContext
DestroyUserContext(u) ==
    /\ Usable(Main, u)
    /\ IF usercontextSlot[Main] = u THEN Clear(Main, NoSource)
                                    ELSE UNCHANGED <<slots, native>>
    /\ call' = [call EXCEPT ![Main] = Call("destroy", u)]
    /\ UNCHANGED objects

\* destroyContextGLX/EGL and _grwlDestroyUserContextGLX/EGL
FinishDestroy(t) ==
    /\ call[t].step = "destroy"
    /\ live' = live \ {call[t].ctx}
    /\ call' = [call EXCEPT ![t] = Idle]
    /\ UNCHANGED <<source, parent, slots, native>>

-----------------------------------------------------------------------------
MainNext ==
    \/ \E w \in Window :
         \/ \E s \in Source : CreateWindow(w, s)
         \/ DestroyWindow(w)
         \/ \E u \in UserContext : CreateUserContext(w, u)
    \/ \E u \in UserContext : DestroyUserContext(u)

ThreadNext(t) ==
    \/ \E w \in Window : MakeContextCurrent(t, w)
    \/ DetachContext(t)
    \/ MakeNoContextCurrent(t)
    \/ \E u \in UserContext : MakeUserContextCurrent(t, u)
    \/ FinishBind(t)
    \/ Refresh(t)
    \/ Probe(t)
    \/ Restore(t)
    \/ Rebind(t)
    \/ FinishDestroy(t)

Next == MainNext \/ \E t \in Thread : ThreadNext(t)

Spec == Init /\ [][Next]_vars

-----------------------------------------------------------------------------
(* Properties *)

(***************************************************************************)
(* What grwlGetCurrentContext and grwlGetCurrentUserContext report on a    *)
(* thread is current in the native API on that thread and has not been     *)
(* destroyed, at every moment of every call and whichever native calls     *)
(* fail.                                                                   *)
(***************************************************************************)
ReportedIsCurrent ==
    \A t \in Thread :
        \A c \in {contextSlot[t], usercontextSlot[t]} \ {NoContext} :
            /\ c \in live
            /\ native[t][source[c]] = c

(***************************************************************************)
(* "A thread can only have a single context current at a time"             *)
(* (docs/context.dox): never a window and a user context both.             *)
(***************************************************************************)
OneKindReported ==
    \A t \in Thread : NoContext \in {contextSlot[t], usercontextSlot[t]}

\* The context GRWL reports on a thread.
Reported(t) ==
    IF contextSlot[t] # NoContext THEN contextSlot[t] ELSE usercontextSlot[t]

\* The promise of CurrentContext, seen through the two slots.
Promise == INSTANCE CurrentContext WITH
    current <- [t \in Thread |-> Reported(t)]

(***************************************************************************)
(* The slots implement CurrentContext: a context is never reported on two  *)
(* threads, and none is destroyed while a thread reports it.               *)
(***************************************************************************)
KeepsPromise == Promise!Spec

(***************************************************************************)
(* "Successful creation does not change which context is current"          *)
(* (GRWL/grwl.h, grwlCreateWindow), for the context of a window: the       *)
(* thread ends the call with the context it began it with, also when the   *)
(* new context could not be made current, unless the native API refuses    *)
(* the old one.  It is the restoring at the end of _grwlRefreshContext-    *)
(* Attribs.                                                                *)
(***************************************************************************)
CreationEnds(t) ==
    call[t].step \in {"restore", "rebind"} /\ call'[t] = Idle

CreationKeepsContext ==
    [][\A t \in Thread :
         CreationEnds(t) /\ call[t].back \notin Unreliable =>
             contextSlot'[t] = call[t].back]_vars

(***************************************************************************)
(* "Successful creation does not change which context is current", for a   *)
(* user context.  The code does not guarantee it.                          *)
(***************************************************************************)
CreationKeepsUserContext ==
    [][\A t \in Thread :
         CreationEnds(t) => usercontextSlot'[t] = call[t].user]_vars
=============================================================================
