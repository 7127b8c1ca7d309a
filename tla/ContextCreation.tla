----------------------------- MODULE ContextCreation -----------------------------
(* What the creation of an OpenGL context acquires, and who gives it back:   *)
(* src/src/egl_context.cpp, src/src/linux/glx_context.cpp,                   *)
(* src/src/win32/wgl_context.cpp and src/src/mac/nsgl_context.m, with the    *)
(* window creation and destruction that call them.                           *)
(*                                                                           *)
(* A creation is a sequence of stages, any of which can fail.  The pointers  *)
(* to the back end's functions, context.destroy among them, are stored after *)
(* the last stage: until then grwlDestroyWindow gives nothing back.          *)
EXTENDS Integers, Sequences

CONSTANTS
    Source,        \* the back ends: "glx", "egl", "wgl", "nsgl"
    Window, User,
    NoWindow

ContextAssumption ==
    Source \subseteq {"glx", "egl", "wgl", "nsgl"} /\ NoWindow \notin Window

VARIABLES
    source,        \* the back end of every window
    onX11,         \* whether EGL runs on X11
    has,           \* the extensions that the back end has
    hint,          \* _grwl.hints.context, without share
    window,        \* the windows: what they were made of and what they hold
    user,          \* the user contexts
    current,       \* the window whose context is current, or NoWindow
    report         \* how the creation or destruction just now went

vars == <<source, onX11, has, hint, window, user, current, report>>

--------------------------------------------------------------------------------
(* What is created, and by which stages: a stage is the set of what it makes.*)

Thing == {"format", "context", "sharing", "drawable", "library"}

\* client "none" stands for GRWL_NO_API.
Config == [client : {"gl", "es", "none"},
           wants : {"any", "forward", "profile", "contradiction"}]

\* A profile of a version that has none, a version that does not exist, ...:
\* _grwlIsValidContextConfig, which user contexts do not ask.
Valid(c) == c.wants # "contradiction"

Extensions ==
    CASE source \in {"glx", "wgl"} ->
           {{}, {"attribs"}, {"attribs", "profile"}, {"attribs", "profile", "es2"}}
      [] source = "egl" -> SUBSET {"procs", "surfaceless"}
      [] OTHER -> {{}}

\* The requirements that are checked before anything is created.
Refused(c) ==
    \/ /\ source = "glx"
       /\ \/ c.client = "es" /\ ~({"attribs", "profile", "es2"} \subseteq has)
          \/ c.wants = "forward" /\ "attribs" \notin has
          \/ c.wants \in {"profile", "contradiction"}
               /\ ~({"attribs", "profile"} \subseteq has)
    \/ /\ source = "wgl"
       /\ IF c.client = "gl"
          THEN \/ c.wants = "forward" /\ "attribs" \notin has
               \/ c.wants \in {"profile", "contradiction"} /\ "profile" \notin has
          ELSE ~({"attribs", "profile", "es2"} \subseteq has)
    \/ source = "nsgl" /\ c.client = "es"

\* Fault: the legacy function is used as if it took the share context.
NativeContextUnshared(c, share) ==
    IF source = "wgl" /\ "attribs" \notin has
    THEN <<{"context"}>>
    ELSE <<{"context", "sharing"}>>

\* The native context, and its share group if it shares.
NativeContext(c, share) ==
    IF ~share THEN <<{"context"}>>
    ELSE IF source = "wgl" /\ "attribs" \notin has
    THEN <<{"context"}, {"sharing"}>>
    ELSE <<{"context", "sharing"}>>

\* The kind of context that the configuration c yields.
ClientOf(c) ==
    CASE source = "glx" /\ c.client # "gl" -> IF "attribs" \in has THEN "es" ELSE "gl"
      [] source = "wgl" /\ c.client # "gl" -> "es"
      [] source = "egl" /\ c.client = "none" -> "gl"
      [] source = "nsgl" -> "gl"
      [] OTHER -> c.client

\* On X11 the configuration is chosen once more for the visual of the window.
ChooseVisual ==
    IF source \in {"glx", "egl"} /\ onX11 THEN <<{}>> ELSE <<>>

\* WGL: the DC, the choice and the setting of the pixel format; NSGL: the
\* version and stereo, and the pixel format.
ChooseConfig ==
    CASE source = "wgl" -> <<{}, {}, {}>>
      [] source = "nsgl" -> <<{}, {"format"}>>
      [] OTHER -> <<{}>>

\* What the context is bound to.
Drawable ==
    CASE source = "glx" -> <<{"drawable"}>>
      [] source = "egl" ->
           IF "procs" \in has THEN <<{"drawable"}>> ELSE <<{"drawable"}, {"library"}>>
      [] OTHER -> <<>>

WindowStages(c, share) ==
    ChooseVisual \o ChooseConfig \o NativeContext(c, share) \o Drawable

\* The pixel buffer that the context is made current with, unless it needs
\* none: that is asked through a function that wants a current context.
UserDrawable ==
    IF source = "egl" /\ ~(current # NoWindow /\ "surfaceless" \in has)
    THEN <<{}, {"drawable"}>>
    ELSE <<>>

UserStages(c) == NativeContext(c, TRUE) \o UserDrawable

MadeBefore(stages, k) == UNION {stages[i] : i \in 1..k - 1}

\* A share group is nothing to give back.
Objects(made) == made \ {"sharing"}

--------------------------------------------------------------------------------
(* What is given back. *)

\* Fault: the surface is forgotten.
DestroyedWithoutSurface(made, client) ==
    CASE source = "egl" -> {"context"}
           \union (IF onX11 /\ client = "gl" THEN {} ELSE {"library"})
      [] OTHER -> Objects(made)

\* context.destroy.  A GL library stays loaded as long as the X display is open.
Destroyed(made, client) ==
    IF source = "egl" /\ onX11 /\ client = "gl"
    THEN Objects(made) \ {"library"}
    ELSE Objects(made)

\* What a user context that fails at its stage k has given back.
UserUndone(stages, k) ==
    IF source = "egl" THEN Objects(MadeBefore(stages, k)) ELSE {}

Nothing == [client |-> "none", config |-> CHOOSE c \in Config : TRUE, made |-> {}]

\* orphans: what nothing points to any more.
Report(call, failed, orphans) == [call |-> call, failed |-> failed, orphans |-> orphans]

NoReport == Report("none", FALSE, {})

--------------------------------------------------------------------------------
(* The calls. *)

Init ==
    /\ source \in Source
    /\ onX11 \in IF source = "egl" THEN BOOLEAN ELSE {source = "glx"}
    /\ has \in Extensions
    /\ hint = [client |-> "gl", wants |-> "any"]
    /\ window = [w \in Window |-> <<>>]
    /\ user = [u \in User |-> <<>>]
    /\ current = NoWindow
    /\ report = NoReport

Open(w) == window[w] # <<>>

\* grwlWindowHint, for the hints of contexts.
WindowHint(c) ==
    /\ hint # c
    /\ hint' = c /\ report' = NoReport
    /\ UNCHANGED <<source, onX11, has, window, user, current>>

\* Every failure has been reported; the window goes with its pointers.
Failed(orphans) ==
    /\ report' = Report("window", TRUE, orphans)
    /\ UNCHANGED <<source, onX11, has, hint, window, user, current>>

\* grwlCreateWindow without a context.
CreateWithoutContext(w) ==
    /\ ~Open(w) /\ Valid(hint) /\ hint.client = "none"
    /\ window' = [window EXCEPT ![w] = <<Nothing>>]
    /\ report' = Report("window", FALSE, {})
    /\ UNCHANGED <<source, onX11, has, hint, user, current>>

RefuseConfig(w) == ~Open(w) /\ ~Valid(hint) /\ Failed({})

\* Sharing needs a context on both sides: _grwlIsValidContextConfig.
RefuseShare(w, other) ==
    /\ ~Open(w) /\ Valid(hint) /\ Open(other)
    /\ hint.client = "none" \/ window[other][1].client = "none"
    /\ Failed({})

MayCreate(w, share) ==
    /\ ~Open(w) /\ Valid(hint) /\ hint.client # "none" /\ ~Refused(hint)
    /\ share # NoWindow => Open(share) /\ window[share][1].client # "none"

\* The configuration asks for what the back end has not: nothing but the
\* pixel format and the visual have been chosen by then.
RefuseContext(w) ==
    /\ ~Open(w) /\ Valid(hint) /\ hint.client # "none" /\ Refused(hint)
    /\ Failed({})

\* A stage fails before context.destroy is set: all that was made is lost.
FailToCreate(w, share) ==
    /\ MayCreate(w, share)
    /\ LET stages == WindowStages(hint, share # NoWindow) IN
       \E k \in DOMAIN stages :
         Failed(Objects(MadeBefore(stages, k)))

\* Every stage has succeeded: the window gets what they made.
Create(w, share) ==
    /\ MayCreate(w, share)
    /\ LET stages == WindowStages(hint, share # NoWindow)
           made == MadeBefore(stages, Len(stages) + 1) IN
       \* the context's version and functions are queried
       \/ /\ window' = [window EXCEPT ![w] = <<[client |-> ClientOf(hint),
                                                config |-> hint, made |-> made]>>]
          /\ report' = Report("window", FALSE, {})
          /\ UNCHANGED <<source, onX11, has, hint, user, current>>
       \* it has no usable version: the window is destroyed with all it has
       \/ Failed(Objects(made) \ Destroyed(made, ClientOf(hint)))

\* The user contexts of a window are destroyed before it.
DestroyWindow(w) ==
    /\ Open(w) /\ \A u \in User : user[u] # <<>> => user[u][1].of # w
    /\ LET it == window[w][1] IN
       report' = Report("destroy", FALSE, Objects(it.made) \ Destroyed(it.made, it.client))
    /\ window' = [window EXCEPT ![w] = <<>>]
    /\ current' = IF current = w THEN NoWindow ELSE current
    /\ UNCHANGED <<source, onX11, has, hint, user>>

MakeContextCurrent(w) ==
    /\ w # NoWindow => Open(w) /\ window[w][1].client # "none"
    /\ current # w
    /\ current' = w /\ report' = NoReport
    /\ UNCHANGED <<source, onX11, has, hint, window, user>>

MayCreateUser(u, w) == user[u] = <<>> /\ Open(w) /\ window[w][1].client # "none"

\* grwlCreateUserContext takes the hints as they are, of NO_API as well.
RefusedUser(c) == source # "nsgl" /\ Refused(c)

UserFailed(orphans) ==
    /\ report' = Report("user", TRUE, orphans)
    /\ UNCHANGED <<source, onX11, has, hint, window, user, current>>

RefuseUserContext(u, w) ==
    \/ user[u] = <<>> /\ Open(w) /\ window[w][1].client = "none" /\ UserFailed({})
    \/ MayCreateUser(u, w) /\ RefusedUser(hint) /\ UserFailed({})

\* What was made before the stage that failed is destroyed by EGL only.
FailToCreateUserContext(u, w) ==
    /\ MayCreateUser(u, w) /\ ~RefusedUser(hint) /\ source # "nsgl"
    /\ LET stages == UserStages(hint) IN
       \E k \in DOMAIN stages :
         UserFailed(Objects(MadeBefore(stages, k)) \ UserUndone(stages, k))

UserMade(u, w, made, client) ==
    /\ user' = [user EXCEPT ![u] = <<[of |-> w, client |-> client, made |-> made,
                                      asWindow |-> hint = window[w][1].config]>>]
    /\ report' = Report("user", FALSE, {})
    /\ UNCHANGED <<source, onX11, has, hint, window, current>>

CreateUserContext(u, w) ==
    /\ MayCreateUser(u, w) /\ ~RefusedUser(hint)
    /\ LET stages == UserStages(hint) IN
       UserMade(u, w, MadeBefore(stages, Len(stages) + 1), ClientOf(hint))

\* _grwlCreateUserContextNSGL asks whether the window has a context.
CreateUserContextOfNothing(u, w) ==
    /\ MayCreateUser(u, w) /\ source = "nsgl"
    /\ UserMade(u, w, {}, "gl")

\* The destroy function of the user context frees what creation has made.
DestroyUserContext(u) ==
    /\ user[u] # <<>>
    /\ user' = [user EXCEPT ![u] = <<>>]
    /\ report' = Report("destroy", FALSE, {})
    /\ UNCHANGED <<source, onX11, has, hint, window, current>>

Next ==
    \/ \E c \in Config : WindowHint(c)
    \/ \E w \in Window :
         \/ CreateWithoutContext(w)
         \/ RefuseConfig(w)
         \/ RefuseContext(w)
         \/ DestroyWindow(w)
         \/ \E o \in Window : RefuseShare(w, o)
         \/ \E s \in (Window \ {w}) \union {NoWindow} : FailToCreate(w, s) \/ Create(w, s)
    \/ \E w \in Window \union {NoWindow} : MakeContextCurrent(w)
    \/ \E u \in User, w \in Window :
         \/ RefuseUserContext(u, w)
         \/ FailToCreateUserContext(u, w)
         \/ CreateUserContext(u, w)
         \/ CreateUserContextOfNothing(u, w)
    \/ \E u \in User : DestroyUserContext(u)

Spec == Init /\ [][Next]_vars

--------------------------------------------------------------------------------
(* Properties. *)

\* Types of the variables.
TypeOK ==
    /\ source \in Source /\ onX11 \in BOOLEAN /\ has \in Extensions /\ hint \in Config
    /\ \A w \in Window : Open(w) =>
         window[w][1] \in [client : {"gl", "es", "none"}, config : Config, made : SUBSET Thing]
    /\ \A u \in User : user[u] # <<>> =>
         user[u][1] \in [of : Window, client : {"gl", "es"}, made : SUBSET Thing,
                         asWindow : BOOLEAN]
    /\ current \in Window \union {NoWindow}
    /\ report \in [call : {"none", "window", "user", "destroy"}, failed : BOOLEAN,
                   orphans : SUBSET Thing]

\* The creations that lose what they have made when a later stage fails: no
\* window has given it back, and nothing points to it any more.
KnownOrphans ==
    CASE report.call = "window" /\ source = "glx" -> {"context"}
      [] report.call = "window" /\ source = "egl" -> {"context", "drawable", "library"}
      [] report.call = "window" /\ source = "nsgl" -> {"format"}
      [] source = "wgl" /\ "attribs" \notin has -> {"context"}
      [] OTHER -> {}

\* Native objects outlive their owner only where a creation fails half-way in
\* a back end that is known not to clean up, and the OpenGL library only where
\* unloading it would break XCloseDisplay (destroyContextEGL, egl_context.cpp).
OrphansAreKnown ==
    \/ report.failed /\ report.orphans \subseteq KnownOrphans
    \/ report.orphans \subseteq IF source = "egl" /\ onX11 THEN {"library"} ELSE {}

\* A user context that was created under the hints of its window has a native
\* context of the same kind, which shares with the window's, whatever failed
\* and whatever extensions are missing; only _grwlCreateUserContextNSGL returns
\* one that has none (grwlCreateUserContext, context.cpp).
UserContextFits ==
    \A u \in User : user[u] # <<>> /\ user[u][1].asWindow =>
       /\ user[u][1].client = window[user[u][1].of][1].client
       /\ source # "nsgl" => {"context", "sharing"} \subseteq user[u][1].made
================================================================================
