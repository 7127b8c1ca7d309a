------------------------------- MODULE FBConfigs -------------------------------
(***************************************************************************)
(* The framebuffer configuration a context gets: the configurations of the *)
(* driver are filtered by the back end that creates the context, and the   *)
(* one closest to what the application asked for is picked in one pass.    *)
(*                                                                         *)
(* Code: src/src/context.cpp (_grwlChooseFBConfig), and the filters of     *)
(* glx_context.cpp, egl_context.cpp and win32/wgl_context.cpp.             *)
(*                                                                         *)
(* A behaviour is one call: Init picks the back end, the request and the   *)
(* list of the driver.                                                     *)
(***************************************************************************)
EXTENDS Integers, Sequences

CONSTANTS
    Format,      \* what applications ask for (_GRWLfbconfig)
    Native,      \* the configurations drivers have
    MaxNatives,  \* bound on the length of a driver's list
    UintMax      \* UINT_MAX, the cost no configuration has

DontCare == -1                              \* GRWL_DONT_CARE
Backend == {"glx", "egl_x11", "egl_wayland", "wgl"}
IsEgl(b) == b \in {"egl_x11", "egl_wayland"}
Channel == {"red", "green", "blue", "alpha", "depth", "stencil", "accumRed",
            "accumGreen", "accumBlue", "accumAlpha", "samples"}
Accum == {"accumRed", "accumGreen", "accumBlue", "accumAlpha"}

\* What makes a configuration unfit for a window: it is not RGBA, cannot be
\* drawn to a window, has no X visual, serves another client API, is not
\* accelerated, or the driver fails to describe it.
Flaw == {"none", "indexed", "offscreen", "unseen", "other_api", "slow",
         "unreadable"}

FormatType == [stereo : BOOLEAN, transparent : BOOLEAN, sRGB : BOOLEAN,
               double : BOOLEAN, bits : [Channel -> Int], aux : Int]
NativeType == [flaw : Flaw, stereo : BOOLEAN, transparent : BOOLEAN,
               sRGB : BOOLEAN, double : BOOLEAN, bits : [Channel -> Nat],
               aux : Nat]

VARIABLES
    backend, want, natives,  \* the call's arguments and the driver's list
    pc,        \* "filter" the list, "scan" what is left, "done"
    at,        \* the index of the loop (i)
    usable,    \* usableConfigs: the indices of the natives kept
    otherApi,  \* wrongApiAvailable
    best,      \* closest: an index into usable, 0 is null
    least,     \* leastMissing, leastColorDiff, leastExtraDiff
    error      \* the error of a call that fails

vars == <<backend, want, natives, pc, at, usable, otherApi, best, least, error>>

--------------------------------------------------------------------------------
(* What one configuration costs. *)

Apart(w, h) == IF w = DontCare THEN 0 ELSE (w - h) * (w - h)
One(b) == IF b THEN 1 ELSE 0

\* What the back end reads of configuration n: EGL has no stereo, accumulation
\* or auxiliary buffers and no sRGB attribute; transparency is that of the X
\* visual, and asked for only when the application wants it.
Read(b, w, n) ==
    [stereo      |-> ~IsEgl(b) /\ n.stereo,
     transparent |-> b \in {"glx", "egl_x11"} /\ w.transparent /\ n.transparent,
     sRGB        |-> ~IsEgl(b) /\ n.sRGB,
     bits        |-> [c \in Channel |->
                        IF IsEgl(b) /\ c \in Accum THEN 0 ELSE n.bits[c]],
     aux         |-> IF IsEgl(b) THEN 0 ELSE n.aux]

Lacks(w, h, c) == One(w.bits[c] > 0 /\ h.bits[c] = 0)
Missing(w, h) ==
    Lacks(w, h, "alpha") + Lacks(w, h, "depth") + Lacks(w, h, "stencil")
    + (IF w.aux > 0 /\ h.aux < w.aux THEN w.aux - h.aux ELSE 0)
    + Lacks(w, h, "samples") + One(w.transparent # h.transparent)

Off(w, h, c) == Apart(w.bits[c], h.bits[c])
ColorDiff(w, h) == Off(w, h, "red") + Off(w, h, "green") + Off(w, h, "blue")
ExtraDiff(w, h) ==
    Off(w, h, "alpha") + Off(w, h, "depth") + Off(w, h, "stencil")
    + Off(w, h, "accumRed") + Off(w, h, "accumGreen") + Off(w, h, "accumBlue")
    + Off(w, h, "accumAlpha") + Off(w, h, "samples")
    + One(w.sRGB /\ ~h.sRGB)

CostOf(b, w, n) ==
    LET h == Read(b, w, n) IN <<Missing(w, h), ColorDiff(w, h), ExtraDiff(w, h)>>
Cost(i) == CostOf(backend, want, natives[i])

\* Fault: the sizes of the color channels count before the missing buffers.
LessByColor(c, d) ==
    \/ c[2] < d[2]
    \/ c[2] = d[2] /\ (c[1] < d[1] \/ (c[1] = d[1] /\ c[3] < d[3]))

Less(c, d) ==
    \/ c[1] < d[1]
    \/ c[1] = d[1] /\ (c[2] < d[2] \/ (c[2] = d[2] /\ c[3] < d[3]))

Infinite == <<UintMax, UintMax, UintMax>>

\* No configuration lacks UINT_MAX buffers, so the first one is always taken.
ASSUME ConfigAssumption ==
    /\ Format \subseteq FormatType /\ Native \subseteq NativeType
    /\ MaxNatives \in Nat /\ UintMax \in Nat
    /\ \A b \in Backend, w \in Format, n \in Native : CostOf(b, w, n)[1] < UintMax

--------------------------------------------------------------------------------
(* Which configurations count. *)

Rejects(b, w, n) ==
    \/ n.flaw \in {"indexed", "offscreen"}
    \/ b = "egl_x11" /\ n.flaw = "unseen"
    \/ IsEgl(b) /\ n.flaw = "other_api"
    \/ b = "wgl" /\ n.flaw = "slow"
    \/ b \in {"glx", "wgl"} /\ n.double # w.double
    \/ b = "egl_wayland" /\ ~w.transparent /\ n.bits["alpha"] > 0

\* The driver cannot describe n: the whole choice fails.
Unreadable(b, n) == b = "wgl" /\ n.flaw = "unreadable"

\* Stereo is a hard constraint of the scan.
Barred(b, w, n) == w.stereo /\ ~Read(b, w, n).stereo

--------------------------------------------------------------------------------

Init ==
    /\ backend \in Backend /\ want \in Format
    /\ \E n \in 0..MaxNatives : natives \in [1..n -> Native]
    /\ pc = "filter" /\ at = 1 /\ usable = <<>> /\ otherApi = FALSE
    /\ best = 0 /\ least = Infinite /\ error = "none"

Fail(e) ==
    /\ pc' = "done" /\ error' = e
    /\ UNCHANGED <<backend, want, natives, at, usable, otherApi, best, least>>

\* The early returns.  GLX reports its own error after that of the choice.
Refuse ==
    /\ pc = "filter" /\ at = 1
    /\ \/ IsEgl(backend) /\ want.stereo /\ Fail("FORMAT_UNAVAILABLE")
       \/ /\ natives = <<>> /\ ~(IsEgl(backend) /\ want.stereo)
          /\ Fail(IF backend = "glx" THEN "FORMAT_UNAVAILABLE"
                                     ELSE "API_UNAVAILABLE")

Filtering ==
    /\ pc = "filter" /\ at \in DOMAIN natives
    /\ ~(IsEgl(backend) /\ want.stereo)

\* Fault: the number that WGL gives a format is kept as its index.
KeepNumber ==
    /\ Filtering
    /\ ~Unreadable(backend, natives[at]) /\ ~Rejects(backend, want, natives[at])
    /\ usable' = Append(usable, at + 1) /\ at' = at + 1
    /\ UNCHANGED <<backend, want, natives, pc, otherApi, best, least, error>>

Keep ==
    /\ Filtering
    /\ ~Unreadable(backend, natives[at]) /\ ~Rejects(backend, want, natives[at])
    /\ usable' = Append(usable, at) /\ at' = at + 1
    /\ UNCHANGED <<backend, want, natives, pc, otherApi, best, least, error>>

\* EGL tests the client API after the kind, the surface and the visual.
Reject ==
    /\ Filtering
    /\ ~Unreadable(backend, natives[at]) /\ Rejects(backend, want, natives[at])
    /\ otherApi' = (otherApi \/ (IsEgl(backend) /\ natives[at].flaw = "other_api"))
    /\ at' = at + 1
    /\ UNCHANGED <<backend, want, natives, pc, usable, best, least, error>>

FailToRead ==
    /\ Filtering /\ Unreadable(backend, natives[at])
    /\ Fail("PLATFORM_ERROR")

EndFilter ==
    /\ pc = "filter" /\ at > Len(natives) /\ natives # <<>>
    /\ IF backend = "wgl" /\ usable = <<>>
       THEN Fail("API_UNAVAILABLE")
       ELSE /\ pc' = "scan" /\ at' = 1
            /\ UNCHANGED <<backend, want, natives, usable, otherApi, best, least,
                           error>>

Scanning == pc = "scan" /\ at \in DOMAIN usable

Take ==
    /\ Scanning /\ ~Barred(backend, want, natives[usable[at]])
    /\ Less(Cost(usable[at]), least)
    /\ best' = at /\ least' = Cost(usable[at]) /\ at' = at + 1
    /\ UNCHANGED <<backend, want, natives, pc, usable, otherApi, error>>

Pass ==
    /\ Scanning
    /\ \/ Barred(backend, want, natives[usable[at]])
       \/ ~Less(Cost(usable[at]), least)
    /\ at' = at + 1
    /\ UNCHANGED <<backend, want, natives, pc, usable, otherApi, best, least, error>>

EndScan ==
    /\ pc = "scan" /\ at > Len(usable)
    /\ pc' = "done"
    /\ error' = IF best # 0 THEN "none"
                ELSE IF IsEgl(backend) /\ otherApi THEN "API_UNAVAILABLE"
                ELSE "FORMAT_UNAVAILABLE"
    /\ UNCHANGED <<backend, want, natives, at, usable, otherApi, best, least>>

Next == Refuse \/ Keep \/ Reject \/ FailToRead \/ EndFilter \/ Take \/ Pass \/ EndScan

Spec == Init /\ [][Next]_vars

--------------------------------------------------------------------------------

TypeOK ==
    /\ backend \in Backend /\ want \in Format /\ natives \in Seq(Native)
    /\ pc \in {"filter", "scan", "done"} /\ at \in 1..(Len(natives) + 1)
    /\ usable \in Seq(DOMAIN natives) /\ otherApi \in BOOLEAN
    /\ best \in 0..Len(usable) /\ least \in Int \X Int \X Int
    /\ error \in {"none", "API_UNAVAILABLE", "FORMAT_UNAVAILABLE", "PLATFORM_ERROR"}

\* Missing buffers first, then the color channels, then the rest.
Closer(c, d) == \E k \in 1..3 : c[k] < d[k] /\ \A j \in 1..(k - 1) : c[j] = d[j]

\* The driver's configurations that may be given to this window.
Acceptable(i) ==
    ~Rejects(backend, want, natives[i]) /\ ~Barred(backend, want, natives[i])

\* The configuration that a call returns is acceptable, costs no more than any
\* acceptable one and comes before those that cost the same; when the list was
\* read to its end and nothing is returned, nothing was acceptable.
ChosenIsClosest ==
    /\ pc = "done" /\ best # 0 =>
         /\ error = "none" /\ Acceptable(usable[best])
         /\ \A i \in DOMAIN natives : Acceptable(i) =>
              /\ ~Closer(Cost(i), Cost(usable[best]))
              /\ i < usable[best] => Closer(Cost(usable[best]), Cost(i))
    /\ pc = "done" /\ best = 0 =>
         /\ error # "none"
         /\ error # "PLATFORM_ERROR" => \A i \in DOMAIN natives : ~Acceptable(i)
================================================================================
