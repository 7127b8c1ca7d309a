------------------------------- MODULE VideoModes -------------------------------
(***************************************************************************)
(* The video modes of one monitor on X11: the list the library asks the    *)
(* server for once and keeps sorted, the closest mode to a wanted one, and *)
(* setting and restoring it, while other clients change the server.        *)
(*                                                                         *)
(* Code: src/src/monitor.cpp, src/src/linux/x11_monitor.cpp.               *)
(*                                                                         *)
(* Every request to the server is a step of its own, and what the server   *)
(* has may change between two of them.                                     *)
(***************************************************************************)
EXTENDS Integers, Sequences, SequencesExt

CONSTANTS
    ModeInfo,    \* RandR modes: records with id, width, height, rate, interlaced
    NoMode,      \* None
    NoModes,     \* monitor->modes == nullptr
    Want,        \* desired modes: width, height, rate, rgb
    Depth,       \* depth of the screen, in bits per pixel
    Half,        \* 2^31: one more than the largest int
    MaxOffered,  \* bound on the modes an output offers at first
    MaxChanges   \* bound on what other clients change

DontCare == -1                        \* GRWL_DONT_CARE
UINT_MAX == 2 * Half - 1

Abs(x) == IF x < 0 THEN -x ELSE x
\* An int that overflows comes out modulo 2^32.
Int32(x) == ((x + Half) % (2 * Half)) - Half

\* Red, green and blue bits of a depth; 32 is taken for 24.
SplitBPP(bpp) ==
    LET b == IF bpp = 32 THEN 24 ELSE bpp
        third == b \div 3
        delta == b - 3 * third
    IN <<third + (IF delta = 2 THEN 1 ELSE 0), third + (IF delta >= 1 THEN 1 ELSE 0),
         third>>

VidMode(m, turned) ==
    [width  |-> IF turned THEN m.height ELSE m.width,
     height |-> IF turned THEN m.width ELSE m.height,
     rate   |-> m.rate, rgb |-> SplitBPP(Depth)]

\* By color, area, width and refresh rate: the sign of what qsort is given.
CompareVideoModes(f, s) ==
    LET bits(m) == m.rgb[1] + m.rgb[2] + m.rgb[3]
        area(m) == m.width * m.height
    IN IF bits(f) # bits(s) THEN bits(f) - bits(s)
       ELSE IF area(f) # area(s) THEN area(f) - area(s)
       ELSE IF f.width # s.width THEN f.width - s.width
       ELSE f.rate - s.rate

ColorDiff(w, m) ==
    LET d(c) == IF w.rgb[c] = DontCare THEN 0 ELSE Abs(m.rgb[c] - w.rgb[c])
    IN d(1) + d(2) + d(3)
Square(w, m) ==
    (m.width - w.width) * (m.width - w.width)
    + (m.height - w.height) * (m.height - w.height)
SizeDiff(w, m) == Abs(Int32(Square(w, m)))
RateDiff(w, m) ==
    IF w.rate = DontCare THEN UINT_MAX - m.rate ELSE Abs(m.rate - w.rate)
Cost(w, m) == <<ColorDiff(w, m), SizeDiff(w, m), RateDiff(w, m)>>

Less(c, d) ==
    \/ c[1] < d[1]
    \/ c[1] = d[1] /\ (c[2] < d[2] \/ (c[2] = d[2] /\ c[3] < d[3]))

--------------------------------------------------------------------------------

VARIABLES
    known,    \* server: the modes it has
    offered,  \* server: the modes of the output, in its order
    turned,   \* server: the CRTC is rotated by a quarter
    crtc,     \* server: the mode of the CRTC
    modes,    \* monitor->modes
    oldMode,  \* monitor->x11.oldMode
    call,     \* the call in progress
    failed,   \* a null pointer was followed, or the server reported an error
    changes,  \* how often other clients changed something
    calm,     \* history: nothing changed since the call began
    fresh,    \* history: nothing changed since modes was asked for
    last      \* history: what the last call set, if nothing changed since

vars == <<known, offered, turned, crtc, modes, oldMode, call, failed, changes,
          calm, fresh, last>>
server == <<known, offered, turned, crtc>>

NoWant == [width |-> 0, height |-> 0, rate |-> 0, rgb |-> <<0, 0, 0>>]
Idle == [op |-> "none", step |-> "idle", want |-> NoWant, sr |-> {},
         turned |-> FALSE, mode |-> NoMode, at |-> 1, best |-> 0,
         least |-> <<UINT_MAX, UINT_MAX, UINT_MAX>>]

Init ==
    /\ \E n \in 0..MaxOffered : offered \in [1..n -> ModeInfo]
    /\ \A i, j \in DOMAIN offered : offered[i] = offered[j] => i = j
    /\ crtc \in ToSet(offered) \union {NoMode}
    /\ known = ToSet(offered) /\ turned \in BOOLEAN
    /\ modes = NoModes /\ oldMode = NoMode /\ call = Idle /\ failed = FALSE
    /\ changes = 0 /\ calm = TRUE /\ fresh = FALSE /\ last = NoMode

--------------------------------------------------------------------------------
(* Other clients. *)

Changed ==
    /\ changes < MaxChanges /\ ~failed
    /\ changes' = changes + 1 /\ calm' = FALSE /\ fresh' = FALSE /\ last' = NoMode
    /\ UNCHANGED <<modes, oldMode, call, failed>>

AddMode ==
    \E m \in ModeInfo \ known :
        /\ Changed
        /\ known' = known \union {m} /\ offered' = Append(offered, m)
        /\ UNCHANGED <<turned, crtc>>

RemoveMode ==
    \E m \in known \ {crtc} :
        /\ Changed
        /\ known' = known \ {m}
        /\ offered' = SelectSeq(offered, LAMBDA o : o # m)
        /\ UNCHANGED <<turned, crtc>>

Rotate == Changed /\ turned' = ~turned /\ UNCHANGED <<known, offered, crtc>>

--------------------------------------------------------------------------------
(* The library. *)

Lib == ~failed /\ UNCHANGED changes
Crash == failed' = TRUE /\ UNCHANGED <<server, modes, oldMode, call, fresh, last>>

\* What a call leaves when it ends having seen the server as it still is.
Ends == call' = Idle /\ last' = IF fresh THEN call.want ELSE NoMode

\* Fault: the scan starts at the second mode.
BeginLate(op, w) ==
    /\ Lib /\ call.step = "idle"
    /\ op = "list" => modes = NoModes
    /\ call' = [Idle EXCEPT !.op = op, !.want = w, !.at = 2,
                            !.step = IF modes = NoModes THEN "resources" ELSE "scan"]
    /\ calm' = TRUE
    /\ UNCHANGED <<server, modes, oldMode, failed, fresh, last>>

\* grwlGetVideoModes, or acquireMonitor's _grwlSetVideoModeX11.
Begin(op, w) ==
    /\ Lib /\ call.step = "idle"
    /\ op = "list" => modes = NoModes
    /\ call' = [Idle EXCEPT !.op = op, !.want = w,
                            !.step = IF modes = NoModes THEN "resources" ELSE "scan"]
    /\ calm' = TRUE
    /\ UNCHANGED <<server, modes, oldMode, failed, fresh, last>>

GetVideoModes == Begin("list", NoWant)
SetVideoMode == \E w \in Want : Begin("set", w)

FetchResources ==
    /\ Lib /\ call.step \in {"resources", "current", "again"}
    /\ call' = [call EXCEPT !.sr = known,
                    !.step = CASE call.step = "resources" -> "crtc"
                               [] call.step = "current"   -> "compare"
                               [] call.step = "again"     -> "crtc_again"]
    /\ fresh' = (fresh \/ call.step = "resources")
    /\ UNCHANGED <<server, modes, oldMode, failed, calm, last>>

FetchCrtc ==
    /\ Lib /\ call.step \in {"crtc", "crtc_again"}
    /\ call' = [call EXCEPT !.turned = turned, !.mode = crtc,
                    !.step = IF call.step = "crtc" THEN "output" ELSE "find"]
    /\ UNCHANGED <<server, modes, oldMode, failed, calm, fresh, last>>

\* getModeInfo finds the mode in the resources, or follows a null pointer.
Resolves(m) == m \in call.sr

\* Fault: duplicates are looked for among the modes of the server.
GatheredAll(t) ==
    FoldLeft(LAMBDA r, m : IF m.interlaced THEN r ELSE Append(r, VidMode(m, t)),
             <<>>, offered)

\* The modes that are not interlaced, the first of those that compare equal.
Gathered(t) ==
    FoldLeft(LAMBDA r, m :
                LET v == VidMode(m, t)
                IN IF m.interlaced \/ \E i \in DOMAIN r : CompareVideoModes(r[i], v) = 0
                   THEN r ELSE Append(r, v),
             <<>>, offered)

\* refreshVideoModes.  An output without modes gives a null list.
ReadModes ==
    /\ Lib /\ call.step = "output"
    /\ UNCHANGED <<server, oldMode, calm>>
    /\ IF \E i \in DOMAIN offered : ~Resolves(offered[i])
       THEN Crash
       ELSE /\ modes' = IF offered = <<>> THEN NoModes
                        ELSE SortSeq(Gathered(call.turned),
                                     LAMBDA f, s : CompareVideoModes(f, s) < 0)
            /\ IF call.op = "list" THEN call' = Idle
               ELSE call' = [call EXCEPT !.step = IF offered = <<>> THEN "current"
                                                  ELSE "scan"]
            /\ UNCHANGED <<failed, fresh, last>>

Scanning == Lib /\ call.step = "scan" /\ call.at \in DOMAIN modes

\* Fault: the refresh rate is compared without regard to the size.
NearerByRate(w, m, least) ==
    LET c == Cost(w, m)
    IN Less(c, least) \/ (c[1] = least[1] /\ c[3] < least[3])

Nearer(w, m, least) == Less(Cost(w, m), least)

Take ==
    /\ Scanning /\ Nearer(call.want, modes[call.at], call.least)
    /\ call' = [call EXCEPT !.best = call.at, !.at = @ + 1,
                            !.least = Cost(call.want, modes[call.at])]
    /\ UNCHANGED <<server, modes, oldMode, failed, calm, fresh, last>>

Pass ==
    /\ Scanning /\ ~Nearer(call.want, modes[call.at], call.least)
    /\ call' = [call EXCEPT !.at = @ + 1]
    /\ UNCHANGED <<server, modes, oldMode, failed, calm, fresh, last>>

EndScan ==
    /\ Lib /\ call.step = "scan" /\ call.at > Len(modes)
    /\ call' = [call EXCEPT !.step = "current"]
    /\ UNCHANGED <<server, modes, oldMode, failed, calm, fresh, last>>

\* _grwlGetVideoModeX11 leaves the current mode uninitialized when the CRTC has
\* none that resolves; then the comparison with the best mode may go either way.
Compare ==
    /\ Lib /\ call.step = "compare"
    /\ UNCHANGED <<server, modes, oldMode, calm, fresh>>
    /\ IF call.best = 0 THEN failed' = TRUE /\ UNCHANGED <<call, last>>
       ELSE /\ UNCHANGED failed
            /\ \E same \in BOOLEAN :
                 /\ Resolves(crtc) =>
                      same = (CompareVideoModes(VidMode(crtc, turned),
                                                modes[call.best]) = 0)
                 /\ IF same /\ Resolves(crtc) THEN Ends
                    ELSE IF same THEN call' = Idle /\ last' = NoMode
                    ELSE call' = [call EXCEPT !.step = "again"] /\ UNCHANGED last

\* The first offered mode that compares equal to the best one.
Fits(i) ==
    /\ ~offered[i].interlaced
    /\ CompareVideoModes(modes[call.best], VidMode(offered[i], call.turned)) = 0
FindNative ==
    /\ Lib /\ call.step = "find"
    /\ UNCHANGED <<server, modes, calm, fresh>>
    /\ LET stops == {i \in DOMAIN offered : ~Resolves(offered[i]) \/ Fits(i)}
       IN IF stops = {} THEN Ends /\ UNCHANGED <<failed, oldMode>>
          ELSE LET i == CHOOSE j \in stops : \A k \in stops : j <= k
               IN IF ~Resolves(offered[i])
                  THEN failed' = TRUE /\ UNCHANGED <<call, last, oldMode>>
                  ELSE /\ oldMode' = IF oldMode = NoMode THEN call.mode ELSE oldMode
                       /\ call' = [call EXCEPT !.step = "apply", !.mode = offered[i]]
                       /\ UNCHANGED <<failed, last>>

Apply ==
    /\ Lib /\ call.step = "apply"
    /\ UNCHANGED <<known, offered, turned, modes, oldMode, calm, fresh>>
    /\ IF call.mode \in known
       THEN crtc' = call.mode /\ Ends /\ UNCHANGED failed
       ELSE failed' = TRUE /\ UNCHANGED <<crtc, call, last>>

RestoreVideoMode ==
    /\ Lib /\ call.step = "idle" /\ oldMode # NoMode
    /\ calm' = TRUE
    /\ UNCHANGED <<known, offered, turned, modes, call, fresh>>
    /\ IF oldMode \in known
       THEN /\ crtc' = oldMode /\ oldMode' = NoMode /\ last' = NoMode
            /\ UNCHANGED failed
       ELSE failed' = TRUE /\ UNCHANGED <<crtc, oldMode, last>>

Next ==
    \/ AddMode \/ RemoveMode \/ Rotate
    \/ GetVideoModes \/ SetVideoMode \/ FetchResources \/ FetchCrtc \/ ReadModes
    \/ Take \/ Pass \/ EndScan \/ Compare \/ FindNative \/ Apply
    \/ RestoreVideoMode

Spec == Init /\ [][Next]_vars

--------------------------------------------------------------------------------

Step == {"idle", "resources", "crtc", "output", "scan", "current", "compare",
         "again", "crtc_again", "find", "apply"}

TypeOK ==
    /\ known \subseteq ModeInfo /\ offered \in Seq(known) /\ turned \in BOOLEAN
    /\ crtc \in known \union {NoMode} /\ oldMode \in ModeInfo \union {NoMode}
    /\ modes = NoModes \/ modes \in Seq({VidMode(m, t) : m \in ModeInfo, t \in BOOLEAN})
    /\ call.op \in {"none", "list", "set"} /\ call.step \in Step
    /\ call.want \in Want \union {NoWant}
    /\ call.sr \subseteq ModeInfo /\ call.mode \in ModeInfo \union {NoMode}
    /\ modes # NoModes => call.best \in 0..Len(modes) /\ call.at \in 1..(Len(modes) + 1)
    /\ failed \in BOOLEAN /\ calm \in BOOLEAN /\ fresh \in BOOLEAN
    /\ changes \in 0..MaxChanges /\ last \in Want \union {NoMode}

\* The list an application gets is sorted and names nothing twice, and while
\* the server is as it was it names every mode the output can show.
ListAgrees ==
    modes # NoModes =>
        /\ \A i, j \in DOMAIN modes : i < j => CompareVideoModes(modes[i], modes[j]) < 0
        /\ fresh => ToSet(modes) =
              {VidMode(m, turned) : m \in {o \in ToSet(offered) : ~o.interlaced}}

\* Color first, then size, then refresh rate.
Closer(c, d) == \E k \in 1..3 : c[k] < d[k] /\ \A j \in 1..(k - 1) : c[j] = d[j]

\* After a call that saw the server as it is, the monitor shows a mode no
\* other mode of the output is closer to the wanted one than, in whole numbers
\* and not as the code computes them, unless the squares do not fit an int.
ClosestIsShown ==
    last # NoMode =>
        LET good == {VidMode(m, turned) : m \in {o \in ToSet(offered) : ~o.interlaced}}
            cost(m) == <<ColorDiff(last, m), Square(last, m),
                         IF last.rate = DontCare THEN -m.rate ELSE Abs(m.rate - last.rate)>>
        IN (\A m \in good : Square(last, m) < Half) =>
              \A m \in good : ~Closer(cost(m), cost(VidMode(crtc, turned)))

\* A call dies only when another client changed the server meanwhile, when
\* it sets a mode of an output without a usable one, or when it restores a
\* mode that was removed.
DiesOnlyOfChanges ==
    failed => \/ ~calm
              \/ modes = NoModes \/ modes = <<>>
              \/ call.step = "idle" /\ oldMode \notin known
================================================================================
