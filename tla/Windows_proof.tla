--------------------------- MODULE Windows_proof ---------------------------
(***************************************************************************)
(* Windows and monitors, for any number of windows, monitors, outputs and  *)
(* modes: the window and monitor graph on X11, windows and outputs on      *)
(* Wayland, and the lists of monitors of Win32 and macOS.                  *)
(***************************************************************************)
EXTENDS MC_Windows, Sequences, FiniteSetTheorems, WellFoundedInduction, TLAPS

-----------------------------------------------------------------------------
(* What acquiring and releasing do to the desktop *)

OutputsDistinct == \A m, k \in monitors : output[m] = output[k] => m = k

HeldIn(d) == {m \in monitors : d.owner[m] # NoWindow}

\* The desktop is changed for the monitors that are held and no other.
DisplayOK(d) ==
    /\ d \in DisplayType
    /\ d.count = Cardinality(HeldIn(d))
    /\ d.saver = IF HeldIn(d) = {} THEN "user" ELSE "disabled"
    /\ HeldIn(d) # {} => d.saved = "user"
    /\ \A m \in monitors :
         d.oldMode[m] # NoMode => m \in HeldIn(d) /\ d.oldMode[m] = DesktopMode
    /\ \A m \in monitors :
         d.oldMode[m] = NoMode => d.crtcMode[output[m]] = DesktopMode
    /\ \A o \in Output :
         d.crtcMode[o] # DesktopMode => \E m \in monitors : output[m] = o

-----------------------------------------------------------------------------
(* The inductive invariant *)

\* Only a live window has a queued event.
NotifiedLive == wmNotify \subseteq windows

\* What _grwlPollMonitorsX11 has done so far: departed is the part of the
\* array it has yet to account for, and the rest of the array is what it has
\* seen plugged in.
PollShape ==
    /\ departed \subseteq monitors
    /\ phase \notin {"outputs", "departures"} => departed = {}
    /\ phase = "departures" => unseen = {}
    /\ ~initialized /\ phase = "idle" => monitors = {}
    /\ phase = "outputs" => \A m \in monitors \ departed : output[m] \notin unseen

\* No plug or unplug is missed: one after the poll looked at the output has
\* left an RRNotify in the queue.
PollCurrent ==
    /\ ~rrNotify /\ phase \in {"outputs", "departures"} =>
         \A o \in Output \ unseen :
           o \in connected <=> \E m \in monitors \ departed : output[m] = o
    /\ ~rrNotify /\ initialized /\ phase = "idle" =>
         \A o \in Output : o \in connected <=> \E m \in monitors : output[m] = o

GraphInv ==
    /\ HolderIsFullScreen
    /\ NoDanglingMonitor
    /\ DisplayOK(display)
    /\ OutputsDistinct

PollInv == PollShape /\ PollCurrent

IInv == TypeOK /\ GraphInv /\ NotifiedLive /\ PollInv

-----------------------------------------------------------------------------
LEMMA HeldFinite ==
    ASSUME monitors \in SUBSET Monitor, NEW d
    PROVE  IsFiniteSet(HeldIn(d)) /\ Cardinality(HeldIn(d)) \in Nat
<1>1. HeldIn(d) \in SUBSET Monitor
  BY DEF HeldIn
<1>2. QED
  BY <1>1, FiniteAssumption, FS_Subset, FS_CardinalityType

LEMMA NoneHeld ==
    ASSUME monitors \in SUBSET Monitor, NEW d
    PROVE  Cardinality(HeldIn(d)) = 0 <=> HeldIn(d) = {}
BY HeldFinite, FS_EmptySet

\* A field at a time, the records the code's functions return.
LEMMA AcquireSaverFields ==
    ASSUME NEW d \in DisplayType, NEW m \in Monitor
    PROVE  /\ AcquireSaver(d, m) \in DisplayType
           /\ AcquireSaver(d, m).owner = d.owner
           /\ AcquireSaver(d, m).oldMode = d.oldMode
           /\ AcquireSaver(d, m).crtcMode = d.crtcMode
           /\ AcquireSaver(d, m).count =
                IF d.owner[m] = NoWindow THEN d.count + 1 ELSE d.count
           /\ AcquireSaver(d, m).saved = IF d.count = 0 THEN d.saver ELSE d.saved
           /\ AcquireSaver(d, m).saver = IF d.count = 0 THEN "disabled" ELSE d.saver
<1> DEFINE e == AcquireSaver(d, m)
           count == IF d.owner[m] = NoWindow THEN d.count + 1 ELSE d.count
           saved == IF d.count = 0 THEN d.saver ELSE d.saved
           saver == IF d.count = 0 THEN "disabled" ELSE d.saver
<1>1. /\ d = [owner |-> d.owner, oldMode |-> d.oldMode, count |-> d.count,
              saved |-> d.saved, saver |-> d.saver, crtcMode |-> d.crtcMode]
      /\ d.count \in Nat /\ d.saved \in Saver /\ d.saver \in Saver
      /\ d.owner \in [Monitor -> Window \union {NoWindow}]
      /\ d.oldMode \in [Monitor -> Mode \union {NoMode}]
      /\ d.crtcMode \in [Output -> Mode]
  BY DEF DisplayType
<1>2. e = [d EXCEPT !.saved = saved, !.saver = saver, !.count = count]
  BY DEF AcquireSaver
<1>3. "disabled" \in Saver
  BY DEF Saver
<1>4. count \in Nat /\ saved \in Saver /\ saver \in Saver
  BY <1>1, <1>3
<1> HIDE DEF e, count, saved, saver
<1>5. e = [owner |-> d.owner, oldMode |-> d.oldMode, count |-> count,
           saved |-> saved, saver |-> saver, crtcMode |-> d.crtcMode]
  BY <1>1, <1>2 DEF DisplayType
<1>6. e \in DisplayType
  BY <1>1, <1>4, <1>5 DEF DisplayType
<1>7. QED
  BY <1>5, <1>6 DEF e, count, saved, saver

LEMMA SetVideoModeFields ==
    ASSUME output \in [Monitor -> Output], NEW d \in DisplayType,
           NEW m \in Monitor, NEW best \in Mode
    PROVE  /\ SetVideoMode(d, m, best) \in DisplayType
           /\ SetVideoMode(d, m, best).owner = d.owner
           /\ SetVideoMode(d, m, best).count = d.count
           /\ SetVideoMode(d, m, best).saved = d.saved
           /\ SetVideoMode(d, m, best).saver = d.saver
           /\ SetVideoMode(d, m, best).crtcMode =
                [d.crtcMode EXCEPT ![output[m]] = best]
           /\ SetVideoMode(d, m, best).oldMode =
                IF d.crtcMode[output[m]] # best /\ d.oldMode[m] = NoMode
                  THEN [d.oldMode EXCEPT ![m] = d.crtcMode[output[m]]]
                  ELSE d.oldMode
<1> DEFINE o == output[m]
           e == SetVideoMode(d, m, best)
<1>1. /\ d = [owner |-> d.owner, oldMode |-> d.oldMode, count |-> d.count,
              saved |-> d.saved, saver |-> d.saver, crtcMode |-> d.crtcMode]
      /\ d.crtcMode \in [Output -> Mode]
      /\ d.oldMode \in [Monitor -> Mode \union {NoMode}]
      /\ o \in Output
  BY DEF DisplayType
<1>2. CASE d.crtcMode[o] = best
  <2>1. e = d
    BY <1>2 DEF SetVideoMode
  <2>2. d.crtcMode = [d.crtcMode EXCEPT ![o] = best]
    BY <1>1, <1>2
  <2>3. QED
    BY <1>2, <2>1, <2>2
<1>3. CASE d.crtcMode[o] # best
  <2>1. e = [owner |-> d.owner,
             oldMode |-> [d.oldMode EXCEPT ![m] = IF @ = NoMode
                                                    THEN d.crtcMode[o] ELSE @],
             count |-> d.count, saved |-> d.saved, saver |-> d.saver,
             crtcMode |-> [d.crtcMode EXCEPT ![o] = best]]
    BY <1>1, <1>3 DEF SetVideoMode, DisplayType
  <2>2. d.oldMode[m] # NoMode =>
          [d.oldMode EXCEPT ![m] = IF @ = NoMode THEN d.crtcMode[o] ELSE @] = d.oldMode
    BY <1>1
  <2>3. e \in DisplayType
    BY <1>1, <2>1 DEF DisplayType
  <2>4. QED
    BY <1>3, <2>1, <2>2, <2>3
<1>4. QED
  BY <1>2, <1>3

LEMMA AcquireFields ==
    ASSUME output \in [Monitor -> Output], NEW d \in DisplayType,
           NEW m \in Monitor, NEW w \in Window, NEW best \in Mode
    PROVE  LET e == AcquireMonitor(d, w, m, best)
           IN  /\ e \in DisplayType
               /\ e.owner = [d.owner EXCEPT ![m] = w]
               /\ e.count = IF d.owner[m] = NoWindow THEN d.count + 1 ELSE d.count
               /\ e.saved = IF d.count = 0 THEN d.saver ELSE d.saved
               /\ e.saver = IF d.count = 0 THEN "disabled" ELSE d.saver
               /\ e.crtcMode = [d.crtcMode EXCEPT ![output[m]] = best]
               /\ e.oldMode =
                    IF d.crtcMode[output[m]] # best /\ d.oldMode[m] = NoMode
                      THEN [d.oldMode EXCEPT ![m] = d.crtcMode[output[m]]]
                      ELSE d.oldMode
<1> DEFINE a == AcquireSaver(d, m)
           b == SetVideoMode(a, m, best)
           e == AcquireMonitor(d, w, m, best)
<1>1. /\ a \in DisplayType
      /\ a.owner = d.owner /\ a.oldMode = d.oldMode /\ a.crtcMode = d.crtcMode
      /\ a.count = IF d.owner[m] = NoWindow THEN d.count + 1 ELSE d.count
      /\ a.saved = IF d.count = 0 THEN d.saver ELSE d.saved
      /\ a.saver = IF d.count = 0 THEN "disabled" ELSE d.saver
  BY AcquireSaverFields
<1> HIDE DEF a
<1>2. /\ b \in DisplayType
      /\ b.owner = a.owner /\ b.count = a.count
      /\ b.saved = a.saved /\ b.saver = a.saver
      /\ b.crtcMode = [a.crtcMode EXCEPT ![output[m]] = best]
      /\ b.oldMode = IF a.crtcMode[output[m]] # best /\ a.oldMode[m] = NoMode
                       THEN [a.oldMode EXCEPT ![m] = a.crtcMode[output[m]]]
                       ELSE a.oldMode
  BY <1>1, SetVideoModeFields
<1>3. e = [b EXCEPT !.owner[m] = w]
  BY DEF a, AcquireMonitor
<1> HIDE DEF b, e
<1>4. /\ b.owner \in [Monitor -> Window \union {NoWindow}]
      /\ b.oldMode \in [Monitor -> Mode \union {NoMode}]
      /\ b.crtcMode \in [Output -> Mode]
      /\ b.count \in Nat /\ b.saved \in Saver /\ b.saver \in Saver
      /\ b = [owner |-> b.owner, oldMode |-> b.oldMode, count |-> b.count,
              saved |-> b.saved, saver |-> b.saver, crtcMode |-> b.crtcMode]
  BY <1>2 DEF DisplayType
<1>5. e = [owner |-> [b.owner EXCEPT ![m] = w], oldMode |-> b.oldMode,
           count |-> b.count, saved |-> b.saved, saver |-> b.saver,
           crtcMode |-> b.crtcMode]
  BY <1>3, <1>4
<1>6. e \in DisplayType
  BY <1>4, <1>5 DEF DisplayType
<1>7. /\ e.owner = [d.owner EXCEPT ![m] = w]
      /\ e.count = a.count /\ e.saved = a.saved /\ e.saver = a.saver
      /\ e.crtcMode = b.crtcMode /\ e.oldMode = b.oldMode
  BY <1>1, <1>2, <1>5
<1>8. QED
  BY <1>1, <1>2, <1>6, <1>7 DEF e

LEMMA ReleaseFields ==
    ASSUME output \in [Monitor -> Output], NEW d \in DisplayType, d.count # 0,
           NEW m \in Monitor, NEW w, d.owner[m] = w
    PROVE  LET e == ReleaseMonitor(d, w, m)
           IN  /\ e \in DisplayType
               /\ e.owner = [d.owner EXCEPT ![m] = NoWindow]
               /\ e.count = d.count - 1
               /\ e.saved = d.saved
               /\ e.saver = IF d.count - 1 = 0 THEN d.saved ELSE d.saver
               /\ e.oldMode = [d.oldMode EXCEPT ![m] = NoMode]
               /\ e.crtcMode = IF d.oldMode[m] = NoMode
                                 THEN d.crtcMode
                                 ELSE [d.crtcMode EXCEPT ![output[m]] = d.oldMode[m]]
<1> DEFINE owner == [d.owner EXCEPT ![m] = NoWindow]
           oldMode == [d.oldMode EXCEPT ![m] = NoMode]
           crtcMode == IF d.oldMode[m] = NoMode
                         THEN d.crtcMode
                         ELSE [d.crtcMode EXCEPT ![output[m]] = d.oldMode[m]]
           count == d.count - 1
           saver == IF count = 0 THEN d.saved ELSE d.saver
           a == [d EXCEPT !.owner[m] = NoWindow]
           b == RestoreVideoMode(a, m)
           e == ReleaseMonitor(d, w, m)
<1>1. /\ d = [owner |-> d.owner, oldMode |-> d.oldMode, count |-> d.count,
              saved |-> d.saved, saver |-> d.saver, crtcMode |-> d.crtcMode]
      /\ d.count \in Nat /\ d.saved \in Saver /\ d.saver \in Saver
      /\ d.owner \in [Monitor -> Window \union {NoWindow}]
      /\ d.oldMode \in [Monitor -> Mode \union {NoMode}]
      /\ d.crtcMode \in [Output -> Mode]
  BY DEF DisplayType
<1>2. /\ owner \in [Monitor -> Window \union {NoWindow}]
      /\ oldMode \in [Monitor -> Mode \union {NoMode}]
      /\ crtcMode \in [Output -> Mode]
      /\ count \in Nat /\ saver \in Saver
  BY <1>1
<1>3. a = [owner |-> owner, oldMode |-> d.oldMode, count |-> d.count,
           saved |-> d.saved, saver |-> d.saver, crtcMode |-> d.crtcMode]
  BY <1>1
<1>4. b = [owner |-> owner, oldMode |-> oldMode, count |-> d.count,
           saved |-> d.saved, saver |-> d.saver, crtcMode |-> crtcMode]
  <2> HIDE DEF a, owner
  <2>1. CASE d.oldMode[m] = NoMode
    <3>1. oldMode = d.oldMode
      BY <1>1, <2>1
    <3>2. b = a
      BY <1>3, <2>1 DEF RestoreVideoMode
    <3>3. QED
      BY <1>3, <2>1, <3>1, <3>2
  <2>2. CASE d.oldMode[m] # NoMode
    BY <1>1, <1>3, <2>2 DEF RestoreVideoMode
  <2>3. QED
    BY <2>1, <2>2
<1>5. e = ReleaseSaver(b)
  BY DEF ReleaseMonitor
<1> HIDE DEF a, b, e, owner, oldMode, crtcMode
<1>6. e = [owner |-> owner, oldMode |-> oldMode, count |-> count,
           saved |-> d.saved, saver |-> saver, crtcMode |-> crtcMode]
  BY <1>4, <1>5 DEF ReleaseSaver
<1>7. e \in DisplayType
  BY <1>1, <1>2, <1>6 DEF DisplayType
<1>8. QED
  BY <1>6, <1>7 DEF e, owner, oldMode, crtcMode

-----------------------------------------------------------------------------
(* The desktop *)

LEMMA AcquireOK ==
    ASSUME monitors \in SUBSET Monitor, output \in [Monitor -> Output],
           OutputsDistinct, NEW d, DisplayOK(d),
           NEW m \in monitors, NEW w \in Window, NEW best \in Mode
    PROVE  /\ DisplayOK(AcquireMonitor(d, w, m, best))
           /\ AcquireMonitor(d, w, m, best).owner = [d.owner EXCEPT ![m] = w]
<1> DEFINE e == AcquireMonitor(d, w, m, best)
<1>1. /\ d \in DisplayType /\ d.count \in Nat
      /\ d.owner \in [Monitor -> Window \union {NoWindow}]
      /\ d.oldMode \in [Monitor -> Mode \union {NoMode}]
      /\ d.crtcMode \in [Output -> Mode]
  BY DEF DisplayOK, DisplayType
<1>2. /\ e \in DisplayType
      /\ e.owner = [d.owner EXCEPT ![m] = w]
      /\ e.count = IF d.owner[m] = NoWindow THEN d.count + 1 ELSE d.count
      /\ e.saved = IF d.count = 0 THEN d.saver ELSE d.saved
      /\ e.saver = IF d.count = 0 THEN "disabled" ELSE d.saver
      /\ e.crtcMode = [d.crtcMode EXCEPT ![output[m]] = best]
      /\ e.oldMode = IF d.crtcMode[output[m]] # best /\ d.oldMode[m] = NoMode
                       THEN [d.oldMode EXCEPT ![m] = d.crtcMode[output[m]]]
                       ELSE d.oldMode
  BY <1>1, AcquireFields
<1> HIDE DEF e
<1>3. HeldIn(e) = HeldIn(d) \union {m} /\ (m \in HeldIn(d) <=> d.owner[m] # NoWindow)
  BY <1>1, <1>2, NullAssumption DEF HeldIn
<1>4. e.count = Cardinality(HeldIn(e))
  <2>1. IsFiniteSet(HeldIn(d)) /\ d.count = Cardinality(HeldIn(d))
    BY HeldFinite DEF DisplayOK
  <2>2. CASE m \in HeldIn(d)
    <3>1. HeldIn(e) = HeldIn(d)
      BY <1>3, <2>2
    <3>2. QED
      BY <1>2, <1>3, <2>1, <2>2, <3>1
  <2>3. CASE m \notin HeldIn(d)
    <3>1. Cardinality(HeldIn(d) \union {m}) = Cardinality(HeldIn(d)) + 1
      BY <2>1, <2>3, FS_AddElement
    <3>2. QED
      BY <1>2, <1>3, <2>1, <2>3, <3>1
  <2>4. QED
    BY <2>2, <2>3
<1>5. e.saver = "disabled" /\ e.saved = "user"
  BY <1>1, <1>2, NoneHeld DEF DisplayOK
<1>6. ASSUME NEW k \in monitors, e.oldMode[k] # NoMode
      PROVE  k \in HeldIn(e) /\ e.oldMode[k] = DesktopMode
  BY <1>1, <1>2, <1>3, <1>6 DEF DisplayOK
<1>7. ASSUME NEW k \in monitors, e.oldMode[k] = NoMode
      PROVE  e.crtcMode[output[k]] = DesktopMode
  <2>1. CASE k = m
    BY <1>1, <1>2, <1>7, <2>1, NullAssumption DEF DisplayOK
  <2>2. CASE k # m
    BY <1>1, <1>2, <1>7, <2>2 DEF DisplayOK, OutputsDistinct
  <2>3. QED
    BY <2>1, <2>2
<1>8. ASSUME NEW o \in Output, e.crtcMode[o] # DesktopMode
      PROVE  \E k \in monitors : output[k] = o
  BY <1>1, <1>2, <1>8 DEF DisplayOK
<1>9. DisplayOK(e)
  BY <1>2, <1>3, <1>4, <1>5, <1>6, <1>7, <1>8 DEF DisplayOK
<1>10. QED
  BY <1>2, <1>9 DEF e

LEMMA ReleaseOK ==
    ASSUME monitors \in SUBSET Monitor, output \in [Monitor -> Output],
           OutputsDistinct, NEW d, DisplayOK(d),
           NEW m \in monitors, NEW w \in Window
    PROVE  /\ DisplayOK(ReleaseMonitor(d, w, m))
           /\ ReleaseMonitor(d, w, m).owner =
                IF d.owner[m] = w THEN [d.owner EXCEPT ![m] = NoWindow] ELSE d.owner
<1> DEFINE e == ReleaseMonitor(d, w, m)
<1>1. CASE d.owner[m] # w
  BY <1>1 DEF ReleaseMonitor
<1>2. CASE d.owner[m] = w
  <2>1. /\ d \in DisplayType /\ d.count \in Nat
        /\ d.owner \in [Monitor -> Window \union {NoWindow}]
        /\ d.oldMode \in [Monitor -> Mode \union {NoMode}]
        /\ d.crtcMode \in [Output -> Mode]
    BY DEF DisplayOK, DisplayType
  <2>2. m \in HeldIn(d)
    BY <1>2, NullAssumption DEF HeldIn
  <2>3. d.count # 0
    BY <2>2, NoneHeld DEF DisplayOK
  <2>4. /\ e \in DisplayType
        /\ e.owner = [d.owner EXCEPT ![m] = NoWindow]
        /\ e.count = d.count - 1
        /\ e.saved = d.saved
        /\ e.saver = IF d.count - 1 = 0 THEN d.saved ELSE d.saver
        /\ e.oldMode = [d.oldMode EXCEPT ![m] = NoMode]
        /\ e.crtcMode = IF d.oldMode[m] = NoMode
                          THEN d.crtcMode
                          ELSE [d.crtcMode EXCEPT ![output[m]] = d.oldMode[m]]
    BY <1>2, <2>1, <2>3, ReleaseFields
  <2> HIDE DEF e
  <2>5. HeldIn(e) = HeldIn(d) \ {m}
    BY <2>1, <2>4 DEF HeldIn
  <2>6. e.count = Cardinality(HeldIn(e))
    <3>1. IsFiniteSet(HeldIn(d)) /\ d.count = Cardinality(HeldIn(d))
      BY HeldFinite DEF DisplayOK
    <3>2. Cardinality(HeldIn(d) \ {m}) = Cardinality(HeldIn(d)) - 1
      BY <2>2, <3>1, FS_RemoveElement
    <3>3. QED
      BY <2>4, <2>5, <3>1, <3>2
  <2>7. e.saver = IF HeldIn(e) = {} THEN "user" ELSE "disabled"
    <3>1. e.count = 0 <=> HeldIn(e) = {}
      BY <2>6, NoneHeld
    <3>2. d.saved = "user" /\ d.saver = "disabled"
      BY <2>2 DEF DisplayOK
    <3>3. QED
      BY <2>4, <3>1, <3>2
  <2>8. e.saved = "user"
    BY <2>2, <2>4 DEF DisplayOK
  <2>9. ASSUME NEW k \in monitors, e.oldMode[k] # NoMode
        PROVE  k \in HeldIn(e) /\ e.oldMode[k] = DesktopMode
    BY <2>1, <2>4, <2>5, <2>9 DEF DisplayOK
  <2>10. ASSUME NEW k \in monitors, e.oldMode[k] = NoMode
         PROVE  e.crtcMode[output[k]] = DesktopMode
    <3>1. CASE k = m
      BY <2>1, <2>4, <3>1 DEF DisplayOK
    <3>2. CASE k # m
      BY <2>1, <2>4, <2>10, <3>2 DEF DisplayOK, OutputsDistinct
    <3>3. QED
      BY <3>1, <3>2
  <2>11. ASSUME NEW o \in Output, e.crtcMode[o] # DesktopMode
         PROVE  \E k \in monitors : output[k] = o
    BY <2>1, <2>4, <2>11 DEF DisplayOK
  <2>12. DisplayOK(e)
    BY <2>4, <2>6, <2>7, <2>8, <2>9, <2>10, <2>11 DEF DisplayOK
  <2>13. QED
    BY <1>2, <2>4, <2>12 DEF e
<1>3. QED
  BY <1>1, <1>2

\* Making a window windowed takes every monitor from it.
LEMMA LeaveOK ==
    ASSUME TypeOK, GraphInv, NEW w \in windows
    PROVE  /\ DisplayOK(LeaveMonitor(display, w))
           /\ \A m \in monitors :
                LeaveMonitor(display, w).owner[m] =
                  IF display.owner[m] = w THEN NoWindow ELSE display.owner[m]
<1> DEFINE m == monitorOf[w]
<1>1. /\ w \in Window
      /\ display.owner \in [Monitor -> Window \union {NoWindow}]
      /\ m \in monitors \union {NoMonitor}
      /\ monitors \in SUBSET Monitor
      /\ output \in [Monitor -> Output]
      /\ DisplayOK(display) /\ OutputsDistinct
  BY DEF TypeOK, GraphInv, NoDanglingMonitor, DisplayType
<1>2. \A k \in monitors : display.owner[k] = w => k = m
  BY <1>1, NullAssumption DEF GraphInv, HolderIsFullScreen
<1>3. CASE m = NoMonitor
  BY <1>1, <1>2, <1>3, NullAssumption DEF LeaveMonitor
<1>4. CASE m \in monitors
  <2>1. LeaveMonitor(display, w) = ReleaseMonitor(display, w, m)
    BY <1>1, <1>4, NullAssumption DEF LeaveMonitor
  <2>2. /\ DisplayOK(ReleaseMonitor(display, w, m))
        /\ ReleaseMonitor(display, w, m).owner =
             IF display.owner[m] = w
               THEN [display.owner EXCEPT ![m] = NoWindow] ELSE display.owner
    BY <1>1, <1>4, ReleaseOK
  <2>3. QED
    BY <1>1, <1>2, <1>4, <2>1, <2>2
<1>5. QED
  BY <1>1, <1>3, <1>4

-----------------------------------------------------------------------------
(* What a step that leaves a part of the state alone preserves *)

LEMMA GraphKept ==
    ASSUME GraphInv, UNCHANGED <<windows, monitorOf, monitorVars, display>>
    PROVE  GraphInv'
BY DEF GraphInv, HolderIsFullScreen, NoDanglingMonitor, DisplayOK, HeldIn,
       OutputsDistinct, monitorVars

LEMMA PollKept ==
    ASSUME PollInv, UNCHANGED <<initialized, monitorVars, phase, unseen,
                                departed, connected, rrNotify>>
    PROVE  PollInv'
BY DEF PollInv, PollShape, PollCurrent, monitorVars

\* A step of the windows leaves the monitors alone.
LEMMA WindowStep ==
    ASSUME GraphInv, UNCHANGED monitorVars, DisplayOK(display'),
           \A m \in monitors : display'.owner[m] # NoWindow =>
             display'.owner[m] \in windows' /\ monitorOf'[display'.owner[m]] = m,
           \A w \in windows' : monitorOf'[w] \in monitors \union {NoMonitor}
    PROVE  GraphInv'
<1>1. OutputsDistinct' /\ HolderIsFullScreen' /\ NoDanglingMonitor'
  BY DEF GraphInv, HolderIsFullScreen, NoDanglingMonitor, OutputsDistinct, monitorVars
<1>2. DisplayOK(display)'
  BY DEF DisplayOK, HeldIn, monitorVars
<1>3. QED
  BY <1>1, <1>2 DEF GraphInv

-----------------------------------------------------------------------------
(* The X server *)

LEMMA PlugOrUnplugStep ==
    ASSUME IInv, NEW o \in Output, PlugOrUnplug(o)
    PROVE  IInv'
<1> USE DEF PlugOrUnplug, windowVars, monitorVars, pollVars
<1>1. TypeOK'
  BY DEF IInv, TypeOK, DisplayOpen, Phase
<1>2. GraphInv' /\ NotifiedLive'
  BY GraphKept DEF IInv, NotifiedLive
<1>3. PollShape'
  BY DEF IInv, PollInv, PollShape
<1>4. PollCurrent'
  <2>1. CASE DisplayOpen
    BY <2>1 DEF PollCurrent
  <2>2. CASE ~DisplayOpen
    BY <2>2 DEF PollCurrent, DisplayOpen
  <2>3. QED
    BY <2>1, <2>2
<1>5. QED
  BY <1>1, <1>2, <1>3, <1>4 DEF IInv, PollInv

LEMMA WmChangeStep ==
    ASSUME IInv, NEW w \in windows, NEW s \in WmState, WmChange(w, s),
           UNCHANGED <<initialized, windowVars, monitorVars, display, pollVars>>
    PROVE  IInv'
<1> USE DEF WmChange, windowVars, monitorVars, pollVars
<1>1. TypeOK'
  BY DEF IInv, TypeOK
<1>2. GraphInv' /\ NotifiedLive'
  BY GraphKept DEF IInv, NotifiedLive
<1>3. PollInv'
  BY PollKept DEF IInv
<1>4. QED
  BY <1>1, <1>2, <1>3 DEF IInv

-----------------------------------------------------------------------------
(* The windows *)

LEMMA CreateWindowStep ==
    ASSUME IInv, NEW w \in Window, NEW m \in Monitor \union {NoMonitor},
           NEW vm \in Mode, NEW visible \in BOOLEAN,
           CreateWindow(w, m, vm, visible)
    PROVE  IInv'
<1> USE DEF CreateWindow, monitorVars, pollVars
<1>1. /\ TypeOK /\ GraphInv /\ DisplayOK(display) /\ OutputsDistinct
      /\ display.owner \in [Monitor -> Window \union {NoWindow}]
      /\ monitors \in SUBSET Monitor
      /\ output \in [Monitor -> Output]
      /\ windows \in SUBSET Window
      /\ monitorOf \in [Window -> Monitor \union {NoMonitor}]
  BY DEF IInv, GraphInv, TypeOK, DisplayType
<1>2. /\ DisplayOK(display')
      /\ display'.owner = IF m = NoMonitor THEN display.owner
                                          ELSE [display.owner EXCEPT ![m] = w]
  BY <1>1, AcquireOK
<1>3. GraphInv'
  <2>1. ASSUME NEW k \in monitors, display'.owner[k] # NoWindow
        PROVE  display'.owner[k] \in windows' /\ monitorOf'[display'.owner[k]] = k
    BY <1>1, <1>2, <2>1, NullAssumption DEF GraphInv, HolderIsFullScreen
  <2>2. ASSUME NEW v \in windows'
        PROVE  monitorOf'[v] \in monitors \union {NoMonitor}
    BY <1>1 DEF GraphInv, NoDanglingMonitor
  <2>3. QED
    BY <1>1, <1>2, <2>1, <2>2, WindowStep
<1>4. TypeOK'
  BY <1>1, <1>2 DEF TypeOK, DisplayOK, WmState
<1>5. NotifiedLive' /\ PollInv'
  BY PollKept DEF IInv, NotifiedLive
<1>6. QED
  BY <1>3, <1>4, <1>5 DEF IInv

LEMMA FreeWindowStep ==
    ASSUME IInv, NEW w \in Window, FreeWindow(w), UNCHANGED phase
    PROVE  IInv'
<1> USE DEF FreeWindow, monitorVars, pollVars
<1>1. /\ TypeOK /\ GraphInv /\ w \in windows
      /\ display.owner \in [Monitor -> Window \union {NoWindow}]
      /\ windows \in SUBSET Window /\ monitors \in SUBSET Monitor
      /\ monitorOf \in [Window -> Monitor \union {NoMonitor}]
  BY DEF IInv, TypeOK, DisplayType
<1>2. /\ DisplayOK(display')
      /\ \A m \in monitors : display'.owner[m] =
           IF display.owner[m] = w THEN NoWindow ELSE display.owner[m]
  BY <1>1, LeaveOK
<1>3. GraphInv'
  <2>1. ASSUME NEW k \in monitors, display'.owner[k] # NoWindow
        PROVE  display'.owner[k] \in windows' /\ monitorOf'[display'.owner[k]] = k
    BY <1>1, <1>2, <2>1 DEF GraphInv, HolderIsFullScreen
  <2>2. ASSUME NEW v \in windows'
        PROVE  monitorOf'[v] \in monitors \union {NoMonitor}
    BY <1>1 DEF GraphInv, NoDanglingMonitor
  <2>3. QED
    BY <1>1, <1>2, <2>1, <2>2, WindowStep
<1>4. TypeOK'
  BY <1>1, <1>2 DEF TypeOK, DisplayOK
<1>5. NotifiedLive' /\ PollInv'
  BY PollKept DEF IInv, NotifiedLive
<1>6. QED
  BY <1>3, <1>4, <1>5 DEF IInv

LEMMA SetWindowMonitorStep ==
    ASSUME IInv, NEW w \in Window, NEW m \in Monitor \union {NoMonitor},
           NEW vm \in Mode, SetWindowMonitor(w, m, vm)
    PROVE  IInv'
<1> USE DEF SetWindowMonitor, monitorVars, pollVars, serverVars
<1>1. /\ TypeOK /\ GraphInv /\ w \in windows
      /\ DisplayOK(display) /\ OutputsDistinct
      /\ display.owner \in [Monitor -> Window \union {NoWindow}]
      /\ windows \in SUBSET Window /\ monitors \in SUBSET Monitor
      /\ output \in [Monitor -> Output]
      /\ monitorOf \in [Window -> Monitor \union {NoMonitor}]
      /\ m \in monitors \union {NoMonitor}
  BY DEF IInv, GraphInv, TypeOK, DisplayType
<1>2. \A k \in monitors : display.owner[k] = w => k = monitorOf[w]
  BY <1>1, NullAssumption DEF GraphInv, HolderIsFullScreen
<1>3. /\ DisplayOK(display')
      /\ \A k \in monitors :
           \/ display'.owner[k] = w /\ k = m
           \/ display'.owner[k] = NoWindow
           \/ display'.owner[k] = display.owner[k] /\ display.owner[k] # w
  <2>1. CASE m = monitorOf[w] /\ m # NoMonitor /\ display.owner[m] = w
    <3>1. /\ DisplayOK(display')
          /\ display'.owner = [display.owner EXCEPT ![m] = w]
      BY <1>1, <2>1, AcquireOK
    <3>2. QED
      BY <1>1, <1>2, <2>1, <3>1
  <2>2. CASE m = monitorOf[w] /\ ~(m # NoMonitor /\ display.owner[m] = w)
    BY <1>1, <1>2, <2>2, NullAssumption
  <2>3. CASE m # monitorOf[w] /\ m = NoMonitor
    BY <1>1, <2>3, LeaveOK
  <2>4. CASE m # monitorOf[w] /\ m # NoMonitor
    <3> DEFINE d == LeaveMonitor(display, w)
    <3>1. /\ DisplayOK(d)
          /\ \A k \in monitors : d.owner[k] =
               IF display.owner[k] = w THEN NoWindow ELSE display.owner[k]
      BY <1>1, LeaveOK
    <3>2. display' = AcquireMonitor(d, w, m, vm)
      BY <2>4
    <3> HIDE DEF d
    <3>3. /\ DisplayOK(display')
          /\ display'.owner = [d.owner EXCEPT ![m] = w]
      BY <1>1, <2>4, <3>1, <3>2, AcquireOK
    <3>4. d.owner \in [Monitor -> Window \union {NoWindow}]
      BY <3>1 DEF DisplayOK, DisplayType
    <3>5. QED
      BY <1>1, <2>4, <3>1, <3>3, <3>4
  <2>5. QED
    BY <2>1, <2>2, <2>3, <2>4
<1>4. GraphInv'
  <2>1. ASSUME NEW k \in monitors, display'.owner[k] # NoWindow
        PROVE  display'.owner[k] \in windows' /\ monitorOf'[display'.owner[k]] = k
    BY <1>1, <1>3, <2>1 DEF GraphInv, HolderIsFullScreen
  <2>2. ASSUME NEW v \in windows'
        PROVE  monitorOf'[v] \in monitors \union {NoMonitor}
    BY <1>1 DEF GraphInv, NoDanglingMonitor
  <2>3. QED
    BY <1>1, <1>3, <2>1, <2>2, WindowStep
<1>5. /\ wmState' \in [Window -> WmState]
      /\ wmNotify' \in SUBSET windows
      /\ UNCHANGED <<connected, rrNotify>>
  BY <1>1 DEF IInv, TypeOK, NotifiedLive, MapWindow, WmChange, WmState
<1>6. TypeOK'
  BY <1>1, <1>3, <1>5 DEF TypeOK, DisplayOK
<1>7. NotifiedLive' /\ PollInv'
  BY <1>5, PollKept DEF IInv, NotifiedLive
<1>8. QED
  BY <1>4, <1>6, <1>7 DEF IInv

\* A window that stays where it is: it takes its own monitor again, or lets go.
LEMMA InPlace ==
    ASSUME TypeOK, GraphInv, NEW w \in windows, UNCHANGED <<windows, monitorOf>>,
           UNCHANGED monitorVars, DisplayOK(display'),
           \A k \in monitors :
             \/ display'.owner[k] = w /\ k = monitorOf[w]
             \/ display'.owner[k] = NoWindow
             \/ display'.owner[k] = display.owner[k]
    PROVE  GraphInv'
<1>1. ASSUME NEW k \in monitors, display'.owner[k] # NoWindow
      PROVE  display'.owner[k] \in windows' /\ monitorOf'[display'.owner[k]] = k
  BY <1>1 DEF GraphInv, HolderIsFullScreen
<1>2. ASSUME NEW v \in windows'
      PROVE  monitorOf'[v] \in monitors \union {NoMonitor}
  BY DEF GraphInv, NoDanglingMonitor
<1>3. QED
  BY <1>1, <1>2, WindowStep

LEMMA SetWindowSizeStep ==
    ASSUME IInv, NEW w \in Window, NEW vm \in Mode, SetWindowSize(w, vm)
    PROVE  IInv'
<1> USE DEF SetWindowSize, monitorVars, pollVars, serverVars
<1> DEFINE m == monitorOf[w]
<1>1. /\ TypeOK /\ GraphInv /\ w \in windows
      /\ DisplayOK(display) /\ OutputsDistinct
      /\ display.owner \in [Monitor -> Window \union {NoWindow}]
      /\ windows \in SUBSET Window /\ monitors \in SUBSET Monitor
      /\ output \in [Monitor -> Output]
      /\ m \in monitors \union {NoMonitor}
  BY DEF IInv, GraphInv, NoDanglingMonitor, TypeOK, DisplayType
<1>2. GraphInv' /\ DisplayOK(display')
  <2>1. CASE m # NoMonitor /\ display.owner[m] = w
    <3>1. /\ DisplayOK(display')
          /\ display'.owner = [display.owner EXCEPT ![m] = w]
      BY <1>1, <2>1, AcquireOK
    <3>2. QED
      BY <1>1, <3>1, InPlace
  <2>2. CASE ~(m # NoMonitor /\ display.owner[m] = w)
    BY <1>1, <2>2, GraphKept
  <2>3. QED
    BY <2>1, <2>2
<1>3. TypeOK'
  BY <1>1, <1>2 DEF TypeOK, DisplayOK
<1>4. NotifiedLive' /\ PollInv'
  BY PollKept DEF IInv, NotifiedLive
<1>5. QED
  BY <1>2, <1>3, <1>4 DEF IInv

LEMMA HandleWmStateStep ==
    ASSUME IInv, NEW w \in Window, HandleWmState(w)
    PROVE  IInv'
<1> USE DEF HandleWmState, monitorVars, pollVars
<1> DEFINE m == monitorOf[w]
           icon == wmState[w] = "iconic"
<1>1. /\ TypeOK /\ GraphInv /\ w \in windows
      /\ DisplayOK(display) /\ OutputsDistinct
      /\ display.owner \in [Monitor -> Window \union {NoWindow}]
      /\ windows \in SUBSET Window /\ monitors \in SUBSET Monitor
      /\ output \in [Monitor -> Output]
      /\ videoMode[w] \in Mode
      /\ m \in monitors \union {NoMonitor}
  BY DEF IInv, GraphInv, NoDanglingMonitor, NotifiedLive, TypeOK, DisplayType
<1>2. /\ DisplayOK(display')
      /\ \A k \in monitors :
           \/ display'.owner[k] = w /\ k = m
           \/ display'.owner[k] = NoWindow
           \/ display'.owner[k] = display.owner[k]
  <2>1. CASE display' = display
    BY <1>1, <2>1
  <2>2. CASE m \in monitors /\ display' = ReleaseMonitor(display, w, m)
    <3>1. /\ DisplayOK(display')
          /\ display'.owner = IF display.owner[m] = w
                                THEN [display.owner EXCEPT ![m] = NoWindow]
                                ELSE display.owner
      BY <1>1, <2>2, ReleaseOK
    <3>2. QED
      BY <1>1, <2>2, <3>1
  <2>3. CASE m \in monitors /\ display' = AcquireMonitor(display, w, m, videoMode[w])
    <3>1. /\ DisplayOK(display')
          /\ display'.owner = [display.owner EXCEPT ![m] = w]
      BY <1>1, <2>3, AcquireOK
    <3>2. QED
      BY <1>1, <2>3, <3>1
  <2>4. QED
    BY <1>1, <2>1, <2>2, <2>3
<1>3. GraphInv'
  BY <1>1, <1>2, InPlace
<1>4. iconified' \in [Window -> BOOLEAN]
  <2>1. icon \in BOOLEAN
    OBVIOUS
  <2> HIDE DEF icon
  <2>2. iconified' = iconified \/ iconified' = [iconified EXCEPT ![w] = icon]
    BY DEF icon
  <2>3. QED
    BY <1>1, <2>1, <2>2 DEF TypeOK
<1>5. TypeOK'
  BY <1>1, <1>2, <1>4 DEF TypeOK, DisplayOK
<1>6. NotifiedLive' /\ PollInv'
  BY PollKept DEF IInv, NotifiedLive
<1>7. QED
  BY <1>3, <1>5, <1>6 DEF IInv

-----------------------------------------------------------------------------
(* _grwlPollMonitorsX11, grwlInit and grwlTerminate *)

\* Steps that only move the main thread from one handler to the next.
LEMMA PhaseStep ==
    ASSUME IInv, UNCHANGED <<windowVars, monitorVars, display, wmState, wmNotify,
                             connected>>,
           initialized' \in BOOLEAN, rrNotify' \in BOOLEAN,
           phase' \in Phase, unseen' \in SUBSET Output,
           departed' \in SUBSET Monitor, callback' \in Monitor \union {NoMonitor}
    PROVE  TypeOK' /\ GraphInv' /\ NotifiedLive'
<1> USE DEF windowVars, monitorVars
<1>1. TypeOK'
  BY DEF IInv, TypeOK
<1>2. QED
  BY <1>1, GraphKept DEF IInv, NotifiedLive

LEMMA BeginPollStep ==
    ASSUME IInv, PollMonitors \/ GrwlInit
    PROVE  IInv'
<1> USE DEF windowVars, monitorVars, serverVars
<1>1. CASE PollMonitors
  <2>1. TypeOK' /\ GraphInv' /\ NotifiedLive'
    BY <1>1, PhaseStep DEF PollMonitors, IInv, TypeOK, Phase
  <2>2. PollInv'
    BY <1>1 DEF PollMonitors, IInv, PollInv, PollShape, PollCurrent
  <2>3. QED
    BY <2>1, <2>2 DEF IInv
<1>2. CASE GrwlInit
  <2>1. TypeOK' /\ GraphInv' /\ NotifiedLive'
    BY <1>2, PhaseStep DEF GrwlInit, IInv, TypeOK, Phase
  <2>2. monitors = {}
    BY <1>2 DEF GrwlInit, IInv, PollInv, PollShape
  <2>3. PollInv'
    BY <1>2, <2>2 DEF GrwlInit, PollInv, PollShape, PollCurrent
  <2>4. QED
    BY <2>1, <2>3 DEF IInv
<1>3. QED
  BY <1>1, <1>2

LEMMA SkipOutputStep ==
    ASSUME IInv, NEW o \in Output, SkipOutput(o)
    PROVE  IInv'
<1> USE DEF SkipOutput, InPoll, monitorVars, serverVars
<1>1. TypeOK' /\ GraphInv' /\ NotifiedLive'
  BY PhaseStep DEF IInv, TypeOK
<1>2. PollShape'
  BY DEF IInv, PollInv, PollShape
<1>3. PollCurrent'
  BY DEF IInv, PollInv, PollShape, PollCurrent
<1>4. QED
  BY <1>1, <1>2, <1>3 DEF IInv, PollInv

LEMMA KeepMonitorStep ==
    ASSUME IInv, NEW o \in Output, NEW m \in Monitor, KeepMonitor(o, m)
    PROVE  IInv'
<1> USE DEF KeepMonitor, KnownMonitors, InPoll, monitorVars, serverVars
<1>1. TypeOK' /\ GraphInv' /\ NotifiedLive'
  BY PhaseStep DEF IInv, TypeOK
<1>2. PollShape'
  BY DEF IInv, PollInv, PollShape
<1>3. PollCurrent'
  BY DEF IInv, PollInv, PollShape, PollCurrent
<1>4. QED
  BY <1>1, <1>2, <1>3 DEF IInv, PollInv

LEMMA ConnectMonitorStep ==
    ASSUME IInv, NEW o \in Output, NEW m \in Monitor, ConnectMonitor(o, m)
    PROVE  IInv'
<1> USE DEF ConnectMonitor, KnownMonitors, InPoll, InvokeCallback, windowVars,
            serverVars
<1>1. /\ TypeOK /\ GraphInv /\ DisplayOK(display) /\ PollInv
      /\ display \in DisplayType
      /\ display.owner \in [Monitor -> Window \union {NoWindow}]
      /\ display.oldMode \in [Monitor -> Mode \union {NoMode}]
      /\ display.crtcMode \in [Output -> Mode]
      /\ output \in [Monitor -> Output]
      /\ monitors \in SUBSET Monitor /\ m \notin monitors
      /\ monitors' = monitors \union {m}
      /\ output' = [output EXCEPT ![m] = o]
  BY DEF IInv, TypeOK, GraphInv, DisplayType
<1>2. \A k \in monitors : output[k] # o /\ output'[k] = output[k]
  BY <1>1 DEF PollInv, PollShape
<1>3. display' = [owner    |-> [display.owner EXCEPT ![m] = NoWindow],
                  oldMode  |-> [display.oldMode EXCEPT ![m] = NoMode],
                  count    |-> display.count,
                  saved    |-> display.saved,
                  saver    |-> display.saver,
                  crtcMode |-> display.crtcMode]
  BY <1>1 DEF DisplayType
<1>4. display' \in DisplayType
  BY <1>1, <1>3 DEF DisplayType
<1>5. HeldIn(display)' = HeldIn(display)
  BY <1>1, <1>3 DEF HeldIn
<1>6. display.crtcMode[o] = DesktopMode
  BY <1>2 DEF IInv, GraphInv, DisplayOK
<1>7. \A k \in monitors' :
        display'.oldMode[k] # NoMode =>
          k \in HeldIn(display) /\ display'.oldMode[k] = DesktopMode
  BY <1>1, <1>3 DEF DisplayOK
<1>8. \A k \in monitors' :
        display'.oldMode[k] = NoMode => display'.crtcMode[output'[k]] = DesktopMode
  BY <1>1, <1>2, <1>3, <1>6 DEF DisplayOK
<1>9. \A p \in Output :
        display'.crtcMode[p] # DesktopMode => \E k \in monitors' : output'[k] = p
  BY <1>1, <1>2, <1>3 DEF DisplayOK
<1>10. DisplayOK(display)'
  BY <1>1, <1>3, <1>4, <1>5, <1>7, <1>8, <1>9 DEF DisplayOK
<1>11. OutputsDistinct'
  BY <1>1, <1>2 DEF GraphInv, OutputsDistinct
<1>12. HolderIsFullScreen' /\ NoDanglingMonitor'
  BY <1>1, <1>3 DEF GraphInv, HolderIsFullScreen, NoDanglingMonitor
<1>13. TypeOK'
  BY <1>1, <1>4 DEF TypeOK
<1>14. PollShape'
  BY <1>1, <1>2 DEF PollInv, PollShape
<1>15. PollCurrent'
  BY <1>1, <1>2 DEF PollInv, PollShape, PollCurrent
<1>16. QED
  BY <1>10, <1>11, <1>12, <1>13, <1>14, <1>15
     DEF IInv, GraphInv, NotifiedLive, PollInv

LEMMA OutputsDoneStep ==
    ASSUME IInv, OutputsDone
    PROVE  IInv'
<1> USE DEF OutputsDone, InPoll, monitorVars, serverVars
<1>1. TypeOK' /\ GraphInv' /\ NotifiedLive'
  BY PhaseStep DEF IInv, TypeOK, Phase
<1>2. PollInv'
  BY DEF IInv, PollInv, PollShape, PollCurrent
<1>3. QED
  BY <1>1, <1>2 DEF IInv

LEMMA DisconnectMonitorStep ==
    ASSUME IInv, NEW m \in Monitor, DisconnectMonitor(m)
    PROVE  IInv'
<1> USE DEF DisconnectMonitor, InPoll, InvokeCallback, serverVars
<1>1. /\ TypeOK /\ GraphInv /\ DisplayOK(display) /\ PollInv /\ OutputsDistinct
      /\ display.owner \in [Monitor -> Window \union {NoWindow}]
      /\ windows \in SUBSET Window
      /\ monitorOf \in [Window -> Monitor \union {NoMonitor}]
      /\ output \in [Monitor -> Output]
      /\ monitors \in SUBSET Monitor /\ m \in monitors
      /\ monitors' = monitors \ {m} /\ output' = output
  BY DEF IInv, TypeOK, GraphInv, PollInv, PollShape, DisplayType
<1>2. /\ DisplayOK(display')
      /\ display'.owner[m] = NoWindow
      /\ \A k \in monitors' : display'.owner[k] = display.owner[k]
  <2>1. CASE display.owner[m] = NoWindow
    <3>1. display' = display
      BY <1>1, <2>1, NullAssumption DEF WindowsOn
    <3>2. QED
      BY <1>1, <2>1, <3>1
  <2>2. CASE display.owner[m] # NoWindow
    <3> DEFINE w == display.owner[m]
    <3>1. w \in WindowsOn(m) /\ w \in Window
      BY <1>1, <2>2 DEF GraphInv, HolderIsFullScreen, WindowsOn
    <3>2. display' = ReleaseMonitor(display, w, m)
      BY <3>1
    <3>3. /\ DisplayOK(display')
          /\ display'.owner = [display.owner EXCEPT ![m] = NoWindow]
      BY <1>1, <3>1, <3>2, ReleaseOK
    <3>4. QED
      BY <1>1, <3>3
  <2>3. QED
    BY <2>1, <2>2
<1>3. HeldIn(display)' = HeldIn(display')
  BY <1>1, <1>2 DEF HeldIn
<1>4. /\ m \notin HeldIn(display')
      /\ display'.crtcMode[output[m]] = DesktopMode
  BY <1>1, <1>2 DEF HeldIn, DisplayOK
<1>5. DisplayOK(display)'
  BY <1>1, <1>2, <1>3, <1>4 DEF DisplayOK
<1>6. OutputsDistinct'
  BY <1>1 DEF OutputsDistinct
<1>7. HolderIsFullScreen'
  BY <1>1, <1>2 DEF GraphInv, HolderIsFullScreen, WindowsOn
<1>8. NoDanglingMonitor'
  BY <1>1 DEF GraphInv, NoDanglingMonitor, WindowsOn
<1>9. TypeOK'
  BY <1>1, <1>2 DEF TypeOK, DisplayOK
<1>10. PollShape'
  BY <1>1 DEF PollInv, PollShape
<1>11. monitors' \ departed' = monitors \ departed
  BY <1>1 DEF PollInv, PollShape
<1>12. PollCurrent'
  BY <1>1, <1>11 DEF PollInv, PollCurrent
<1>13. QED
  BY <1>5, <1>6, <1>7, <1>8, <1>9, <1>10, <1>12
     DEF IInv, GraphInv, NotifiedLive, PollInv

LEMMA EndPollStep ==
    ASSUME IInv, PollDone \/ InitFails
    PROVE  IInv'
<1> USE DEF PollDone, InitFails, InPoll, monitorVars, serverVars
<1>1. TypeOK' /\ GraphInv' /\ NotifiedLive'
  BY PhaseStep DEF IInv, TypeOK, Phase
<1>2. PollShape'
  BY DEF IInv, PollInv, PollShape
<1>3. PollCurrent'
  BY DEF IInv, PollInv, PollShape, PollCurrent
<1>4. QED
  BY <1>1, <1>2, <1>3 DEF IInv, PollInv

LEMMA CallbackReturnsStep ==
    ASSUME IInv, CallbackReturns
    PROVE  IInv'
<1> USE DEF CallbackReturns, monitorVars, serverVars
<1>1. TypeOK' /\ GraphInv' /\ NotifiedLive'
  BY PhaseStep DEF IInv, TypeOK
<1>2. QED
  BY <1>1, PollKept DEF IInv

LEMMA GrwlTerminateStep ==
    ASSUME IInv, GrwlTerminate
    PROVE  IInv'
<1> USE DEF GrwlTerminate, monitorVars, serverVars
<1>1. TypeOK' /\ GraphInv' /\ NotifiedLive'
  BY PhaseStep DEF IInv, TypeOK, Phase
<1>2. PollInv'
  BY DEF IInv, PollInv, PollShape, PollCurrent
<1>3. QED
  BY <1>1, <1>2 DEF IInv

LEMMA TerminateDoneStep ==
    ASSUME IInv, TerminateDone
    PROVE  IInv'
<1> USE DEF TerminateDone, windowVars
<1>1. /\ TypeOK /\ GraphInv /\ DisplayOK(display) /\ PollInv
      /\ windows = {} /\ monitors' = {}
      /\ display \in DisplayType
  BY DEF IInv, GraphInv, DisplayOK
<1>2. HeldIn(display) = {}
  BY <1>1 DEF GraphInv, HolderIsFullScreen, HeldIn
<1>3. \A o \in Output : display.crtcMode[o] = DesktopMode
  BY <1>1, <1>2 DEF DisplayOK
<1>4. display' = [owner |-> display.owner, oldMode |-> display.oldMode,
                  count |-> 0, saved |-> display.saved, saver |-> display.saver,
                  crtcMode |-> display.crtcMode]
  BY <1>1 DEF DisplayType
<1>5. display' \in DisplayType
  BY <1>1, <1>4 DEF DisplayType
<1>6. HeldIn(display)' = {} /\ Cardinality({}) = 0
  BY <1>1, FS_EmptySet DEF HeldIn
<1>7. DisplayOK(display)'
  BY <1>1, <1>2, <1>3, <1>4, <1>5, <1>6 DEF DisplayOK
<1>8. OutputsDistinct' /\ HolderIsFullScreen' /\ NoDanglingMonitor'
  BY <1>1 DEF OutputsDistinct, HolderIsFullScreen, NoDanglingMonitor
<1>9. TypeOK'
  BY <1>1, <1>5 DEF TypeOK, Phase
<1>10. PollShape' /\ PollCurrent'
  BY <1>1 DEF PollInv, PollShape, PollCurrent
<1>11. QED
  BY <1>7, <1>8, <1>9, <1>10 DEF IInv, GraphInv, NotifiedLive, PollInv

-----------------------------------------------------------------------------
(* The theorems *)

LEMMA InitIInv == Init => IInv
<1> SUFFICES ASSUME Init
             PROVE  IInv
  OBVIOUS
<1> USE DEF Init
<1>1. /\ display \in DisplayType /\ display.count = 0
      /\ display.saver = "user" /\ display.saved = "user"
      /\ \A o \in Output : display.crtcMode[o] = DesktopMode
      /\ \A m \in Monitor : display.owner[m] = NoWindow /\ display.oldMode[m] = NoMode
  BY DesktopAssumption DEF DisplayType, Saver
<1>2. TypeOK
  BY <1>1, DesktopAssumption DEF TypeOK, Phase, WmState
<1>3. HeldIn(display) = {} /\ Cardinality({}) = 0
  BY FS_EmptySet DEF HeldIn
<1>4. DisplayOK(display)
  BY <1>1, <1>3 DEF DisplayOK
<1>5. QED
  BY <1>2, <1>4 DEF IInv, GraphInv, HolderIsFullScreen, NoDanglingMonitor,
     OutputsDistinct, NotifiedLive, PollInv, PollShape, PollCurrent

LEMMA NextIInv == IInv /\ [Next]_vars => IInv'
<1> SUFFICES ASSUME IInv, [Next]_vars
             PROVE  IInv'
  OBVIOUS
<1>1. CASE Server
  <2>1. ASSUME NEW o \in Output, PlugOrUnplug(o)
        PROVE  IInv'
    BY <2>1, PlugOrUnplugStep
  <2>2. ASSUME NEW w \in Window, WmIconify(w) \/ WmRestore(w)
        PROVE  IInv'
    BY <2>2, WmChangeStep DEF WmIconify, WmRestore, WmState
  <2>3. QED
    BY <1>1, <2>1, <2>2 DEF Server
<1>2. CASE Application
  <2>1. CASE GrwlInit
    BY <2>1, BeginPollStep
  <2>2. CASE GrwlTerminate
    BY <2>2, GrwlTerminateStep
  <2>3. CASE CallbackReturns
    BY <2>3, CallbackReturnsStep
  <2>4. ASSUME NEW w \in Window, NEW m \in Monitor \union {NoMonitor},
               NEW vm \in Mode, NEW visible \in BOOLEAN,
               CreateWindow(w, m, vm, visible)
        PROVE  IInv'
    BY <2>4, CreateWindowStep
  <2>5. ASSUME NEW w \in Window, NEW m \in Monitor \union {NoMonitor},
               NEW vm \in Mode, SetWindowMonitor(w, m, vm)
        PROVE  IInv'
    BY <2>5, SetWindowMonitorStep
  <2>6. ASSUME NEW w \in Window, NEW vm \in Mode, SetWindowSize(w, vm)
        PROVE  IInv'
    BY <2>6, SetWindowSizeStep
  <2>7. ASSUME NEW w \in Window, DestroyWindow(w)
        PROVE  IInv'
    <3>1. FreeWindow(w) /\ UNCHANGED phase
      BY <2>7 DEF DestroyWindow, FreeWindow, pollVars
    <3>2. QED
      BY <3>1, FreeWindowStep
  <2>8. ASSUME NEW w \in Window, ShowWindow(w) \/ HideWindow(w)
        PROVE  IInv'
    BY <2>8, WmChangeStep DEF ShowWindow, HideWindow, WmState
  <2>9. ASSUME NEW w \in Window, RestoreWindow(w)
        PROVE  IInv'
    BY <2>9, WmChangeStep DEF RestoreWindow, WmRestore, WmState
  <2>10. QED
    BY <1>2, <2>1, <2>2, <2>3, <2>4, <2>5, <2>6, <2>7, <2>8, <2>9 DEF Application
<1>3. CASE Handler
  <2>1. CASE PollMonitors
    BY <2>1, BeginPollStep
  <2>2. ASSUME NEW o \in Output, SkipOutput(o)
        PROVE  IInv'
    BY <2>2, SkipOutputStep
  <2>3. ASSUME NEW o \in Output, NEW m \in Monitor,
               KeepMonitor(o, m) \/ ConnectMonitor(o, m)
        PROVE  IInv'
    BY <2>3, KeepMonitorStep, ConnectMonitorStep
  <2>4. CASE OutputsDone
    BY <2>4, OutputsDoneStep
  <2>5. ASSUME NEW m \in Monitor, DisconnectMonitor(m)
        PROVE  IInv'
    BY <2>5, DisconnectMonitorStep
  <2>6. CASE PollDone \/ InitFails
    BY <2>6, EndPollStep
  <2>7. ASSUME NEW w \in Window, HandleWmState(w)
        PROVE  IInv'
    BY <2>7, HandleWmStateStep
  <2>8. ASSUME NEW w \in Window, TerminateWindow(w)
        PROVE  IInv'
    <3>1. FreeWindow(w) /\ UNCHANGED phase
      BY <2>8 DEF TerminateWindow, FreeWindow, pollVars
    <3>2. QED
      BY <3>1, FreeWindowStep
  <2>9. CASE TerminateDone
    BY <2>9, TerminateDoneStep
  <2>10. QED
    BY <1>3, <2>1, <2>2, <2>3, <2>4, <2>5, <2>6, <2>7, <2>8, <2>9 DEF Handler
<1>4. CASE UNCHANGED vars
  <2> USE DEF vars, windowVars, monitorVars, pollVars, serverVars
  <2>1. TypeOK'
    BY <1>4 DEF IInv, TypeOK
  <2>2. GraphInv' /\ NotifiedLive' /\ PollInv'
    BY <1>4, GraphKept, PollKept DEF IInv, NotifiedLive
  <2>3. QED
    BY <2>1, <2>2 DEF IInv
<1>5. QED
  BY <1>1, <1>2, <1>3, <1>4 DEF Next

\* The invariant holds in every state of every behaviour.
THEOREM Inductive == WindowsSpec => []IInv
<1>1. WindowsInit => Init
  BY DEF WindowsInit
<1>2. [WindowsNext]_<<subject, vars, listVars, waylandVars>> => [Next]_vars
  BY DEF WindowsNext
<1>3. QED
  BY <1>1, <1>2, InitIInv, NextIInv, PTL DEF WindowsSpec

\* The variables keep their types; in particular saver.count, which
\* releaseMonitor decrements, never goes below zero.
THEOREM TypeCorrect == WindowsSpec => []TypeOK
<1>1. IInv => TypeOK
  BY DEF IInv
<1>2. QED
  BY <1>1, Inductive, PTL

\* monitor->window is a live window that is full screen on that monitor.
THEOREM HoldersAreFullScreen == WindowsSpec => []HolderIsFullScreen
<1>1. IInv => HolderIsFullScreen
  BY DEF IInv, GraphInv
<1>2. QED
  BY <1>1, Inductive, PTL

\* window->monitor is null or a monitor of the array, whatever the monitor
\* callback does in the middle of _grwlPollMonitorsX11.
THEOREM NoMonitorDangles == WindowsSpec => []NoDanglingMonitor
<1>1. IInv => NoDanglingMonitor
  BY DEF IInv, GraphInv
<1>2. QED
  BY <1>1, Inductive, PTL

\* The screen saver is off exactly while a monitor is held.
THEOREM SaverIsCounted == WindowsSpec => []SaverCounted
<1>1. IInv => SaverCounted
  BY DEF IInv, GraphInv, DisplayOK, SaverCounted, HeldMonitors, HeldIn
<1>2. QED
  BY <1>1, Inductive, PTL

\* An output that shows another mode than the user's belongs to a held monitor.
THEOREM DesktopIsRestored == WindowsSpec => []DesktopRestored
<1>1. IInv => DesktopRestored
  BY DEF IInv, GraphInv, DisplayOK, DesktopRestored, HeldMonitors, HeldIn
<1>2. QED
  BY <1>1, Inductive, PTL

\* With no monitor event queued or in progress the monitors of the array are
\* those plugged in, one per output.
THEOREM MonitorsAreSettled == WindowsSpec => []MonitorsSettled
<1>1. ASSUME IInv, initialized, phase = "idle", ~rrNotify
      PROVE  /\ {output[m] : m \in monitors} = connected
             /\ \A m, k \in monitors : output[m] = output[k] => m = k
  <2>1. /\ connected \in SUBSET Output /\ monitors \in SUBSET Monitor
        /\ output \in [Monitor -> Output]
    BY <1>1 DEF IInv, TypeOK
  <2>2. \A o \in Output : o \in connected <=> \E m \in monitors : output[m] = o
    BY <1>1 DEF IInv, PollInv, PollCurrent
  <2>3. {output[m] : m \in monitors} = connected
    BY <2>1, <2>2
  <2>4. OutputsDistinct
    BY <1>1 DEF IInv, GraphInv
  <2>5. QED
    BY <2>3, <2>4 DEF OutputsDistinct
<1>2. IInv => MonitorsSettled
  BY <1>1 DEF MonitorsSettled
<1>3. QED
  BY <1>2, Inductive, PTL

-----------------------------------------------------------------------------
(* Windows and outputs on Wayland *)

Largest(S) == CHOOSE f \in S : \A g \in S : g <= f

\* The scales of a window are those of the outputs it is on, and nothing is asked of
\* the compositor for a window without shell objects.
ScalesOfOutputs(r, entered, scaleOf) ==
    \A o \in WaylandOutput : r.scales[o] = IF o \in entered THEN scaleOf[o] ELSE 0
Scaled(r) ==
    /\ r.scale = Largest({1} \union {r.scales[o] : o \in WaylandOutput})
    /\ r.framebuffer = r.size * r.scale
Mapped(r) ==
    r.visible =>
        /\ r.shell \in {"frame", "xdg"}
        /\ r.configured
        /\ r.shell = "xdg" /\ env.manager => r.mode # W!Undecided
Follows(r) ==
    /\ r.shell = "none" => r.requested = NoOutput
    /\ r.shell \in {"frame", "xdg"} => r.requested = r.monitor
    /\ r.shell # "waiting" => (r.inhibitor <=> r.monitor # NoOutput)
    /\ r.monitor # NoOutput => ~r.decorations

RecordOK(r) == r \in W!WindowRecord /\ Scaled(r) /\ Mapped(r) /\ Follows(r)
OpenOK(r) == RecordOK(r) /\ r.state # "none"

WinOK(w) ==
    /\ RecordOK(win[w])
    /\ win[w].state = "none" => win[w] = W!Blank
    /\ ScalesOfOutputs(win[w], on[w], factor)
    /\ win[w].monitor \in W!Connected \union {NoOutput}

WindowsInv ==
    /\ env \in W!Environment
    /\ registry \in [WaylandOutput -> W!OutputState]
    /\ factor \in [WaylandOutput -> W!Scale]
    /\ on \in [WaylandWindow -> SUBSET WaylandOutput]
    /\ null \in BOOLEAN
    /\ DOMAIN win = WaylandWindow
    /\ \A w \in WaylandWindow : WinOK(w)

--------------------------------------------------------------------------------
(* What the operators make of a window. *)

LEMMA LeastNatural ==
    ASSUME NEW T, T \subseteq Nat, T # {}
    PROVE  \E m \in T : \A k \in T : m <= k
<1> DEFINE R == {ss \in Nat \X Nat : ss[1] < ss[2]}
<1>1. IsWellFoundedOn(R, Nat)
  BY NatLessThanWellFounded DEF OpToRel
<1>2. \A k, m \in Nat : k < m => <<k, m>> \in R
  OBVIOUS
<1> HIDE DEF R
<1>3. PICK m \in T : \A k \in T : ~ (<<k, m>> \in R)
  BY <1>1, WFMin
<1>4. ASSUME NEW k \in T PROVE m <= k
  <2>1. k \in Nat /\ m \in Nat /\ ~(<<k, m>> \in R)
    BY <1>3
  <2>2. ~(k < m)
    BY <1>2, <2>1
  <2>3. QED
    BY <2>1, <2>2
<1>5. QED
  BY <1>4

LEMMA LargestIs ==
  ASSUME NEW N \in Nat, NEW S \in SUBSET (0..N), S # {}
  PROVE  Largest(S) \in S /\ \A g \in S : g <= Largest(S)
<1> DEFINE above == {n \in 0..N : \A g \in S : g <= n}
<1>1. N \in above
  OBVIOUS
<1>2. PICK m \in above : \A n \in above : m <= n
  <2>1. above \in SUBSET Nat /\ above # {}
    BY <1>1
  <2> HIDE DEF above
  <2>2. QED
    BY <2>1, LeastNatural
<1>3. m \in S
  <2>1. SUFFICES ASSUME m \notin S PROVE FALSE
    OBVIOUS
  <2>2. \A g \in S : g <= m - 1
    BY <1>2, <2>1
  <2>3. m - 1 \in 0..N
    <3>1. PICK g \in S : TRUE
      OBVIOUS
    <3>2. g \in Nat /\ g <= m - 1 /\ m \in 0..N
      BY <1>2, <2>2
    <3>3. QED
      BY <3>2
  <2>4. m - 1 \in above
    BY <2>2, <2>3
  <2> HIDE DEF above
  <2>5. m \in Nat
    BY <1>2 DEF above
  <2>6. QED
    BY <1>2, <2>4, <2>5
<1>4. \E f \in S : \A g \in S : g <= f
  BY <1>2, <1>3
<1> HIDE DEF above
<1>5. QED
  BY <1>4, Zenon DEF Largest

LEMMA ScaleIs ==
  ASSUME NEW r \in W!WindowRecord
  PROVE  LET scales == {1} \union {r.scales[o] : o \in WaylandOutput}
         IN /\ Largest(scales) \in scales /\ Largest(scales) \in W!Scale
            /\ \A g \in scales : g <= Largest(scales)
<1> DEFINE scales == {1} \union {r.scales[o] : o \in WaylandOutput}
<1>1. MaxScale \in Nat /\ MaxScale >= 1
  BY OutputsAssumption DEF W!WaylandAssumption
<1>2. \A o \in WaylandOutput : r.scales[o] \in 0..MaxScale
  BY DEF W!WindowRecord
<1>3. scales \in SUBSET (0..MaxScale) /\ scales # {} /\ 1 \in scales
  BY <1>1, <1>2
<1> HIDE DEF scales
<1>4. Largest(scales) \in scales /\ \A g \in scales : g <= Largest(scales)
  BY <1>1, <1>3, LargestIs
<1>5. Largest(scales) \in 1..MaxScale
  <2>1. 1 <= Largest(scales) /\ Largest(scales) \in 0..MaxScale
    BY <1>3, <1>4
  <2>2. QED
    BY <1>1, <2>1
<1>6. QED
  BY <1>4, <1>5 DEF scales, W!Scale

LEMMA Sizes ==
  /\ W!MaxSize \in Nat /\ W!MaxSize >= 2 /\ Size \subseteq 2..W!MaxSize
  /\ \A size \in 0..W!MaxSize, scale \in W!Scale :
        size * scale \in 0..(W!MaxSize * MaxScale)
<1>1. /\ Size \subseteq Nat \ {0, 1} /\ MaxScale \in Nat
      /\ \E s \in Size : \A t \in Size : t <= s
  BY OutputsAssumption DEF W!WaylandAssumption
<1>2. W!MaxSize \in Size /\ \A t \in Size : t <= W!MaxSize
  BY <1>1 DEF W!MaxSize
<1>3. ASSUME NEW size \in 0..W!MaxSize, NEW scale \in W!Scale
      PROVE  size * scale \in 0..(W!MaxSize * MaxScale)
  <2>1. /\ size \in Nat /\ scale \in Nat /\ W!MaxSize \in Nat
        /\ size <= W!MaxSize /\ scale <= MaxScale
    BY <1>1, <1>2, <1>3 DEF W!Scale
  <2>2. size * scale <= W!MaxSize * scale /\ W!MaxSize * scale <= W!MaxSize * MaxScale
    BY <1>1, <2>1
  <2>3. size * scale \in Nat /\ W!MaxSize * MaxScale \in Nat /\ W!MaxSize * scale \in Nat
    BY <1>1, <2>1
  <2>4. QED
    BY <2>2, <2>3
<1>4. QED
  BY <1>1, <1>2, <1>3

LEMMA BlankOK == RecordOK(W!Blank) /\ W!Blank.state = "none"
<1>1. W!Blank \in W!WindowRecord
  BY Sizes, OutputsAssumption
     DEF W!Blank, W!WindowRecord, W!Scale, W!WaylandAssumption, W!Undecided
<1>2. Scaled(W!Blank)
  <2> DEFINE scales == {1} \union {W!Blank.scales[o] : o \in WaylandOutput}
  <2>1. scales \subseteq {0, 1}
    BY DEF W!Blank
  <2>2. Largest(scales) \in scales /\ 1 <= Largest(scales)
    BY <1>1, ScaleIs
  <2>3. Largest(scales) = 1
    BY <2>1, <2>2
  <2>4. W!Blank.framebuffer = 0 /\ W!Blank.size = 0 /\ W!Blank.scale = 1
    BY DEF W!Blank
  <2>5. QED
    BY <2>3, <2>4 DEF Scaled
<1>3. QED
  BY <1>1, <1>2 DEF W!Blank, RecordOK, Mapped, Follows

\* What a resize and a new scale leave of a window.
LEMMA ResizedOK ==
  ASSUME NEW r \in W!WindowRecord
  PROVE  /\ W!Resized(r) = [r EXCEPT !.framebuffer = r.size * r.scale]
         /\ W!Resized(r) \in W!WindowRecord
<1>1. r.size * r.scale \in 0..(W!MaxSize * MaxScale)
  BY Sizes DEF W!WindowRecord
<1>2. QED
  BY <1>1 DEF W!Resized, W!WindowRecord

LEMMA RescaledOK ==
  ASSUME NEW r \in W!WindowRecord, r.framebuffer = r.size * r.scale
  PROVE  /\ W!Rescaled(r) \in W!WindowRecord
         /\ Scaled(W!Rescaled(r))
         /\ \A f \in DOMAIN r \ {"scale", "framebuffer"} : W!Rescaled(r)[f] = r[f]
         /\ DOMAIN W!Rescaled(r) = DOMAIN r
<1> DEFINE largest == Largest({1} \union {r.scales[o] : o \in WaylandOutput})
           q == [r EXCEPT !.scale = largest]
<1>1. W!Rescaled(r) = IF largest = r.scale THEN r ELSE W!Resized(q)
  BY DEF W!Rescaled, Largest
<1>2. largest \in W!Scale
  BY ScaleIs
<1> HIDE DEF largest
<1>3. q \in W!WindowRecord /\ q.scales = r.scales /\ q.size = r.size
  BY <1>2 DEF W!WindowRecord
<1>4. CASE largest = r.scale
  BY <1>1, <1>4 DEF Scaled, largest
<1>5. CASE largest # r.scale
  <2>1. /\ W!Resized(q) = [r EXCEPT !.scale = largest, !.framebuffer = r.size * largest]
        /\ W!Resized(q) \in W!WindowRecord
    BY <1>3, ResizedOK DEF W!WindowRecord
  <2>2. W!Rescaled(r) = [r EXCEPT !.scale = largest, !.framebuffer = r.size * largest]
    BY <1>1, <1>5, <2>1
  <2>3. /\ W!Rescaled(r).scale = largest
        /\ W!Rescaled(r).framebuffer = r.size * largest
        /\ W!Rescaled(r).size = r.size /\ W!Rescaled(r).scales = r.scales
        /\ \A f \in DOMAIN r \ {"scale", "framebuffer"} : W!Rescaled(r)[f] = r[f]
        /\ DOMAIN W!Rescaled(r) = DOMAIN r
    BY <2>2 DEF W!WindowRecord
  <2>4. Scaled(W!Rescaled(r))
    BY <2>3 DEF Scaled, largest
  <2>5. QED
    BY <1>1, <1>5, <2>1, <2>3, <2>4
<1>6. QED
  BY <1>4, <1>5

Kept(q, r) == q.scales = r.scales /\ q.state = r.state

\* A window of another size.
Sized(r, size) == [r EXCEPT !.size = size, !.framebuffer = size * r.scale]

LEMMA SizedOK ==
  ASSUME NEW r \in W!WindowRecord, Scaled(r), NEW size \in 0..W!MaxSize
  PROVE  /\ Sized(r, size) \in W!WindowRecord /\ Scaled(Sized(r, size))
         /\ W!Resized([r EXCEPT !.size = size]) = Sized(r, size)
<1>1. size * r.scale \in 0..(W!MaxSize * MaxScale)
  BY Sizes DEF W!WindowRecord
<1>2. Sized(r, size) \in W!WindowRecord
  BY <1>1 DEF Sized, W!WindowRecord
<1>3. W!Resized([r EXCEPT !.size = size]) = Sized(r, size)
  BY DEF Sized, W!Resized, W!WindowRecord
<1>4. /\ Sized(r, size).scale = r.scale /\ Sized(r, size).scales = r.scales
      /\ Sized(r, size).size = size /\ Sized(r, size).framebuffer = size * r.scale
  BY DEF Sized, W!WindowRecord
<1>5. QED
  BY <1>2, <1>3, <1>4 DEF Scaled

LEMMA SetSizeOK ==
  ASSUME NEW r, RecordOK(r), NEW size \in 0..W!MaxSize
  PROVE  RecordOK(W!SetSize(r, size)) /\ Kept(W!SetSize(r, size), r)
                                      /\ W!SetSize(r, size).monitor = r.monitor
<1>1. r \in W!WindowRecord /\ Scaled(r) /\ Mapped(r) /\ Follows(r)
  BY DEF RecordOK
<1>2. CASE r.monitor # NoOutput
  BY <1>1, <1>2 DEF W!SetSize, RecordOK, Kept
<1>3. CASE r.monitor = NoOutput
  <2>1. W!SetSize(r, size) = Sized(r, size)
    BY <1>1, <1>3, SizedOK DEF W!SetSize
  <2>2. Sized(r, size) \in W!WindowRecord /\ Scaled(Sized(r, size))
    BY <1>1, SizedOK
  <2>3. QED
    BY <1>1, <2>1, <2>2 DEF Sized, RecordOK, Kept, Mapped, Follows, W!WindowRecord
<1>4. QED
  BY <1>2, <1>3

LEMMA ScaledKept ==
  ASSUME NEW r, NEW q, Scaled(r),
         q.scale = r.scale, q.framebuffer = r.framebuffer, q.size = r.size, q.scales = r.scales
  PROVE  Scaled(q)
BY DEF Scaled

LEMMA OnMonitorOK ==
  ASSUME NEW r, RecordOK(r), NEW size \in 0..W!MaxSize, env \in W!Environment,
         NEW o \in WaylandOutput \union {NoOutput}, o # NoOutput => r.shell # "waiting"
  PROVE  RecordOK(W!OnMonitor(r, o, size)) /\ Kept(W!OnMonitor(r, o, size), r)
                                           /\ W!OnMonitor(r, o, size).monitor = o
<1> DEFINE released == IF r.monitor # NoOutput THEN W!Released(r) ELSE r
           moved == [released EXCEPT !.monitor = o]
<1>1. r \in W!WindowRecord /\ Scaled(r) /\ Mapped(r) /\ Follows(r)
  BY DEF RecordOK
<1>2. CASE r.monitor = o
  BY <1>2, SetSizeOK DEF W!OnMonitor, Kept
<1>3. CASE r.monitor # o
  <2>1. /\ released \in W!WindowRecord
        /\ released.scale = r.scale /\ released.framebuffer = r.framebuffer
        /\ released.size = r.size /\ Kept(released, r)
        /\ released.shell = r.shell /\ released.visible = r.visible
        /\ released.configured = r.configured /\ released.mode = r.mode
        /\ released.requested = NoOutput \/ released.requested = r.requested
        /\ ~released.inhibitor \/ released.shell = "waiting"
        /\ r.shell # "waiting" => released.requested = NoOutput
    <3>1. CASE r.monitor = NoOutput
      BY <1>1, <3>1 DEF Follows, Kept, W!WindowRecord
    <3>2. CASE r.monitor # NoOutput
      <4> DEFINE q == [r EXCEPT !.requested = NoOutput, !.inhibitor = FALSE]
      <4>1. released = q \/ released = [q EXCEPT !.decorations = @ \/ env.viewporter]
        BY <3>2 DEF W!Released, W!Decorated
      <4>2. q \in W!WindowRecord
        BY <1>1 DEF W!WindowRecord
      <4>3. env.viewporter \in BOOLEAN /\ q.decorations \in BOOLEAN
        BY <4>2 DEF W!Environment, W!WindowRecord
      <4>4. (q.decorations \/ env.viewporter) \in BOOLEAN
        BY <4>3
      <4> HIDE DEF released
      <4>5. CASE released = q
        BY <1>1, <4>2, <4>5 DEF W!WindowRecord, Kept
      <4>6. CASE released = [q EXCEPT !.decorations = @ \/ env.viewporter]
        <5> DEFINE d == q.decorations \/ env.viewporter
        <5>1. released = [q EXCEPT !.decorations = d]
          BY <4>6
        <5>2. d \in BOOLEAN
          BY <4>4
        <5> HIDE DEF d
        <5>3. QED
          BY <1>1, <4>2, <5>1, <5>2 DEF W!WindowRecord, Kept
      <4>7. QED
        BY <4>1, <4>5, <4>6
    <3>3. QED
      BY <3>1, <3>2
  <2> HIDE DEF released
  <2>2. /\ moved \in W!WindowRecord /\ moved.monitor = o
        /\ moved.scale = r.scale /\ moved.framebuffer = r.framebuffer
        /\ moved.size = r.size /\ Kept(moved, r)
        /\ moved.shell = r.shell /\ moved.visible = r.visible
        /\ moved.configured = r.configured /\ moved.mode = r.mode
        /\ r.shell # "waiting" => ~moved.inhibitor /\ moved.requested = NoOutput
    BY <2>1 DEF W!WindowRecord, Kept
  <2> HIDE DEF moved
  <2>3. CASE o # NoOutput
    <3> DEFINE q == W!Acquired(moved)
    <3>1. W!OnMonitor(r, o, size) = q
      BY <1>3, <2>3 DEF W!OnMonitor, moved, released
    <3>2. /\ q \in W!WindowRecord
          /\ q.scale = r.scale /\ q.framebuffer = r.framebuffer /\ q.size = r.size
          /\ Kept(q, r)
          /\ q.shell = r.shell /\ q.visible = r.visible
          /\ q.configured = r.configured /\ q.mode = r.mode
          /\ q.monitor = o /\ ~q.decorations /\ q.inhibitor
          /\ q.requested = IF r.shell = "none" THEN NoOutput ELSE o
      BY <2>2, <2>3 DEF W!Acquired, W!Undecorated, W!WindowRecord, Kept
    <3> HIDE DEF q
    <3>3. Mapped(q) /\ Follows(q)
      BY <1>1, <2>3, <3>2 DEF Mapped, Follows
    <3>4. Scaled(q)
      BY <1>1, <3>2, ScaledKept DEF Kept
    <3>5. QED
      BY <3>1, <3>2, <3>3, <3>4 DEF RecordOK
  <2>4. CASE o = NoOutput
    <3>1. W!OnMonitor(r, o, size) = W!SetSize(moved, size)
      BY <1>3, <2>4 DEF W!OnMonitor, moved, released
    <3>2. Mapped(moved) /\ Follows(moved)
      BY <1>1, <2>2, <2>4 DEF Mapped, Follows
    <3>3. Scaled(moved)
      BY <1>1, <2>2, ScaledKept DEF Kept
    <3>4. RecordOK(moved)
      BY <2>2, <3>2, <3>3 DEF RecordOK
    <3>5. QED
      BY <2>2, <2>4, <3>1, <3>4, SetSizeOK DEF Kept
  <2>5. QED
    BY <2>3, <2>4
<1>4. QED
  BY <1>2, <1>3

LEMMA ShellObjectsOK ==
  ASSUME NEW r, RecordOK(r), r.shell = "none", ~r.visible, env \in W!Environment,
         r.monitor # NoOutput => ~r.decorations, NEW q \in W!ShellObjects(r)
  PROVE  /\ RecordOK(q) /\ q.scales = r.scales /\ q.state = r.state
         /\ q.monitor = r.monitor /\ q.shell # "none" /\ ~q.visible
         /\ r.monitor = NoOutput => q.shell # "waiting"
<1>1. r \in W!WindowRecord /\ Scaled(r) /\ Mapped(r) /\ Follows(r)
  BY DEF RecordOK
<1>2. /\ q \in W!WindowRecord
      /\ q.scale = r.scale /\ q.framebuffer = r.framebuffer /\ q.size = r.size
      /\ q.scales = r.scales /\ q.state = r.state /\ q.visible = r.visible
      /\ q.monitor = r.monitor
      /\ \/ q.shell = "frame" /\ q.monitor = NoOutput /\ ~q.inhibitor
                              /\ q.requested = r.requested
         \/ q.shell = "waiting" /\ q.monitor # NoOutput /\ q.decorations = r.decorations
         \/ /\ q.shell = "xdg" /\ q.requested = r.monitor
            /\ q.inhibitor <=> r.monitor # NoOutput
            /\ r.monitor # NoOutput => q.decorations = r.decorations
  <2>1. CASE q = W!WithFrame(r)
    BY <1>1, <2>1 DEF W!WithFrame, W!WindowRecord
  <2>2. CASE q = W!WithToplevel(r)
    BY <1>1, <2>2 DEF W!WithToplevel, W!Decorated, W!WindowRecord, W!Environment
  <2>3. QED
    BY <2>1, <2>2 DEF W!ShellObjects
<1>3. Scaled(q)
  BY <1>1, <1>2, ScaledKept
<1>4. Mapped(q) /\ Follows(q)
  BY <1>1, <1>2 DEF Mapped, Follows
<1>5. QED
  BY <1>2, <1>3, <1>4 DEF RecordOK

--------------------------------------------------------------------------------
(* What the steps make of it. *)

\* The parts of WinOK, with the outputs as they are after the step.
LEMMA WindowAfter ==
  ASSUME NEW w \in WaylandWindow, UNCHANGED env, RecordOK(win'[w]),
         win'[w].state = "none" => win'[w] = W!Blank,
         ScalesOfOutputs(win'[w], on'[w], factor'),
         win'[w].monitor \in W!Connected' \union {NoOutput}
  PROVE  WinOK(w)'
BY DEF WinOK, RecordOK, Mapped, Scaled, Follows, ScalesOfOutputs

\* A step that changes one window.
LEMMA ChangeOK ==
  ASSUME WindowsInv, NEW w \in WaylandWindow, NEW q, W!Change(w, q),
         OpenOK(q), q.scales = win[w].scales, q.monitor \in W!Connected \union {NoOutput}
  PROVE  WindowsInv'
<1>1. /\ win' = [win EXCEPT ![w] = q] /\ UNCHANGED <<env, registry, factor, on, null>>
      /\ DOMAIN win = WaylandWindow
  BY DEF W!Change, WindowsInv
<1>2. UNCHANGED W!Connected
  BY <1>1 DEF W!Connected
<1>3. ASSUME NEW v \in WaylandWindow PROVE WinOK(v)'
  <2>1. WinOK(v)
    BY DEF WindowsInv
  <2>2. win'[v] = IF v = w THEN q ELSE win[v]
    BY <1>1
  <2>3. CASE v = w
    BY <1>1, <1>2, <2>1, <2>2, <2>3, WindowAfter DEF WinOK, OpenOK, ScalesOfOutputs
  <2>4. CASE v # w
    BY <1>1, <1>2, <2>1, <2>2, <2>4, WindowAfter DEF WinOK
  <2>5. QED
    BY <2>3, <2>4
<1>4. QED
  BY <1>1, <1>3 DEF WindowsInv

\* A record keeps what is said of its scale.
LEMMA RecordKept ==
  ASSUME NEW r, RecordOK(r), NEW q \in W!WindowRecord,
         q.scale = r.scale, q.framebuffer = r.framebuffer, q.size = r.size,
         q.scales = r.scales, Mapped(q), Follows(q)
  PROVE  RecordOK(q)
BY ScaledKept DEF RecordOK

LEMMA OpenWindow ==
  ASSUME WindowsInv, NEW w \in WaylandWindow,
         win[w].state # "none" \/ win[w].shell # "none" \/ win[w].visible
                               \/ win[w].monitor # NoOutput
  PROVE  OpenOK(win[w]) /\ win[w] \in W!WindowRecord /\ WinOK(w)
<1>1. WinOK(w)
  BY DEF WindowsInv
<1>2. win[w].state # "none"
  BY <1>1 DEF WinOK, W!Blank
<1>3. QED
  BY <1>1, <1>2 DEF WinOK, OpenOK, RecordOK

SameButSize(q, r) ==
    /\ q.scale = r.scale /\ q.scales = r.scales /\ q.state = r.state
    /\ q.monitor = r.monitor /\ q.shell = r.shell /\ q.mode = r.mode
    /\ q.requested = r.requested /\ q.inhibitor = r.inhibitor
    /\ q.decorations = r.decorations

LEMMA ToplevelConfigureOK ==
  ASSUME WindowsInv, NEW w \in WaylandWindow, NEW size \in Size \union {0},
         NEW maximized \in BOOLEAN, W!ToplevelConfigure(w, size, maximized)
  PROVE  WindowsInv'
<1>1. win[w].shell = "xdg"
  BY DEF W!ToplevelConfigure
<1>2. OpenOK(win[w]) /\ win[w] \in W!WindowRecord /\ WinOK(w)
  BY <1>1, OpenWindow
<1> DEFINE p == IF size = 0 THEN win[w].size
                ELSE IF win[w].decorations /\ size > 2 * W!Border THEN size - 2 * W!Border
                ELSE IF win[w].decorations THEN 0 ELSE size
           q == [win[w] EXCEPT !.sequence = TRUE, !.pendingMaximized = maximized,
                               !.pendingSize = p]
<1>3. W!Change(w, q)
  BY DEF W!ToplevelConfigure
<1>4. p \in 0..W!MaxSize
  <2>1. W!MaxSize \in Nat /\ (size = 0 \/ size \in 2..W!MaxSize)
    BY Sizes
  <2>2. win[w].size \in 0..W!MaxSize
    BY <1>2 DEF W!WindowRecord
  <2>3. QED
    BY <2>1, <2>2 DEF W!Border
<1> HIDE DEF p
<1>5. /\ q \in W!WindowRecord /\ SameButSize(q, win[w])
      /\ q.size = win[w].size /\ q.framebuffer = win[w].framebuffer
      /\ q.visible = win[w].visible /\ q.configured = win[w].configured
  BY <1>2, <1>4 DEF W!WindowRecord, SameButSize
<1> HIDE DEF q
<1>6. Mapped(q) /\ Follows(q)
  BY <1>2, <1>5 DEF OpenOK, RecordOK, Mapped, Follows, SameButSize
<1>7. RecordOK(q)
  BY <1>2, <1>5, <1>6, RecordKept DEF OpenOK, SameButSize
<1>8. QED
  BY <1>2, <1>3, <1>5, <1>7, ChangeOK DEF OpenOK, WinOK, SameButSize

LEMMA DecorationConfigureOK ==
  ASSUME WindowsInv, NEW w \in WaylandWindow, NEW newMode \in {W!Client, W!Server},
         W!DecorationConfigure(w, newMode)
  PROVE  WindowsInv'
<1>1. win[w].shell = "xdg"
  BY DEF W!DecorationConfigure
<1>2. OpenOK(win[w]) /\ win[w] \in W!WindowRecord /\ WinOK(w)
  BY <1>1, OpenWindow
<1>3. env.viewporter \in BOOLEAN
  BY DEF WindowsInv, W!Environment
<1> DEFINE r == [win[w] EXCEPT !.mode = newMode]
           q == IF newMode # W!Client THEN W!Undecorated(r)
                ELSE IF r.decorated /\ r.monitor = NoOutput THEN W!Decorated(r) ELSE r
<1>4. W!Change(w, q)
  BY DEF W!DecorationConfigure
<1>5. /\ r \in W!WindowRecord /\ r.mode # W!Undecided
      /\ r.scale = win[w].scale /\ r.framebuffer = win[w].framebuffer
      /\ r.size = win[w].size /\ r.scales = win[w].scales /\ r.state = win[w].state
      /\ r.monitor = win[w].monitor /\ r.shell = "xdg" /\ r.visible = win[w].visible
      /\ r.configured = win[w].configured /\ r.requested = win[w].requested
      /\ r.inhibitor = win[w].inhibitor /\ r.decorations = win[w].decorations
  BY <1>1, <1>2 DEF W!WindowRecord, W!Undecided, W!Client, W!Server
<1> HIDE DEF r
<1>6. \E d \in BOOLEAN : /\ q = [r EXCEPT !.decorations = d]
                         /\ r.monitor # NoOutput => ~d \/ d = r.decorations
  <2>1. CASE q = W!Undecorated(r)
    BY <2>1 DEF W!Undecorated
  <2>2. CASE q = W!Decorated(r) /\ r.monitor = NoOutput
    <3>1. (r.decorations \/ env.viewporter) \in BOOLEAN
      BY <1>3, <1>5 DEF W!WindowRecord
    <3>2. q = [r EXCEPT !.decorations = r.decorations \/ env.viewporter]
      BY <2>2 DEF W!Decorated
    <3>3. QED
      BY <2>2, <3>1, <3>2
  <2>3. CASE q = r
    <3>1. q = [r EXCEPT !.decorations = r.decorations] /\ r.decorations \in BOOLEAN
      BY <2>3, <1>5 DEF W!WindowRecord
    <3>2. QED
      BY <3>1
  <2>4. QED
    BY <2>1, <2>2, <2>3
<1>7. PICK d \in BOOLEAN : /\ q = [r EXCEPT !.decorations = d]
                           /\ r.monitor # NoOutput => ~d \/ d = r.decorations
  BY <1>6
<1> HIDE DEF q
<1>8. /\ q \in W!WindowRecord
      /\ q.scale = r.scale /\ q.framebuffer = r.framebuffer
      /\ q.size = r.size /\ q.scales = r.scales /\ q.state = r.state
      /\ q.monitor = r.monitor /\ q.shell = r.shell /\ q.visible = r.visible
      /\ q.configured = r.configured /\ q.requested = r.requested
      /\ q.inhibitor = r.inhibitor /\ q.decorations = d /\ q.mode = r.mode
  BY <1>5, <1>7 DEF W!WindowRecord
<1>9. Mapped(q) /\ Follows(q)
  BY <1>1, <1>2, <1>5, <1>7, <1>8 DEF OpenOK, RecordOK, Mapped, Follows
<1>10. RecordOK(q)
  BY <1>2, <1>5, <1>8, <1>9, RecordKept DEF OpenOK
<1>11. QED
  BY <1>2, <1>4, <1>5, <1>8, <1>10, ChangeOK DEF OpenOK, WinOK

LEMMA SurfaceConfigureOK ==
  ASSUME WindowsInv, NEW w \in WaylandWindow, W!SurfaceConfigure(w)
  PROVE  WindowsInv'
<1>1. win[w].shell = "xdg"
  BY DEF W!SurfaceConfigure
<1>2. OpenOK(win[w]) /\ win[w] \in W!WindowRecord /\ WinOK(w)
  BY <1>1, OpenWindow
<1> DEFINE r == win[w]
           v == r.visible \/ W!MayMap(r)
           s == [r EXCEPT !.sequence = FALSE, !.configured = TRUE,
                          !.maximized = r.pendingMaximized, !.visible = v]
           q == [s EXCEPT !.size = r.pendingSize]
<1>3. W!Change(w, IF r.pendingSize # r.size THEN W!Resized(q) ELSE q)
  BY <1>2 DEF W!SurfaceConfigure, W!WindowRecord
<1>4. v \in BOOLEAN
  BY <1>2 DEF W!MayMap, W!WindowRecord
<1>5. v => (~env.manager \/ r.mode # W!Undecided)
  BY <1>1, <1>2 DEF W!MayMap, OpenOK, RecordOK, Mapped
<1> HIDE DEF v
<1>6. /\ s \in W!WindowRecord /\ s.visible = v /\ s.configured /\ s.shell = "xdg"
      /\ s.scale = r.scale /\ s.framebuffer = r.framebuffer /\ s.size = r.size
      /\ s.scales = r.scales /\ s.state = r.state /\ s.monitor = r.monitor
      /\ s.mode = r.mode /\ s.requested = r.requested /\ s.inhibitor = r.inhibitor
      /\ s.decorations = r.decorations
  BY <1>1, <1>2, <1>4 DEF W!WindowRecord
<1>7. Mapped(s) /\ Follows(s)
  BY <1>1, <1>2, <1>5, <1>6 DEF Mapped, Follows, OpenOK, RecordOK
<1>8. RecordOK(s)
  BY <1>2, <1>6, <1>7, RecordKept DEF OpenOK
<1>9. r.pendingSize \in 0..W!MaxSize
  BY <1>2 DEF W!WindowRecord
<1>10. CASE r.pendingSize # r.size
  <2>1. W!Resized(q) = Sized(s, r.pendingSize)
    BY <1>6, <1>8, <1>9, SizedOK DEF RecordOK
  <2> HIDE DEF s
  <2>2. RecordOK(Sized(s, r.pendingSize)) /\ Kept(Sized(s, r.pendingSize), s)
        /\ Sized(s, r.pendingSize).monitor = s.monitor
    <3>1. Sized(s, r.pendingSize) \in W!WindowRecord /\ Scaled(Sized(s, r.pendingSize))
      BY <1>6, <1>8, <1>9, SizedOK DEF RecordOK
    <3>2. QED
      BY <1>6, <1>8, <3>1 DEF Sized, RecordOK, Kept, Mapped, Follows, W!WindowRecord
  <2>3. QED
    BY <1>2, <1>3, <1>6, <1>10, <2>1, <2>2, ChangeOK DEF OpenOK, WinOK, Kept
<1>11. CASE r.pendingSize = r.size
  <2>1. q = s
    BY <1>6, <1>11 DEF W!WindowRecord
  <2> HIDE DEF s
  <2>2. QED
    BY <1>2, <1>3, <1>6, <1>8, <1>11, <2>1, ChangeOK DEF OpenOK, WinOK
<1>12. QED
  BY <1>10, <1>11

LEMMA FrameConfigureOK ==
  ASSUME WindowsInv, NEW w \in WaylandWindow, NEW size \in Size \union {0},
         NEW maximized \in BOOLEAN, W!FrameConfigure(w, size, maximized)
  PROVE  WindowsInv'
<1>1. win[w].shell = "frame"
  BY DEF W!FrameConfigure
<1>2. OpenOK(win[w]) /\ win[w] \in W!WindowRecord /\ WinOK(w)
  BY <1>1, OpenWindow
<1> DEFINE r == win[w]
           n == IF size = 0 THEN r.size ELSE size
           s == [r EXCEPT !.configured = TRUE, !.maximized = maximized, !.visible = TRUE]
           q == [s EXCEPT !.size = n]
<1>3. W!Change(w, IF n # r.size THEN W!Resized(q) ELSE q)
  BY <1>2 DEF W!FrameConfigure, W!WindowRecord
<1>4. n \in 0..W!MaxSize
  <2>1. W!MaxSize \in Nat /\ (size = 0 \/ size \in 2..W!MaxSize)
    BY Sizes
  <2>2. r.size \in 0..W!MaxSize
    BY <1>2 DEF W!WindowRecord
  <2>3. QED
    BY <2>1, <2>2
<1> HIDE DEF n
<1>5. /\ s \in W!WindowRecord /\ SameButSize(s, r) /\ s.configured
      /\ s.framebuffer = r.framebuffer /\ s.size = r.size
  BY <1>2 DEF W!WindowRecord, SameButSize
<1>6. RecordOK(s)
  <2> HIDE DEF s
  <2>1. Mapped(s) /\ Follows(s)
    BY <1>1, <1>2, <1>5 DEF Mapped, Follows, OpenOK, RecordOK, SameButSize
  <2>2. QED
    BY <1>2, <1>5, <2>1, RecordKept DEF OpenOK, SameButSize
<1>7. CASE n # r.size
  <2>1. W!Resized(q) = Sized(s, n) /\ Sized(s, n) \in W!WindowRecord
                                   /\ Scaled(Sized(s, n))
    BY <1>4, <1>6, SizedOK DEF RecordOK
  <2> HIDE DEF s
  <2>2. RecordOK(Sized(s, n)) /\ SameButSize(Sized(s, n), s)
    BY <1>6, <2>1 DEF Sized, RecordOK, Mapped, Follows, W!WindowRecord, SameButSize
  <2>3. QED
    BY <1>2, <1>3, <1>5, <1>7, <2>1, <2>2, ChangeOK DEF OpenOK, WinOK, SameButSize
<1>8. CASE n = r.size
  <2>1. q = s
    BY <1>5, <1>8 DEF W!WindowRecord
  <2> HIDE DEF s
  <2>2. QED
    BY <1>2, <1>3, <1>5, <1>6, <1>8, <2>1, ChangeOK DEF OpenOK, WinOK, SameButSize
<1>9. QED
  BY <1>7, <1>8

LEMMA FrameReadyOK ==
  ASSUME WindowsInv, NEW w \in WaylandWindow, W!FrameReady(w)
  PROVE  WindowsInv'
<1>1. win[w].shell = "waiting"
  BY DEF W!FrameReady
<1>2. OpenOK(win[w]) /\ win[w] \in W!WindowRecord /\ WinOK(w)
  BY <1>1, OpenWindow
<1>3. CASE win[w].monitor = NoOutput
  <2>1. null' = TRUE /\ UNCHANGED <<env, registry, factor, win, on>>
    BY <1>3 DEF W!FrameReady
  <2>2. UNCHANGED W!Connected
    BY <2>1 DEF W!Connected
  <2>3. ASSUME NEW v \in WaylandWindow PROVE WinOK(v)'
    BY <2>1, <2>2, WindowAfter DEF WindowsInv, WinOK
  <2>4. QED
    BY <2>1, <2>3 DEF WindowsInv
<1>4. CASE win[w].monitor # NoOutput
  <2> DEFINE q == [win[w] EXCEPT !.shell = "frame", !.state = "open",
                                 !.requested = win[w].monitor, !.inhibitor = TRUE]
  <2>1. W!Change(w, q)
    BY <1>4 DEF W!FrameReady
  <2>2. /\ q \in W!WindowRecord /\ q.shell = "frame" /\ q.state = "open"
        /\ q.requested = q.monitor /\ q.inhibitor /\ q.monitor = win[w].monitor
        /\ q.scale = win[w].scale /\ q.framebuffer = win[w].framebuffer
        /\ q.size = win[w].size /\ q.scales = win[w].scales
        /\ q.visible = win[w].visible /\ q.decorations = win[w].decorations
    BY <1>2 DEF W!WindowRecord
  <2> HIDE DEF q
  <2>3. Mapped(q) /\ Follows(q)
    BY <1>1, <1>2, <1>4, <2>2 DEF Mapped, Follows, OpenOK, RecordOK
  <2>4. RecordOK(q)
    BY <1>2, <2>2, <2>3, RecordKept DEF OpenOK
  <2>5. QED
    BY <1>2, <2>1, <2>2, <2>4, ChangeOK DEF OpenOK, WinOK
<1>5. QED
  BY <1>3, <1>4

LEMMA CreateWindowOK ==
  ASSUME WindowsInv, NEW w \in WaylandWindow, NEW o \in WaylandOutput \union {NoOutput},
         NEW size \in Size, NEW decorated \in BOOLEAN, NEW visible \in BOOLEAN,
         W!CreateWindow(w, o, size, decorated, visible)
  PROVE  WindowsInv'
<1>1. win[w] = W!Blank /\ WinOK(w) /\ o \in W!Connected \union {NoOutput}
  BY DEF W!CreateWindow, WindowsInv, WinOK
<1> DEFINE Start(m) == [W!Blank EXCEPT !.state = "open", !.monitor = o, !.size = size,
                                       !.framebuffer = size, !.decorated = decorated,
                                       !.maximized = m]
           End(q) == [q EXCEPT !.state = IF q.shell = "waiting" THEN "creating" ELSE "open"]
<1>2. PICK m \in BOOLEAN :
        \E q \in IF o # NoOutput \/ visible THEN W!ShellObjects(Start(m)) ELSE {Start(m)} :
           W!Change(w, End(q))
  BY DEF W!CreateWindow
<1> DEFINE r == Start(m)
<1>3. PICK q \in IF o # NoOutput \/ visible THEN W!ShellObjects(r) ELSE {r} :
         W!Change(w, End(q))
  BY <1>2
<1>4. /\ r \in W!WindowRecord /\ r.state = "open" /\ r.monitor = o
      /\ r.shell = "none" /\ ~r.visible /\ ~r.inhibitor /\ ~r.decorations
      /\ r.requested = NoOutput /\ r.size = size /\ r.framebuffer = size
      /\ r.scale = 1 /\ r.scales = W!Blank.scales
  <2>1. size \in 0..W!MaxSize /\ size \in Nat /\ MaxScale \in Nat \ {0} /\ size * 1 = size
    BY Sizes, OutputsAssumption DEF W!WaylandAssumption
  <2>2. 1 \in W!Scale
    BY <2>1 DEF W!Scale
  <2>3. size * 1 \in 0..(W!MaxSize * MaxScale)
    BY <2>1, <2>2, Sizes
  <2>4. size \in 0..(W!MaxSize * MaxScale)
    BY <2>1, <2>3
  <2>5. W!Blank \in W!WindowRecord
    BY BlankOK DEF RecordOK
  <2>6. r \in W!WindowRecord
    BY <2>1, <2>4, <2>5 DEF W!WindowRecord
  <2>7. QED
    BY <2>6 DEF W!Blank
<1> HIDE DEF r
<1>5. Scaled(r)
  <2>1. Largest({1} \union {W!Blank.scales[k] : k \in WaylandOutput}) = 1
    BY BlankOK DEF RecordOK, Scaled, W!Blank
  <2>2. size * 1 = size
    BY Sizes
  <2>3. QED
    BY <1>4, <2>1, <2>2 DEF Scaled
<1>6. /\ q.state = "open" /\ q.scales = W!Blank.scales /\ q.monitor = o /\ ~q.visible
      /\ q \in W!WindowRecord /\ Scaled(q)
      /\ q.shell = "none" => q.requested = NoOutput
      /\ q.shell \in {"frame", "xdg"} => q.requested = q.monitor
      /\ q.shell # "waiting" => (q.inhibitor <=> q.monitor # NoOutput)
      /\ q.monitor # NoOutput => ~q.decorations
  <2>1. CASE o = NoOutput /\ ~visible
    BY <1>3, <1>4, <1>5, <2>1
  <2>2. CASE o # NoOutput \/ visible
    <3>1. q \in W!ShellObjects(r)
      BY <1>3, <2>2
    <3>2. CASE q = W!WithFrame(r)
      <4>1. /\ q \in W!WindowRecord /\ q.state = "open" /\ q.scales = r.scales
            /\ q.monitor = o /\ ~q.visible /\ q.scale = r.scale /\ q.size = r.size
            /\ q.framebuffer = r.framebuffer /\ ~q.decorations
            /\ q.requested = NoOutput /\ ~q.inhibitor
            /\ q.shell = IF o = NoOutput THEN "frame" ELSE "waiting"
        BY <1>4, <3>2 DEF W!WithFrame, W!WindowRecord
      <4>2. QED
        BY <1>4, <1>5, <4>1, ScaledKept
    <3>3. CASE q = W!WithToplevel(r)
      <4>1. env.manager \in BOOLEAN /\ env.viewporter \in BOOLEAN
        BY DEF WindowsInv, W!Environment
      <4>2. /\ q \in W!WindowRecord /\ q.state = "open" /\ q.scales = r.scales
            /\ q.monitor = o /\ ~q.visible /\ q.scale = r.scale /\ q.size = r.size
            /\ q.framebuffer = r.framebuffer /\ q.requested = o /\ q.shell = "xdg"
            /\ o # NoOutput => ~q.decorations
            /\ q.inhibitor <=> o # NoOutput
        BY <1>4, <3>3, <4>1 DEF W!WithToplevel, W!Decorated, W!WindowRecord
      <4>3. QED
        BY <1>4, <1>5, <4>2, ScaledKept
    <3>4. QED
      BY <3>1, <3>2, <3>3 DEF W!ShellObjects
  <2>3. QED
    BY <2>1, <2>2
<1> DEFINE e == End(q)
<1>7. /\ e \in W!WindowRecord /\ e.state # "none" /\ e.scales = W!Blank.scales
      /\ e.monitor = o /\ ~e.visible /\ e.shell = q.shell /\ e.requested = q.requested
      /\ e.inhibitor = q.inhibitor /\ e.decorations = q.decorations
      /\ e.scale = q.scale /\ e.size = q.size /\ e.framebuffer = q.framebuffer
  BY <1>6 DEF W!WindowRecord
<1>8. W!Change(w, e)
  BY <1>3
<1> HIDE DEF e
<1>9. OpenOK(e)
  <2>1. Scaled(e)
    BY <1>6, <1>7, ScaledKept
  <2>2. Mapped(e) /\ Follows(e)
    BY <1>6, <1>7 DEF Mapped, Follows
  <2>3. QED
    BY <1>7, <2>1, <2>2 DEF OpenOK, RecordOK
<1>10. QED
  BY <1>1, <1>7, <1>8, <1>9, ChangeOK

LEMMA ShowWindowOK ==
  ASSUME WindowsInv, NEW w \in WaylandWindow, W!ShowWindow(w)
  PROVE  WindowsInv'
<1>1. win[w].state = "open" /\ win[w].monitor = NoOutput /\ win[w].shell = "none"
  BY DEF W!ShowWindow, W!Usable
<1>2. OpenOK(win[w]) /\ win[w] \in W!WindowRecord /\ WinOK(w) /\ env \in W!Environment
  BY <1>1, OpenWindow DEF WindowsInv
<1>3. PICK q \in W!ShellObjects(win[w]) : W!Change(w, q)
  BY DEF W!ShowWindow
<1>4. ~win[w].visible
  BY <1>1, <1>2 DEF OpenOK, RecordOK, Mapped, W!WindowRecord
<1>5. /\ RecordOK(q) /\ q.scales = win[w].scales /\ q.state = win[w].state
      /\ q.monitor = win[w].monitor
  BY <1>1, <1>2, <1>4, ShellObjectsOK DEF OpenOK
<1>6. QED
  BY <1>1, <1>2, <1>3, <1>5, ChangeOK DEF OpenOK, WinOK

LEMMA HideWindowOK ==
  ASSUME WindowsInv, NEW w \in WaylandWindow, W!HideWindow(w)
  PROVE  WindowsInv'
<1>1. win[w].state = "open" /\ win[w].monitor = NoOutput /\ win[w].shell # "waiting"
  BY DEF W!HideWindow, W!Usable
<1>2. OpenOK(win[w]) /\ win[w] \in W!WindowRecord /\ WinOK(w)
  BY <1>1, OpenWindow
<1> DEFINE q == W!WithoutShellObjects([win[w] EXCEPT !.visible = FALSE])
<1>3. W!Change(w, q)
  BY DEF W!HideWindow
<1>4. /\ q \in W!WindowRecord /\ ~q.visible /\ q.shell = "none"
      /\ q.requested = NoOutput /\ ~q.decorations /\ q.inhibitor = win[w].inhibitor
      /\ q.monitor = NoOutput /\ q.state = "open"
      /\ q.scale = win[w].scale /\ q.framebuffer = win[w].framebuffer
      /\ q.size = win[w].size /\ q.scales = win[w].scales
  BY <1>1, <1>2 DEF W!WithoutShellObjects, W!WindowRecord
<1> HIDE DEF q
<1>5. Mapped(q) /\ Follows(q)
  BY <1>1, <1>2, <1>4 DEF Mapped, Follows, OpenOK, RecordOK
<1>6. RecordOK(q)
  BY <1>2, <1>4, <1>5, RecordKept DEF OpenOK
<1>7. QED
  BY <1>3, <1>4, <1>6, ChangeOK DEF OpenOK

LEMMA SetWindowMonitorOK ==
  ASSUME WindowsInv, NEW w \in WaylandWindow, NEW o \in WaylandOutput \union {NoOutput},
         NEW size \in Size, W!SetWindowMonitor(w, o, size)
  PROVE  WindowsInv'
<1>1. /\ win[w].state = "open" /\ win[w].shell # "waiting"
      /\ o \in W!Connected \union {NoOutput}
  BY DEF W!SetWindowMonitor, W!Usable
<1>2. OpenOK(win[w]) /\ WinOK(w) /\ env \in W!Environment
  BY <1>1, OpenWindow DEF WindowsInv
<1>3. size \in 0..W!MaxSize
  BY Sizes
<1>4. W!Change(w, W!OnMonitor(win[w], o, size))
  BY DEF W!SetWindowMonitor
<1>5. QED
  BY <1>1, <1>2, <1>3, <1>4, OnMonitorOK, ChangeOK DEF OpenOK, Kept

LEMMA SetWindowSizeOK ==
  ASSUME WindowsInv, NEW w \in WaylandWindow, NEW size \in Size, W!SetWindowSize(w, size)
  PROVE  WindowsInv'
<1>1. win[w].state = "open"
  BY DEF W!SetWindowSize, W!Usable
<1>2. OpenOK(win[w]) /\ WinOK(w)
  BY <1>1, OpenWindow
<1>3. size \in 0..W!MaxSize
  BY Sizes
<1>4. W!Change(w, W!SetSize(win[w], size))
  BY DEF W!SetWindowSize
<1>5. QED
  BY <1>1, <1>2, <1>3, <1>4, SetSizeOK, ChangeOK DEF OpenOK, Kept, WinOK

\* What no property of a record is about.
LEMMA HintOK ==
  ASSUME WindowsInv, NEW w \in WaylandWindow, OpenOK(win[w]), NEW d \in BOOLEAN,
         NEW m \in BOOLEAN, NEW n \in BOOLEAN, n => n = win[w].decorations \/
                                                    win[w].monitor = NoOutput,
         W!Change(w, [win[w] EXCEPT !.decorated = d, !.maximized = m, !.decorations = n])
  PROVE  WindowsInv'
<1>1. win[w] \in W!WindowRecord /\ WinOK(w)
  BY DEF WindowsInv, OpenOK, RecordOK
<1> DEFINE q == [win[w] EXCEPT !.decorated = d, !.maximized = m, !.decorations = n]
<1>2. /\ q \in W!WindowRecord /\ q.visible = win[w].visible /\ q.shell = win[w].shell
      /\ q.requested = win[w].requested /\ q.decorations = n
      /\ q.inhibitor = win[w].inhibitor /\ q.monitor = win[w].monitor
      /\ q.state = win[w].state /\ q.mode = win[w].mode
      /\ q.configured = win[w].configured
      /\ q.scale = win[w].scale /\ q.framebuffer = win[w].framebuffer
      /\ q.size = win[w].size /\ q.scales = win[w].scales
  BY <1>1 DEF W!WindowRecord
<1>3. W!Change(w, q)
  OBVIOUS
<1> HIDE DEF q
<1>4. Mapped(q) /\ Follows(q)
  BY <1>2 DEF Mapped, Follows, OpenOK, RecordOK
<1>5. RecordOK(q)
  BY <1>2, <1>4, RecordKept DEF OpenOK
<1>6. QED
  BY <1>1, <1>2, <1>3, <1>5, ChangeOK DEF OpenOK, WinOK

LEMMA SetWindowDecoratedOK ==
  ASSUME WindowsInv, NEW w \in WaylandWindow, NEW enabled \in BOOLEAN,
         W!SetWindowDecorated(w, enabled)
  PROVE  WindowsInv'
<1>1. win[w].state = "open"
  BY DEF W!SetWindowDecorated, W!Usable
<1>2. OpenOK(win[w]) /\ win[w] \in W!WindowRecord /\ env.viewporter \in BOOLEAN
  BY <1>1, OpenWindow DEF WindowsInv, W!Environment
<1> DEFINE r == [win[w] EXCEPT !.decorated = enabled]
           old == win[w].maximized
<1>3. /\ r.monitor = win[w].monitor /\ r.decorations = win[w].decorations
      /\ r.decorations \in BOOLEAN /\ old \in BOOLEAN
  BY <1>2 DEF W!WindowRecord
<1>4. \E n \in BOOLEAN :
        /\ n => n = win[w].decorations \/ win[w].monitor = NoOutput
        /\ W!Change(w, [win[w] EXCEPT !.decorated = enabled, !.maximized = old,
                                      !.decorations = n])
  <2>1. CASE W!Change(w, r)
    <3>1. r = [win[w] EXCEPT !.decorated = enabled, !.maximized = old,
                             !.decorations = win[w].decorations]
      BY <1>2 DEF W!WindowRecord
    <3>2. QED
      BY <1>3, <2>1, <3>1
  <2>2. CASE r.monitor = NoOutput /\ W!Change(w, W!Decorated(r))
    <3> DEFINE n == r.decorations \/ env.viewporter
    <3>1. n \in BOOLEAN
      BY <1>2, <1>3
    <3>2. W!Decorated(r) = [r EXCEPT !.decorations = n]
      BY DEF W!Decorated
    <3> HIDE DEF n
    <3>3. W!Decorated(r) = [win[w] EXCEPT !.decorated = enabled, !.maximized = old,
                                          !.decorations = n]
      BY <1>2, <3>2 DEF W!WindowRecord
    <3>4. QED
      BY <1>3, <2>2, <3>1, <3>3
  <2>3. CASE W!Change(w, W!Undecorated(r))
    <3>1. W!Undecorated(r) = [win[w] EXCEPT !.decorated = enabled, !.maximized = old,
                                            !.decorations = FALSE]
      BY <1>2 DEF W!WindowRecord, W!Undecorated
    <3>2. QED
      BY <2>3, <3>1
  <2>4. QED
    BY <2>1, <2>2, <2>3 DEF W!SetWindowDecorated
<1>5. QED
  BY <1>2, <1>3, <1>4, HintOK

LEMMA MaximizeOK ==
  ASSUME WindowsInv, NEW w \in WaylandWindow, W!MaximizeWindow(w) \/ W!RestoreWindow(w)
  PROVE  WindowsInv'
<1>1. win[w].state = "open"
  BY DEF W!MaximizeWindow, W!RestoreWindow, W!Usable
<1>2. OpenOK(win[w]) /\ win[w] \in W!WindowRecord
  BY <1>1, OpenWindow
<1>3. PICK m \in BOOLEAN : W!Change(w, [win[w] EXCEPT !.maximized = m])
  BY DEF W!MaximizeWindow, W!RestoreWindow
<1>4. /\ [win[w] EXCEPT !.maximized = m] =
           [win[w] EXCEPT !.decorated = win[w].decorated, !.maximized = m,
                          !.decorations = win[w].decorations]
      /\ win[w].decorated \in BOOLEAN /\ win[w].decorations \in BOOLEAN
  BY <1>2 DEF W!WindowRecord
<1>5. QED
  BY <1>2, <1>3, <1>4, HintOK

LEMMA DestroyWindowOK ==
  ASSUME WindowsInv, NEW w \in WaylandWindow, W!DestroyWindow(w)
  PROVE  WindowsInv'
<1>1. /\ win' = [win EXCEPT ![w] = W!Blank] /\ on' = [on EXCEPT ![w] = {}]
      /\ UNCHANGED <<env, registry, factor, null>>
      /\ DOMAIN win = WaylandWindow /\ on \in [WaylandWindow -> SUBSET WaylandOutput]
  BY DEF W!DestroyWindow, WindowsInv
<1>2. UNCHANGED W!Connected
  BY <1>1 DEF W!Connected
<1>3. ASSUME NEW v \in WaylandWindow PROVE WinOK(v)'
  <2>1. CASE v = w
    <3>1. win'[v] = W!Blank /\ on'[v] = {}
      BY <1>1, <2>1
    <3>2. ScalesOfOutputs(W!Blank, {}, factor') /\ W!Blank.monitor = NoOutput
      BY DEF ScalesOfOutputs, W!Blank
    <3>3. QED
      BY <1>1, <3>1, <3>2, BlankOK, WindowAfter
  <2>2. CASE v # w
    <3>1. win'[v] = win[v] /\ on'[v] = on[v]
      BY <1>1, <2>2
    <3>2. QED
      BY <1>1, <1>2, <3>1, WindowAfter DEF WindowsInv, WinOK
  <2>3. QED
    BY <2>1, <2>2
<1>4. QED
  BY <1>1, <1>3 DEF WindowsInv

\* The list of outputs changes, and no monitor goes.
LEMMA OutputsChangeOK ==
  ASSUME WindowsInv, registry' \in [WaylandOutput -> W!OutputState],
         W!Connected \subseteq W!Connected', UNCHANGED <<env, factor, win, on, null>>
  PROVE  WindowsInv'
<1>1. ASSUME NEW v \in WaylandWindow PROVE WinOK(v)'
  BY WindowAfter DEF WindowsInv, WinOK
<1>2. QED
  BY <1>1 DEF WindowsInv

LEMMA OutputComesOK ==
  ASSUME WindowsInv, NEW o \in WaylandOutput,
         W!AddOutput(o) \/ W!OutputDone(o) \/ W!RemoveBoundOutput(o)
  PROVE  WindowsInv'
<1>1. PICK s \in W!OutputState :
        /\ registry' = [registry EXCEPT ![o] = s] /\ registry[o] # "connected"
        /\ UNCHANGED <<env, factor, win, on, null>>
  BY DEF W!AddOutput, W!OutputDone, W!RemoveBoundOutput, W!OutputState
<1>2. registry' \in [WaylandOutput -> W!OutputState]
  BY <1>1 DEF WindowsInv
<1>3. W!Connected \subseteq W!Connected'
  BY <1>1 DEF W!Connected, WindowsInv
<1>4. QED
  BY <1>1, <1>2, <1>3, OutputsChangeOK

\* A window with another set of scales is scaled anew.
LEMMA RescaledWindowOK ==
  ASSUME NEW r, RecordOK(r), NEW scales \in [WaylandOutput -> 0..MaxScale]
  PROVE  LET q == W!Rescaled([r EXCEPT !.scales = scales])
         IN RecordOK(q) /\ q.scales = scales /\ q.monitor = r.monitor /\ q.state = r.state
<1> DEFINE p == [r EXCEPT !.scales = scales]
           q == W!Rescaled(p)
<1>1. r \in W!WindowRecord /\ Scaled(r) /\ Mapped(r) /\ Follows(r)
  BY DEF RecordOK
<1>2. /\ p \in W!WindowRecord /\ p.framebuffer = p.size * p.scale
      /\ p.scales = scales /\ p.monitor = r.monitor /\ p.state = r.state
      /\ p.visible = r.visible /\ p.shell = r.shell /\ p.mode = r.mode
      /\ p.configured = r.configured /\ p.requested = r.requested
      /\ p.inhibitor = r.inhibitor /\ p.decorations = r.decorations
  BY <1>1 DEF W!WindowRecord, Scaled
<1> HIDE DEF p
<1>3. /\ q \in W!WindowRecord /\ Scaled(q)
      /\ \A f \in DOMAIN p \ {"scale", "framebuffer"} : q[f] = p[f]
  BY <1>2, RescaledOK
<1> HIDE DEF q
<1>4. {"scales", "monitor", "state", "visible", "shell", "mode", "configured", "requested",
       "inhibitor", "decorations"} \subseteq DOMAIN p \ {"scale", "framebuffer"}
  BY <1>2 DEF W!WindowRecord
<1>5. /\ q.scales = p.scales /\ q.monitor = p.monitor /\ q.state = p.state
      /\ q.visible = p.visible /\ q.shell = p.shell /\ q.mode = p.mode
      /\ q.configured = p.configured /\ q.requested = p.requested
      /\ q.inhibitor = p.inhibitor /\ q.decorations = p.decorations
  BY <1>3, <1>4
<1>6. Mapped(q) /\ Follows(q)
  BY <1>1, <1>2, <1>5 DEF Mapped, Follows
<1>7. QED
  BY <1>2, <1>3, <1>5, <1>6 DEF RecordOK, p, q

LEMMA ScalesType ==
  ASSUME WindowsInv, NEW w \in WaylandWindow
  PROVE  /\ win[w].scales \in [WaylandOutput -> 0..MaxScale]
         /\ \A o \in WaylandOutput : factor[o] \in 1..MaxScale
         /\ 1..MaxScale \subseteq 0..MaxScale /\ 0 \in 0..MaxScale
         /\ win[w] \in W!WindowRecord
<1>1. win[w] \in W!WindowRecord /\ factor \in [WaylandOutput -> W!Scale]
  BY DEF WindowsInv, WinOK, RecordOK
<1>2. MaxScale \in Nat \ {0}
  BY OutputsAssumption DEF W!WaylandAssumption
<1>3. QED
  BY <1>1, <1>2 DEF W!WindowRecord, W!Scale

\* An output in the scales of a window that enters or leaves it.
LEMMA EnterOrLeaveOK ==
  ASSUME WindowsInv, NEW w \in WaylandWindow, NEW o \in WaylandOutput,
         NEW entered \in BOOLEAN, win[w].state # "none",
         on' = [on EXCEPT ![w] = IF entered THEN @ \union {o} ELSE @ \ {o}],
         win' = [win EXCEPT ![w] =
                   W!Rescaled([@ EXCEPT !.scales[o] = IF entered THEN factor[o] ELSE 0])],
         UNCHANGED <<env, registry, factor, null>>
  PROVE  WindowsInv'
<1> DEFINE scales == [win[w].scales EXCEPT ![o] = IF entered THEN factor[o] ELSE 0]
           q == W!Rescaled([win[w] EXCEPT !.scales = scales])
<1>1. DOMAIN win = WaylandWindow /\ on \in [WaylandWindow -> SUBSET WaylandOutput]
  BY DEF WindowsInv
<1>2. win' = [win EXCEPT ![w] = q]
  <2>1. [win[w] EXCEPT !.scales[o] = IF entered THEN factor[o] ELSE 0] =
          [win[w] EXCEPT !.scales = scales]
    BY ScalesType DEF W!WindowRecord
  <2>2. QED
    BY <1>1, <2>1
<1>3. scales \in [WaylandOutput -> 0..MaxScale]
  BY ScalesType
<1>4. WinOK(w)
  BY DEF WindowsInv
<1>5. RecordOK(q) /\ q.scales = scales /\ q.monitor = win[w].monitor
                  /\ q.state = win[w].state
  <2> HIDE DEF scales
  <2>1. QED
    BY <1>3, <1>4, RescaledWindowOK DEF WinOK
<1> HIDE DEF q
<1>6. UNCHANGED W!Connected
  BY DEF W!Connected
<1>7. on'[w] = (IF entered THEN on[w] \union {o} ELSE on[w] \ {o})
  BY <1>1
<1>8. ScalesOfOutputs(q, on'[w], factor')
  BY <1>4, <1>5, <1>7, ScalesType DEF ScalesOfOutputs, WinOK
<1>9. ASSUME NEW v \in WaylandWindow PROVE WinOK(v)'
  <2>1. CASE v = w
    <3>1. win'[v] = q
      BY <1>1, <1>2, <2>1
    <3>2. QED
      BY <1>4, <1>5, <1>6, <1>8, <2>1, <3>1, WindowAfter DEF WinOK
  <2>2. CASE v # w
    <3>1. win'[v] = win[v] /\ on'[v] = on[v]
      BY <1>1, <1>2, <2>2
    <3>2. QED
      BY <1>6, <3>1, WindowAfter DEF WindowsInv, WinOK
  <2>3. QED
    BY <2>1, <2>2
<1>10. on' \in [WaylandWindow -> SUBSET WaylandOutput] /\ DOMAIN win' = WaylandWindow
  BY <1>1, <1>2
<1>11. QED
  BY <1>9, <1>10 DEF WindowsInv

LEMMA EnterOK ==
  ASSUME WindowsInv, NEW w \in WaylandWindow, NEW o \in WaylandOutput, W!Enter(w, o)
  PROVE  WindowsInv'
<1>1. win[w].state # "none"
  <2>1. win[w].visible
    BY DEF W!Enter
  <2>2. QED
    BY <2>1, OpenWindow DEF OpenOK
<1>2. /\ on' = [on EXCEPT ![w] = IF TRUE THEN @ \union {o} ELSE @ \ {o}]
      /\ win' = [win EXCEPT ![w] =
                   W!Rescaled([@ EXCEPT !.scales[o] = IF TRUE THEN factor[o] ELSE 0])]
      /\ UNCHANGED <<env, registry, factor, null>>
  BY DEF W!Enter
<1>3. QED
  BY <1>1, <1>2, EnterOrLeaveOK

LEMMA LeaveOutputOK ==
  ASSUME WindowsInv, NEW w \in WaylandWindow, NEW o \in WaylandOutput, W!Leave(w, o)
  PROVE  WindowsInv'
<1>1. win[w].state # "none"
  <2>1. win[w].scales[o] # 0 /\ (win[w].state = "none" => win[w] = W!Blank)
    BY ScalesType DEF W!Leave, WindowsInv, WinOK, ScalesOfOutputs
  <2>2. QED
    BY <2>1 DEF W!Blank
<1>2. /\ on' = [on EXCEPT ![w] = IF FALSE THEN @ \union {o} ELSE @ \ {o}]
      /\ win' = [win EXCEPT ![w] =
                   W!Rescaled([@ EXCEPT !.scales[o] = IF FALSE THEN factor[o] ELSE 0])]
      /\ UNCHANGED <<env, registry, factor, null>>
  BY DEF W!Leave
<1>3. QED
  BY <1>1, <1>2, EnterOrLeaveOK

LEMMA OutputScaleOK ==
  ASSUME WindowsInv, NEW o \in WaylandOutput, NEW f \in W!Scale, W!OutputScale(o, f)
  PROVE  WindowsInv'
<1>1. /\ factor' = [factor EXCEPT ![o] = f] /\ UNCHANGED <<env, registry, on, null>>
      /\ factor \in [WaylandOutput -> W!Scale]
  BY DEF W!OutputScale, WindowsInv
<1>2. factor' \in [WaylandOutput -> W!Scale] /\ DOMAIN win' = WaylandWindow
      /\ UNCHANGED W!Connected
  BY <1>1 DEF W!OutputScale, W!Connected
<1>3. ASSUME NEW v \in WaylandWindow PROVE WinOK(v)'
  <2>1. WinOK(v) /\ win[v].scales \in [WaylandOutput -> 0..MaxScale]
        /\ win[v] \in W!WindowRecord /\ f \in 1..MaxScale /\ f \in 0..MaxScale
        /\ factor[o] \in 1..MaxScale
    BY ScalesType DEF WindowsInv, W!Scale
  <2>2. CASE win[v].scales[o] = 0
    <3>1. win'[v] = win[v] /\ on'[v] = on[v] /\ o \notin on[v]
      BY <1>1, <2>1, <2>2 DEF W!OutputScale, WinOK, ScalesOfOutputs
    <3>2. ScalesOfOutputs(win[v], on[v], factor')
      BY <1>1, <2>1, <3>1 DEF WinOK, ScalesOfOutputs
    <3>3. QED
      BY <1>1, <1>2, <2>1, <3>1, <3>2, WindowAfter DEF WinOK
  <2>3. CASE win[v].scales[o] # 0
    <3> DEFINE scales == [win[v].scales EXCEPT ![o] = f]
               q == W!Rescaled([win[v] EXCEPT !.scales = scales])
    <3>1. win'[v] = q
      <4>1. win'[v] = W!Rescaled([win[v] EXCEPT !.scales[o] = f])
        BY <2>3 DEF W!OutputScale
      <4>2. [win[v] EXCEPT !.scales[o] = f] = [win[v] EXCEPT !.scales = scales]
        BY <2>1 DEF W!WindowRecord
      <4>3. QED
        BY <4>1, <4>2
    <3>2. scales \in [WaylandOutput -> 0..MaxScale]
      BY <2>1
    <3>3. o \in on[v] /\ win[v].state # "none"
      BY <2>1, <2>3 DEF WinOK, ScalesOfOutputs, W!Blank
    <3>4. \A k \in WaylandOutput : scales[k] = IF k \in on[v] THEN factor'[k] ELSE 0
      BY <1>1, <2>1, <3>3 DEF WinOK, ScalesOfOutputs
    <3> HIDE DEF scales
    <3>5. RecordOK(q) /\ q.scales = scales /\ q.monitor = win[v].monitor
                      /\ q.state = win[v].state
      BY <2>1, <3>2, RescaledWindowOK DEF WinOK
    <3> HIDE DEF q
    <3>6. ScalesOfOutputs(q, on'[v], factor')
      BY <1>1, <3>4, <3>5 DEF ScalesOfOutputs
    <3>7. QED
      BY <1>1, <1>2, <2>1, <3>1, <3>3, <3>5, <3>6, WindowAfter DEF WinOK
  <2>4. QED
    BY <2>2, <2>3
<1>4. QED
  BY <1>1, <1>2, <1>3 DEF WindowsInv

LEMMA RemoveOutputOK ==
  ASSUME WindowsInv, NEW o \in WaylandOutput, W!RemoveOutput(o)
  PROVE  WindowsInv'
<1>1. /\ registry' = [registry EXCEPT ![o] = "removed"] /\ UNCHANGED <<env, factor, on, null>>
      /\ registry \in [WaylandOutput -> W!OutputState] /\ env \in W!Environment
      /\ DOMAIN win' = WaylandWindow
  BY DEF W!RemoveOutput, WindowsInv
<1>2. W!Connected' = W!Connected \ {o} /\ registry' \in [WaylandOutput -> W!OutputState]
  BY <1>1 DEF W!Connected, W!OutputState
<1>3. NoOutput \notin WaylandOutput
  BY OutputsAssumption DEF W!WaylandAssumption
<1>4. ASSUME NEW v \in WaylandWindow PROVE WinOK(v)'
  <2>1. WinOK(v)
    BY DEF WindowsInv
  <2>2. CASE win[v].monitor # o
    <3>1. win'[v] = win[v]
      BY <2>2 DEF W!RemoveOutput
    <3>2. QED
      BY <1>1, <1>2, <2>1, <2>2, <3>1, WindowAfter DEF WinOK
  <2>3. CASE win[v].monitor = o
    <3> DEFINE q == W!OnMonitor(win[v], NoOutput, win[v].size)
    <3>1. win'[v] = q
      BY <2>3 DEF W!RemoveOutput
    <3>2. win[v].state # "none"
      BY <1>3, <2>1, <2>3 DEF WinOK, W!Blank
    <3>3. win[v].size \in 0..W!MaxSize
      BY <2>1 DEF WinOK, RecordOK, W!WindowRecord
    <3>4. RecordOK(q) /\ Kept(q, win[v]) /\ q.monitor = NoOutput
      BY <1>1, <2>1, <3>3, OnMonitorOK DEF WinOK
    <3> HIDE DEF q
    <3>5. QED
      BY <1>1, <2>1, <3>1, <3>2, <3>4, WindowAfter DEF WinOK, Kept, ScalesOfOutputs
  <2>4. QED
    BY <2>2, <2>3
<1>5. QED
  BY <1>1, <1>2, <1>4 DEF WindowsInv

LEMMA WaylandNext ==
  ASSUME WindowsInv, [W!Next]_(W!vars)
  PROVE  WindowsInv'
<1>1. CASE W!Outputs
  <2>1. PICK o \in WaylandOutput :
          \/ W!AddOutput(o) \/ W!OutputDone(o) \/ W!RemoveOutput(o) \/ W!RemoveBoundOutput(o)
          \/ \E f \in W!Scale : W!OutputScale(o, f)
          \/ \E w \in WaylandWindow : W!Enter(w, o) \/ W!Leave(w, o)
    BY <1>1 DEF W!Outputs
  <2>2. QED
    BY <2>1, OutputComesOK, RemoveOutputOK, OutputScaleOK, EnterOK, LeaveOutputOK
<1>2. CASE W!Configures
  <2>1. PICK w \in WaylandWindow :
          \/ \E s \in Size \union {0}, m \in BOOLEAN :
                W!ToplevelConfigure(w, s, m) \/ W!FrameConfigure(w, s, m)
          \/ \E k \in {W!Client, W!Server} : W!DecorationConfigure(w, k)
          \/ W!SurfaceConfigure(w) \/ W!FrameReady(w)
    BY <1>2 DEF W!Configures
  <2>2. QED
    BY <2>1, ToplevelConfigureOK, FrameConfigureOK, DecorationConfigureOK,
       SurfaceConfigureOK, FrameReadyOK
<1>3. CASE W!Application
  <2>1. PICK w \in WaylandWindow :
          \/ \E o \in WaylandOutput \union {NoOutput}, s \in Size :
                \/ \E d, v \in BOOLEAN : W!CreateWindow(w, o, s, d, v)
                \/ W!SetWindowMonitor(w, o, s)
          \/ \E s \in Size : W!SetWindowSize(w, s)
          \/ \E d \in BOOLEAN : W!SetWindowDecorated(w, d)
          \/ W!ShowWindow(w) \/ W!HideWindow(w) \/ W!DestroyWindow(w)
          \/ W!MaximizeWindow(w) \/ W!RestoreWindow(w)
    BY <1>3 DEF W!Application
  <2>2. QED
    BY <2>1, CreateWindowOK, SetWindowMonitorOK, SetWindowSizeOK, SetWindowDecoratedOK,
       ShowWindowOK, HideWindowOK, DestroyWindowOK, MaximizeOK
<1>4. CASE UNCHANGED W!vars
  <2>1. UNCHANGED <<env, registry, factor, win, on, null>> /\ UNCHANGED W!Connected
    BY <1>4 DEF W!vars, W!Connected
  <2>2. registry' \in [WaylandOutput -> W!OutputState]
    BY <2>1 DEF WindowsInv
  <2>3. QED
    BY <2>1, <2>2, OutputsChangeOK
<1>5. QED
  BY <1>1, <1>2, <1>3, <1>4 DEF W!Next

LEMMA WaylandInit ==
  ASSUME W!Init
  PROVE  WindowsInv
<1>1. /\ env \in W!Environment
      /\ registry \in [WaylandOutput -> {"absent", "connected"}]
      /\ factor = [o \in WaylandOutput |-> 1]
      /\ win = [w \in WaylandWindow |-> W!Blank]
      /\ on = [w \in WaylandWindow |-> {}]
      /\ null = FALSE
  BY DEF W!Init
<1>2. 1 \in W!Scale
  BY OutputsAssumption DEF W!WaylandAssumption, W!Scale
<1>3. ASSUME NEW w \in WaylandWindow PROVE WinOK(w)
  <2>1. win[w] = W!Blank /\ on[w] = {}
    BY <1>1
  <2>2. ScalesOfOutputs(W!Blank, {}, factor) /\ W!Blank.monitor = NoOutput
    BY DEF ScalesOfOutputs, W!Blank
  <2>3. QED
    BY <2>1, <2>2, BlankOK DEF WinOK
<1>4. QED
  BY <1>1, <1>2, <1>3 DEF WindowsInv, W!OutputState

LEMMA WindowsInvAgrees ==
  ASSUME WindowsInv
  PROVE  WindowsAgree
<1>1. W!TypeOK
  BY DEF WindowsInv, WinOK, RecordOK, W!TypeOK
<1>2. W!FramebufferFits
  <2>1. SUFFICES ASSUME NEW w \in WaylandWindow
                 PROVE  LET factors == {1} \union {factor[o] : o \in on[w]}
                        IN /\ win[w].scale = CHOOSE f \in factors : \A g \in factors : g <= f
                           /\ win[w].framebuffer = win[w].size * win[w].scale
    BY DEF W!FramebufferFits
  <2> DEFINE factors == {1} \union {factor[o] : o \in on[w]}
             scales == {1} \union {win[w].scales[o] : o \in WaylandOutput}
             largest == win[w].scale
  <2>2. /\ largest = Largest(scales) /\ win[w].framebuffer = win[w].size * win[w].scale
        /\ \A o \in WaylandOutput : win[w].scales[o] = IF o \in on[w] THEN factor[o] ELSE 0
        /\ on[w] \subseteq WaylandOutput
    BY DEF WindowsInv, WinOK, RecordOK, Scaled, ScalesOfOutputs
  <2>3. /\ largest \in scales /\ largest \in 1..MaxScale
        /\ \A g \in scales : g <= largest
    BY <2>2, ScalesType, ScaleIs DEF W!Scale
  <2>4. factors \subseteq scales /\ scales \subseteq factors \union {0}
    BY <2>2
  <2>5. factors \subseteq 1..MaxScale
    BY <2>2, ScalesType, OutputsAssumption DEF W!WaylandAssumption
  <2> HIDE DEF factors, scales
  <2>6. largest \in factors /\ \A g \in factors : g <= largest
    BY <2>3, <2>4
  <2>7. ASSUME NEW f \in factors, \A g \in factors : g <= f
        PROVE  f = largest
    <3>1. f <= largest /\ largest <= f
      BY <2>6, <2>7
    <3>2. f \in 1..MaxScale /\ largest \in 1..MaxScale
      BY <2>3, <2>5
    <3>3. QED
      BY <3>1, <3>2
  <2>8. largest = CHOOSE f \in factors : \A g \in factors : g <= f
    BY <2>6, <2>7, Zenon
  <2>9. QED
    BY <2>2, <2>8 DEF factors
<1>3. W!MappedIsConfigured /\ W!RequestsFollowMonitor
  BY DEF WindowsInv, WinOK, RecordOK, Mapped, Follows, W!MappedIsConfigured,
         W!RequestsFollowMonitor
<1>4. QED
  BY <1>1, <1>2, <1>3 DEF WindowsAgree

\* On Wayland a framebuffer has the scale of the outputs that its window is on, a
\* buffer is attached to a configured surface, and what was asked of the compositor
\* follows the monitor, for any number of windows and outputs.
THEOREM WindowsAgreeAlways == WindowsSpec => []WindowsAgree
<1>1. WindowsInit => WindowsInv
  BY WaylandInit DEF WindowsInit
<1>2. WindowsInv /\ [WindowsNext]_<<subject, vars, listVars, waylandVars>> => WindowsInv'
  <2>1. [WindowsNext]_<<subject, vars, listVars, waylandVars>> => [W!Next]_(W!vars)
    BY DEF WindowsNext, waylandVars, W!vars
  <2>2. QED
    BY <2>1, WaylandNext
<1>3. WindowsInv => WindowsAgree
  BY WindowsInvAgrees
<1>4. QED
  BY <1>1, <1>2, <1>3, PTL DEF WindowsSpec

-----------------------------------------------------------------------------
(* Monitors on Win32 and macOS: the inductive invariant.  Frames s are those of *)
(* the calls in progress; a step may push others on them.                       *)

FrameType ==
    [fn : {"poll", "leave", "left", "set", "acquire", "drop", "free", "app"},
     m : MonitorObject \union {NoMonitor}, old : Seq(MonitorObject \union {NoMonitor}),
     a : Nat, d : Nat, first : BOOLEAN]

MonitorType ==
    [output : M!Connector \union {<<0, 0>>}, handle : Nat, screen : BOOLEAN,
     modeChanged : BOOLEAN]

ListsTyped ==
    /\ system \in System
    /\ displays \in [M!Display -> {"none", "idle", "on"}]
    /\ active \subseteq M!Adapter /\ primary \in M!Adapter
    /\ handle \in [M!Adapter -> 0..MaxChanges]
    /\ mode \in [M!Adapter -> {"desktop", "game"}]
    /\ monitor \in [MonitorObject -> MonitorType]
    /\ list \in Seq(MonitorObject)
    /\ full \in MonitorObject \union {NoMonitor}
    /\ pending \in BOOLEAN /\ holds \in BOOLEAN /\ ready \in BOOLEAN
    /\ failed \in BOOLEAN /\ cut \in BOOLEAN /\ nested \in BOOLEAN
    /\ stray \in BOOLEAN /\ back \in BOOLEAN
    /\ missed \subseteq MonitorObject
    /\ stack \in Seq(FrameType)
    /\ changes \in 0..MaxChanges /\ failures \in 0..MaxFailures

Live(m) == m \in MonitorObject /\ monitor[m].output \in M!Connector
InList(m) == \E i \in DOMAIN list : list[i] = m
Awaits(f, m) == \E i \in DOMAIN f.old : f.old[i] = m

\* A monitor has an output or is unused; those of macOS are of displays.
ObjectsOK ==
    \A m \in MonitorObject :
      /\ Live(m) \/ monitor[m] = M!Gone
      /\ Live(m) /\ system = "cocoa" => monitor[m].output[2] = 1
      /\ Live(m) /\ system = "win32" => monitor[m].screen

\* The list has no monitor twice.
ListOK ==
    /\ \A i \in DOMAIN list : Live(list[i])
    /\ \A i, j \in DOMAIN list : list[i] = list[j] => i = j

\* What a poll has still to come across is in use, and there once.
OldOK(f) ==
    /\ \A i \in DOMAIN f.old : f.old[i] # NoMonitor => Live(f.old[i])
    /\ \A i, j \in DOMAIN f.old : f.old[i] = f.old[j] /\ f.old[i] # NoMonitor => i = j
    /\ f.a \in 0..(Len(AdapterDisplays) + 1) /\ (f.a = 0 => f.d = 1)
    /\ f.a \in M!Adapter => f.d \in 1..(AdapterDisplays[f.a] + 1)
    /\ f.a \in M!Adapter /\ system = "cocoa" => f.d = 1

\* Calls that disconnect a monitor are made by a poll, which has come across it; one
\* that lets the window leave its monitor is the last one.
CallOK(s, i) ==
    /\ s[i].fn = "poll" => OldOK(s[i])
    /\ s[i].fn \in {"drop", "free"} =>
         /\ Live(s[i].m)
         /\ i > 1 /\ s[i - 1].fn = "poll" /\ ~Awaits(s[i - 1], s[i].m)
    /\ s[i].fn = "free" => ~InList(s[i].m)
    /\ s[i].fn \in {"left", "acquire"} => Live(s[i].m) /\ system # "cocoa"
    /\ s[i].fn = "set" => s[i].m \in MonitorObject
    /\ s[i].fn = "leave" => i = Len(s) /\ s[i].m = full /\ full # NoMonitor

CallsOK(s) == \A i \in DOMAIN s : CallOK(s, i)

\* The window is on a monitor of the list, or a callback brought it back to one
\* that goes; before a monitor goes the window leaves it.
WindowOK(s) ==
    /\ full # NoMonitor => Live(full) /\ (back \/ InList(full))
    /\ \A i \in DOMAIN s :
         s[i].fn = "drop" /\ full = s[i].m /\ ~back =>
           i < Len(s) /\ s[i + 1].fn \in {"leave", "left"}

DesktopOK ==
    /\ system = "cocoa" => \A x \in M!Display : x[2] > 1 => displays[x] = "none"
    /\ \A a \in M!Adapter : handle[a] <= changes
    /\ \A a \in M!Adapter : mode[a] = "game" => M!Lives(a)

\* A mode is changed for the window that holds its monitor, or is about to.
IsOwed(s, a) ==
    \E i \in DOMAIN s : s[i].fn = "acquire" /\ monitor[s[i].m].output[1] = a
IsHeld(a) ==
    /\ full # NoMonitor /\ holds
    /\ monitor[full].modeChanged /\ monitor[full].output[1] = a
    /\ system = "cocoa" => monitor[full].handle = handle[a]
ModesOK(s) ==
    ~stray =>
      /\ \A i \in DOMAIN s : s[i].fn = "acquire" => full \in {s[i].m, NoMonitor}
      /\ \A i \in DOMAIN s : s[i].fn = "left" =>
           /\ ~holds
           /\ \A j \in DOMAIN s : s[j].fn \in {"acquire", "set"} => j < i
      /\ \A a \in M!Adapter : mode[a] = "game" => IsOwed(s, a) \/ IsHeld(a)

\* How far a poll is, and what it has come across or made and does not drop.
Place(x) == IF x[2] = 0 THEN AdapterDisplays[x[1]] + 1 ELSE x[2]
Passed(f, x) == f.a # 0 /\ (x[1] < f.a \/ (x[1] = f.a /\ Place(x) < f.d))
AllPassed(s, x) == \A i \in DOMAIN s : s[i].fn = "poll" => Passed(s[i], x)
Met(s, m) ==
    /\ InList(m)
    /\ \A i \in DOMAIN s :
         /\ s[i].fn = "poll" => s[i].a # 0 /\ ~Awaits(s[i], m)
         /\ s[i].fn = "drop" => s[i].m # m

\* What the only poll has seen is in the list as it is shown.
OnlyPoll(s) ==
    \A i, j \in DOMAIN s : s[i].fn = "poll" /\ s[j].fn = "poll" => i = j
AwaitsListed(s) ==
    \A i \in DOMAIN s, m \in MonitorObject :
      s[i].fn = "poll" /\ Awaits(s[i], m) => InList(m)
IsCurrent(m) == /\ m \in missed \/ monitor[m].handle = handle[monitor[m].output[1]]
                /\ monitor[m].screen
MetIsShown(s) ==
    \A m \in MonitorObject :
      Met(s, m) => IsCurrent(m) /\ \E x \in M!Shown : M!IsFor(m, x) /\ AllPassed(s, x)
MetOnce(s) ==
    \A m, n \in MonitorObject, x \in M!Shown :
      Met(s, m) /\ Met(s, n) /\ M!IsFor(m, x) /\ M!IsFor(n, x) => m = n
PassedIsMet(s) ==
    \A x \in M!Shown :
      AllPassed(s, x) => \E m \in MonitorObject : Met(s, m) /\ M!IsFor(m, x)
PollOK(s) ==
    /\ ~nested => OnlyPoll(s)
    /\ ~nested /\ ~cut => AwaitsListed(s)
    /\ ~nested /\ ~cut /\ ~pending => MetIsShown(s) /\ MetOnce(s) /\ PassedIsMet(s)

\* All but what polls have seen, and all.
CoreInv(s) ==
    /\ ObjectsOK /\ ListOK /\ CallsOK(s) /\ WindowOK(s) /\ DesktopOK /\ ModesOK(s)
RunInv(s) == CoreInv(s) /\ PollOK(s)
ListsInv == ListsTyped /\ (~failed => RunInv(stack))

\* What the assumption says of adapters and of the outputs that are shown.
LEMMA Adapters ==
  /\ M!Adapter = 1..Len(AdapterDisplays) /\ Len(AdapterDisplays) \in Nat \ {0}
  /\ \A a \in M!Adapter : AdapterDisplays[a] \in Nat \ {0}
<1>1. AdapterDisplays \in Seq(Nat \ {0}) /\ AdapterDisplays # <<>>
  BY ListsAssumption DEF M!MonitorListsAssumption
<1>2. QED
  BY <1>1 DEF M!Adapter

LEMMA Connectors ==
  /\ <<0, 0>> \notin M!Connector
  /\ \A a \in M!Adapter : <<a, 0>> \in M!Connector
  /\ \A a \in M!Adapter : \A d \in 1..AdapterDisplays[a] :
       <<a, d>> \in M!Display /\ <<a, d>> \in M!Connector
  /\ \A x \in M!Display : \E a \in M!Adapter : \E d \in 1..AdapterDisplays[a] : x = <<a, d>>
  /\ \A x \in M!Connector : \E a \in M!Adapter : \E d \in 0..AdapterDisplays[a] : x = <<a, d>>
<1>1. \A x \in M!Display : \E a \in M!Adapter : \E d \in 1..AdapterDisplays[a] : x = <<a, d>>
  BY DEF M!Display
<1>2. \A a \in M!Adapter : \A d \in 1..AdapterDisplays[a] :
        <<a, d>> \in M!Display /\ <<a, d>> \in M!Connector
  BY DEF M!Display, M!Connector
<1>3. \A a \in M!Adapter : <<a, 0>> \in M!Connector
  BY DEF M!Connector
<1>4. \A x \in M!Connector : \E a \in M!Adapter : \E d \in 0..AdapterDisplays[a] : x = <<a, d>>
  <2>1. TAKE x \in M!Connector
  <2>2. CASE x \in M!Display
    BY <1>1, <2>2, Adapters
  <2>3. CASE x \in M!Adapter \X {0}
    BY <2>3, Adapters
  <2>4. QED
    BY <2>1, <2>2, <2>3 DEF M!Connector
<1>5. <<0, 0>> \notin M!Connector
  BY <1>4, Adapters
<1>6. QED
  BY <1>1, <1>2, <1>3, <1>4, <1>5

LEMMA ShownIs ==
  ASSUME NEW x \in M!Shown
  PROVE  /\ x \in M!Connector /\ x = <<x[1], x[2]>>
         /\ x[1] \in M!Adapter /\ x[2] \in 0..AdapterDisplays[x[1]]
         /\ M!Lives(x[1])
         /\ x[2] = 0 => system = "win32" /\ M!IsBare(x[1])
         /\ x[2] # 0 => x \in M!Display /\ M!IsOn(x)
<1>1. x \in M!Connector
  BY Connectors DEF M!Shown, M!Connector
<1>2. x = <<x[1], x[2]>> /\ x[1] \in M!Adapter /\ x[2] \in 0..AdapterDisplays[x[1]]
  BY <1>1, Connectors
<1>3. M!Lives(x[1])
  BY DEF M!Lives
<1>4. x[2] = 0 => system = "win32" /\ M!IsBare(x[1])
  <2>1. ASSUME x[2] = 0  PROVE x \notin M!Display
    BY <2>1, Connectors, Adapters
  <2>2. QED
    BY <2>1 DEF M!Shown, M!IsBare
<1>5. x[2] # 0 => x \in M!Display /\ M!IsOn(x)
  BY DEF M!Shown
<1>6. QED
  BY <1>1, <1>2, <1>3, <1>4, <1>5

\* A monitor is for one of the outputs that are shown.
LEMMA ForOne ==
  ASSUME NEW x \in M!Shown, NEW y \in M!Shown, NEW m,
         ListsTyped, M!IsFor(m, x), M!IsFor(m, y)
  PROVE  x = y
<1>1. /\ x = <<x[1], x[2]>> /\ x[1] \in M!Adapter /\ x[2] \in 0..AdapterDisplays[x[1]]
      /\ x[2] = 0 => M!IsBare(x[1])
      /\ x[2] # 0 => x \in M!Display /\ M!IsOn(x)
  BY ShownIs
<1>2. /\ y = <<y[1], y[2]>> /\ y[1] \in M!Adapter /\ y[2] \in 0..AdapterDisplays[y[1]]
      /\ y[2] = 0 => M!IsBare(y[1])
      /\ y[2] # 0 => y \in M!Display /\ M!IsOn(y)
  BY ShownIs
<1>3. x[1] = y[1]
  BY DEF M!IsFor
<1>4. CASE x[2] = 0 /\ y[2] = 0
  BY <1>1, <1>2, <1>3, <1>4
<1>5. CASE x[2] # 0 /\ y[2] # 0
  BY <1>5 DEF M!IsFor
<1>6. ASSUME NEW u \in M!Shown, NEW v \in M!Shown, u[1] = v[1], u[2] = 0, v[2] # 0
      PROVE  FALSE
  <2>1. M!IsBare(u[1]) /\ v = <<v[1], v[2]>> /\ v[2] \in 1..AdapterDisplays[v[1]] /\ M!IsOn(v)
    BY <1>6, ShownIs, Adapters
  <2>2. displays[v] = "none"
    BY <1>6, <2>1 DEF M!IsBare
  <2>3. QED
    BY <2>1, <2>2 DEF M!IsOn
<1>7. QED
  BY <1>3, <1>4, <1>5, <1>6

\* Pushing and popping.
LEMMA Push ==
  ASSUME NEW T, NEW s \in Seq(T), NEW f \in T
  PROVE  /\ Append(s, f) \in Seq(T) /\ Len(Append(s, f)) = Len(s) + 1 /\ Len(s) \in Nat
         /\ DOMAIN s = 1..Len(s) /\ DOMAIN Append(s, f) = 1..(Len(s) + 1)
         /\ \A i \in DOMAIN s : Append(s, f)[i] = s[i] /\ i # Len(s) + 1
         /\ Append(s, f)[Len(s) + 1] = f
OBVIOUS

LEMMA Front ==
  ASSUME NEW T, NEW s \in Seq(T), s # <<>>
  PROVE  /\ Len(s) \in Nat \ {0} /\ DOMAIN s = 1..Len(s) /\ s[Len(s)] \in T
         /\ SubSeq(s, 1, Len(s) - 1) \in Seq(T)
         /\ Len(SubSeq(s, 1, Len(s) - 1)) = Len(s) - 1
         /\ DOMAIN SubSeq(s, 1, Len(s) - 1) = 1..(Len(s) - 1)
         /\ \A i \in 1..(Len(s) - 1) : SubSeq(s, 1, Len(s) - 1)[i] = s[i]
<1>1. Len(s) \in Nat \ {0} /\ DOMAIN s = 1..Len(s)
  OBVIOUS
<1>2. s[Len(s)] \in T
  BY <1>1
<1>3. /\ SubSeq(s, 1, Len(s) - 1) \in Seq(T)
      /\ Len(SubSeq(s, 1, Len(s) - 1)) = Len(s) - 1
  BY <1>1
<1>4. \A i \in 1..(Len(s) - 1) : SubSeq(s, 1, Len(s) - 1)[i] = s[i]
  BY <1>1
<1>5. QED
  BY <1>1, <1>2, <1>3, <1>4

LEMMA Pop ==
  ASSUME ListsTyped, stack # <<>>
  PROVE  /\ M!Below \in Seq(FrameType) /\ Len(M!Below) = Len(stack) - 1
         /\ Len(stack) \in Nat \ {0}
         /\ DOMAIN stack = 1..Len(stack) /\ DOMAIN M!Below = 1..(Len(stack) - 1)
         /\ \A i \in 1..(Len(stack) - 1) : M!Below[i] = stack[i]
         /\ M!Top = stack[Len(stack)] /\ M!Top \in FrameType
<1>1. stack \in Seq(FrameType)
  BY DEF ListsTyped
<1>2. QED
  BY <1>1, Front, stack # <<>> DEF M!Below, M!Top

LEMMA FrameIs ==
  ASSUME NEW fn \in {"poll", "leave", "left", "set", "acquire", "drop", "free", "app"},
         NEW m \in MonitorObject \union {NoMonitor}
  PROVE  /\ M!Frame(fn, m) \in FrameType
         /\ M!Frame(fn, m).fn = fn /\ M!Frame(fn, m).m = m
         /\ M!Frame(fn, m).a = 0 /\ M!Frame(fn, m).old = <<>> /\ M!Frame(fn, m).d = 1
BY DEF M!Frame, FrameType

NoLeave(s) == \A i \in DOMAIN s : s[i].fn # "leave"

-----------------------------------------------------------------------------
(* Pushing frames, in the state after a step *)

LEMMA PushCalls ==
  ASSUME NEW s \in Seq(FrameType), NEW f \in FrameType, NEW t, t = Append(s, f),
         NoLeave(s), CallsOK(s)', CallOK(t, Len(s) + 1)'
  PROVE  CallsOK(t)'
<1>1. /\ DOMAIN t = 1..(Len(s) + 1) /\ DOMAIN s = 1..Len(s) /\ Len(s) \in Nat
      /\ \A i \in DOMAIN s : t[i] = s[i] /\ i # Len(s) + 1
  BY Push
<1>2. SUFFICES ASSUME NEW i \in DOMAIN s
               PROVE  CallOK(t, i)'
  BY <1>1 DEF CallsOK
<1>3. CallOK(s, i)' /\ s[i].fn # "leave" /\ t[i] = s[i] /\ i \in Nat
  BY <1>1, <1>2 DEF CallsOK, NoLeave
<1>4. i > 1 => t[i - 1] = s[i - 1]
  BY <1>1, <1>2
<1>5. QED
  BY <1>3, <1>4 DEF CallOK

LEMMA PushWindow ==
  ASSUME NEW s \in Seq(FrameType), NEW f \in FrameType, NEW t, t = Append(s, f),
         f.fn # "drop", WindowOK(s)'
  PROVE  WindowOK(t)'
<1>1. /\ DOMAIN t = 1..(Len(s) + 1) /\ DOMAIN s = 1..Len(s) /\ Len(s) \in Nat
      /\ Len(t) = Len(s) + 1 /\ t[Len(s) + 1] = f
      /\ \A i \in DOMAIN s : t[i] = s[i] /\ i # Len(s) + 1
  BY Push
<1>2. ASSUME NEW i \in DOMAIN t, t[i].fn = "drop", full' = t[i].m, ~back'
      PROVE  i < Len(t) /\ t[i + 1].fn \in {"leave", "left"}
  <2>1. i \in DOMAIN s
    BY <1>1, <1>2
  <2>2. i < Len(s) /\ s[i + 1].fn \in {"leave", "left"}
    BY <1>1, <1>2, <2>1 DEF WindowOK
  <2>3. QED
    BY <1>1, <2>1, <2>2
<1>3. QED
  BY <1>2 DEF WindowOK

LEMMA PushModes ==
  ASSUME NEW s \in Seq(FrameType), NEW f \in FrameType, NEW t, t = Append(s, f),
         f.fn \notin {"acquire", "set", "left"}, ModesOK(s)'
  PROVE  ModesOK(t)'
<1>1. /\ DOMAIN t = 1..(Len(s) + 1) /\ DOMAIN s = 1..Len(s) /\ Len(s) \in Nat
      /\ t[Len(s) + 1] = f
      /\ \A i \in DOMAIN s : t[i] = s[i] /\ i # Len(s) + 1
  BY Push
<1>2. \A i \in DOMAIN t : t[i].fn \in {"acquire", "set", "left"} => i \in DOMAIN s
  BY <1>1
<1>3. \A a \in M!Adapter : IsOwed(s, a)' => IsOwed(t, a)'
  BY <1>1 DEF IsOwed
<1>4. QED
  BY <1>1, <1>2, <1>3 DEF ModesOK

\* What polls have seen is a matter of the frames of polls, and of what they drop.
SamePolls(s, t) ==
    /\ \A i \in DOMAIN s : s[i].fn \in {"poll", "drop"} => i \in DOMAIN t /\ t[i] = s[i]
    /\ \A i \in DOMAIN t : t[i].fn \in {"poll", "drop"} => i \in DOMAIN s /\ s[i] = t[i]

LEMMA SamePollsOK ==
  ASSUME NEW s, NEW t, SamePolls(s, t), PollOK(s)'
  PROVE  PollOK(t)'
<1>1. \A m : Met(s, m)' <=> Met(t, m)'
  BY DEF SamePolls, Met
<1>2. \A x : AllPassed(s, x)' <=> AllPassed(t, x)'
  BY DEF SamePolls, AllPassed
<1>3. OnlyPoll(s) => OnlyPoll(t)
  BY DEF SamePolls, OnlyPoll
<1>4. AwaitsListed(s)' => AwaitsListed(t)'
  BY DEF SamePolls, AwaitsListed
<1>5. MetIsShown(s)' => MetIsShown(t)'
  BY <1>1, <1>2 DEF MetIsShown
<1>6. MetOnce(s)' => MetOnce(t)'
  BY <1>1 DEF MetOnce
<1>7. PassedIsMet(s)' => PassedIsMet(t)'
  BY <1>1, <1>2 DEF PassedIsMet
<1>8. QED
  BY <1>3, <1>4, <1>5, <1>6, <1>7 DEF PollOK, OnlyPoll

LEMMA PushSamePolls ==
  ASSUME NEW s \in Seq(FrameType), NEW f \in FrameType, f.fn \notin {"poll", "drop"}
  PROVE  SamePolls(s, Append(s, f))
BY Push DEF SamePolls

LEMMA PushApp ==
  ASSUME NEW s \in Seq(FrameType), NoLeave(s), RunInv(s)'
  PROVE  M!InApp(s) \in Seq(FrameType) /\ RunInv(M!InApp(s))' /\ NoLeave(M!InApp(s))
<1> DEFINE f == M!Frame("app", NoMonitor)
<1>1. PICK t : t = M!InApp(s)
  OBVIOUS
<1>2. f \in FrameType /\ f.fn = "app" /\ t = Append(s, f)
  BY <1>1, FrameIs DEF M!InApp
<1> HIDE DEF f
<1>3. t \in Seq(FrameType) /\ t[Len(s) + 1] = f /\ NoLeave(t)
  BY <1>2, Push DEF NoLeave
<1>4. CallOK(t, Len(s) + 1)'
  BY <1>2, <1>3 DEF CallOK
<1>5. CallsOK(t)'
  BY <1>2, <1>4, PushCalls DEF RunInv, CoreInv
<1>6. WindowOK(t)'
  BY <1>2, PushWindow DEF RunInv, CoreInv
<1>7. ModesOK(t)'
  BY <1>2, PushModes DEF RunInv, CoreInv
<1>8. PollOK(t)'
  BY <1>2, PushSamePolls, SamePollsOK DEF RunInv
<1>9. RunInv(t)'
  BY <1>5, <1>6, <1>7, <1>8 DEF RunInv, CoreInv
<1>10. QED
  BY <1>1, <1>3, <1>9

\* A poll that begins has seen nothing.
LEMMA PushPoll ==
  ASSUME NEW s \in Seq(FrameType), NoLeave(s), CoreInv(s)', M!BeginPoll(s)
  PROVE  stack' \in Seq(FrameType) /\ RunInv(stack)'
<1> DEFINE f == M!Frame("poll", NoMonitor)
<1>1. PICK t : t = stack'
  OBVIOUS
<1>2. /\ f \in FrameType /\ f.fn = "poll" /\ f.a = 0 /\ f.old = <<>> /\ f.d = 1
      /\ t = Append(s, f) /\ nested' = M!Calls("poll", s)
  BY <1>1, FrameIs DEF M!BeginPoll
<1> HIDE DEF f
<1>3. /\ t \in Seq(FrameType) /\ t[Len(s) + 1] = f /\ DOMAIN t = 1..(Len(s) + 1)
      /\ DOMAIN s = 1..Len(s) /\ Len(s) \in Nat
      /\ \A i \in DOMAIN s : t[i] = s[i]
  BY <1>2, Push
<1>4. CallOK(t, Len(s) + 1)'
  <2>1. DOMAIN f.old = {} /\ f.a \notin M!Adapter
    BY <1>2, Adapters
  <2>2. OldOK(f)'
    BY <1>2, <2>1, Adapters DEF OldOK
  <2>3. QED
    BY <1>2, <1>3, <2>2 DEF CallOK
<1>5. CallsOK(t)'
  BY <1>2, <1>4, PushCalls DEF CoreInv
<1>6. WindowOK(t)'
  BY <1>2, PushWindow DEF CoreInv
<1>7. ModesOK(t)'
  BY <1>2, PushModes DEF CoreInv
<1>8. PollOK(t)'
  <2>1. \A m : ~Met(t, m)'
    BY <1>2, <1>3 DEF Met
  <2>2. \A x : ~AllPassed(t, x)'
    BY <1>2, <1>3 DEF AllPassed, Passed
  <2>3. ASSUME ~nested'  PROVE OnlyPoll(t) /\ AwaitsListed(t)'
    <3>1. \A i \in DOMAIN t : t[i].fn = "poll" => i = Len(s) + 1
      BY <1>2, <1>3, <2>3 DEF M!Calls
    <3>2. QED
      BY <1>2, <1>3, <3>1 DEF OnlyPoll, AwaitsListed, Awaits
  <2>4. QED
    BY <2>1, <2>2, <2>3 DEF PollOK, OnlyPoll, MetIsShown, MetOnce, PassedIsMet
<1>9. RunInv(t)'
  BY <1>5, <1>6, <1>7, <1>8 DEF RunInv, CoreInv
<1>10. QED
  BY <1>1, <1>3, <1>9

LEMMA AfterMessages ==
  ASSUME NEW s \in Seq(FrameType), NoLeave(s), RunInv(s)', M!Messages(s)
  PROVE  stack' \in Seq(FrameType) /\ RunInv(stack)'
<1>1. PICK t : t = stack'
  OBVIOUS
<1>2. PICK u : u = M!InApp(s)
  OBVIOUS
<1>3. t = s \/ t = u
  BY <1>1, <1>2 DEF M!Messages
<1>4. u \in Seq(FrameType) /\ RunInv(u)'
  BY <1>2, PushApp
<1>5. t \in Seq(FrameType) /\ RunInv(t)'
  BY <1>3, <1>4
<1>6. QED
  BY <1>1, <1>5

LEMMA AfterTell ==
  ASSUME NEW s \in Seq(FrameType), NoLeave(s), RunInv(s)', M!Tell(s)
  PROVE  stack' \in Seq(FrameType) /\ RunInv(stack)'
<1>1. PICK t : t = stack'
  OBVIOUS
<1>2. PICK u : u = M!InApp(s)
  OBVIOUS
<1>3. t = s \/ t = u
  BY <1>1, <1>2 DEF M!Tell
<1>4. u \in Seq(FrameType) /\ RunInv(u)'
  BY <1>2, PushApp
<1>5. t \in Seq(FrameType) /\ RunInv(t)'
  BY <1>3, <1>4
<1>6. QED
  BY <1>1, <1>5

-----------------------------------------------------------------------------
(* What steps keep *)

\* The calls in progress but for the last ones.
Prefix(s) ==
    /\ s \in Seq(FrameType) /\ Len(s) <= Len(stack)
    /\ DOMAIN s = 1..Len(s) /\ DOMAIN stack = 1..Len(stack)
    /\ Len(s) \in Nat /\ Len(stack) \in Nat
    /\ \A i \in DOMAIN s : s[i] = stack[i]

LEMMA BelowIs ==
  ASSUME ListsTyped, stack # <<>>, CallsOK(stack), NEW s, s = M!Below
  PROVE  /\ Prefix(s) /\ NoLeave(s) /\ Len(s) + 1 = Len(stack)
         /\ M!Top = stack[Len(stack)] /\ M!Top \in FrameType /\ Len(stack) \in DOMAIN stack
<1>1. /\ s \in Seq(FrameType) /\ Len(s) = Len(stack) - 1
      /\ Len(stack) \in Nat \ {0}
      /\ DOMAIN stack = 1..Len(stack) /\ DOMAIN s = 1..(Len(stack) - 1)
      /\ \A i \in 1..(Len(stack) - 1) : s[i] = stack[i]
      /\ M!Top = stack[Len(stack)] /\ M!Top \in FrameType
  BY Pop
<1>2. Prefix(s) /\ Len(s) + 1 = Len(stack) /\ Len(stack) \in DOMAIN stack
  BY <1>1 DEF Prefix
<1>3. NoLeave(s)
  BY <1>1 DEF NoLeave, CallsOK, CallOK
<1>4. QED
  BY <1>1, <1>2, <1>3

\* Without a last call that lets the window leave, there is no such call.
LEMMA AllIs ==
  ASSUME ListsTyped, CallsOK(stack), stack # <<>> => M!Top.fn # "leave", NEW s, s = stack
  PROVE  Prefix(s) /\ NoLeave(s) /\ Len(s) = Len(stack)
<1>1. /\ s \in Seq(FrameType) /\ Len(s) = Len(stack) /\ Len(stack) \in Nat
      /\ DOMAIN stack = 1..Len(stack)
  BY DEF ListsTyped
<1>2. Prefix(s)
  BY <1>1 DEF Prefix
<1>3. NoLeave(s)
  BY <1>1 DEF NoLeave, CallsOK, CallOK, M!Top
<1>4. QED
  BY <1>1, <1>2, <1>3

\* Outputs and the list are as they were.
SameObjects ==
    /\ system' = system /\ list' = list
    /\ \A m \in MonitorObject :
         /\ monitor'[m].output = monitor[m].output
         /\ system = "win32" => monitor'[m].screen = monitor[m].screen
         /\ monitor[m] = M!Gone => monitor'[m] = M!Gone

LEMMA ObjectsKept ==
  ASSUME ObjectsOK, ListOK, SameObjects
  PROVE  /\ ObjectsOK' /\ ListOK'
         /\ \A m : Live(m)' <=> Live(m)
         /\ \A m : InList(m)' <=> InList(m)
<1>1. \A m : Live(m)' <=> Live(m)
  BY DEF Live, SameObjects, M!Connector, M!Display, M!Adapter
<1>2. \A m : InList(m)' <=> InList(m)
  BY DEF InList, SameObjects
<1>3. ListOK'
  BY <1>1 DEF ListOK, SameObjects
<1>4. ObjectsOK'
  BY <1>1 DEF ObjectsOK, SameObjects, M!Gone
<1>5. QED
  BY <1>1, <1>2, <1>3, <1>4

LEMMA CallsKept ==
  ASSUME ObjectsOK, ListOK, CallsOK(stack), SameObjects, NEW s, Prefix(s), NoLeave(s)
  PROVE  CallsOK(s)'
<1>1. SUFFICES ASSUME NEW i \in DOMAIN s
               PROVE  CallOK(s, i)'
  BY DEF CallsOK
<1>2. /\ i \in DOMAIN stack /\ s[i] = stack[i] /\ s[i].fn # "leave"
      /\ i > 1 => s[i - 1] = stack[i - 1]
  BY <1>1 DEF Prefix, NoLeave
<1>3. CallOK(stack, i)
  BY <1>2 DEF CallsOK
<1>4. \A m : (Live(m)' <=> Live(m)) /\ (InList(m)' <=> InList(m))
  BY ObjectsKept
<1>5. \A f : OldOK(f) => OldOK(f)'
  BY <1>4 DEF OldOK, SameObjects, M!Adapter
<1>6. QED
  BY <1>2, <1>3, <1>4, <1>5 DEF CallOK, SameObjects

LEMMA WindowKept ==
  ASSUME ObjectsOK, ListOK, CallsOK(stack), WindowOK(stack), SameObjects,
         NEW s, Prefix(s),
         \/ /\ full' = full /\ back' = back
            /\ \A i \in DOMAIN stack : i > Len(s) => stack[i].fn \notin {"leave", "left"}
         \/ full' = NoMonitor
  PROVE  WindowOK(s)'
<1>1. \A m : (Live(m)' <=> Live(m)) /\ (InList(m)' <=> InList(m))
  BY ObjectsKept
<1>2. CASE full' = NoMonitor
  <2>1. \A i \in DOMAIN s : s[i].fn = "drop" => s[i].m # NoMonitor
    <3>1. NoMonitor \notin MonitorObject
      BY ListsAssumption DEF M!MonitorListsAssumption
    <3>2. QED
      BY <3>1 DEF Prefix, CallsOK, CallOK, Live
  <2>2. QED
    BY <1>2, <2>1 DEF WindowOK
<1>3. CASE /\ full' = full /\ back' = back
           /\ \A i \in DOMAIN stack : i > Len(s) => stack[i].fn \notin {"leave", "left"}
  <2>1. full' # NoMonitor => Live(full)' /\ (back' \/ InList(full)')
    BY <1>1, <1>3 DEF WindowOK, SameObjects, Live, InList
  <2>2. ASSUME NEW i \in DOMAIN s, s[i].fn = "drop", full' = s[i].m, ~back'
        PROVE  i < Len(s) /\ s[i + 1].fn \in {"leave", "left"}
    <3>1. i \in DOMAIN stack /\ s[i] = stack[i] /\ i \in 1..Len(s)
      BY <2>2 DEF Prefix
    <3>2. i < Len(stack) /\ stack[i + 1].fn \in {"leave", "left"}
      BY <1>3, <2>2, <3>1 DEF WindowOK
    <3>3. i + 1 \in DOMAIN stack
      BY <3>1, <3>2 DEF Prefix
    <3>4. i + 1 <= Len(s)
      BY <1>3, <3>1, <3>2, <3>3 DEF Prefix
    <3>5. QED
      BY <3>1, <3>2, <3>4 DEF Prefix
  <2>3. QED
    BY <2>1, <2>2 DEF WindowOK
<1>4. QED
  BY <1>2, <1>3

LEMMA ModesKept ==
  ASSUME ModesOK(stack), NEW s, Prefix(s), CallsOK(stack), WindowOK(stack),
         \A i \in DOMAIN stack : i > Len(s) => stack[i].fn # "acquire",
         UNCHANGED <<mode, stray, full, holds, handle, system>>,
         \A m \in MonitorObject : /\ monitor'[m].output = monitor[m].output
                                  /\ monitor'[m].modeChanged = monitor[m].modeChanged
                                  /\ system = "cocoa" =>
                                       monitor'[m].handle = monitor[m].handle
  PROVE  ModesOK(s)'
<1>1. \A a \in M!Adapter : IsOwed(stack, a) => IsOwed(s, a)'
  <2>1. TAKE a \in M!Adapter
  <2>2. HAVE IsOwed(stack, a)
  <2>3. PICK i \in DOMAIN stack :
          stack[i].fn = "acquire" /\ monitor[stack[i].m].output[1] = a
    BY <2>2 DEF IsOwed
  <2>4. i \in DOMAIN s /\ s[i] = stack[i] /\ stack[i].m \in MonitorObject
    BY <2>3 DEF Prefix, CallsOK, CallOK, Live
  <2>5. QED
    BY <2>3, <2>4 DEF IsOwed
<1>2. \A a \in M!Adapter : IsHeld(a) => IsHeld(a)'
  BY DEF IsHeld, WindowOK, Live
<1>3. QED
  BY <1>1, <1>2 DEF ModesOK, Prefix, M!Adapter

LEMMA DesktopKept ==
  ASSUME ListsTyped, DesktopOK, UNCHANGED <<system, displays, active, handle, changes>>,
         \A a \in M!Adapter : mode'[a] = "game" => mode[a] = "game" \/ M!Lives(a)
  PROVE  DesktopOK'
BY DEF DesktopOK, M!Lives, M!Shown, M!IsOn, M!IsBare, M!Display, M!Adapter

LEMMA PollInvKept ==
  ASSUME PollOK(stack), NEW s, SamePolls(stack, s),
         UNCHANGED <<list, missed, handle, system, displays, active, nested, cut>>,
         pending' \/ ~pending,
         \A m \in MonitorObject : /\ monitor'[m].output = monitor[m].output
                                  /\ monitor'[m].handle = monitor[m].handle
                                  /\ monitor'[m].screen = monitor[m].screen
  PROVE  PollOK(s)'
<1>1. UNCHANGED M!Shown
  BY DEF M!Shown, M!IsOn, M!IsBare, M!Display, M!Adapter
<1>2. \A m : InList(m)' <=> InList(m)
  BY DEF InList
<1>3. \A m : Met(s, m)' <=> Met(stack, m)
  BY <1>2 DEF SamePolls, Met
<1>4. \A x : AllPassed(s, x)' <=> AllPassed(stack, x)
  BY DEF SamePolls, AllPassed, Passed, Place
<1>5. OnlyPoll(stack) => OnlyPoll(s)
  BY DEF SamePolls, OnlyPoll
<1>6. AwaitsListed(stack) => AwaitsListed(s)'
  BY <1>2 DEF SamePolls, AwaitsListed
<1>7. \A m \in MonitorObject : \A x : M!IsFor(m, x)' <=> M!IsFor(m, x)
  BY DEF M!IsFor
<1>8. \A m \in MonitorObject : IsCurrent(m) => IsCurrent(m)'
  BY DEF IsCurrent
<1>9. MetIsShown(stack) => MetIsShown(s)'
  BY <1>1, <1>3, <1>4, <1>7, <1>8 DEF MetIsShown
<1>10. MetOnce(stack) => MetOnce(s)'
  BY <1>1, <1>3, <1>7 DEF MetOnce
<1>11. PassedIsMet(stack) => PassedIsMet(s)'
  BY <1>1, <1>3, <1>4, <1>7 DEF PassedIsMet
<1>12. QED
  BY <1>5, <1>6, <1>9, <1>10, <1>11 DEF PollOK, OnlyPoll

LEMMA PrefixSamePolls ==
  ASSUME NEW s, Prefix(s),
         \A i \in DOMAIN stack : i > Len(s) => stack[i].fn \notin {"poll", "drop"}
  PROVE  SamePolls(stack, s)
BY DEF Prefix, SamePolls

-----------------------------------------------------------------------------
(* Steps: the application and its window *)

LEMMA ModeChangedIs ==
  ASSUME ListsTyped, NEW m \in MonitorObject, NEW b \in BOOLEAN,
         monitor' = [monitor EXCEPT ![m].modeChanged = b]
  PROVE  /\ monitor' \in [MonitorObject -> MonitorType]
         /\ \A n \in MonitorObject : /\ monitor'[n].output = monitor[n].output
                                     /\ monitor'[n].handle = monitor[n].handle
                                     /\ monitor'[n].screen = monitor[n].screen
         /\ \A n \in MonitorObject \ {m} : monitor'[n] = monitor[n]
         /\ monitor'[m].modeChanged = b
<1>1. monitor \in [MonitorObject -> MonitorType] /\ monitor[m] \in MonitorType
  BY DEF ListsTyped
<1>2. [monitor[m] EXCEPT !.modeChanged = b] \in MonitorType
  BY <1>1 DEF MonitorType
<1>3. /\ monitor'[m] = [monitor[m] EXCEPT !.modeChanged = b]
      /\ \A n \in MonitorObject \ {m} : monitor'[n] = monitor[n]
  BY <1>1
<1>4. monitor' \in [MonitorObject -> MonitorType]
  BY <1>1, <1>2
<1>5. /\ monitor'[m].output = monitor[m].output /\ monitor'[m].handle = monitor[m].handle
      /\ monitor'[m].screen = monitor[m].screen /\ monitor'[m].modeChanged = b
  BY <1>1, <1>3 DEF MonitorType
<1>6. QED
  BY <1>3, <1>4, <1>5

LEMMA LiveIsUsed ==
  ASSUME NEW m, Live(m)
  PROVE  monitor[m] # M!Gone
BY Connectors DEF Live, M!Gone

LEMMA Parts ==
  ASSUME ListsInv, ~failed
  PROVE  /\ ListsTyped /\ RunInv(stack) /\ CoreInv(stack) /\ PollOK(stack)
         /\ CallsOK(stack) /\ ObjectsOK /\ ListOK
         /\ WindowOK(stack) /\ DesktopOK /\ ModesOK(stack)
BY DEF ListsInv, RunInv, CoreInv

LEMMA StillTyped ==
  ASSUME ListsTyped, UNCHANGED <<system, displays, active, primary, handle, changes>>,
         mode' \in [M!Adapter -> {"desktop", "game"}],
         monitor' \in [MonitorObject -> MonitorType], list' \in Seq(MonitorObject),
         full' \in MonitorObject \union {NoMonitor}, missed' \subseteq MonitorObject,
         pending' \in BOOLEAN, holds' \in BOOLEAN, ready' \in BOOLEAN,
         failed' \in BOOLEAN, cut' \in BOOLEAN, nested' \in BOOLEAN,
         stray' \in BOOLEAN, back' \in BOOLEAN, failures' \in 0..MaxFailures,
         stack' \in Seq(FrameType)
  PROVE  ListsTyped'
BY DEF ListsTyped, M!Display, M!Adapter, MonitorType, M!Connector

LEMMA IdleOrApp ==
  ASSUME M!AppRuns
  PROVE  stack # <<>> => M!Top.fn # "leave"
BY DEF M!AppRuns, M!Idle, M!Running

LEMMA CallbackReturnsKeeps ==
  ASSUME ListsInv, ~failed, M!CallbackReturns
  PROVE  ListsInv'
<1>1. PICK s : s = M!Below
  OBVIOUS
<1>2. /\ ListsTyped /\ RunInv(stack) /\ CoreInv(stack) /\ PollOK(stack)
      /\ CallsOK(stack) /\ ObjectsOK /\ ListOK
      /\ WindowOK(stack) /\ DesktopOK /\ ModesOK(stack)
  BY Parts
<1>3. stack # <<>> /\ M!Top.fn = "app" /\ stack' = s
  BY <1>1 DEF M!CallbackReturns, M!Running, M!OnlyStack
<1>4. UNCHANGED <<system, displays, active, primary, handle, changes, mode, pending,
                  monitor, list, full, holds, ready, failed, cut, nested, missed, stray,
                  back, failures>>
  BY DEF M!CallbackReturns, M!OnlyStack, M!desktop, M!window, M!history
<1>5. /\ Prefix(s) /\ NoLeave(s) /\ Len(s) + 1 = Len(stack)
      /\ M!Top = stack[Len(stack)] /\ M!Top \in FrameType /\ Len(stack) \in DOMAIN stack
  BY <1>1, <1>2, <1>3, BelowIs
<1>6. \A i \in DOMAIN stack : i > Len(s) => stack[i].fn = "app"
  BY <1>3, <1>5 DEF Prefix
<1>7. SameObjects
  BY <1>4 DEF SameObjects
<1>8. ObjectsOK' /\ ListOK'
  BY <1>2, <1>7, ObjectsKept
<1>9. CallsOK(s)'
  BY <1>2, <1>5, <1>7, CallsKept
<1>10. WindowOK(s)'
  BY <1>2, <1>4, <1>5, <1>6, <1>7, WindowKept
<1>11. ModesOK(s)'
  BY <1>2, <1>4, <1>5, <1>6, ModesKept
<1>12. DesktopOK'
  BY <1>2, <1>4, DesktopKept
<1>13. PollOK(s)'
  BY <1>2, <1>4, <1>5, <1>6, PrefixSamePolls, PollInvKept DEF ListsTyped
<1>14. RunInv(s)'
  BY <1>8, <1>9, <1>10, <1>11, <1>12, <1>13 DEF RunInv, CoreInv
<1>15. RunInv(stack)'
  BY <1>3, <1>14
<1>16. ListsTyped'
  BY <1>2, <1>3, <1>4, <1>5, StillTyped DEF ListsTyped, Prefix
<1>17. QED
  BY <1>15, <1>16 DEF ListsInv

LEMMA LeaveFullScreenKeeps ==
  ASSUME ListsInv, ~failed, M!LeaveFullScreen
  PROVE  ListsInv'
<1> DEFINE f == M!Frame("leave", full)
<1>1. PICK s : s = stack
  OBVIOUS
<1>2. /\ ListsTyped /\ RunInv(stack) /\ CoreInv(stack) /\ PollOK(stack)
      /\ CallsOK(stack) /\ ObjectsOK /\ ListOK
      /\ WindowOK(stack) /\ DesktopOK /\ ModesOK(stack)
  BY Parts
<1>3. full # NoMonitor /\ full \in MonitorObject /\ stack' = Append(s, f)
  BY <1>1, <1>2 DEF M!LeaveFullScreen, M!OnlyStack, ListsTyped
<1>4. UNCHANGED <<system, displays, active, primary, handle, changes, mode, pending,
                  monitor, list, full, holds, ready, failed, cut, nested, missed, stray,
                  back, failures>>
  BY DEF M!LeaveFullScreen, M!OnlyStack, M!desktop, M!window, M!history
<1>5. f \in FrameType /\ f.fn = "leave" /\ f.m = full
  BY <1>3, FrameIs
<1>6. PICK g : g = f
  OBVIOUS
<1> HIDE DEF f
<1>7. PICK t : t = Append(s, g)
  OBVIOUS
<1>8. Prefix(s) /\ NoLeave(s) /\ Len(s) = Len(stack) /\ s \in Seq(FrameType)
  BY <1>1, <1>2, AllIs, IdleOrApp DEF M!LeaveFullScreen, Prefix
<1>9. g \in FrameType /\ g.fn = "leave" /\ g.m = full' /\ stack' = t
  BY <1>3, <1>4, <1>5, <1>6, <1>7
<1>10. /\ t \in Seq(FrameType) /\ Len(t) = Len(s) + 1 /\ t[Len(s) + 1] = g
  BY <1>7, <1>8, <1>9, Push
<1>11. SameObjects
  BY <1>4 DEF SameObjects
<1>12. ObjectsOK' /\ ListOK'
  BY <1>2, <1>11, ObjectsKept
<1>13. CallsOK(t)'
  <2>1. CallsOK(s)'
    BY <1>2, <1>8, <1>11, CallsKept
  <2>2. CallOK(t, Len(s) + 1)'
    BY <1>3, <1>4, <1>9, <1>10 DEF CallOK
  <2>3. QED
    BY <1>7, <1>8, <1>9, <2>1, <2>2, PushCalls
<1>14. \A i \in DOMAIN stack : ~(i > Len(s))
  BY <1>8 DEF Prefix
<1>15. WindowOK(t)'
  BY <1>2, <1>4, <1>7, <1>8, <1>9, <1>11, <1>14, WindowKept, PushWindow
<1>16. ModesOK(t)'
  BY <1>2, <1>4, <1>7, <1>8, <1>9, <1>14, ModesKept, PushModes
<1>17. DesktopOK'
  BY <1>2, <1>4, DesktopKept
<1>18. PollOK(t)'
  <2>1. PollOK(s)'
    BY <1>2, <1>4, <1>8, <1>14, PrefixSamePolls, PollInvKept DEF ListsTyped
  <2>2. QED
    BY <1>7, <1>8, <1>9, <2>1, PushSamePolls, SamePollsOK
<1>19. RunInv(stack)'
  <2>1. RunInv(t)'
    BY <1>12, <1>13, <1>15, <1>16, <1>17, <1>18 DEF RunInv, CoreInv
  <2>2. QED
    BY <1>9, <2>1
<1>20. ListsTyped'
  BY <1>2, <1>4, <1>9, <1>10, StillTyped DEF ListsTyped
<1>21. QED
  BY <1>19, <1>20 DEF ListsInv

LEMMA SetWindowMonitorKeeps ==
  ASSUME ListsInv, ~failed, NEW m \in MonitorObject, M!SetWindowMonitor(m)
  PROVE  ListsInv'
<1>1. PICK s : s = stack
  OBVIOUS
<1>2. /\ ListsTyped /\ RunInv(stack) /\ CoreInv(stack) /\ PollOK(stack)
      /\ CallsOK(stack) /\ ObjectsOK /\ ListOK
      /\ WindowOK(stack) /\ DesktopOK /\ ModesOK(stack)
  BY Parts
<1>3. UNCHANGED <<system, displays, active, primary, handle, changes, monitor, list, holds,
                  ready, failed, missed, failures>>
  BY DEF M!SetWindowMonitor, M!desktop
<1>4. /\ full = NoMonitor /\ InList(m) /\ full' = m /\ Live(m)
      /\ stray' = (stray \/ M!Calls("left", stack) \/ M!Calls("acquire", stack))
      /\ back' = (back \/ \E i \in DOMAIN stack : stack[i].fn = "drop" /\ stack[i].m = m)
  BY <1>2 DEF M!SetWindowMonitor, InList, ListOK
<1> DEFINE a == monitor[m].output[1]
           set == M!Frame("set", m)
           acquire == M!Frame("acquire", m)
<1>5. PICK f \in {set, acquire} :
        \/ /\ f = set /\ UNCHANGED mode /\ M!ProcessEvents(Append(stack, f))
        \/ /\ f = set /\ M!KeepMode(Append(stack, f))
        \/ /\ f = acquire /\ M!Lives(a) /\ M!SetMode(a, "game", Append(stack, f))
           /\ system # "cocoa"
  BY DEF M!SetWindowMonitor
<1>6. PICK t : t = Append(s, f)
  OBVIOUS
<1>7. /\ f \in FrameType /\ f.fn \in {"set", "acquire"} /\ f.m = m
      /\ f = acquire => f.fn = "acquire" /\ system # "cocoa"
      /\ f = set => f.fn = "set"
  BY <1>5, FrameIs
<1>8. /\ \/ M!Messages(t) /\ UNCHANGED <<mode, pending, nested, cut>>
         \/ stack' = t /\ UNCHANGED <<nested, cut>>
         \/ M!BeginPoll(t)
      /\ pending' \in BOOLEAN /\ nested' \in BOOLEAN /\ cut' \in BOOLEAN
      /\ ~M!BeginPoll(t) => pending' \/ ~pending
      /\ \/ UNCHANGED mode
         \/ f.fn = "acquire" /\ M!Lives(a) /\ mode' = [mode EXCEPT ![a] = "game"]
      /\ f.fn = "acquire" => system # "cocoa"
  BY <1>1, <1>2, <1>5, <1>6, <1>7
     DEF M!ProcessEvents, M!KeepMode, M!SetMode, M!BeginPoll, ListsTyped, M!Calls
<1> HIDE DEF set, acquire
<1>9. Prefix(s) /\ NoLeave(s) /\ Len(s) = Len(stack) /\ s \in Seq(FrameType)
  BY <1>1, <1>2, AllIs, IdleOrApp DEF M!SetWindowMonitor, Prefix
<1>10. /\ t \in Seq(FrameType) /\ Len(t) = Len(s) + 1 /\ t[Len(s) + 1] = f /\ NoLeave(t)
       /\ DOMAIN t = 1..(Len(s) + 1) /\ DOMAIN s = 1..Len(s) /\ Len(s) \in Nat
       /\ \A i \in DOMAIN s : t[i] = s[i]
  BY <1>6, <1>7, <1>9, Push DEF NoLeave
<1>11. SameObjects
  BY <1>3 DEF SameObjects
<1>12. ObjectsOK' /\ ListOK' /\ \A n : (Live(n)' <=> Live(n)) /\ (InList(n)' <=> InList(n))
  BY <1>2, <1>11, ObjectsKept
<1>13. CallsOK(t)'
  <2>1. CallsOK(s)'
    BY <1>2, <1>9, <1>11, CallsKept
  <2>2. CallOK(t, Len(s) + 1)'
    BY <1>3, <1>4, <1>7, <1>8, <1>10, <1>12 DEF CallOK
  <2>3. QED
    BY <1>6, <1>7, <1>9, <2>1, <2>2, PushCalls
<1>14. WindowOK(t)'
  <2>1. Live(full)' /\ InList(full)'
    <3>1. Live(m)' /\ InList(m)'
      BY <1>4, <1>12
    <3>2. QED
      BY <1>4, <3>1 DEF Live, InList
  <2>2. WindowOK(s)'
    BY <1>1, <1>4, <2>1 DEF WindowOK
  <2>3. QED
    BY <1>6, <1>7, <1>9, <2>2, PushWindow
<1>15. ModesOK(t)'
  <2>1. SUFFICES ASSUME ~stray'
                 PROVE  /\ \A i \in DOMAIN t :
                             t[i].fn = "acquire" => full' \in {t[i].m, NoMonitor}
                        /\ \A i \in DOMAIN t : t[i].fn # "left"
                        /\ \A b \in M!Adapter : mode'[b] = "game" => IsOwed(t, b)'
    BY DEF ModesOK
  <2>2. /\ ~stray
        /\ \A i \in DOMAIN s : s[i].fn # "left" /\ s[i].fn # "acquire"
    BY <1>1, <1>4, <2>1 DEF M!Calls
  <2>3. \A i \in DOMAIN t : i \in DOMAIN s \/ i = Len(s) + 1
    BY <1>10
  <2>4. /\ \A i \in DOMAIN t : t[i].fn = "acquire" => full' \in {t[i].m, NoMonitor}
        /\ \A i \in DOMAIN t : t[i].fn # "left"
    BY <1>4, <1>7, <1>10, <2>2, <2>3
  <2>5. \A b \in M!Adapter : mode[b] # "game"
    BY <1>1, <1>2, <1>4, <2>2 DEF ModesOK, IsOwed, IsHeld
  <2>6. ASSUME NEW b \in M!Adapter, mode'[b] = "game"
        PROVE  IsOwed(t, b)'
    <3>1. f.fn = "acquire" /\ b = a
      BY <1>2, <1>8, <2>5, <2>6 DEF ListsTyped
    <3>2. QED
      BY <1>3, <1>7, <1>10, <3>1 DEF IsOwed
  <2>7. QED
    BY <2>4, <2>6
<1>16. DesktopOK'
  BY <1>2, <1>3, <1>8, DesktopKept DEF ListsTyped
<1>17. CoreInv(t)'
  BY <1>12, <1>13, <1>14, <1>15, <1>16 DEF CoreInv
<1>18. stack' \in Seq(FrameType) /\ RunInv(stack)'
  <2>1. CASE M!BeginPoll(t)
    BY <1>10, <1>17, <2>1, PushPoll
  <2>2. ASSUME ~M!BeginPoll(t), UNCHANGED <<nested, cut>>
        PROVE  RunInv(t)'
    <3>1. \A i \in DOMAIN stack : ~(i > Len(s))
      BY <1>9 DEF Prefix
    <3>2. PollOK(s)'
      BY <1>2, <1>3, <1>8, <1>9, <2>2, <3>1, PrefixSamePolls, PollInvKept
    <3>3. PollOK(t)'
      BY <1>6, <1>7, <1>9, <3>2, PushSamePolls, SamePollsOK
    <3>4. QED
      BY <1>17, <3>3 DEF RunInv
  <2>3. CASE ~M!BeginPoll(t) /\ M!Messages(t) /\ UNCHANGED <<nested, cut>>
    BY <1>10, <2>2, <2>3, AfterMessages
  <2>4. CASE ~M!BeginPoll(t) /\ stack' = t /\ UNCHANGED <<nested, cut>>
    BY <1>10, <2>2, <2>4
  <2>5. QED
    BY <1>8, <2>1, <2>3, <2>4
<1>19. ListsTyped'
  <2>1. mode' \in [M!Adapter -> {"desktop", "game"}]
    BY <1>2, <1>8 DEF ListsTyped
  <2>2. stray' \in BOOLEAN /\ back' \in BOOLEAN
    BY <1>2, <1>4 DEF ListsTyped, M!Calls
  <2>3. QED
    BY <1>2, <1>3, <1>4, <1>8, <1>18, <2>1, <2>2, StillTyped DEF ListsTyped
<1>20. QED
  BY <1>18, <1>19 DEF ListsInv

LEMMA AcquireKeeps ==
  ASSUME ListsInv, ~failed, M!Acquire
  PROVE  ListsInv'
<1> DEFINE m == M!Top.m
<1>1. PICK s : s = M!Below
  OBVIOUS
<1>2. /\ ListsTyped /\ RunInv(stack) /\ CoreInv(stack) /\ PollOK(stack)
      /\ CallsOK(stack) /\ ObjectsOK /\ ListOK
      /\ WindowOK(stack) /\ DesktopOK /\ ModesOK(stack)
  BY Parts
<1>3. /\ stack # <<>> /\ M!Top.fn = "acquire" /\ stack' = s /\ holds' = TRUE
      /\ failed' = (full = NoMonitor)
      /\ monitor' = [monitor EXCEPT ![m].modeChanged = TRUE]
  BY <1>1 DEF M!Acquire, M!Running
<1>4. UNCHANGED <<system, displays, active, primary, handle, changes, mode, pending,
                  list, full, ready, cut, nested, missed, stray, back, failures>>
  BY DEF M!Acquire, M!desktop, M!history
<1>5. /\ Prefix(s) /\ NoLeave(s) /\ Len(s) + 1 = Len(stack)
      /\ M!Top = stack[Len(stack)] /\ M!Top \in FrameType /\ Len(stack) \in DOMAIN stack
  BY <1>1, <1>2, <1>3, BelowIs
<1>6. \A i \in DOMAIN stack : i > Len(s) => i = Len(stack) /\ stack[i].fn = "acquire"
  BY <1>3, <1>5 DEF Prefix
<1>7. Live(m) /\ m \in MonitorObject /\ monitor[m] # M!Gone
  BY <1>2, <1>3, <1>5, LiveIsUsed DEF CallsOK, CallOK, Live
<1> HIDE DEF m
<1>8. /\ monitor' \in [MonitorObject -> MonitorType]
      /\ \A n \in MonitorObject : /\ monitor'[n].output = monitor[n].output
                                  /\ monitor'[n].handle = monitor[n].handle
                                  /\ monitor'[n].screen = monitor[n].screen
      /\ \A n \in MonitorObject \ {m} : monitor'[n] = monitor[n]
      /\ monitor'[m].modeChanged = TRUE
  BY <1>2, <1>3, <1>7, ModeChangedIs
<1>9. SameObjects
  BY <1>4, <1>7, <1>8 DEF SameObjects
<1>10. ObjectsOK' /\ ListOK'
  BY <1>2, <1>9, ObjectsKept
<1>11. CallsOK(s)'
  BY <1>2, <1>5, <1>9, CallsKept
<1>12. WindowOK(s)'
  BY <1>2, <1>4, <1>5, <1>6, <1>9, WindowKept
<1>13. ASSUME full # NoMonitor
       PROVE  ModesOK(s)'
  <2>1. SUFFICES ASSUME ~stray
                 PROVE  /\ \A i \in DOMAIN s :
                             s[i].fn = "acquire" => full' \in {s[i].m, NoMonitor}
                        /\ \A i \in DOMAIN s : s[i].fn # "left"
                        /\ \A b \in M!Adapter :
                             mode[b] = "game" => IsOwed(s, b)' \/ IsHeld(b)'
    BY <1>4 DEF ModesOK
  <2>2. \A i \in DOMAIN s : s[i] = stack[i] /\ i \in DOMAIN stack /\ i < Len(stack)
    BY <1>5 DEF Prefix
  <2>3. \A i \in DOMAIN s : s[i].fn = "acquire" => full' \in {s[i].m, NoMonitor}
    BY <1>2, <1>4, <2>1, <2>2 DEF ModesOK
  <2>4. \A i \in DOMAIN s : s[i].fn # "left"
    <3>1. stack[Len(stack)].fn = "acquire" /\ Len(stack) \in DOMAIN stack
      BY <1>3, <1>5
    <3>2. ASSUME NEW i \in DOMAIN s, s[i].fn = "left"  PROVE FALSE
      <4>1. Len(stack) < i
        BY <1>2, <2>1, <2>2, <3>1, <3>2 DEF ModesOK
      <4>2. QED
        BY <2>2, <3>2, <4>1, <1>5 DEF Prefix
    <3>3. QED
      BY <3>2
  <2>5. full = m
    BY <1>2, <1>3, <1>5, <1>13, <2>1 DEF ModesOK, m
  <2>6. ASSUME NEW b \in M!Adapter, mode[b] = "game"
        PROVE  IsOwed(s, b)' \/ IsHeld(b)'
    <3>1. CASE IsHeld(b)
      BY <1>3, <1>4, <1>8, <2>5, <1>7, <3>1 DEF IsHeld
    <3>2. CASE IsOwed(stack, b)
      <4>1. PICK i \in DOMAIN stack :
              stack[i].fn = "acquire" /\ monitor[stack[i].m].output[1] = b
        BY <3>2 DEF IsOwed
      <4>2. CASE i \in DOMAIN s
        <5>1. s[i] = stack[i] /\ s[i].m \in MonitorObject
          BY <1>2, <2>2, <4>1, <4>2 DEF CallsOK, CallOK, Live
        <5>2. QED
          BY <1>8, <4>1, <4>2, <5>1 DEF IsOwed
      <4>3. CASE i = Len(stack)
        <5>1. monitor[m].output[1] = b
          BY <1>5, <4>1, <4>3 DEF m
        <5>2. system # "cocoa"
          BY <1>2, <1>3, <1>5 DEF CallsOK, CallOK
        <5>3. QED
          BY <1>3, <1>4, <1>7, <1>8, <1>13, <2>5, <5>1, <5>2 DEF IsHeld
      <4>4. QED
        BY <1>5, <4>2, <4>3 DEF Prefix
    <3>3. QED
      BY <1>2, <2>1, <2>6, <3>1, <3>2 DEF ModesOK
  <2>7. QED
    BY <2>3, <2>4, <2>6
<1>14. DesktopOK'
  BY <1>2, <1>4, DesktopKept
<1>15. PollOK(s)'
  BY <1>2, <1>4, <1>5, <1>6, <1>8, PrefixSamePolls, PollInvKept DEF ListsTyped
<1>16. ~failed' => RunInv(stack)'
  BY <1>3, <1>10, <1>11, <1>12, <1>13, <1>14, <1>15 DEF RunInv, CoreInv
<1>17. ListsTyped'
  BY <1>2, <1>3, <1>4, <1>5, <1>8, StillTyped DEF ListsTyped, Prefix
<1>18. QED
  BY <1>16, <1>17 DEF ListsInv

LEMMA SetKeeps ==
  ASSUME ListsInv, ~failed, M!Set
  PROVE  ListsInv'
<1> DEFINE m == M!Top.m
           a == monitor[m].output[1]
<1>1. PICK s : s = M!Below
  OBVIOUS
<1>2. /\ ListsTyped /\ RunInv(stack) /\ CoreInv(stack) /\ PollOK(stack)
      /\ CallsOK(stack) /\ ObjectsOK /\ ListOK
      /\ WindowOK(stack) /\ DesktopOK /\ ModesOK(stack)
  BY Parts
<1>3. stack # <<>> /\ M!Top.fn = "set"
  BY DEF M!Set, M!Running
<1>4. UNCHANGED <<system, displays, active, primary, handle, changes,
                  list, full, ready, failed, missed, stray, back, failures>>
  BY DEF M!Set, M!desktop
<1>5. /\ Prefix(s) /\ NoLeave(s) /\ Len(s) + 1 = Len(stack) /\ s \in Seq(FrameType)
      /\ M!Top = stack[Len(stack)] /\ M!Top \in FrameType /\ Len(stack) \in DOMAIN stack
  BY <1>1, <1>2, <1>3, BelowIs DEF Prefix
<1>6. \A i \in DOMAIN stack : i > Len(s) => i = Len(stack) /\ stack[i].fn = "set"
  BY <1>3, <1>5 DEF Prefix
<1>7. m \in MonitorObject
  BY <1>2, <1>3, <1>5 DEF CallsOK, CallOK
<1>8. \/ /\ stack' = s /\ UNCHANGED <<mode, pending, nested, cut, monitor>>
         /\ holds' = (holds \/ full = m)
      \/ /\ full = m /\ M!CanChange(m) /\ M!SetMode(a, "game", s) /\ holds' = TRUE
         /\ monitor' = [monitor EXCEPT ![m].modeChanged = TRUE]
  <2>1. holds \in BOOLEAN
    BY <1>2 DEF ListsTyped
  <2>2. QED
    BY <1>1, <2>1 DEF M!Set, M!KeepMode
<1>9. /\ monitor' \in [MonitorObject -> MonitorType]
      /\ \A n \in MonitorObject : /\ monitor'[n].output = monitor[n].output
                                  /\ monitor'[n].handle = monitor[n].handle
                                  /\ monitor'[n].screen = monitor[n].screen
                                  /\ monitor[n] = M!Gone => monitor'[n] = M!Gone
      /\ \A n \in MonitorObject \ {m} : monitor'[n] = monitor[n]
      /\ monitor[m].modeChanged => monitor'[m].modeChanged
  <2>1. CASE UNCHANGED monitor
    BY <1>2, <2>1 DEF ListsTyped
  <2>2. CASE full = m /\ monitor' = [monitor EXCEPT ![m].modeChanged = TRUE]
    <3>1. monitor[m] # M!Gone
      BY <1>2, <1>7, <2>2, LiveIsUsed, ListsAssumption
         DEF WindowOK, M!MonitorListsAssumption
    <3> HIDE DEF m
    <3>2. QED
      BY <1>2, <1>7, <2>2, <3>1, ModeChangedIs
  <2>3. QED
    BY <1>8, <2>1, <2>2
<1> HIDE DEF m, a
<1>10. SameObjects
  BY <1>4, <1>9 DEF SameObjects
<1>11. ObjectsOK' /\ ListOK'
  BY <1>2, <1>10, ObjectsKept
<1>12. CallsOK(s)'
  BY <1>2, <1>5, <1>10, CallsKept
<1>13. WindowOK(s)'
  BY <1>2, <1>4, <1>5, <1>6, <1>10, WindowKept
<1>14. \/ UNCHANGED mode
       \/ M!Lives(a) /\ mode' = [mode EXCEPT ![a] = "game"]
  BY <1>2, <1>8 DEF M!SetMode, ListsTyped
<1>15. ModesOK(s)'
  <2>1. SUFFICES ASSUME ~stray
                 PROVE  /\ \A i \in DOMAIN s :
                             s[i].fn = "acquire" => full' \in {s[i].m, NoMonitor}
                        /\ \A i \in DOMAIN s : s[i].fn # "left"
                        /\ \A b \in M!Adapter :
                             mode'[b] = "game" => IsOwed(s, b)' \/ IsHeld(b)'
    BY <1>4 DEF ModesOK
  <2>2. \A i \in DOMAIN s : s[i] = stack[i] /\ i \in DOMAIN stack /\ i < Len(stack)
    BY <1>5 DEF Prefix
  <2>3. \A i \in DOMAIN s : s[i].fn = "acquire" => full' \in {s[i].m, NoMonitor}
    BY <1>2, <1>4, <2>1, <2>2 DEF ModesOK
  <2>4. ASSUME NEW i \in DOMAIN s, s[i].fn = "left"  PROVE FALSE
    <3>1. Len(stack) < i
      BY <1>2, <1>3, <1>5, <2>1, <2>2, <2>4 DEF ModesOK
    <3>2. QED
      BY <1>5, <2>2, <2>4, <3>1 DEF Prefix
  <2>5. ASSUME NEW b \in M!Adapter, mode[b] = "game"
        PROVE  IsOwed(s, b)' \/ IsHeld(b)'
    <3>1. CASE IsHeld(b)
      <4>1. full \in MonitorObject
        BY <1>2, <3>1 DEF IsHeld, ListsTyped
      <4>2. monitor'[full].modeChanged /\ holds'
        BY <1>8, <1>9, <3>1, <4>1 DEF IsHeld
      <4>3. QED
        BY <1>4, <1>9, <3>1, <4>1, <4>2 DEF IsHeld
    <3>2. CASE IsOwed(stack, b)
      <4>1. PICK i \in DOMAIN stack :
              stack[i].fn = "acquire" /\ monitor[stack[i].m].output[1] = b
        BY <3>2 DEF IsOwed
      <4>2. i \in DOMAIN s /\ s[i] = stack[i] /\ s[i].m \in MonitorObject
        BY <1>2, <1>5, <1>6, <4>1 DEF CallsOK, CallOK, Live, Prefix
      <4>3. QED
        BY <1>9, <4>1, <4>2 DEF IsOwed
    <3>3. QED
      BY <1>2, <2>1, <2>5, <3>1, <3>2 DEF ModesOK
  <2>6. ASSUME NEW b \in M!Adapter, mode'[b] = "game", mode[b] # "game"
        PROVE  IsHeld(b)'
    <3>1. full = m /\ M!CanChange(m) /\ holds' /\ b = a /\ full # NoMonitor
      BY <1>2, <1>7, <1>8, <1>14, <2>6, ListsAssumption
         DEF ListsTyped, M!MonitorListsAssumption, M!SetMode
    <3>2. /\ monitor[m].handle = handle[b] /\ monitor[m].output[1] = b
          /\ monitor'[m].modeChanged
      <4>1. monitor' = [monitor EXCEPT ![m].modeChanged = TRUE]
        BY <1>8, <2>6
      <4>2. monitor'[m].modeChanged = TRUE
        BY <1>2, <1>7, <4>1, ModeChangedIs
      <4>3. QED
        BY <3>1, <4>2 DEF M!CanChange, a
    <3>3. QED
      BY <1>4, <1>7, <1>9, <3>1, <3>2 DEF IsHeld
  <2>7. QED
    BY <2>3, <2>4, <2>5, <2>6
<1>16. DesktopOK'
  BY <1>2, <1>4, <1>14, DesktopKept DEF ListsTyped
<1>17. CoreInv(s)'
  BY <1>11, <1>12, <1>13, <1>15, <1>16 DEF CoreInv
<1>18. stack' \in Seq(FrameType) /\ RunInv(stack)'
  <2>1. CASE M!BeginPoll(s)
    BY <1>5, <1>17, <2>1, PushPoll
  <2>2. CASE stack' = s /\ UNCHANGED <<nested, cut>> /\ (pending' \/ ~pending)
    <3>1. PollOK(s)'
      BY <1>2, <1>4, <1>5, <1>6, <1>9, <2>2, PrefixSamePolls, PollInvKept
    <3>2. RunInv(s)'
      BY <1>17, <3>1 DEF RunInv
    <3>3. QED
      BY <1>5, <2>2, <3>2
  <2>3. QED
    BY <1>2, <1>8, <2>1, <2>2 DEF M!SetMode, ListsTyped
<1>19. ListsTyped'
  <2>1. /\ mode' \in [M!Adapter -> {"desktop", "game"}] /\ pending' \in BOOLEAN
        /\ nested' \in BOOLEAN /\ cut' \in BOOLEAN /\ holds' \in BOOLEAN
    BY <1>2, <1>8, <1>14 DEF ListsTyped, M!SetMode, M!BeginPoll, M!Calls
  <2>2. QED
    BY <1>2, <1>4, <1>9, <1>18, <2>1, StillTyped DEF ListsTyped
<1>20. QED
  BY <1>18, <1>19 DEF ListsInv

\* The window has no monitor any more.
LEMMA WindowedKeeps ==
  ASSUME ListsInv, ~failed, stack # <<>>, M!Top.fn \in {"leave", "left"},
         UNCHANGED <<system, displays, active, primary, handle, changes, list, ready,
                     failed, missed, stray, back, failures>>,
         full' = NoMonitor, holds' = FALSE,
         NEW m \in MonitorObject, NEW b \in BOOLEAN, Live(m),
         monitor' = [monitor EXCEPT ![m].modeChanged = b],
         mode' \in [M!Adapter -> {"desktop", "game"}],
         \A a \in M!Adapter : mode'[a] = "game" => mode[a] = "game",
         ~stray => \A a \in M!Adapter : mode'[a] = "game" => IsOwed(stack, a),
         pending' \in BOOLEAN, nested' \in BOOLEAN, cut' \in BOOLEAN,
         NEW s, s = M!Below,
         \/ M!Messages(s) /\ (pending' \/ ~pending) /\ UNCHANGED <<nested, cut>>
         \/ M!BeginPoll(s)
  PROVE  ListsInv'
<1>1. /\ ListsTyped /\ RunInv(stack) /\ CoreInv(stack) /\ PollOK(stack)
      /\ CallsOK(stack) /\ ObjectsOK /\ ListOK
      /\ WindowOK(stack) /\ DesktopOK /\ ModesOK(stack)
  BY Parts
<1>2. /\ Prefix(s) /\ NoLeave(s) /\ Len(s) + 1 = Len(stack) /\ s \in Seq(FrameType)
      /\ M!Top = stack[Len(stack)] /\ M!Top \in FrameType /\ Len(stack) \in DOMAIN stack
  BY <1>1, BelowIs DEF Prefix
<1>3. \A i \in DOMAIN stack : i > Len(s) => stack[i].fn \in {"leave", "left"}
  BY <1>2 DEF Prefix
<1>4. /\ monitor' \in [MonitorObject -> MonitorType]
      /\ \A n \in MonitorObject : /\ monitor'[n].output = monitor[n].output
                                  /\ monitor'[n].handle = monitor[n].handle
                                  /\ monitor'[n].screen = monitor[n].screen
  BY <1>1, ModeChangedIs
<1>5. \A n \in MonitorObject : monitor[n] = M!Gone => monitor'[n] = M!Gone
  BY <1>1, ModeChangedIs, LiveIsUsed
<1>6. SameObjects
  BY <1>4, <1>5 DEF SameObjects
<1>7. ObjectsOK' /\ ListOK'
  BY <1>1, <1>6, ObjectsKept
<1>8. CallsOK(s)'
  BY <1>1, <1>2, <1>6, CallsKept
<1>9. WindowOK(s)'
  BY <1>1, <1>2, <1>6, WindowKept
<1>10. ModesOK(s)'
  <2>1. SUFFICES ASSUME ~stray
                 PROVE  \A a \in M!Adapter : mode'[a] = "game" => IsOwed(s, a)'
    <3>1. /\ \A i \in DOMAIN s : s[i] = stack[i] /\ i \in DOMAIN stack
          /\ DOMAIN s \subseteq DOMAIN stack
      BY <1>2 DEF Prefix
    <3>2. ~stray => \A i \in DOMAIN s : s[i].fn = "left" =>
            \A j \in DOMAIN s : s[j].fn \in {"acquire", "set"} => j < i
      BY <1>1, <3>1 DEF ModesOK
    <3>3. QED
      BY <2>1, <3>2 DEF ModesOK
  <2>2. ASSUME NEW a \in M!Adapter, mode'[a] = "game"  PROVE IsOwed(s, a)'
    <3>1. PICK i \in DOMAIN stack :
            stack[i].fn = "acquire" /\ monitor[stack[i].m].output[1] = a
      BY <2>1, <2>2 DEF IsOwed
    <3>2. i \in DOMAIN s /\ s[i] = stack[i] /\ s[i].m \in MonitorObject
      BY <1>1, <1>2, <1>3, <3>1 DEF CallsOK, CallOK, Live, Prefix
    <3>3. QED
      BY <1>4, <3>1, <3>2 DEF IsOwed
  <2>3. QED
    BY <2>2
<1>11. DesktopOK'
  BY <1>1, DesktopKept
<1>12. CoreInv(s)'
  BY <1>7, <1>8, <1>9, <1>10, <1>11 DEF CoreInv
<1>13. stack' \in Seq(FrameType) /\ RunInv(stack)'
  <2>1. CASE M!BeginPoll(s)
    BY <1>2, <1>12, <2>1, PushPoll
  <2>2. CASE M!Messages(s) /\ (pending' \/ ~pending) /\ UNCHANGED <<nested, cut>>
    <3>1. PollOK(s)'
      BY <1>1, <1>2, <1>3, <1>4, <2>2, PrefixSamePolls, PollInvKept
    <3>2. RunInv(s)'
      BY <1>12, <3>1 DEF RunInv
    <3>3. QED
      BY <1>2, <2>2, <3>2, AfterMessages
  <2>3. QED
    BY <2>1, <2>2
<1>14. ListsTyped'
  BY <1>1, <1>4, <1>13, StillTyped DEF ListsTyped
<1>15. QED
  BY <1>13, <1>14 DEF ListsInv

LEMMA HasLeftKeeps ==
  ASSUME ListsInv, ~failed, M!HasLeft
  PROVE  ListsInv'
<1> DEFINE m == M!Top.m
<1>1. PICK s : s = M!Below
  OBVIOUS
<1>2. /\ ListsTyped /\ CallsOK(stack) /\ ModesOK(stack)
  BY Parts
<1>3. /\ stack # <<>> /\ M!Top.fn = "left" /\ M!Messages(s)
      /\ monitor' = [monitor EXCEPT ![m].modeChanged = FALSE]
      /\ full' = NoMonitor /\ holds' = FALSE
  BY <1>1 DEF M!HasLeft, M!Running
<1>4. UNCHANGED <<system, displays, active, primary, handle, changes, mode, pending, list,
                  ready, failed, cut, nested, missed, stray, back, failures>>
  BY DEF M!HasLeft, M!desktop, M!history
<1>5. M!Top = stack[Len(stack)] /\ Len(stack) \in DOMAIN stack
  BY <1>2, <1>3, Pop
<1>6. m \in MonitorObject /\ Live(m)
  BY <1>2, <1>3, <1>5 DEF CallsOK, CallOK, Live
<1>7. ~stray => \A a \in M!Adapter : mode'[a] = "game" => IsOwed(stack, a)
  BY <1>2, <1>3, <1>4, <1>5 DEF ModesOK, IsHeld
<1>8. /\ mode' \in [M!Adapter -> {"desktop", "game"}] /\ pending' \in BOOLEAN
      /\ nested' \in BOOLEAN /\ cut' \in BOOLEAN /\ (pending' \/ ~pending)
  BY <1>2, <1>4 DEF ListsTyped
<1> HIDE DEF m
<1>9. QED
  BY <1>1, <1>3, <1>4, <1>6, <1>7, <1>8, WindowedKeeps

LEMMA LeaveCocoaKeeps ==
  ASSUME ListsInv, ~failed, M!Leave, system # "win32"
  PROVE  ListsInv'
<1> DEFINE m == M!Top.m
           a == monitor[m].output[1]
           restores == holds /\ monitor[m].modeChanged
           b == monitor[m].modeChanged /\ ~restores
<1>1. PICK s : s = M!Below
  OBVIOUS
<1>2. /\ ListsTyped /\ CallsOK(stack) /\ ModesOK(stack) /\ ObjectsOK /\ DesktopOK
      /\ WindowOK(stack)
  BY Parts
<1>3. /\ stack # <<>> /\ M!Top.fn = "leave"
      /\ UNCHANGED <<system, displays, active, primary, handle, changes, list,
                     ready, failed, missed, stray, back, failures>>
      /\ full' = NoMonitor /\ holds' = FALSE
      /\ monitor' = [monitor EXCEPT ![m].modeChanged = @ /\ ~restores]
      /\ mode' = [mode EXCEPT ![a] = IF restores /\ M!CanChange(m) THEN "desktop" ELSE @]
      /\ \/ M!Messages(s) /\ pending' = (pending \/ mode' # mode) /\ UNCHANGED <<nested, cut>>
         \/ pending' = FALSE /\ M!BeginPoll(s)
  BY <1>1 DEF M!Leave, M!LeaveCocoa, M!Running, M!desktop
<1>4. M!Top = stack[Len(stack)] /\ Len(stack) \in DOMAIN stack
  BY <1>2, <1>3, Pop
<1>5. full = m /\ m \in MonitorObject /\ Live(m)
  BY <1>2, <1>3, <1>4 DEF CallsOK, CallOK, ListsTyped, WindowOK
<1>6. restores \in BOOLEAN /\ b \in BOOLEAN
  OBVIOUS
<1>7. monitor' = [monitor EXCEPT ![m].modeChanged = b]
  BY <1>2, <1>3, <1>5 DEF ListsTyped, MonitorType
<1>8. system = "cocoa"
  BY <1>2, ListsAssumption DEF ListsTyped, M!MonitorListsAssumption
<1>9. /\ mode' \in [M!Adapter -> {"desktop", "game"}]
      /\ \A c \in M!Adapter : mode'[c] = "game" =>
           mode[c] = "game" /\ (c = a => ~(restores /\ M!CanChange(m)))
  BY <1>2, <1>3 DEF ListsTyped
<1>10. ASSUME ~stray, NEW c \in M!Adapter, mode'[c] = "game"
       PROVE  IsOwed(stack, c)
  <2>1. CASE IsHeld(c)
    <3>1. restores /\ a = c /\ monitor[m].handle = handle[c]
      BY <1>5, <1>8, <2>1 DEF IsHeld
    <3>2. PICK x \in M!Shown : x[1] = c
      BY <1>2, <1>9, <1>10 DEF DesktopOK, M!Lives
    <3>3. x = <<x[1], x[2]>> /\ x[2] \in 1..AdapterDisplays[x[1]] /\ x \in M!Display
          /\ displays[x] = "on"
      BY <1>8, <3>2, ShownIs, Adapters DEF M!IsOn
    <3>4. x[2] = 1
      BY <1>2, <1>8, <3>2, <3>3, ShownIs, Adapters DEF DesktopOK
    <3>5. monitor[m].output = <<c, 1>>
      <4>1. monitor[m].output[2] = 1 /\ monitor[m].output \in M!Connector
        BY <1>2, <1>5, <1>8 DEF ObjectsOK, Live
      <4>2. monitor[m].output = <<monitor[m].output[1], monitor[m].output[2]>>
        BY <4>1, Connectors
      <4>3. QED
        BY <3>1, <4>1, <4>2
    <3>6. M!CanChange(m)
      BY <1>8, <3>1, <3>2, <3>3, <3>4, <3>5 DEF M!CanChange
    <3>7. QED
      BY <1>9, <1>10, <3>1, <3>6
  <2>2. QED
    BY <1>2, <1>9, <1>10, <2>1 DEF ModesOK
<1>11. /\ pending' \in BOOLEAN /\ nested' \in BOOLEAN /\ cut' \in BOOLEAN
       /\ \/ M!Messages(s) /\ (pending' \/ ~pending) /\ UNCHANGED <<nested, cut>>
          \/ M!BeginPoll(s)
  BY <1>2, <1>3 DEF ListsTyped, M!BeginPoll, M!Calls
<1>12. \A c \in M!Adapter : mode'[c] = "game" => mode[c] = "game"
  BY <1>9
<1> HIDE DEF m, a, b, restores
<1>13. QED
  BY <1>1, <1>3, <1>5, <1>6, <1>7, <1>9, <1>10, <1>11, <1>12, WindowedKeeps

LEMMA LeaveWin32Keeps ==
  ASSUME ListsInv, ~failed, M!Leave, system = "win32"
  PROVE  ListsInv'
<1> DEFINE m == M!Top.m
           a == monitor[m].output[1]
           f == M!Frame("left", m)
<1>1. PICK s : s = M!Below
  OBVIOUS
<1>2. /\ ListsTyped /\ RunInv(stack) /\ CoreInv(stack) /\ PollOK(stack)
      /\ CallsOK(stack) /\ ObjectsOK /\ ListOK
      /\ WindowOK(stack) /\ DesktopOK /\ ModesOK(stack)
  BY Parts
<1>3. /\ stack # <<>> /\ M!Top.fn = "leave"
      /\ UNCHANGED <<system, displays, active, primary, handle, changes, list,
                     ready, failed, missed, stray, back, failures>>
  BY DEF M!Leave, M!Running, M!desktop
<1>4. /\ Prefix(s) /\ NoLeave(s) /\ Len(s) + 1 = Len(stack) /\ s \in Seq(FrameType)
      /\ M!Top = stack[Len(stack)] /\ M!Top \in FrameType /\ Len(stack) \in DOMAIN stack
  BY <1>1, <1>2, <1>3, BelowIs DEF Prefix
<1>5. full = m /\ m \in MonitorObject /\ Live(m)
  BY <1>2, <1>3, <1>4 DEF CallsOK, CallOK, ListsTyped, WindowOK
<1>6. CASE ~holds \/ ~monitor[m].modeChanged
  <2>1. /\ full' = NoMonitor /\ holds' = FALSE /\ M!Messages(s)
        /\ UNCHANGED <<mode, pending, nested, cut, monitor>>
    BY <1>1, <1>6 DEF M!Leave, M!LeaveWin32
  <2>2. PICK b \in BOOLEAN : b = monitor[m].modeChanged
    BY <1>2, <1>5 DEF ListsTyped, MonitorType
  <2>3. monitor' = [monitor EXCEPT ![m].modeChanged = b]
    BY <1>2, <1>5, <2>1, <2>2 DEF ListsTyped, MonitorType
  <2>4. ~stray => \A c \in M!Adapter : mode'[c] = "game" => IsOwed(stack, c)
    BY <1>2, <1>5, <1>6, <2>1 DEF ModesOK, IsHeld
  <2>5. /\ mode' \in [M!Adapter -> {"desktop", "game"}] /\ pending' \in BOOLEAN
        /\ nested' \in BOOLEAN /\ cut' \in BOOLEAN /\ (pending' \/ ~pending)
        /\ \A c \in M!Adapter : mode'[c] = "game" => mode[c] = "game"
    BY <1>2, <2>1 DEF ListsTyped
  <2> HIDE DEF m, a, f
  <2>6. QED
    BY <1>1, <1>3, <1>5, <2>1, <2>3, <2>4, <2>5, WindowedKeeps
<1>7. CASE holds /\ monitor[m].modeChanged
  <2>1. PICK t : t = Append(s, f)
    OBVIOUS
  <2>2. holds' = FALSE /\ UNCHANGED <<full, monitor>> /\ M!SetMode(a, "desktop", t)
    BY <1>1, <1>7, <2>1 DEF M!Leave, M!LeaveWin32
  <2>3. f \in FrameType /\ f.fn = "left" /\ f.m = m
    BY <1>5, FrameIs
  <2> HIDE DEF f
  <2>4. /\ t \in Seq(FrameType) /\ Len(t) = Len(s) + 1 /\ t[Len(s) + 1] = f /\ NoLeave(t)
        /\ DOMAIN t = 1..(Len(s) + 1) /\ DOMAIN s = 1..Len(s) /\ Len(s) \in Nat
        /\ \A i \in DOMAIN s : t[i] = s[i]
    BY <1>4, <2>1, <2>3, Push DEF NoLeave
  <2>5. \A i \in DOMAIN s : s[i] = stack[i] /\ i \in DOMAIN stack /\ i < Len(stack)
    BY <1>4 DEF Prefix
  <2>6. SameObjects
    BY <1>3, <2>2 DEF SameObjects
  <2>7. /\ ObjectsOK' /\ ListOK'
        /\ \A n : (Live(n)' <=> Live(n)) /\ (InList(n)' <=> InList(n))
    BY <1>2, <2>6, ObjectsKept
  <2>8. CallsOK(t)'
    <3>1. CallsOK(s)'
      BY <1>2, <1>4, <2>6, CallsKept
    <3>2. CallOK(t, Len(s) + 1)'
      BY <1>3, <1>5, <2>3, <2>4, <2>7, system = "win32" DEF CallOK
    <3>3. QED
      BY <1>4, <2>1, <2>3, <3>1, <3>2, PushCalls
  <2>9. WindowOK(t)'
    <3>1. full' # NoMonitor => Live(full)' /\ (back' \/ InList(full)')
      BY <1>2, <1>3, <2>2, <2>7 DEF WindowOK, Live, InList
    <3>2. ASSUME NEW i \in DOMAIN t, t[i].fn = "drop", full' = t[i].m, ~back'
          PROVE  i < Len(t) /\ t[i + 1].fn \in {"leave", "left"}
      <4>1. i \in DOMAIN s /\ t[i] = stack[i] /\ i \in DOMAIN stack
        BY <2>3, <2>4, <2>5, <3>2
      <4>2. i < Len(stack) /\ stack[i + 1].fn \in {"leave", "left"}
        BY <1>2, <1>3, <2>2, <3>2, <4>1 DEF WindowOK
      <4>3. i + 1 \in DOMAIN s \/ i + 1 = Len(s) + 1
        BY <2>4, <4>1
      <4>4. QED
        BY <1>4, <2>3, <2>4, <2>5, <4>1, <4>2, <4>3
    <3>3. QED
      BY <3>1, <3>2 DEF WindowOK
  <2>10. mode' = [mode EXCEPT ![a] = IF M!Lives(a) THEN "desktop" ELSE @]
    BY <2>2 DEF M!SetMode
  <2>11. ModesOK(t)'
    <3>1. SUFFICES ASSUME ~stray
                   PROVE  /\ \A i \in DOMAIN t :
                               t[i].fn = "acquire" => full' \in {t[i].m, NoMonitor}
                          /\ \A i \in DOMAIN t : t[i].fn = "left" =>
                               \A j \in DOMAIN t : t[j].fn \in {"acquire", "set"} => j < i
                          /\ \A b \in M!Adapter : mode'[b] = "game" => IsOwed(t, b)'
      BY <1>3, <2>2 DEF ModesOK
    <3>2. \A i \in DOMAIN t : t[i].fn \in {"acquire", "set"} => i \in DOMAIN s
      BY <2>3, <2>4
    <3>3. \A i \in DOMAIN t : t[i].fn = "acquire" => full' \in {t[i].m, NoMonitor}
      BY <1>2, <2>2, <2>4, <2>5, <3>1, <3>2 DEF ModesOK
    <3>4. ASSUME NEW i \in DOMAIN t, t[i].fn = "left",
                 NEW j \in DOMAIN t, t[j].fn \in {"acquire", "set"}
          PROVE  j < i
      <4>1. j \in DOMAIN s /\ t[j] = stack[j] /\ j \in DOMAIN stack /\ j \in 1..Len(s)
        BY <2>4, <2>5, <3>2, <3>4
      <4>2. CASE i \in DOMAIN s
        BY <1>2, <2>4, <2>5, <3>1, <3>4, <4>1, <4>2 DEF ModesOK
      <4>3. CASE i = Len(s) + 1
        BY <2>4, <4>1, <4>3
      <4>4. QED
        BY <2>4, <4>2, <4>3
    <3>5. ASSUME NEW b \in M!Adapter, mode'[b] = "game"  PROVE IsOwed(t, b)'
      <4>1. mode[b] = "game" /\ b # a
        BY <1>2, <2>10, <3>5 DEF ListsTyped, DesktopOK
      <4>2. IsOwed(stack, b)
        BY <1>2, <1>5, <3>1, <4>1 DEF ModesOK, IsHeld
      <4>3. PICK i \in DOMAIN stack :
              stack[i].fn = "acquire" /\ monitor[stack[i].m].output[1] = b
        BY <4>2 DEF IsOwed
      <4>4. i \in DOMAIN s
        BY <1>3, <1>4, <4>3 DEF Prefix
      <4>5. i \in DOMAIN t /\ t[i] = stack[i]
        BY <2>4, <2>5, <4>4
      <4>6. QED
        BY <2>2, <4>3, <4>5 DEF IsOwed
    <3>6. QED
      BY <3>3, <3>4, <3>5
  <2>12. DesktopOK'
    BY <1>2, <1>3, <2>10, DesktopKept DEF ListsTyped
  <2>13. CoreInv(t)'
    BY <2>7, <2>8, <2>9, <2>11, <2>12 DEF CoreInv
  <2>14. stack' \in Seq(FrameType) /\ RunInv(stack)'
    <3>1. CASE M!BeginPoll(t)
      BY <2>4, <2>13, <3>1, PushPoll
    <3>2. CASE stack' = t /\ UNCHANGED <<nested, cut>> /\ (pending' \/ ~pending)
      <4>1. \A i \in DOMAIN stack : i > Len(s) => stack[i].fn \notin {"poll", "drop"}
        BY <1>3, <1>4 DEF Prefix
      <4>2. PollOK(s)'
        BY <1>2, <1>3, <1>4, <2>2, <3>2, <4>1, PrefixSamePolls, PollInvKept
      <4>3. PollOK(t)'
        BY <1>4, <2>1, <2>3, <4>2, PushSamePolls, SamePollsOK
      <4>4. RunInv(t)'
        BY <2>13, <4>3 DEF RunInv
      <4>5. QED
        BY <2>4, <3>2, <4>4
    <3>3. QED
      BY <1>2, <2>2, <3>1, <3>2 DEF M!SetMode, ListsTyped
  <2>15. ListsTyped'
    <3>1. /\ mode' \in [M!Adapter -> {"desktop", "game"}] /\ pending' \in BOOLEAN
          /\ nested' \in BOOLEAN /\ cut' \in BOOLEAN
      BY <1>2, <2>2, <2>10 DEF ListsTyped, M!SetMode, M!BeginPoll, M!Calls
    <3>2. QED
      BY <1>2, <1>3, <2>2, <2>14, <3>1, StillTyped DEF ListsTyped
  <2>16. QED
    BY <2>14, <2>15 DEF ListsInv
<1>8. holds \in BOOLEAN /\ monitor[m].modeChanged \in BOOLEAN
  BY <1>2, <1>5 DEF ListsTyped, MonitorType
<1>9. QED
  BY <1>6, <1>7, <1>8

-----------------------------------------------------------------------------
(* Steps: the desktop and the enumeration of a poll *)

LEMMA ChangeKeeps ==
  ASSUME ListsInv, ~failed, M!Change
  PROVE  ListsInv'
<1>1. /\ ListsTyped /\ RunInv(stack) /\ CoreInv(stack) /\ PollOK(stack)
      /\ CallsOK(stack) /\ ObjectsOK /\ ListOK
      /\ WindowOK(stack) /\ DesktopOK /\ ModesOK(stack)
  BY Parts
<1>2. UNCHANGED <<system, monitor, list, full, holds, ready, stack, failed, cut, nested,
                  missed, stray, back, failures>>
  BY DEF M!Change, M!window, M!history
<1>3. /\ changes < MaxChanges /\ changes' = changes + 1 /\ pending' = TRUE
      /\ handle' \in {handle, [a \in M!Adapter |-> changes + 1]}
      /\ mode' = [a \in M!Adapter |->
                    IF M!Lives(a)' /\ (system = "cocoa" => handle'[a] = handle[a])
                    THEN mode[a] ELSE "desktop"]
  BY DEF M!Change
<1>4. /\ displays' \in [M!Display -> {"none", "idle", "on"}]
      /\ active' \subseteq M!Adapter /\ primary' \in M!Adapter
      /\ system = "cocoa" => \A y \in M!Display : y[2] > 1 => displays'[y] = displays[y]
  <2>1. CASE /\ \E x \in M!Display, state \in {"none", "idle", "on"} :
                  /\ system = "cocoa" => x[2] = 1
                  /\ state # displays[x]
                  /\ displays' = [displays EXCEPT ![x] = state]
             /\ UNCHANGED <<active, primary>>
    BY <1>1, <2>1 DEF ListsTyped
  <2>2. CASE /\ \E a \in M!Adapter : active' = IF a \in active THEN active \ {a}
                                               ELSE active \union {a}
             /\ UNCHANGED <<displays, primary>>
    BY <1>1, <2>2 DEF ListsTyped
  <2>3. CASE /\ primary' \in M!Adapter \ {primary}
             /\ UNCHANGED <<displays, active>>
    BY <1>1, <2>3 DEF ListsTyped
  <2>4. QED
    BY <2>1, <2>2, <2>3 DEF M!Change
<1>5. /\ MaxChanges \in Nat /\ changes \in 0..MaxChanges
      /\ \A a \in M!Adapter : handle[a] \in 0..MaxChanges
  BY <1>1, ListsAssumption DEF ListsTyped, M!MonitorListsAssumption
<1>6. /\ handle' \in [M!Adapter -> 0..MaxChanges] /\ changes' \in 0..MaxChanges
      /\ \A a \in M!Adapter : handle'[a] <= changes'
  BY <1>1, <1>3, <1>5 DEF ListsTyped, DesktopOK
<1>7. /\ mode' \in [M!Adapter -> {"desktop", "game"}]
      /\ \A a \in M!Adapter : mode'[a] = "game" =>
           mode[a] = "game" /\ M!Lives(a)' /\ (system = "cocoa" => handle'[a] = handle[a])
  BY <1>1, <1>3 DEF ListsTyped
<1>8. ListsTyped'
  BY <1>1, <1>2, <1>3, <1>4, <1>6, <1>7
     DEF ListsTyped, M!Display, M!Adapter, MonitorType, M!Connector
<1>9. UNCHANGED <<M!Adapter, M!Display, M!Connector>>
  BY DEF M!Adapter, M!Display, M!Connector
<1>10. ObjectsOK' /\ ListOK'
  BY <1>1, <1>2, <1>9 DEF ObjectsOK, ListOK, Live, M!Gone
<1>11. CallsOK(stack)'
  BY <1>1, <1>2, <1>9 DEF CallsOK, CallOK, OldOK, Live, InList
<1>12. WindowOK(stack)'
  BY <1>1, <1>2, <1>9 DEF WindowOK, Live, InList
<1>13. DesktopOK'
  BY <1>1, <1>2, <1>4, <1>6, <1>7, <1>9 DEF DesktopOK
<1>14. ModesOK(stack)'
  <2>1. \A a \in M!Adapter : mode'[a] = "game" /\ IsOwed(stack, a) => IsOwed(stack, a)'
    BY <1>2 DEF IsOwed
  <2>2. \A a \in M!Adapter : mode'[a] = "game" /\ IsHeld(a) => IsHeld(a)'
    BY <1>2, <1>7 DEF IsHeld
  <2>3. QED
    BY <1>1, <1>2, <1>7, <1>9, <2>1, <2>2 DEF ModesOK
<1>15. PollOK(stack)'
  BY <1>1, <1>2, <1>3 DEF PollOK, OnlyPoll, AwaitsListed, InList
<1>16. QED
  BY <1>8, <1>10, <1>11, <1>12, <1>13, <1>14, <1>15 DEF ListsInv, RunInv, CoreInv

LEMMA HandleChangeKeeps ==
  ASSUME ListsInv, ~failed, M!HandleChange
  PROVE  ListsInv'
<1>1. PICK s : s = stack
  OBVIOUS
<1>2. /\ ListsTyped /\ RunInv(stack) /\ CoreInv(stack) /\ PollOK(stack)
      /\ CallsOK(stack) /\ ObjectsOK /\ ListOK
      /\ WindowOK(stack) /\ DesktopOK /\ ModesOK(stack)
  BY Parts
<1>3. UNCHANGED <<system, displays, active, primary, handle, changes, mode, monitor, list,
                  full, holds, ready, failed, missed, stray, back, failures>>
  BY DEF M!HandleChange, M!desktop, M!window
<1>4. stack = <<>> /\ s = <<>> /\ M!BeginPoll(s) /\ pending' = FALSE
  BY <1>1 DEF M!HandleChange, M!Idle
<1>5. s \in Seq(FrameType) /\ NoLeave(s) /\ Len(s) = 0 /\ Prefix(s)
  BY <1>2, <1>4 DEF NoLeave, Prefix
<1>6. SameObjects
  BY <1>3 DEF SameObjects
<1>7. ObjectsOK' /\ ListOK'
  BY <1>2, <1>6, ObjectsKept
<1>8. CallsOK(s)'
  BY <1>2, <1>5, <1>6, CallsKept
<1>9. WindowOK(s)'
  BY <1>2, <1>3, <1>4, <1>5, <1>6, WindowKept
<1>10. ModesOK(s)'
  BY <1>2, <1>3, <1>4, <1>5, ModesKept
<1>11. DesktopOK'
  BY <1>2, <1>3, DesktopKept
<1>12. stack' \in Seq(FrameType) /\ RunInv(stack)'
  BY <1>4, <1>5, <1>7, <1>8, <1>9, <1>10, <1>11, PushPoll DEF CoreInv
<1>13. nested' \in BOOLEAN /\ cut' \in BOOLEAN
  BY <1>4 DEF M!BeginPoll, M!Calls
<1>14. ListsTyped'
  BY <1>2, <1>3, <1>4, <1>12, <1>13, StillTyped DEF ListsTyped
<1>15. QED
  BY <1>12, <1>14 DEF ListsInv

\* The poll on top goes on.
LEMMA PollGoesOn ==
  ASSUME ListsTyped, CoreInv(stack), stack # <<>>, M!Top.fn = "poll", SameObjects,
         NEW s, s = M!Below, NEW g \in FrameType, g.fn = "poll", OldOK(g)',
         NEW t, t = Append(s, g),
         UNCHANGED <<displays, active, changes, mode, stray, full, holds, handle, system,
                     back>>,
         \A m \in MonitorObject : /\ monitor'[m].modeChanged = monitor[m].modeChanged
                                  /\ system = "cocoa" =>
                                       monitor'[m].handle = monitor[m].handle
  PROVE  t \in Seq(FrameType) /\ NoLeave(t) /\ CoreInv(t)'
<1>1. /\ CallsOK(stack) /\ ObjectsOK /\ ListOK
      /\ WindowOK(stack) /\ DesktopOK /\ ModesOK(stack)
  BY DEF CoreInv
<1>2. /\ Prefix(s) /\ NoLeave(s) /\ Len(s) + 1 = Len(stack) /\ s \in Seq(FrameType)
      /\ M!Top = stack[Len(stack)] /\ M!Top \in FrameType /\ Len(stack) \in DOMAIN stack
  BY <1>1, BelowIs DEF Prefix
<1>3. /\ t \in Seq(FrameType) /\ t[Len(s) + 1] = g /\ NoLeave(t)
  BY <1>2, Push DEF NoLeave
<1>4. \A i \in DOMAIN stack : i > Len(s) => stack[i].fn = "poll"
  BY <1>2 DEF Prefix
<1>5. ObjectsOK' /\ ListOK'
  BY <1>1, ObjectsKept
<1>6. CallsOK(t)'
  <2>1. CallsOK(s)'
    BY <1>1, <1>2, CallsKept
  <2>2. CallOK(t, Len(s) + 1)'
    BY <1>3 DEF CallOK
  <2>3. QED
    BY <1>2, <2>1, <2>2, PushCalls
<1>7. WindowOK(t)'
  BY <1>1, <1>2, <1>4, WindowKept, PushWindow
<1>8. ModesOK(t)'
  <2>1. \A m \in MonitorObject : monitor'[m].output = monitor[m].output
    BY DEF SameObjects
  <2>2. QED
    BY <1>1, <1>2, <1>4, <2>1, ModesKept, PushModes
<1>9. DesktopOK'
  BY <1>1, DesktopKept
<1>10. QED
  BY <1>3, <1>5, <1>6, <1>7, <1>8, <1>9 DEF CoreInv

\* The poll on top in the place of itself, at a later place.
LEMMA Swapped ==
  ASSUME ListsTyped, CallsOK(stack), stack # <<>>, NEW s, s = M!Below,
         NEW g \in FrameType, NEW t, t = Append(s, g)
  PROVE  /\ DOMAIN t = DOMAIN stack /\ t[Len(stack)] = g /\ t \in Seq(FrameType)
         /\ \A i \in DOMAIN stack : i # Len(stack) => t[i] = stack[i]
         /\ Len(stack) \in DOMAIN stack /\ M!Top = stack[Len(stack)]
         /\ M!Top \in FrameType /\ DOMAIN stack = 1..Len(stack) /\ Len(stack) \in Nat
<1>1. /\ Prefix(s) /\ Len(s) + 1 = Len(stack) /\ s \in Seq(FrameType)
      /\ M!Top = stack[Len(stack)] /\ M!Top \in FrameType /\ Len(stack) \in DOMAIN stack
  BY BelowIs DEF Prefix
<1>2. /\ t \in Seq(FrameType) /\ DOMAIN t = 1..(Len(s) + 1) /\ t[Len(s) + 1] = g
      /\ \A i \in DOMAIN s : t[i] = s[i]
  BY <1>1, Push
<1>3. DOMAIN stack = 1..Len(stack) /\ Len(stack) \in Nat /\ Len(s) \in Nat /\ DOMAIN s = 1..Len(s)
  BY <1>1 DEF Prefix
<1>4. DOMAIN t = DOMAIN stack /\ t[Len(stack)] = g
  BY <1>1, <1>2, <1>3
<1>5. ASSUME NEW i \in DOMAIN stack, i # Len(stack)
      PROVE  t[i] = stack[i]
  <2>1. i \in DOMAIN s
    BY <1>1, <1>3, <1>5
  <2>2. QED
    BY <1>1, <1>2, <2>1 DEF Prefix
<1>6. QED
  BY <1>1, <1>2, <1>3, <1>4, <1>5

LEMMA SameShown ==
  ASSUME UNCHANGED <<system, displays, active>>
  PROVE  UNCHANGED M!Shown
BY DEF M!Shown, M!IsOn, M!IsBare, M!Display, M!Adapter

\* What a poll has passed is what it had, and where it was.
At(f) == <<f.a, IF f.d > AdapterDisplays[f.a] THEN 0 ELSE f.d>>

LEMMA NextIs ==
  ASSUME ListsTyped, DesktopOK, NEW f \in FrameType, f.a \in M!Adapter, OldOK(f)',
         UNCHANGED system, NEW h, h = M!NextDisplay(f)
  PROVE  /\ h \in FrameType /\ h.fn = f.fn /\ h.old = f.old /\ h.a # 0 /\ OldOK(h)'
         /\ \A x \in M!Shown : Passed(h, x) <=> Passed(f, x) \/ x = At(f)
         /\ ~Passed(f, At(f))
<1>1. /\ M!Adapter = 1..Len(AdapterDisplays) /\ Len(AdapterDisplays) \in Nat \ {0}
      /\ \A a \in M!Adapter : AdapterDisplays[a] \in Nat \ {0}
      /\ f.a \in Nat /\ f.d \in Nat /\ f.a # 0
  BY Adapters DEF FrameType
<1>2. /\ f.d \in 1..(AdapterDisplays[f.a] + 1)
      /\ system = "cocoa" => f.d = 1
  BY DEF OldOK, M!Adapter
<1>3. ~Passed(f, At(f))
  BY <1>1, <1>2 DEF Passed, At, Place
<1>4. ASSUME NEW x \in M!Shown
      PROVE  /\ x = <<x[1], x[2]>> /\ x[1] \in M!Adapter /\ x[2] \in 0..AdapterDisplays[x[1]]
             /\ system = "cocoa" => x[2] = 1
             /\ Place(x) \in 1..(AdapterDisplays[x[1]] + 1)
  <2>1. /\ x = <<x[1], x[2]>> /\ x[1] \in M!Adapter /\ x[2] \in 0..AdapterDisplays[x[1]]
        /\ x[2] = 0 => system = "win32"
        /\ x[2] # 0 => x \in M!Display /\ M!IsOn(x)
    BY ShownIs
  <2>2. system = "cocoa" => x[2] = 1
    <3>1. SUFFICES ASSUME system = "cocoa"  PROVE ~(x[2] > 1)
      BY <1>1, <2>1
    <3>2. x \in M!Display /\ displays[x] = "on"
      BY <2>1, <3>1 DEF M!IsOn
    <3>3. QED
      BY <3>1, <3>2 DEF DesktopOK
  <2>3. QED
    BY <1>1, <2>1, <2>2 DEF Place
<1>5. CASE system = "cocoa" \/ f.d > AdapterDisplays[f.a]
  <2>1. h = [f EXCEPT !.a = f.a + 1, !.d = 1, !.first = TRUE]
    BY <1>5 DEF M!NextDisplay, M!NextAdapter
  <2>2. /\ h \in FrameType /\ h.fn = f.fn /\ h.old = f.old /\ h.a = f.a + 1 /\ h.d = 1
    <3>1. PICK e : e = [f EXCEPT !.a = f.a + 1]
      OBVIOUS
    <3>2. e \in FrameType /\ e.fn = f.fn /\ e.old = f.old /\ e.a = f.a + 1
      BY <1>1, <3>1 DEF FrameType
    <3>3. h = [e EXCEPT !.d = 1, !.first = TRUE]
      BY <2>1, <3>1
    <3>4. ASSUME NEW b \in BOOLEAN
          PROVE  LET k == [e EXCEPT !.d = 1, !.first = b] IN
                   k \in FrameType /\ k.fn = e.fn /\ k.old = e.old /\ k.a = e.a /\ k.d = 1
      BY <3>2 DEF FrameType
    <3>5. QED
      BY <3>2, <3>3, <3>4
  <2>3. OldOK(h)'
    BY <1>1, <2>2 DEF OldOK, M!Adapter
  <2>4. ASSUME NEW x \in M!Shown
        PROVE  Passed(h, x) <=> Passed(f, x) \/ x = At(f)
    <3>1. Passed(h, x) <=> x[1] <= f.a
      BY <1>1, <1>4, <2>2 DEF Passed
    <3>2. CASE x[1] # f.a
      BY <1>1, <1>4, <3>1, <3>2 DEF Passed, At
    <3>3. CASE x[1] = f.a /\ system = "cocoa"
      BY <1>1, <1>2, <1>4, <3>1, <3>3 DEF Passed, At
    <3>4. CASE x[1] = f.a /\ f.d > AdapterDisplays[f.a]
      BY <1>1, <1>2, <1>4, <3>1, <3>4 DEF Passed, At, Place
    <3>5. QED
      BY <1>5, <3>2, <3>3, <3>4
  <2>5. QED
    BY <1>1, <1>3, <2>2, <2>3, <2>4
<1>6. CASE ~(system = "cocoa" \/ f.d > AdapterDisplays[f.a])
  <2>1. h = [f EXCEPT !.d = f.d + 1]
    BY <1>6 DEF M!NextDisplay
  <2>2. /\ h \in FrameType /\ h.fn = f.fn /\ h.old = f.old /\ h.a = f.a /\ h.d = f.d + 1
    BY <1>1, <2>1 DEF FrameType
  <2>3. OldOK(h)'
    BY <1>1, <1>2, <1>6, <2>2 DEF OldOK, M!Adapter
  <2>4. ASSUME NEW x \in M!Shown
        PROVE  Passed(h, x) <=> Passed(f, x) \/ x = At(f)
    BY <1>1, <1>2, <1>4, <1>6, <2>2 DEF Passed, At, Place
  <2>5. QED
    BY <1>1, <1>3, <2>2, <2>3, <2>4
<1>7. QED
  BY <1>5, <1>6

LEMMA StartPollKeeps ==
  ASSUME ListsInv, ~failed, M!StartPoll
  PROVE  ListsInv'
<1> DEFINE g == [M!Top EXCEPT !.old = list, !.a = 1]
<1>1. PICK s : s = M!Below
  OBVIOUS
<1>2. /\ ListsTyped /\ RunInv(stack) /\ CoreInv(stack) /\ PollOK(stack)
      /\ CallsOK(stack) /\ ObjectsOK /\ ListOK
      /\ WindowOK(stack) /\ DesktopOK /\ ModesOK(stack)
  BY Parts
<1>3. PICK f : f = g
  OBVIOUS
<1>4. PICK t : t = Append(s, f)
  OBVIOUS
<1>5. /\ stack # <<>> /\ M!Top.fn = "poll" /\ M!Top.a = 0 /\ stack' = t
      /\ monitor' = IF system = "win32" THEN monitor
                    ELSE [m \in MonitorObject |-> [monitor[m] EXCEPT !.screen = FALSE]]
      /\ UNCHANGED <<system, displays, active, primary, handle, changes, mode, pending, list,
                     full, holds, ready, failed, cut, nested, missed, stray, back, failures>>
  BY <1>1, <1>3, <1>4
     DEF M!StartPoll, M!Running, M!desktop, M!window, M!history
<1>6. M!Top = stack[Len(stack)] /\ Len(stack) \in DOMAIN stack /\ M!Top \in FrameType
  BY <1>2, <1>5, Pop
<1>7. OldOK(M!Top)
  BY <1>2, <1>5, <1>6 DEF CallsOK, CallOK
<1>8. list \in Seq(MonitorObject \union {NoMonitor}) /\ list \in Seq(MonitorObject)
  BY <1>2 DEF ListsTyped
<1>9. f \in FrameType /\ f.fn = "poll" /\ f.old = list /\ f.a = 1 /\ f.d = 1
  BY <1>3, <1>5, <1>6, <1>7, <1>8 DEF FrameType, OldOK
<1> HIDE DEF g
<1>10. /\ monitor' \in [MonitorObject -> MonitorType]
       /\ \A m \in MonitorObject : /\ monitor'[m].output = monitor[m].output
                                   /\ monitor'[m].handle = monitor[m].handle
                                   /\ monitor'[m].modeChanged = monitor[m].modeChanged
                                   /\ system = "win32" => monitor'[m] = monitor[m]
                                   /\ monitor[m] = M!Gone => monitor'[m] = M!Gone
  <2>1. monitor \in [MonitorObject -> MonitorType]
    BY <1>2 DEF ListsTyped
  <2>2. CASE system = "win32"
    BY <1>5, <2>1, <2>2
  <2>3. CASE system # "win32"
    <3>1. monitor' = [m \in MonitorObject |-> [monitor[m] EXCEPT !.screen = FALSE]]
      BY <1>5, <2>3
    <3>2. ASSUME NEW m \in MonitorObject
          PROVE  /\ [monitor[m] EXCEPT !.screen = FALSE] \in MonitorType
                 /\ [monitor[m] EXCEPT !.screen = FALSE].output = monitor[m].output
                 /\ [monitor[m] EXCEPT !.screen = FALSE].handle = monitor[m].handle
                 /\ [monitor[m] EXCEPT !.screen = FALSE].modeChanged = monitor[m].modeChanged
      BY <2>1 DEF MonitorType
    <3>3. [M!Gone EXCEPT !.screen = FALSE] = M!Gone
      <4>1. ASSUME NEW x \in MonitorType, x.screen = FALSE
            PROVE  [x EXCEPT !.screen = FALSE] = x
        BY <4>1 DEF MonitorType
      <4>2. M!Gone \in MonitorType /\ M!Gone.screen = FALSE
        BY DEF M!Gone, MonitorType
      <4>3. QED
        BY <4>1, <4>2
    <3>4. QED
      BY <2>3, <3>1, <3>2, <3>3
  <2>4. QED
    BY <2>2, <2>3
<1>11. SameObjects
  BY <1>5, <1>10 DEF SameObjects
<1>12. OldOK(f)'
  <2>1. \A i \in DOMAIN f.old : Live(f.old[i])'
    <3>1. \A m : Live(m)' <=> Live(m)
      BY <1>2, <1>11, ObjectsKept
    <3>2. \A i \in DOMAIN list : Live(list[i])
      BY <1>2 DEF ListOK
    <3>3. QED
      BY <1>9, <3>1, <3>2
  <2>2. \A i, j \in DOMAIN list : list[i] = list[j] => i = j
    BY <1>2 DEF ListOK
  <2>3. QED
    BY <1>5, <1>9, <2>1, <2>2, Adapters DEF OldOK, M!Adapter
<1>13. t \in Seq(FrameType) /\ CoreInv(t)'
  BY <1>1, <1>2, <1>4, <1>5, <1>9, <1>10, <1>11, <1>12, PollGoesOn
<1>14. /\ DOMAIN t = DOMAIN stack /\ t[Len(stack)] = f
       /\ \A i \in DOMAIN stack : i # Len(stack) => t[i] = stack[i]
  BY <1>1, <1>2, <1>4, <1>5, <1>9, Swapped
<1>15. \A m : InList(m)' <=> InList(m)
  BY <1>5 DEF InList
<1>16. PollOK(t)'
  <2>1. OnlyPoll(stack) => OnlyPoll(t)
    BY <1>5, <1>6, <1>9, <1>14 DEF OnlyPoll
  <2>2. AwaitsListed(stack) => AwaitsListed(t)'
    BY <1>9, <1>14, <1>15 DEF AwaitsListed, Awaits, InList
  <2>3. \A m : ~Met(t, m)'
    BY <1>6, <1>9, <1>14, <1>15 DEF Met, Awaits, InList
  <2>4. \A x \in M!Shown' : ~AllPassed(t, x)'
    <3>1. UNCHANGED M!Shown
      BY <1>5, SameShown
    <3>2. ASSUME NEW x \in M!Shown  PROVE ~Passed(f, x)
      <4>1. x[1] \in M!Adapter /\ x[2] \in 0..AdapterDisplays[x[1]]
        BY ShownIs
      <4>2. QED
        BY <1>9, <4>1, Adapters DEF Passed, Place
    <3>3. QED
      BY <1>6, <1>9, <1>14, <3>1, <3>2 DEF AllPassed
  <2>5. QED
    BY <1>2, <1>5, <2>1, <2>2, <2>3, <2>4
       DEF PollOK, OnlyPoll, MetIsShown, MetOnce, PassedIsMet
<1>17. RunInv(stack)'
  BY <1>5, <1>13, <1>16 DEF RunInv
<1>18. ListsTyped'
  BY <1>2, <1>5, <1>10, <1>13, StillTyped DEF ListsTyped
<1>19. QED
  BY <1>17, <1>18 DEF ListsInv

LEMMA BareIsOne ==
  ASSUME NEW u \in M!Shown, NEW v \in M!Shown, u[1] = v[1], u[2] = 0
  PROVE  u = v
<1>1. /\ u = <<u[1], u[2]>> /\ v = <<v[1], v[2]>> /\ M!IsBare(u[1])
      /\ v[1] \in M!Adapter /\ v[2] \in 0..AdapterDisplays[v[1]]
      /\ v[2] # 0 => v \in M!Display /\ M!IsOn(v)
  BY ShownIs
<1>2. CASE v[2] = 0
  BY <1>1, <1>2
<1>3. CASE v[2] # 0
  <2>1. v[2] \in 1..AdapterDisplays[v[1]]
    BY <1>1, <1>3, Adapters
  <2>2. displays[v] = "none"
    BY <1>1, <2>1 DEF M!IsBare
  <2>3. QED
    BY <1>1, <1>3, <2>2 DEF M!IsOn
<1>4. QED
  BY <1>2, <1>3

LEMMA OldKept ==
  ASSUME ObjectsOK, ListOK, SameObjects, NEW f, OldOK(f)
  PROVE  OldOK(f)'
<1>1. \A m : Live(m)' <=> Live(m)
  BY ObjectsKept
<1>2. QED
  BY <1>1 DEF OldOK, SameObjects, M!Adapter

\* A poll that passes an output has the monitor for it, if it is shown.
LEMMA PollMeets ==
  ASSUME ListsTyped, UNCHANGED M!Shown, NEW s, NEW t, NEW x0, NEW N \in SUBSET MonitorObject,
         MetIsShown(s), MetOnce(s), PassedIsMet(s),
         \A n \in MonitorObject : Met(t, n)' <=> Met(s, n) \/ n \in N,
         \A x \in M!Shown : AllPassed(t, x)' <=> AllPassed(s, x) \/ x = x0,
         ~AllPassed(s, x0), x0 \in M!Shown => N # {},
         \A n \in N : x0 \in M!Shown /\ M!IsFor(n, x0)' /\ IsCurrent(n)',
         \A n \in N : \A x \in M!Shown : M!IsFor(n, x)' => x = x0,
         \A n, o \in N : n = o,
         \A n \in MonitorObject : Met(s, n) =>
           (n \in N \/ IsCurrent(n)') /\ \A x : M!IsFor(n, x)' <=> M!IsFor(n, x)
  PROVE  MetIsShown(t)' /\ MetOnce(t)' /\ PassedIsMet(t)'
<1>1. ASSUME NEW m \in MonitorObject, Met(t, m)'
      PROVE  IsCurrent(m)' /\ \E x \in M!Shown : M!IsFor(m, x)' /\ AllPassed(t, x)'
  <2>1. CASE m \in N
    BY <2>1
  <2>2. CASE m \notin N
    <3>1. Met(s, m)
      BY <1>1, <2>2
    <3>2. PICK x \in M!Shown : M!IsFor(m, x) /\ AllPassed(s, x)
      BY <3>1 DEF MetIsShown
    <3>3. QED
      BY <2>2, <3>1, <3>2
  <2>3. QED
    BY <2>1, <2>2
<1>2. MetIsShown(t)'
  BY <1>1 DEF MetIsShown
<1>3. ASSUME NEW m \in MonitorObject, NEW n \in MonitorObject, NEW x \in M!Shown,
             Met(t, m)', Met(t, n)', M!IsFor(m, x)', M!IsFor(n, x)', m \in N, n \notin N
      PROVE  FALSE
  <2>1. x = x0 /\ Met(s, n) /\ M!IsFor(n, x)
    BY <1>3
  <2>2. PICK y \in M!Shown : M!IsFor(n, y) /\ AllPassed(s, y)
    BY <2>1 DEF MetIsShown
  <2>3. y = x
    BY <2>1, <2>2, ForOne
  <2>4. QED
    BY <2>1, <2>2, <2>3
<1>4. ASSUME NEW m \in MonitorObject, NEW n \in MonitorObject, NEW x \in M!Shown,
             Met(t, m)', Met(t, n)', M!IsFor(m, x)', M!IsFor(n, x)'
      PROVE  m = n
  <2>1. CASE m \in N /\ n \in N
    BY <2>1
  <2>2. CASE m \notin N /\ n \notin N
    BY <1>4, <2>2 DEF MetOnce
  <2>3. QED
    BY <1>3, <1>4, <2>1, <2>2
<1>5. MetOnce(t)'
  BY <1>4 DEF MetOnce
<1>6. ASSUME NEW x \in M!Shown, AllPassed(t, x)'
      PROVE  \E m \in MonitorObject : Met(t, m)' /\ M!IsFor(m, x)'
  <2>1. CASE x = x0
    BY <2>1
  <2>2. CASE AllPassed(s, x)
    BY <2>2 DEF PassedIsMet
  <2>3. QED
    BY <1>6, <2>1, <2>2
<1>7. PassedIsMet(t)'
  BY <1>6 DEF PassedIsMet
<1>8. QED
  BY <1>2, <1>5, <1>7

\* Where the poll on top is.
LEMMA HereIs ==
  ASSUME ListsInv, ~failed, M!Enumerating
  PROVE  /\ stack # <<>> /\ M!Top.fn = "poll" /\ M!Top.a \in M!Adapter
         /\ M!Top = stack[Len(stack)] /\ Len(stack) \in DOMAIN stack /\ M!Top \in FrameType
         /\ OldOK(M!Top) /\ M!Here = At(M!Top)
<1>1. ListsTyped /\ CallsOK(stack)
  BY Parts
<1>2. stack # <<>> /\ M!Top.fn = "poll" /\ M!Top.a \in M!Adapter
  BY DEF M!Enumerating, M!Running
<1>3. M!Top = stack[Len(stack)] /\ Len(stack) \in DOMAIN stack /\ M!Top \in FrameType
  BY <1>1, <1>2, Pop
<1>4. OldOK(M!Top)
  BY <1>1, <1>2, <1>3 DEF CallsOK, CallOK
<1>5. QED
  BY <1>2, <1>3, <1>4 DEF M!Here, At

LEMMA PassDisplayKeeps ==
  ASSUME ListsInv, ~failed, M!PassDisplay
  PROVE  ListsInv'
<1>1. PICK s : s = M!Below
  OBVIOUS
<1>2. /\ ListsTyped /\ RunInv(stack) /\ CoreInv(stack) /\ PollOK(stack)
      /\ CallsOK(stack) /\ ObjectsOK /\ ListOK
      /\ WindowOK(stack) /\ DesktopOK /\ ModesOK(stack)
  BY Parts
<1>3. PICK f : f = M!Top
  OBVIOUS
<1>4. PICK g : g = M!NextDisplay(f)
  OBVIOUS
<1>5. PICK t : t = Append(s, g)
  OBVIOUS
<1>6. /\ M!Enumerating /\ M!Here \notin M!Shown /\ stack' = t
      /\ UNCHANGED <<system, displays, active, primary, handle, changes, mode, pending, list,
                     monitor, full, holds, ready, failed, cut, nested, missed, stray, back,
                     failures>>
  BY <1>1, <1>3, <1>4, <1>5
     DEF M!PassDisplay, M!OnlyStack, M!desktop, M!window, M!history
<1>7. /\ stack # <<>> /\ M!Top.fn = "poll" /\ f.fn = "poll" /\ f.a \in M!Adapter
      /\ f = stack[Len(stack)] /\ Len(stack) \in DOMAIN stack /\ f \in FrameType
      /\ OldOK(f) /\ M!Here = At(f) /\ f.a # 0
  BY <1>3, <1>6, HereIs, Adapters
<1>8. SameObjects
  BY <1>6 DEF SameObjects
<1>9. OldOK(f)'
  BY <1>2, <1>7, <1>8, OldKept
<1>10. /\ g \in FrameType /\ g.fn = "poll" /\ g.old = f.old /\ g.a # 0 /\ OldOK(g)'
       /\ \A x \in M!Shown : Passed(g, x) <=> Passed(f, x) \/ x = At(f)
       /\ ~Passed(f, At(f))
  BY <1>2, <1>4, <1>6, <1>7, <1>9, NextIs
<1>11. t \in Seq(FrameType) /\ CoreInv(t)'
  BY <1>1, <1>2, <1>5, <1>6, <1>7, <1>8, <1>10, PollGoesOn
<1>12. /\ DOMAIN t = DOMAIN stack /\ t[Len(stack)] = g
       /\ \A i \in DOMAIN stack : i # Len(stack) => t[i] = stack[i]
  BY <1>1, <1>2, <1>5, <1>7, <1>10, Swapped
<1>13. \A m : InList(m)' <=> InList(m)
  BY <1>6 DEF InList
<1>14. UNCHANGED M!Shown
  BY <1>6, SameShown
<1>15. PollOK(t)'
  <2>1. OnlyPoll(stack) => OnlyPoll(t)
    BY <1>7, <1>10, <1>12 DEF OnlyPoll
  <2>2. \A m : Awaits(g, m) <=> Awaits(f, m)
    BY <1>10 DEF Awaits
  <2>3. AwaitsListed(stack) => AwaitsListed(t)'
    BY <1>7, <1>10, <1>12, <1>13, <2>2 DEF AwaitsListed
  <2>4. \A m : Met(t, m)' <=> Met(stack, m)
    BY <1>7, <1>10, <1>12, <1>13, <2>2 DEF Met
  <2>5. \A x \in M!Shown : AllPassed(t, x)' <=> AllPassed(stack, x)
    <3>1. \A x \in M!Shown : Passed(g, x) <=> Passed(f, x)
      BY <1>6, <1>7, <1>10
    <3>2. QED
      BY <1>7, <1>10, <1>12, <3>1 DEF AllPassed, Passed, Place
  <2>6. \A m \in MonitorObject : (IsCurrent(m)' <=> IsCurrent(m))
                                 /\ \A x : M!IsFor(m, x)' <=> M!IsFor(m, x)
    BY <1>6 DEF IsCurrent, M!IsFor
  <2>7. MetIsShown(stack) => MetIsShown(t)'
    BY <1>14, <2>4, <2>5, <2>6 DEF MetIsShown
  <2>8. MetOnce(stack) => MetOnce(t)'
    BY <1>14, <2>4, <2>6 DEF MetOnce
  <2>9. PassedIsMet(stack) => PassedIsMet(t)'
    BY <1>14, <2>4, <2>5, <2>6 DEF PassedIsMet
  <2>10. QED
    BY <1>2, <1>6, <2>1, <2>3, <2>7, <2>8, <2>9 DEF PollOK, OnlyPoll
<1>16. RunInv(stack)'
  BY <1>6, <1>11, <1>15 DEF RunInv
<1>17. ListsTyped'
  BY <1>2, <1>6, <1>11, StillTyped DEF ListsTyped
<1>18. QED
  BY <1>16, <1>17 DEF ListsInv

LEMMA NoMonitorIsNone == NoMonitor \notin MonitorObject
BY ListsAssumption DEF M!MonitorListsAssumption

\* A poll that has come across one of those it copied.
LEMMA ClearedIs ==
  ASSUME NEW f \in FrameType, OldOK(f)', NEW i \in DOMAIN f.old, f.old[i] # NoMonitor,
         NEW h, h = [f EXCEPT !.old[i] = NoMonitor]
  PROVE  /\ h \in FrameType /\ h.fn = f.fn /\ h.a = f.a /\ h.d = f.d
         /\ OldOK(h)' /\ f.old[i] \in MonitorObject
         /\ \A n \in MonitorObject : Awaits(h, n) <=> Awaits(f, n) /\ n # f.old[i]
<1>1. PICK old : old = [f.old EXCEPT ![i] = NoMonitor]
  OBVIOUS
<1>2. f.old \in Seq(MonitorObject \union {NoMonitor})
  BY DEF FrameType
<1>3. /\ old \in Seq(MonitorObject \union {NoMonitor}) /\ DOMAIN old = DOMAIN f.old
      /\ old[i] = NoMonitor /\ \A j \in DOMAIN f.old : j # i => old[j] = f.old[j]
  BY <1>1, <1>2
<1>4. h = [f EXCEPT !.old = old]
  BY <1>1
<1>5. h \in FrameType /\ h.fn = f.fn /\ h.a = f.a /\ h.d = f.d /\ h.old = old
  BY <1>3, <1>4 DEF FrameType
<1>6. f.old[i] \in MonitorObject
  BY <1>2
<1>7. OldOK(h)'
  BY <1>3, <1>5 DEF OldOK, M!Adapter
<1>8. ASSUME NEW n \in MonitorObject
      PROVE  Awaits(h, n) <=> Awaits(f, n) /\ n # f.old[i]
  BY <1>3, <1>5, <1>8, NoMonitorIsNone DEF OldOK, Awaits
<1>9. QED
  BY <1>5, <1>6, <1>7, <1>8

\* The first of those for the output.
LEMMA KnownIs ==
  ASSUME NEW x, M!IsKnown(x), M!Top \in FrameType, NEW i, i = M!KnownAt(x)
  PROVE  i \in DOMAIN M!Top.old /\ M!IsFor(M!Top.old[i], x)
<1> DEFINE S == {j \in DOMAIN M!Top.old : M!IsFor(M!Top.old[j], x)}
<1>1. DOMAIN M!Top.old = 1..Len(M!Top.old) /\ Len(M!Top.old) \in Nat
  BY DEF FrameType
<1>2. PICK k \in S : \A j \in S : k <= j
  <2>1. S \subseteq Nat /\ S # {}
    BY <1>1 DEF M!IsKnown
  <2> HIDE DEF S
  <2>2. QED
    BY <2>1, LeastNatural
<1>3. /\ k \in DOMAIN M!Top.old /\ M!IsFor(M!Top.old[k], x)
      /\ \A j \in 1..(k - 1) : ~M!IsFor(M!Top.old[j], x)
  BY <1>1, <1>2
<1> HIDE DEF S
<1>4. \E j \in DOMAIN M!Top.old :
        /\ M!IsFor(M!Top.old[j], x)
        /\ \A l \in 1..(j - 1) : ~M!IsFor(M!Top.old[l], x)
  BY <1>3
<1>5. QED
  BY <1>4, Zenon DEF M!KnownAt

\* With one poll, which is the last call, there is no monitor to drop.
LEMMA LastPoll ==
  ASSUME ListsTyped, CallsOK(stack), stack # <<>>, M!Top.fn = "poll", OnlyPoll(stack)
  PROVE  \A i \in DOMAIN stack : /\ stack[i].fn = "poll" => i = Len(stack)
                                 /\ stack[i].fn # "drop"
<1>1. /\ M!Top = stack[Len(stack)] /\ Len(stack) \in DOMAIN stack
      /\ DOMAIN stack = 1..Len(stack) /\ Len(stack) \in Nat
  BY Pop
<1>2. \A i \in DOMAIN stack : stack[i].fn = "poll" => i = Len(stack)
  BY <1>1 DEF OnlyPoll
<1>3. ASSUME NEW i \in DOMAIN stack, stack[i].fn = "drop"
      PROVE  FALSE
  <2>1. i > 1 /\ stack[i - 1].fn = "poll"
    BY <1>3 DEF CallsOK, CallOK
  <2>2. i - 1 \in DOMAIN stack /\ i - 1 # Len(stack)
    BY <1>1, <1>3, <2>1
  <2>3. QED
    BY <1>2, <2>1, <2>2
<1>4. QED
  BY <1>2, <1>3

LEMMA MeetKnownKeeps ==
  ASSUME ListsInv, ~failed, M!MeetKnown
  PROVE  ListsInv'
<1>1. PICK s : s = M!Below
  OBVIOUS
<1>2. /\ ListsTyped /\ RunInv(stack) /\ CoreInv(stack) /\ PollOK(stack)
      /\ CallsOK(stack) /\ ObjectsOK /\ ListOK
      /\ WindowOK(stack) /\ DesktopOK /\ ModesOK(stack)
  BY Parts
<1>3. PICK f : f = M!Top
  OBVIOUS
<1>4. PICK x : x = M!Here
  OBVIOUS
<1>5. PICK i : i = M!KnownAt(x)
  OBVIOUS
<1>6. PICK m : m = f.old[i]
  OBVIOUS
<1>7. PICK h : h = [f EXCEPT !.old[i] = NoMonitor]
  OBVIOUS
<1>8. PICK g : g = M!NextDisplay(h)
  OBVIOUS
<1>9. PICK t : t = Append(s, g)
  OBVIOUS
<1>10. PICK looked : looked = IF system = "win32" /\ x[2] # 0 /\ i \in DOMAIN list
                              THEN {list[i]} ELSE {}
  OBVIOUS
<1>11. /\ M!Enumerating /\ x \in M!Shown /\ M!IsKnown(x) /\ stack' = t
       /\ monitor' = [n \in MonitorObject |->
            CASE n \in looked /\ M!Lives(monitor[n].output[1]) ->
                   [monitor[n] EXCEPT !.handle = handle[monitor[n].output[1]]]
              [] n = m /\ system = "cocoa" -> [monitor[n] EXCEPT !.screen = TRUE]
              [] OTHER -> monitor[n]]
       /\ missed' = (missed \union {m}) \ looked
       /\ UNCHANGED <<system, displays, active, primary, handle, changes, mode, pending, list,
                      full, holds, ready, failed, cut, nested, stray, back, failures>>
  BY <1>1, <1>3, <1>4, <1>5, <1>6, <1>7, <1>8, <1>9, <1>10
     DEF M!MeetKnown, M!Seen, M!desktop, M!window
<1>12. /\ stack # <<>> /\ M!Top.fn = "poll" /\ f.fn = "poll" /\ f.a \in M!Adapter
       /\ f = stack[Len(stack)] /\ Len(stack) \in DOMAIN stack /\ f \in FrameType
       /\ OldOK(f) /\ x = At(f) /\ f.a # 0
  BY <1>3, <1>4, <1>11, HereIs, Adapters
<1>13. i \in DOMAIN f.old /\ M!IsFor(m, x) /\ m # NoMonitor
  BY <1>3, <1>5, <1>6, <1>11, <1>12, KnownIs DEF M!IsFor
<1>14. m \in MonitorObject /\ Live(m)
  BY <1>6, <1>12, <1>13 DEF OldOK, Live
<1>15. \A n \in looked : n \in MonitorObject /\ Live(n) /\ system = "win32"
  BY <1>2, <1>10 DEF ListOK, Live
<1>16. /\ monitor' \in [MonitorObject -> MonitorType]
       /\ \A n \in MonitorObject :
            /\ monitor'[n].output = monitor[n].output
            /\ monitor'[n].modeChanged = monitor[n].modeChanged
            /\ system = "win32" => monitor'[n].screen = monitor[n].screen
            /\ monitor'[n].handle = IF n \in looked /\ M!Lives(monitor[n].output[1])
                                    THEN handle[monitor[n].output[1]] ELSE monitor[n].handle
            /\ monitor'[n].screen = IF n = m /\ system = "cocoa" THEN TRUE ELSE monitor[n].screen
            /\ monitor[n] = M!Gone => monitor'[n] = M!Gone
  <2> DEFINE now(n) ==
         CASE n \in looked /\ M!Lives(monitor[n].output[1]) ->
                [monitor[n] EXCEPT !.handle = handle[monitor[n].output[1]]]
           [] n = m /\ system = "cocoa" -> [monitor[n] EXCEPT !.screen = TRUE]
           [] OTHER -> monitor[n]
  <2>4. monitor' = [n \in MonitorObject |-> now(n)]
    BY <1>11
  <2>5. \A n \in looked : system # "cocoa"
    BY <1>15
  <2>6. \A n : /\ n \in looked /\ M!Lives(monitor[n].output[1]) =>
                    now(n) = [monitor[n] EXCEPT !.handle = handle[monitor[n].output[1]]]
               /\ ~(n \in looked /\ M!Lives(monitor[n].output[1])) /\ n = m
                    /\ system = "cocoa" => now(n) = [monitor[n] EXCEPT !.screen = TRUE]
               /\ ~(n \in looked /\ M!Lives(monitor[n].output[1]))
                    /\ ~(n = m /\ system = "cocoa") => now(n) = monitor[n]
    BY <2>5, Zenon
  <2> HIDE DEF now
  <2>1. ASSUME NEW n \in MonitorObject
        PROVE  /\ monitor'[n] \in MonitorType
               /\ monitor'[n].output = monitor[n].output
               /\ monitor'[n].modeChanged = monitor[n].modeChanged
               /\ monitor'[n].handle = IF n \in looked /\ M!Lives(monitor[n].output[1])
                                       THEN handle[monitor[n].output[1]] ELSE monitor[n].handle
               /\ monitor'[n].screen =
                    IF n = m /\ system = "cocoa" THEN TRUE ELSE monitor[n].screen
               /\ monitor[n] = M!Gone => monitor'[n] = M!Gone
    <3>1. monitor[n] \in MonitorType
      BY <1>2 DEF ListsTyped
    <3>2. CASE n \in looked /\ M!Lives(monitor[n].output[1])
      <4>1. monitor'[n] = [monitor[n] EXCEPT !.handle = handle[monitor[n].output[1]]]
        BY <2>4, <2>6, <3>2
      <4>2. monitor[n].output[1] \in M!Adapter
        BY <1>15, <3>2, Connectors DEF Live
      <4>3. handle[monitor[n].output[1]] \in Nat
        <5>1. handle[monitor[n].output[1]] \in 0..MaxChanges
          BY <1>2, <4>2 DEF ListsTyped
        <5>2. QED
          BY <5>1
      <4>4. PICK v \in Nat : v = handle[monitor[n].output[1]]
        BY <4>3
      <4>5. /\ monitor'[n] \in MonitorType
            /\ monitor'[n].output = monitor[n].output
            /\ monitor'[n].modeChanged = monitor[n].modeChanged
            /\ monitor'[n].screen = monitor[n].screen
            /\ monitor'[n].handle = v
        BY <3>1, <4>1, <4>4 DEF MonitorType
      <4>6. ~(n = m /\ system = "cocoa") /\ monitor[n] # M!Gone
        BY <1>15, <3>2, LiveIsUsed
      <4>7. QED
        BY <3>2, <4>4, <4>5, <4>6
    <3>3. CASE ~(n \in looked /\ M!Lives(monitor[n].output[1])) /\ n = m /\ system = "cocoa"
      <4>1. monitor'[n] = [monitor[n] EXCEPT !.screen = TRUE]
        BY <2>4, <2>6, <3>3
      <4>2. PICK b \in BOOLEAN : b = TRUE
        OBVIOUS
      <4>3. monitor'[n] = [monitor[n] EXCEPT !.screen = b]
        BY <4>1, <4>2
      <4>4. /\ monitor'[n] \in MonitorType
            /\ monitor'[n].output = monitor[n].output
            /\ monitor'[n].modeChanged = monitor[n].modeChanged
            /\ monitor'[n].handle = monitor[n].handle
            /\ monitor'[n].screen = b
        BY <3>1, <4>3 DEF MonitorType
      <4>5. monitor[n] # M!Gone
        BY <1>14, <3>3, LiveIsUsed
      <4>6. QED
        BY <3>3, <4>2, <4>4, <4>5
    <3>4. CASE ~(n \in looked /\ M!Lives(monitor[n].output[1])) /\ ~(n = m /\ system = "cocoa")
      <4>1. monitor'[n] = monitor[n]
        BY <2>4, <2>6, <3>4
      <4>2. QED
        BY <3>1, <3>4, <4>1
    <3>5. QED
      BY <3>2, <3>3, <3>4
  <2>2. monitor' \in [MonitorObject -> MonitorType]
    BY <2>1, <2>4
  <2>3. QED
    BY <2>1, <2>2
<1>17. SameObjects
  BY <1>11, <1>16 DEF SameObjects
<1>18. /\ h \in FrameType /\ h.fn = "poll" /\ h.a = f.a /\ h.d = f.d /\ OldOK(h)'
       /\ \A n \in MonitorObject : Awaits(h, n) <=> Awaits(f, n) /\ n # m
  <2>1. OldOK(f)'
    BY <1>2, <1>12, <1>17, OldKept
  <2>2. QED
    BY <1>6, <1>7, <1>12, <1>13, <2>1, ClearedIs
<1>19. /\ g \in FrameType /\ g.fn = "poll" /\ g.old = h.old /\ g.a # 0 /\ OldOK(g)'
       /\ \A y \in M!Shown : Passed(g, y) <=> Passed(f, y) \/ y = x
       /\ ~Passed(f, x)
  <2>1. At(h) = x
    BY <1>12, <1>18 DEF At
  <2>2. \A y : Passed(h, y) <=> Passed(f, y)
    BY <1>18 DEF Passed
  <2>3. h.a \in M!Adapter
    BY <1>12, <1>18
  <2>4. /\ g \in FrameType /\ g.fn = h.fn /\ g.old = h.old /\ g.a # 0 /\ OldOK(g)'
        /\ \A y \in M!Shown : Passed(g, y) <=> Passed(h, y) \/ y = At(h)
        /\ ~Passed(h, At(h))
    BY <1>2, <1>8, <1>11, <1>18, <2>3, NextIs
  <2>5. QED
    BY <1>18, <2>1, <2>2, <2>4
<1>20. t \in Seq(FrameType) /\ CoreInv(t)'
  <2>1. \A n \in MonitorObject : /\ monitor'[n].modeChanged = monitor[n].modeChanged
                                 /\ system = "cocoa" => monitor'[n].handle = monitor[n].handle
    BY <1>15, <1>16
  <2>2. QED
    BY <1>1, <1>2, <1>9, <1>11, <1>12, <1>17, <1>19, <2>1, PollGoesOn
<1>21. /\ DOMAIN t = DOMAIN stack /\ t[Len(stack)] = g
       /\ \A j \in DOMAIN stack : j # Len(stack) => t[j] = stack[j]
  BY <1>1, <1>2, <1>9, <1>12, <1>19, Swapped
<1>22. \A n : InList(n)' <=> InList(n)
  BY <1>11 DEF InList
<1>23. UNCHANGED M!Shown
  BY <1>11, SameShown
<1>24. \A n \in MonitorObject : Awaits(g, n) <=> Awaits(f, n) /\ n # m
  BY <1>18, <1>19 DEF Awaits
<1>25. OnlyPoll(stack) => OnlyPoll(t)
  BY <1>12, <1>19, <1>21 DEF OnlyPoll
<1>26. AwaitsListed(stack) => AwaitsListed(t)'
  <2>1. SUFFICES ASSUME AwaitsListed(stack), NEW j \in DOMAIN t, NEW n \in MonitorObject,
                        t[j].fn = "poll", Awaits(t[j], n)
                 PROVE  InList(n)
    BY <1>22 DEF AwaitsListed
  <2>2. stack[j].fn = "poll" /\ Awaits(stack[j], n)
    BY <1>12, <1>21, <1>24, <2>1
  <2>3. QED
    BY <1>21, <2>1, <2>2 DEF AwaitsListed
<1>27. ASSUME OnlyPoll(stack), AwaitsListed(stack), MetIsShown(stack), MetOnce(stack),
              PassedIsMet(stack)
       PROVE  MetIsShown(t)' /\ MetOnce(t)' /\ PassedIsMet(t)'
  <2>1. \A j \in DOMAIN stack : /\ stack[j].fn = "poll" => j = Len(stack)
                                /\ stack[j].fn # "drop"
    BY <1>2, <1>12, <1>27, LastPoll
  <2>2. InList(m)
    <3>1. Awaits(f, m)
      BY <1>6, <1>13 DEF Awaits
    <3>2. QED
      BY <1>12, <1>14, <1>27, <3>1 DEF AwaitsListed
  <2>3. \A n \in MonitorObject : Met(t, n)' <=> Met(stack, n) \/ n \in {m}
    <3>1. \A n \in MonitorObject : Met(stack, n) <=> InList(n) /\ ~Awaits(f, n)
      BY <1>12, <2>1 DEF Met
    <3>2. \A n \in MonitorObject : Met(t, n)' <=> InList(n) /\ ~Awaits(g, n)
      BY <1>12, <1>19, <1>21, <1>22, <2>1 DEF Met
    <3>3. QED
      BY <1>24, <2>2, <3>1, <3>2
  <2>4. \A y : AllPassed(stack, y) <=> Passed(f, y)
    BY <1>12, <2>1 DEF AllPassed
  <2>5. \A y : AllPassed(t, y)' <=> Passed(g, y)
    BY <1>12, <1>19, <1>21, <2>1 DEF AllPassed, Passed, Place
  <2>6. \A n \in MonitorObject : \A y : M!IsFor(n, y)' <=> M!IsFor(n, y)
    <3>1. \A n \in MonitorObject : monitor'[n].output = monitor[n].output
      BY <1>16
    <3>2. QED
      BY <3>1 DEF M!IsFor
  <2>7. ASSUME NEW n \in MonitorObject, NEW y \in M!Shown, M!IsFor(n, y), Live(n),
               n = m \/ IsCurrent(n)
        PROVE  IsCurrent(n)'
    <3>1. M!Lives(monitor[n].output[1])
      <4>1. monitor[n].output[1] = y[1]
        BY <2>7 DEF M!IsFor
      <4>2. QED
        BY <4>1, ShownIs
    <3>2. n \in missed' \/ monitor'[n].handle = handle'[monitor'[n].output[1]]
      <4>1. CASE n \in looked
        BY <1>11, <1>16, <3>1, <4>1
      <4>2. CASE n \notin looked
        BY <1>11, <1>16, <2>7, <4>2 DEF IsCurrent
      <4>3. QED
        BY <4>1, <4>2
    <3>3. monitor'[n].screen
      <4>1. CASE system = "win32"
        <5>1. monitor[n].screen
          BY <1>2, <2>7, <4>1 DEF ObjectsOK
        <5>2. monitor'[n].screen = monitor[n].screen
          BY <1>16, <4>1
        <5>3. QED
          BY <5>1, <5>2
      <4>2. CASE system = "cocoa" /\ n = m
        <5>1. monitor'[n].screen = TRUE
          BY <1>16, <4>2
        <5>2. QED
          BY <5>1
      <4>3. CASE system = "cocoa" /\ n # m
        <5>1. monitor'[n].screen = monitor[n].screen
          BY <1>16, <4>3
        <5>2. QED
          BY <2>7, <4>3, <5>1 DEF IsCurrent
      <4>4. QED
        BY <1>2, <4>1, <4>2, <4>3, ListsAssumption DEF ListsTyped, M!MonitorListsAssumption
    <3>4. QED
      BY <3>2, <3>3 DEF IsCurrent
  <2>8. IsCurrent(m)'
    BY <1>11, <1>13, <1>14, <2>7
  <2>9. ASSUME NEW n \in MonitorObject, Met(stack, n)
        PROVE  IsCurrent(n)'
    <3>1. IsCurrent(n) /\ \E y \in M!Shown : M!IsFor(n, y)
      BY <1>27, <2>9 DEF MetIsShown
    <3>2. Live(n)
      BY <1>2, <2>9 DEF Met, InList, ListOK
    <3>3. QED
      BY <2>7, <3>1, <3>2
  <2>10. {m} \in SUBSET MonitorObject /\ {m} # {}
    BY <1>14
  <2>11. /\ ~AllPassed(stack, x)
         /\ \A y \in M!Shown : AllPassed(t, y)' <=> AllPassed(stack, y) \/ y = x
    BY <1>19, <2>4, <2>5
  <2>12. \A n \in {m} : \A y \in M!Shown : M!IsFor(n, y)' => y = x
    BY <1>2, <1>11, <1>13, <1>14, <2>6, ForOne
  <2>13. \A n \in {m} : x \in M!Shown /\ M!IsFor(n, x)' /\ IsCurrent(n)'
    BY <1>11, <1>13, <1>14, <2>6, <2>8
  <2>14. \A n \in MonitorObject : Met(stack, n) =>
           (n \in {m} \/ IsCurrent(n)') /\ \A y : M!IsFor(n, y)' <=> M!IsFor(n, y)
    BY <2>6, <2>9
  <2>15. PICK N : N = {m}
    OBVIOUS
  <2>16. QED
    BY <1>2, <1>23, <1>27, <2>3, <2>10, <2>11, <2>12, <2>13, <2>14, <2>15, PollMeets
<1>28. PollOK(t)'
  BY <1>2, <1>11, <1>25, <1>26, <1>27 DEF PollOK, OnlyPoll
<1>29. RunInv(stack)'
  BY <1>11, <1>20, <1>28 DEF RunInv
<1>30. ListsTyped'
  BY <1>2, <1>11, <1>14, <1>16, <1>20, StillTyped DEF ListsTyped
<1>31. QED
  BY <1>29, <1>30 DEF ListsInv

LEMMA MeetNamelessKeeps ==
  ASSUME ListsInv, ~failed, M!MeetNameless
  PROVE  ListsInv'
<1>1. PICK s : s = M!Below
  OBVIOUS
<1>2. /\ ListsTyped /\ RunInv(stack) /\ CoreInv(stack) /\ PollOK(stack)
      /\ CallsOK(stack) /\ ObjectsOK /\ ListOK
      /\ WindowOK(stack) /\ DesktopOK /\ ModesOK(stack)
  BY Parts
<1>3. PICK f : f = M!Top
  OBVIOUS
<1>4. PICK g : g = M!NextDisplay(f)
  OBVIOUS
<1>5. PICK t : t = Append(s, g)
  OBVIOUS
<1>6. /\ M!Enumerating /\ failures < MaxFailures /\ failures' = failures + 1 /\ cut' = TRUE
      /\ stack' = IF system = "win32" THEN s ELSE t
      /\ ready' = (ready \/ (system = "win32" /\ s = <<>>))
      /\ UNCHANGED <<system, displays, active, primary, handle, changes, mode, pending,
                     monitor, list, full, holds, failed, nested, missed, stray, back>>
  BY <1>1, <1>3, <1>4, <1>5 DEF M!MeetNameless, M!desktop, M!window
<1>7. /\ stack # <<>> /\ M!Top.fn = "poll" /\ f.fn = "poll" /\ f.a \in M!Adapter
      /\ f = stack[Len(stack)] /\ Len(stack) \in DOMAIN stack /\ f \in FrameType
      /\ OldOK(f) /\ f.a # 0
  BY <1>3, <1>6, HereIs, Adapters
<1>8. SameObjects
  BY <1>6 DEF SameObjects
<1>9. OldOK(f)'
  BY <1>2, <1>7, <1>8, OldKept
<1>10. /\ g \in FrameType /\ g.fn = "poll" /\ OldOK(g)'
  BY <1>2, <1>4, <1>6, <1>7, <1>9, NextIs
<1>11. ASSUME system # "win32"
       PROVE  stack' \in Seq(FrameType) /\ RunInv(stack)'
  <2>1. t \in Seq(FrameType) /\ CoreInv(t)'
    BY <1>1, <1>2, <1>5, <1>6, <1>7, <1>8, <1>10, PollGoesOn
  <2>2. /\ DOMAIN t = DOMAIN stack /\ t[Len(stack)] = g
        /\ \A i \in DOMAIN stack : i # Len(stack) => t[i] = stack[i]
    BY <1>1, <1>2, <1>5, <1>7, <1>10, Swapped
  <2>3. OnlyPoll(stack) => OnlyPoll(t)
    BY <1>7, <1>10, <2>2 DEF OnlyPoll
  <2>4. PollOK(t)'
    BY <1>2, <1>6, <2>3 DEF PollOK, OnlyPoll
  <2>5. stack' = t
    BY <1>6, <1>11
  <2>6. QED
    BY <2>1, <2>4, <2>5 DEF RunInv
<1>12. ASSUME system = "win32"
       PROVE  stack' \in Seq(FrameType) /\ RunInv(stack)'
  <2>1. /\ Prefix(s) /\ NoLeave(s) /\ Len(s) + 1 = Len(stack) /\ s \in Seq(FrameType)
    BY <1>1, <1>2, <1>7, BelowIs DEF Prefix
  <2>2. \A i \in DOMAIN stack : i > Len(s) => stack[i].fn = "poll"
    BY <1>7, <2>1 DEF Prefix
  <2>3. ObjectsOK' /\ ListOK'
    BY <1>2, <1>8, ObjectsKept
  <2>4. CallsOK(s)'
    BY <1>2, <1>8, <2>1, CallsKept
  <2>5. WindowOK(s)'
    BY <1>2, <1>6, <1>8, <2>1, <2>2, WindowKept
  <2>6. ModesOK(s)'
    BY <1>2, <1>6, <2>1, <2>2, ModesKept
  <2>7. DesktopOK'
    BY <1>2, <1>6, DesktopKept
  <2>8. PollOK(s)'
    <3>1. OnlyPoll(stack) => OnlyPoll(s)
      BY <2>1 DEF OnlyPoll, Prefix
    <3>2. QED
      BY <1>2, <1>6, <3>1 DEF PollOK, OnlyPoll
  <2>9. RunInv(s)'
    BY <2>3, <2>4, <2>5, <2>6, <2>7, <2>8 DEF RunInv, CoreInv
  <2>10. stack' = s
    BY <1>6, <1>12
  <2>11. QED
    BY <2>1, <2>9, <2>10
<1>13. stack' \in Seq(FrameType) /\ RunInv(stack)'
  BY <1>11, <1>12
<1>14. /\ ready' \in BOOLEAN /\ cut' \in BOOLEAN /\ failures' \in 0..MaxFailures
  BY <1>2, <1>6, ListsAssumption DEF ListsTyped, M!MonitorListsAssumption
<1>15. ListsTyped'
  BY <1>2, <1>6, <1>13, <1>14, StillTyped DEF ListsTyped
<1>16. QED
  BY <1>13, <1>15 DEF ListsInv

\* Calls in progress are as before when the monitors in use by them are.
Uses(f, n) ==
    /\ Live(n)
    /\ \/ f.fn \in {"left", "acquire", "drop", "free"} /\ f.m = n
       \/ f.fn = "poll" /\ Awaits(f, n)

LEMMA CallsLive ==
  ASSUME CallsOK(stack), NEW s, Prefix(s), NoLeave(s), UNCHANGED system,
         \A i \in DOMAIN s : \A n : Uses(s[i], n) =>
           Live(n)' /\ (~InList(n) => ~InList(n)')
  PROVE  CallsOK(s)'
<1>1. SUFFICES ASSUME NEW i \in DOMAIN s
               PROVE  CallOK(s, i)'
  BY DEF CallsOK
<1>2. /\ i \in DOMAIN stack /\ s[i] = stack[i] /\ s[i].fn # "leave"
      /\ i > 1 => s[i - 1] = stack[i - 1]
  BY <1>1 DEF Prefix, NoLeave
<1>3. CallOK(stack, i)
  BY <1>2 DEF CallsOK
<1>4. s[i].fn = "poll" => OldOK(s[i])'
  <2>1. SUFFICES ASSUME s[i].fn = "poll"  PROVE OldOK(s[i])'
    OBVIOUS
  <2>2. PICK f : f = s[i]
    OBVIOUS
  <2>3. OldOK(f)
    BY <1>2, <1>3, <2>1, <2>2 DEF CallOK
  <2>4. \A j \in DOMAIN f.old : f.old[j] # NoMonitor => Live(f.old[j])'
    BY <1>1, <2>1, <2>2, <2>3 DEF OldOK, Uses, Awaits
  <2>5. OldOK(f)'
    BY <2>3, <2>4 DEF OldOK, M!Adapter
  <2>6. QED
    BY <2>2, <2>5
<1>5. s[i].fn \in {"left", "acquire", "drop", "free"} =>
        Live(s[i].m)' /\ (~InList(s[i].m) => ~InList(s[i].m)')
  BY <1>1, <1>2, <1>3 DEF CallOK, Uses
<1>6. QED
  BY <1>2, <1>3, <1>4, <1>5 DEF CallOK

LEMMA DropsKept ==
  ASSUME WindowOK(stack), NEW s, Prefix(s), full' = full, back' = back,
         \A i \in DOMAIN stack : i > Len(s) => stack[i].fn \notin {"leave", "left"},
         full # NoMonitor => Live(full)' /\ (back \/ InList(full)')
  PROVE  WindowOK(s)'
<1>1. ASSUME NEW i \in DOMAIN s, s[i].fn = "drop", full' = s[i].m, ~back'
      PROVE  i < Len(s) /\ s[i + 1].fn \in {"leave", "left"}
  <2>1. i \in DOMAIN stack /\ s[i] = stack[i] /\ i \in 1..Len(s)
    BY <1>1 DEF Prefix
  <2>2. i < Len(stack) /\ stack[i + 1].fn \in {"leave", "left"}
    BY <1>1, <2>1 DEF WindowOK
  <2>3. i + 1 \in DOMAIN stack
    BY <2>1, <2>2 DEF Prefix
  <2>4. i + 1 <= Len(s)
    BY <2>1, <2>2, <2>3 DEF Prefix
  <2>5. QED
    BY <2>1, <2>2, <2>4 DEF Prefix
<1>2. full' # NoMonitor => Live(full)' /\ (back' \/ InList(full)')
  OBVIOUS
<1>3. QED
  BY <1>1, <1>2 DEF WindowOK

\* A monitor changes that is in no call that changes modes.
LEMMA ModesOfOthers ==
  ASSUME ModesOK(stack), NEW s, Prefix(s), CallsOK(stack), WindowOK(stack),
         \A i \in DOMAIN stack : i > Len(s) => stack[i].fn # "acquire",
         UNCHANGED <<mode, stray, full, holds, handle, system>>, NEW m, full # m,
         \A i \in DOMAIN stack : stack[i].fn = "acquire" => stack[i].m # m,
         \A n \in MonitorObject \ {m} : monitor'[n] = monitor[n]
  PROVE  ModesOK(s)'
<1>1. \A a \in M!Adapter : IsOwed(stack, a) => IsOwed(s, a)'
  <2>1. TAKE a \in M!Adapter
  <2>2. HAVE IsOwed(stack, a)
  <2>3. PICK i \in DOMAIN stack :
          stack[i].fn = "acquire" /\ monitor[stack[i].m].output[1] = a
    BY <2>2 DEF IsOwed
  <2>4. i \in DOMAIN s /\ s[i] = stack[i] /\ stack[i].m \in MonitorObject \ {m}
    BY <2>3 DEF Prefix, CallsOK, CallOK, Live
  <2>5. QED
    BY <2>3, <2>4 DEF IsOwed
<1>2. \A a \in M!Adapter : IsHeld(a) => IsHeld(a)'
  BY DEF IsHeld, WindowOK, Live
<1>3. QED
  BY <1>1, <1>2 DEF ModesOK, Prefix, M!Adapter

LEMMA Inserted ==
  ASSUME ListsTyped, ListOK, NEW m \in MonitorObject, ~InList(m),
         NEW l, l = <<m>> \o list \/ l = Append(list, m)
  PROVE  /\ l \in Seq(MonitorObject)
         /\ \A n : (\E j \in DOMAIN l : l[j] = n) <=> InList(n) \/ n = m
         /\ \A i, j \in DOMAIN l : l[i] = l[j] => i = j
<1>1. /\ list \in Seq(MonitorObject) /\ Len(list) \in Nat /\ DOMAIN list = 1..Len(list)
  BY DEF ListsTyped
<1>2. \A i \in DOMAIN list : list[i] # m
  BY DEF InList
<1>3. \A i, j \in DOMAIN list : list[i] = list[j] => i = j
  BY DEF ListOK
<1>4. CASE l = Append(list, m)
  <2>1. /\ l \in Seq(MonitorObject) /\ DOMAIN l = 1..(Len(list) + 1)
        /\ l[Len(list) + 1] = m
        /\ \A i \in DOMAIN list : l[i] = list[i] /\ i # Len(list) + 1
    BY <1>1, <1>4, Push
  <2>2. \A i \in DOMAIN l : i \in DOMAIN list \/ i = Len(list) + 1
    BY <1>1, <2>1
  <2>3. Len(list) + 1 \in DOMAIN l /\ \A i \in DOMAIN list : i \in DOMAIN l
    BY <1>1, <2>1
  <2>4. \A n : (\E j \in DOMAIN l : l[j] = n) <=> InList(n) \/ n = m
    BY <2>1, <2>2, <2>3 DEF InList
  <2>5. \A i, j \in DOMAIN l : l[i] = l[j] => i = j
    BY <1>2, <1>3, <2>1, <2>2
  <2>6. QED
    BY <2>1, <2>4, <2>5
<1>5. CASE l = <<m>> \o list
  <2>1. /\ l \in Seq(MonitorObject) /\ DOMAIN l = 1..(Len(list) + 1) /\ l[1] = m
        /\ \A i \in DOMAIN list : l[i + 1] = list[i]
    BY <1>1, <1>5
  <2>2. \A i \in DOMAIN l : i = 1 \/ (i - 1 \in DOMAIN list /\ l[i] = list[i - 1])
    <3>1. TAKE i \in DOMAIN l
    <3>2. i \in 1..(Len(list) + 1)
      BY <2>1, <3>1
    <3>3. i # 1 => i - 1 \in DOMAIN list /\ (i - 1) + 1 = i
      BY <1>1, <3>2
    <3>4. QED
      BY <2>1, <3>3
  <2>3. 1 \in DOMAIN l /\ \A i \in DOMAIN list : i + 1 \in DOMAIN l
    BY <1>1, <2>1
  <2>4. \A n : (\E j \in DOMAIN l : l[j] = n) <=> InList(n) \/ n = m
    BY <2>1, <2>2, <2>3 DEF InList
  <2>5. ASSUME NEW i \in DOMAIN l, NEW j \in DOMAIN l, l[i] = l[j]
        PROVE  i = j
    <3>1. i \in Nat /\ j \in Nat
      BY <1>1, <2>1
    <3>2. CASE i = 1 \/ j = 1
      BY <1>2, <2>1, <2>2, <2>5, <3>2
    <3>3. CASE i # 1 /\ j # 1
      <4>1. i - 1 \in DOMAIN list /\ j - 1 \in DOMAIN list /\ list[i - 1] = list[j - 1]
        BY <2>2, <2>5, <3>3
      <4>2. i - 1 = j - 1
        BY <1>3, <4>1
      <4>3. QED
        BY <3>1, <4>2
    <3>4. QED
      BY <3>2, <3>3
  <2>6. QED
    BY <2>1, <2>4, <2>5
<1>6. QED
  BY <1>4, <1>5

LEMMA CocoaShows ==
  ASSUME DesktopOK, system = "cocoa", NEW x \in M!Shown
  PROVE  x[2] = 1
<1>1. x \in M!Display /\ displays[x] = "on" /\ x[2] \in 1..AdapterDisplays[x[1]]
  <2>1. x[2] # 0 /\ x[1] \in M!Adapter /\ x[2] \in 0..AdapterDisplays[x[1]]
    BY ShownIs
  <2>2. x \in M!Display /\ M!IsOn(x)
    BY <2>1, ShownIs
  <2>3. QED
    BY <2>1, <2>2, Adapters DEF M!IsOn
<1>2. ~(x[2] > 1)
  BY <1>1 DEF DesktopOK
<1>3. QED
  BY <1>1, <1>2, Adapters, ShownIs

LEMMA MeetNewKeeps ==
  ASSUME ListsInv, ~failed, M!MeetNew
  PROVE  ListsInv'
<1>1. PICK s : s = M!Below
  OBVIOUS
<1>2. /\ ListsTyped /\ RunInv(stack) /\ CoreInv(stack) /\ PollOK(stack)
      /\ CallsOK(stack) /\ ObjectsOK /\ ListOK
      /\ WindowOK(stack) /\ DesktopOK /\ ModesOK(stack)
  BY Parts
<1>3. PICK f : f = M!Top
  OBVIOUS
<1>4. PICK x : x = M!Here
  OBVIOUS
<1>5. PICK h : h = [f EXCEPT !.first = FALSE]
  OBVIOUS
<1>6. PICK g : g = M!NextDisplay(h)
  OBVIOUS
<1>7. PICK t : t = Append(s, g)
  OBVIOUS
<1>8. PICK m : m = CHOOSE n \in M!Unused : TRUE
  OBVIOUS
<1>9. /\ M!Enumerating /\ x \in M!Shown /\ M!Unused # {} /\ M!Tell(t)
      /\ monitor' = [monitor EXCEPT ![m] =
           [output |-> x, handle |-> handle[f.a], screen |-> TRUE, modeChanged |-> FALSE]]
      /\ list' = <<m>> \o list \/ list' = Append(list, m)
      /\ UNCHANGED <<system, displays, active, primary, handle, changes, mode, pending,
                     full, holds, ready, failed, cut, nested, missed, stray, back, failures>>
  BY <1>1, <1>3, <1>4, <1>5, <1>6, <1>7, <1>8
     DEF M!MeetNew, M!desktop, M!window, M!history
<1>10. m \in MonitorObject /\ monitor[m] = M!Gone /\ ~Live(m) /\ m # NoMonitor
  <2>1. m \in M!Unused
    BY <1>8, <1>9
  <2>2. QED
    BY <2>1, LiveIsUsed, NoMonitorIsNone DEF M!Unused
<1>11. ~InList(m)
  BY <1>2, <1>10 DEF InList, ListOK
<1>12. /\ stack # <<>> /\ M!Top.fn = "poll" /\ f.fn = "poll" /\ f.a \in M!Adapter
       /\ f = stack[Len(stack)] /\ Len(stack) \in DOMAIN stack /\ f \in FrameType
       /\ OldOK(f) /\ x = At(f) /\ f.a # 0 /\ f.a = x[1] /\ x \in M!Connector
  BY <1>3, <1>4, <1>9, HereIs, Adapters, ShownIs DEF At
<1>13. /\ monitor' \in [MonitorObject -> MonitorType]
       /\ \A n \in MonitorObject \ {m} : monitor'[n] = monitor[n]
       /\ monitor'[m].output = x /\ monitor'[m].handle = handle[x[1]] /\ monitor'[m].screen
  <2>1. handle[f.a] \in Nat
    <3>1. handle[f.a] \in 0..MaxChanges
      BY <1>2, <1>12 DEF ListsTyped
    <3>2. QED
      BY <3>1
  <2>2. PICK r : r = [output |-> x, handle |-> handle[f.a], screen |-> TRUE,
                      modeChanged |-> FALSE]
    OBVIOUS
  <2>3. r \in MonitorType /\ r.output = x /\ r.handle = handle[x[1]] /\ r.screen
    BY <1>12, <2>1, <2>2 DEF MonitorType
  <2>4. monitor' = [monitor EXCEPT ![m] = r] /\ monitor \in [MonitorObject -> MonitorType]
    BY <1>2, <1>9, <2>2 DEF ListsTyped
  <2>5. /\ monitor' \in [MonitorObject -> MonitorType] /\ monitor'[m] = r
        /\ \A n \in MonitorObject \ {m} : monitor'[n] = monitor[n]
    BY <1>10, <2>3, <2>4
  <2>6. QED
    BY <2>3, <2>5
<1>14. UNCHANGED <<M!Adapter, M!Display, M!Connector>>
  BY DEF M!Adapter, M!Display, M!Connector
<1>15. \A n : Live(n)' <=> Live(n) \/ n = m
  BY <1>10, <1>12, <1>13, <1>14 DEF Live
<1>16. /\ list' \in Seq(MonitorObject)
       /\ \A n : InList(n)' <=> InList(n) \/ n = m
       /\ \A i, j \in DOMAIN list' : list'[i] = list'[j] => i = j
  <2>1. PICK l : l = list'
    OBVIOUS
  <2>2. /\ l \in Seq(MonitorObject)
        /\ \A n : (\E j \in DOMAIN l : l[j] = n) <=> InList(n) \/ n = m
        /\ \A i, j \in DOMAIN l : l[i] = l[j] => i = j
    BY <1>2, <1>9, <1>10, <1>11, <2>1, Inserted
  <2>3. \A n : InList(n)' <=> InList(n) \/ n = m
    BY <2>1, <2>2 DEF InList
  <2>4. QED
    BY <2>1, <2>2, <2>3
<1>17. ListOK'
  <2>1. PICK l : l = list'
    OBVIOUS
  <2>2. \A i \in DOMAIN l : InList(l[i])'
    BY <2>1 DEF InList
  <2>3. \A n : InList(n) => Live(n)
    BY <1>2 DEF InList, ListOK
  <2>4. \A i \in DOMAIN l : Live(l[i])'
    BY <1>15, <1>16, <2>2, <2>3
  <2>5. \A i, j \in DOMAIN l : l[i] = l[j] => i = j
    BY <1>16, <2>1
  <2>6. QED
    BY <2>1, <2>4, <2>5 DEF ListOK
<1>18. ObjectsOK'
  <2>1. ASSUME NEW n \in MonitorObject
        PROVE  /\ Live(n)' \/ monitor'[n] = M!Gone
               /\ Live(n)' /\ system' = "cocoa" => monitor'[n].output[2] = 1
               /\ Live(n)' /\ system' = "win32" => monitor'[n].screen
    <3>1. CASE n = m
      <4>1. system = "cocoa" => x[2] = 1
        BY <1>2, <1>9, CocoaShows
      <4>2. QED
        BY <1>9, <1>13, <1>15, <3>1, <4>1
    <3>2. CASE n # m
      BY <1>2, <1>9, <1>13, <1>15, <3>2 DEF ObjectsOK
    <3>3. QED
      BY <3>1, <3>2
  <2>2. QED
    BY <2>1 DEF ObjectsOK, M!Gone
<1>19. /\ Prefix(s) /\ NoLeave(s) /\ Len(s) + 1 = Len(stack) /\ s \in Seq(FrameType)
  BY <1>1, <1>2, <1>12, BelowIs DEF Prefix
<1>20. \A i \in DOMAIN stack : i > Len(s) => stack[i].fn = "poll"
  BY <1>12, <1>19 DEF Prefix
<1>21. OldOK(f)'
  BY <1>9, <1>12, <1>14, <1>15 DEF OldOK
<1>22. h \in FrameType /\ h.fn = "poll" /\ h.a = f.a /\ h.d = f.d /\ h.old = f.old
  <2>1. PICK b \in BOOLEAN : b = FALSE
    OBVIOUS
  <2>2. h = [f EXCEPT !.first = b]
    BY <1>5, <2>1
  <2>3. QED
    BY <1>12, <2>2 DEF FrameType
<1>23. /\ g \in FrameType /\ g.fn = "poll" /\ g.old = f.old /\ g.a # 0 /\ OldOK(g)'
       /\ \A y \in M!Shown : Passed(g, y) <=> Passed(f, y) \/ y = x
       /\ ~Passed(f, x)
  <2>1. At(h) = x
    BY <1>12, <1>22 DEF At
  <2>2. \A y : Passed(h, y) <=> Passed(f, y)
    BY <1>22 DEF Passed
  <2>3. h.a \in M!Adapter /\ OldOK(h)'
    BY <1>12, <1>21, <1>22 DEF OldOK
  <2>4. /\ g \in FrameType /\ g.fn = h.fn /\ g.old = h.old /\ g.a # 0 /\ OldOK(g)'
        /\ \A y \in M!Shown : Passed(g, y) <=> Passed(h, y) \/ y = At(h)
        /\ ~Passed(h, At(h))
    BY <1>2, <1>6, <1>9, <1>22, <2>3, NextIs
  <2>5. QED
    BY <1>22, <2>1, <2>2, <2>4
<1>24. /\ DOMAIN t = DOMAIN stack /\ t[Len(stack)] = g
       /\ t \in Seq(FrameType)
       /\ \A j \in DOMAIN stack : j # Len(stack) => t[j] = stack[j]
  <2>1. /\ DOMAIN t = DOMAIN stack /\ t[Len(stack)] = g
        /\ \A j \in DOMAIN stack : j # Len(stack) => t[j] = stack[j]
    BY <1>1, <1>2, <1>7, <1>12, <1>23, Swapped
  <2>2. t \in Seq(FrameType)
    BY <1>7, <1>19, <1>23, Push
  <2>3. QED
    BY <2>1, <2>2
<1>25. NoLeave(t)
  BY <1>7, <1>19, <1>23, Push DEF NoLeave
<1>26. CallsOK(t)'
  <2>1. \A i \in DOMAIN s : \A n : Uses(s[i], n) => Live(n)' /\ (~InList(n) => ~InList(n)')
    BY <1>10, <1>15, <1>16 DEF Uses
  <2>2. CallsOK(s)'
    BY <1>2, <1>9, <1>19, <2>1, CallsLive
  <2>3. CallOK(t, Len(s) + 1)'
    BY <1>19, <1>23, <1>24 DEF CallOK
  <2>4. QED
    BY <1>7, <1>19, <1>23, <2>2, <2>3, PushCalls
<1>27. WindowOK(t)'
  <2>1. full # NoMonitor => Live(full)' /\ (back \/ InList(full)')
    <3>1. full # NoMonitor => Live(full) /\ (back \/ InList(full))
      BY <1>2 DEF WindowOK
    <3>2. PICK k : k = full /\ k = full'
      BY <1>9
    <3>3. k # NoMonitor => Live(k)' /\ (back \/ InList(k)')
      BY <1>15, <1>16, <3>1, <3>2
    <3>4. QED
      BY <3>2, <3>3 DEF Live, InList
  <2>2. WindowOK(s)'
    BY <1>2, <1>9, <1>19, <1>20, <2>1, DropsKept
  <2>3. QED
    BY <1>7, <1>19, <1>23, <2>2, PushWindow
<1>28. ModesOK(t)'
  <2>1. full # m
    BY <1>2, <1>10 DEF WindowOK
  <2>2. \A i \in DOMAIN stack : stack[i].fn = "acquire" => stack[i].m # m
    BY <1>2, <1>10 DEF CallsOK, CallOK
  <2>3. ModesOK(s)'
    BY <1>2, <1>9, <1>13, <1>19, <1>20, <2>1, <2>2, ModesOfOthers
  <2>4. QED
    BY <1>7, <1>19, <1>23, <2>3, PushModes
<1>29. DesktopOK'
  BY <1>2, <1>9, DesktopKept
<1>30. UNCHANGED M!Shown
  BY <1>9, SameShown
<1>31. OnlyPoll(stack) => OnlyPoll(t)
  BY <1>12, <1>23, <1>24 DEF OnlyPoll
<1>32. \A n : Awaits(g, n) <=> Awaits(f, n)
  BY <1>23 DEF Awaits
<1>33. AwaitsListed(stack) => AwaitsListed(t)'
  <2>1. SUFFICES ASSUME AwaitsListed(stack), NEW j \in DOMAIN t, NEW n \in MonitorObject,
                        t[j].fn = "poll", Awaits(t[j], n)
                 PROVE  InList(n)
    BY <1>16 DEF AwaitsListed
  <2>2. stack[j].fn = "poll" /\ Awaits(stack[j], n)
    BY <1>12, <1>24, <1>32, <2>1
  <2>3. QED
    BY <1>24, <2>1, <2>2 DEF AwaitsListed
<1>34. ASSUME OnlyPoll(stack), MetIsShown(stack), MetOnce(stack), PassedIsMet(stack)
       PROVE  MetIsShown(t)' /\ MetOnce(t)' /\ PassedIsMet(t)'
  <2>1. \A j \in DOMAIN stack : /\ stack[j].fn = "poll" => j = Len(stack)
                                /\ stack[j].fn # "drop"
    BY <1>2, <1>12, <1>34, LastPoll
  <2>2. ~Awaits(f, m)
    BY <1>10, <1>12 DEF Awaits, OldOK
  <2>3. \A n \in MonitorObject : Met(t, n)' <=> Met(stack, n) \/ n \in {m}
    <3>1. \A n \in MonitorObject : Met(stack, n) <=> InList(n) /\ ~Awaits(f, n)
      BY <1>12, <2>1 DEF Met
    <3>2. \A n \in MonitorObject : Met(t, n)' <=> InList(n)' /\ ~Awaits(g, n)
      BY <1>12, <1>23, <1>24, <2>1 DEF Met
    <3>3. QED
      BY <1>16, <1>32, <2>2, <3>1, <3>2
  <2>4. \A y : AllPassed(stack, y) <=> Passed(f, y)
    BY <1>12, <2>1 DEF AllPassed
  <2>5. \A y : AllPassed(t, y)' <=> Passed(g, y)
    BY <1>12, <1>23, <1>24, <2>1 DEF AllPassed, Passed, Place
  <2>6. ASSUME NEW n \in MonitorObject, Met(stack, n)
        PROVE  IsCurrent(n)' /\ \A y : M!IsFor(n, y)' <=> M!IsFor(n, y)
    <3>1. IsCurrent(n)
      BY <1>34, <2>6 DEF MetIsShown
    <3>2. n # m
      BY <1>11, <2>6 DEF Met
    <3>3. monitor'[n] = monitor[n]
      BY <1>13, <3>2
    <3>4. QED
      BY <1>9, <3>1, <3>3 DEF IsCurrent, M!IsFor
  <2>7. M!IsFor(m, x)' /\ IsCurrent(m)'
    BY <1>9, <1>10, <1>13 DEF M!IsFor, IsCurrent
  <2>8. ASSUME NEW y \in M!Shown, M!IsFor(m, y)'
        PROVE  y = x
    <3>1. IF y[2] = 0 THEN x[1] = y[1] ELSE x = y
      BY <1>13, <2>8 DEF M!IsFor
    <3>2. QED
      BY <1>9, <3>1, BareIsOne
  <2>9. {m} \in SUBSET MonitorObject /\ {m} # {}
    BY <1>10
  <2>10. /\ ~AllPassed(stack, x)
         /\ \A y \in M!Shown : AllPassed(t, y)' <=> AllPassed(stack, y) \/ y = x
    BY <1>23, <2>4, <2>5
  <2>11. \A n \in {m} : \A y \in M!Shown : M!IsFor(n, y)' => y = x
    BY <2>8
  <2>12. \A n \in {m} : x \in M!Shown /\ M!IsFor(n, x)' /\ IsCurrent(n)'
    BY <1>9, <2>7
  <2>13. \A n \in MonitorObject : Met(stack, n) =>
           (n \in {m} \/ IsCurrent(n)') /\ \A y : M!IsFor(n, y)' <=> M!IsFor(n, y)
    BY <2>6
  <2>14. PICK N : N = {m}
    OBVIOUS
  <2>15. QED
    BY <1>2, <1>30, <1>34, <2>3, <2>9, <2>10, <2>11, <2>12, <2>13, <2>14, PollMeets
<1>35. PollOK(t)'
  BY <1>2, <1>9, <1>31, <1>33, <1>34 DEF PollOK, OnlyPoll
<1>36. RunInv(t)'
  BY <1>17, <1>18, <1>26, <1>27, <1>28, <1>29, <1>35 DEF RunInv, CoreInv
<1>37. stack' \in Seq(FrameType) /\ RunInv(stack)'
  BY <1>9, <1>24, <1>25, <1>36, AfterTell
<1>38. ListsTyped'
  BY <1>2, <1>9, <1>13, <1>16, <1>37, StillTyped DEF ListsTyped
<1>39. QED
  BY <1>37, <1>38 DEF ListsInv

-----------------------------------------------------------------------------
(* Steps: what a poll has not come across *)

LEMMA PollSame ==
  ASSUME PollOK(stack), NEW t, UNCHANGED <<system, displays, active, nested, cut, pending>>,
         OnlyPoll(stack) => OnlyPoll(t),
         OnlyPoll(stack) /\ AwaitsListed(stack) => AwaitsListed(t)',
         \A n \in MonitorObject : Met(t, n)' <=> Met(stack, n),
         \A x \in M!Shown : AllPassed(t, x)' <=> AllPassed(stack, x),
         \A n \in MonitorObject : Met(stack, n) =>
           (IsCurrent(n) => IsCurrent(n)') /\ \A x : M!IsFor(n, x)' <=> M!IsFor(n, x)
  PROVE  PollOK(t)'
<1>1. UNCHANGED M!Shown
  BY SameShown
<1>2. MetIsShown(stack) => MetIsShown(t)'
  BY <1>1 DEF MetIsShown
<1>3. MetOnce(stack) => MetOnce(t)'
  BY <1>1 DEF MetOnce
<1>4. PassedIsMet(stack) => PassedIsMet(t)'
  BY <1>1 DEF PassedIsMet
<1>5. QED
  BY <1>2, <1>3, <1>4 DEF PollOK, OnlyPoll

LEMMA DisconnectKeeps ==
  ASSUME ListsInv, ~failed, M!Disconnect
  PROVE  ListsInv'
<1>1. PICK s : s = M!Below
  OBVIOUS
<1>2. /\ ListsTyped /\ RunInv(stack) /\ CoreInv(stack) /\ PollOK(stack)
      /\ CallsOK(stack) /\ ObjectsOK /\ ListOK
      /\ WindowOK(stack) /\ DesktopOK /\ ModesOK(stack)
  BY Parts
<1>3. PICK f : f = M!Top
  OBVIOUS
<1>4. PICK i : i = CHOOSE j \in M!Left : \A k \in M!Left : j <= k
  OBVIOUS
<1>5. PICK m : m = f.old[i]
  OBVIOUS
<1>6. PICK h : h = [f EXCEPT !.old[i] = NoMonitor]
  OBVIOUS
<1>7. PICK t : t = Append(s, h)
  OBVIOUS
<1>8. PICK u : u = Append(t, M!Frame("drop", m))
  OBVIOUS
<1>9. PICK v : v = Append(u, M!Frame("leave", m))
  OBVIOUS
<1>10. /\ M!Ending /\ M!Left # {} /\ stack' = IF full = m THEN v ELSE u
       /\ UNCHANGED <<system, displays, active, primary, handle, changes, mode, pending, list,
                      monitor, full, holds, ready, failed, cut, nested, missed, stray, back,
                      failures>>
  BY <1>1, <1>3, <1>4, <1>5, <1>6, <1>7, <1>8, <1>9
     DEF M!Disconnect, M!OnlyStack, M!desktop, M!window, M!history
<1>11. stack # <<>> /\ M!Top.fn = "poll" /\ f.a > Len(AdapterDisplays)
  BY <1>3, <1>10 DEF M!Ending, M!Running
<1>12. /\ f = stack[Len(stack)] /\ Len(stack) \in DOMAIN stack /\ f \in FrameType
       /\ f.fn = "poll" /\ OldOK(f)
  <2>1. f = stack[Len(stack)] /\ Len(stack) \in DOMAIN stack /\ f \in FrameType
    BY <1>2, <1>3, <1>11, Pop
  <2>2. QED
    BY <1>2, <1>3, <1>11, <2>1 DEF CallsOK, CallOK
<1>13. i \in DOMAIN f.old /\ f.old[i] # NoMonitor
  <2>1. DOMAIN f.old = 1..Len(f.old) /\ Len(f.old) \in Nat
    BY <1>12 DEF FrameType
  <2>2. M!Left \subseteq Nat /\ M!Left \subseteq DOMAIN f.old
    BY <1>3, <2>1 DEF M!Left
  <2>3. \E j \in M!Left : \A k \in M!Left : j <= k
    BY <1>10, <2>2, LeastNatural
  <2>4. i \in M!Left
    BY <1>4, <2>3
  <2>5. QED
    BY <1>3, <2>4 DEF M!Left
<1>14. SameObjects
  BY <1>10 DEF SameObjects
<1>15. /\ h \in FrameType /\ h.fn = "poll" /\ h.a = f.a /\ h.d = f.d /\ OldOK(h)'
       /\ m \in MonitorObject
       /\ \A n \in MonitorObject : Awaits(h, n) <=> Awaits(f, n) /\ n # m
  <2>1. OldOK(f)'
    BY <1>2, <1>12, <1>14, OldKept
  <2>2. QED
    BY <1>5, <1>6, <1>12, <1>13, <2>1, ClearedIs
<1>16. Live(m) /\ Live(m)' /\ Awaits(f, m)
  <2>1. Live(m) /\ Awaits(f, m)
    BY <1>5, <1>12, <1>13 DEF OldOK, Awaits
  <2>2. QED
    BY <1>2, <1>14, <2>1, ObjectsKept
<1>17. t \in Seq(FrameType) /\ NoLeave(t) /\ CoreInv(t)'
  BY <1>1, <1>2, <1>7, <1>10, <1>11, <1>14, <1>15, PollGoesOn
<1>18. /\ DOMAIN t = DOMAIN stack /\ t[Len(stack)] = h /\ DOMAIN stack = 1..Len(stack)
       /\ \A j \in DOMAIN stack : j # Len(stack) => t[j] = stack[j]
  BY <1>1, <1>2, <1>7, <1>11, <1>15, Swapped
<1>19. Len(t) = Len(stack) /\ Len(t) \in Nat
  BY <1>17, <1>18
<1>20. PICK d : d = M!Frame("drop", m)
  OBVIOUS
<1>21. d \in FrameType /\ d.fn = "drop" /\ d.m = m
  BY <1>15, <1>20, FrameIs
<1>22. /\ u \in Seq(FrameType) /\ Len(u) = Len(t) + 1 /\ u[Len(t) + 1] = d
       /\ DOMAIN u = 1..(Len(t) + 1) /\ DOMAIN t = 1..Len(t)
       /\ \A j \in DOMAIN t : u[j] = t[j] /\ j # Len(t) + 1
  BY <1>8, <1>17, <1>20, <1>21, Push
<1>23. NoLeave(u)
  BY <1>17, <1>21, <1>22 DEF NoLeave
<1>24. CallsOK(u)'
  <2>1. Len(t) + 1 > 1 /\ u[(Len(t) + 1) - 1] = h
    <3>1. Len(t) \in DOMAIN t /\ (Len(t) + 1) - 1 = Len(t)
      BY <1>12, <1>18, <1>19
    <3>2. QED
      BY <1>18, <1>19, <1>22, <3>1
  <2>2. CallOK(u, Len(t) + 1)'
    BY <1>15, <1>16, <1>21, <1>22, <2>1 DEF CallOK
  <2>3. QED
    BY <1>8, <1>17, <1>20, <1>21, <2>2, PushCalls DEF CoreInv
<1>25. ModesOK(u)'
  BY <1>8, <1>17, <1>20, <1>21, PushModes DEF CoreInv
<1>26. PollOK(u)'
  <2>1. \A j \in DOMAIN u : j = Len(stack) + 1 \/ j \in DOMAIN stack
    BY <1>18, <1>19, <1>22
  <2>2. /\ \A j \in DOMAIN stack : j \in DOMAIN u /\ (j # Len(stack) => u[j] = stack[j])
        /\ u[Len(stack)] = h /\ u[Len(stack) + 1] = d /\ Len(stack) + 1 \in DOMAIN u
    BY <1>12, <1>18, <1>19, <1>22
  <2>3. OnlyPoll(stack) => OnlyPoll(u)
    BY <1>12, <1>15, <1>21, <2>1, <2>2 DEF OnlyPoll
  <2>4. \A n : InList(n)' <=> InList(n)
    BY <1>10 DEF InList
  <2>5. AwaitsListed(stack) => AwaitsListed(u)'
    <3>1. SUFFICES ASSUME AwaitsListed(stack), NEW j \in DOMAIN u, NEW n \in MonitorObject,
                          u[j].fn = "poll", Awaits(u[j], n)
                   PROVE  InList(n)
      BY <2>4 DEF AwaitsListed
    <3>2. j \in DOMAIN stack /\ stack[j].fn = "poll" /\ Awaits(stack[j], n)
      BY <1>12, <1>15, <1>21, <2>1, <2>2, <3>1
    <3>3. QED
      BY <3>1, <3>2 DEF AwaitsListed
  <2>6. ASSUME NEW n \in MonitorObject
        PROVE  Met(u, n)' <=> Met(stack, n)
    <3>1. CASE n = m
      <4>1. ~Met(stack, n)
        BY <1>12, <1>16, <3>1 DEF Met
      <4>2. ~Met(u, n)'
        BY <1>21, <2>2, <3>1 DEF Met
      <4>3. QED
        BY <4>1, <4>2
    <3>2. CASE n # m
      BY <1>12, <1>15, <1>21, <2>1, <2>2, <2>4, <3>2 DEF Met
    <3>3. QED
      BY <3>1, <3>2
  <2>7. \A x \in M!Shown : AllPassed(u, x)' <=> AllPassed(stack, x)
    BY <1>12, <1>15, <1>21, <2>1, <2>2 DEF AllPassed, Passed, Place
  <2>8. \A n \in MonitorObject : (IsCurrent(n) => IsCurrent(n)')
                                 /\ \A x : M!IsFor(n, x)' <=> M!IsFor(n, x)
    BY <1>10 DEF IsCurrent, M!IsFor
  <2>9. QED
    BY <1>2, <1>10, <2>3, <2>5, <2>6, <2>7, <2>8, PollSame
<1>27. full # NoMonitor => Live(full)' /\ (back' \/ InList(full)')
  BY <1>10, <1>17 DEF CoreInv, WindowOK
<1>28. ASSUME NEW j \in DOMAIN t, t[j].fn = "drop", full' = t[j].m, ~back'
       PROVE  j < Len(t) /\ t[j + 1].fn \in {"leave", "left"}
  BY <1>17, <1>28 DEF CoreInv, WindowOK
<1>29. ASSUME full # m
       PROVE  stack' \in Seq(FrameType) /\ RunInv(stack)'
  <2>1. ASSUME NEW j \in DOMAIN u, u[j].fn = "drop", full' = u[j].m, ~back'
        PROVE  j < Len(u) /\ u[j + 1].fn \in {"leave", "left"}
    <3>1. j \in DOMAIN t
      BY <1>10, <1>21, <1>22, <1>29, <2>1
    <3>2. j < Len(t) /\ t[j + 1].fn \in {"leave", "left"}
      BY <1>22, <1>28, <2>1, <3>1
    <3>3. j + 1 \in DOMAIN t
      BY <1>19, <1>22, <3>1, <3>2
    <3>4. QED
      BY <1>19, <1>22, <3>1, <3>2, <3>3
  <2>2. WindowOK(u)'
    BY <1>10, <1>27, <2>1 DEF WindowOK
  <2>3. RunInv(u)'
    BY <1>17, <1>24, <1>25, <1>26, <2>2 DEF RunInv, CoreInv
  <2>4. stack' = u
    BY <1>10, <1>29
  <2>5. QED
    BY <1>22, <2>3, <2>4
<1>30. ASSUME full = m
       PROVE  stack' \in Seq(FrameType) /\ RunInv(stack)'
  <2>1. PICK l : l = M!Frame("leave", m)
    OBVIOUS
  <2>2. l \in FrameType /\ l.fn = "leave" /\ l.m = m
    BY <1>15, <2>1, FrameIs
  <2>3. /\ v \in Seq(FrameType) /\ Len(v) = Len(u) + 1 /\ v[Len(u) + 1] = l
        /\ DOMAIN v = 1..(Len(u) + 1) /\ DOMAIN u = 1..Len(u) /\ Len(u) \in Nat
        /\ \A j \in DOMAIN u : v[j] = u[j] /\ j # Len(u) + 1
    BY <1>9, <1>22, <2>1, <2>2, Push
  <2>4. CallsOK(v)'
    <3>1. CallOK(v, Len(u) + 1)'
      BY <1>10, <1>15, <1>30, <2>2, <2>3, NoMonitorIsNone DEF CallOK
    <3>2. QED
      BY <1>9, <1>22, <1>23, <1>24, <2>1, <2>2, <3>1, PushCalls
  <2>5. ModesOK(v)'
    BY <1>9, <1>22, <1>25, <2>1, <2>2, PushModes
  <2>6. PollOK(v)'
    BY <1>9, <1>22, <1>26, <2>1, <2>2, PushSamePolls, SamePollsOK
  <2>7. ASSUME NEW j \in DOMAIN v, v[j].fn = "drop", full' = v[j].m, ~back'
        PROVE  j < Len(v) /\ v[j + 1].fn \in {"leave", "left"}
    <3>1. j \in DOMAIN u
      BY <2>2, <2>3, <2>7
    <3>2. CASE j = Len(t) + 1
      <4>1. j = Len(u) /\ v[j + 1] = l /\ j < Len(v)
        BY <1>22, <2>3, <3>2
      <4>2. QED
        BY <2>2, <4>1
    <3>3. CASE j \in DOMAIN t
      <4>1. t[j] = v[j]
        BY <1>22, <2>3, <3>1, <3>3
      <4>2. j < Len(t) /\ t[j + 1].fn \in {"leave", "left"}
        BY <1>28, <2>7, <3>3, <4>1
      <4>3. j + 1 \in DOMAIN t /\ j + 1 \in DOMAIN u
        BY <1>19, <1>22, <3>3, <4>2
      <4>4. v[j + 1] = t[j + 1] /\ j < Len(v)
        BY <1>19, <1>22, <2>3, <4>2, <4>3
      <4>5. QED
        BY <4>2, <4>4
    <3>4. QED
      BY <1>22, <3>1, <3>2, <3>3
  <2>8. WindowOK(v)'
    BY <1>10, <1>27, <2>7 DEF WindowOK
  <2>9. RunInv(v)'
    BY <1>17, <2>4, <2>5, <2>6, <2>8 DEF RunInv, CoreInv
  <2>10. stack' = v
    BY <1>10, <1>30
  <2>11. QED
    BY <2>3, <2>9, <2>10
<1>31. stack' \in Seq(FrameType) /\ RunInv(stack)'
  BY <1>29, <1>30
<1>32. ListsTyped'
  BY <1>2, <1>10, <1>31, StillTyped DEF ListsTyped
<1>33. QED
  BY <1>31, <1>32 DEF ListsInv

Cut(s, i) == SubSeq(s, 1, i - 1) \o SubSeq(s, i + 1, Len(s))

LEMMA Removed ==
  ASSUME NEW T, NEW s \in Seq(T), NEW i \in DOMAIN s
  PROVE  /\ Cut(s, i) \in Seq(T) /\ DOMAIN Cut(s, i) = 1..(Len(s) - 1)
         /\ \A j \in 1..(Len(s) - 1) : Cut(s, i)[j] = IF j < i THEN s[j] ELSE s[j + 1]
<1>1. Len(s) \in Nat /\ DOMAIN s = 1..Len(s) /\ i \in 1..Len(s)
  OBVIOUS
<1>2. PICK a : a = SubSeq(s, 1, i - 1)
  OBVIOUS
<1>3. PICK b : b = SubSeq(s, i + 1, Len(s))
  OBVIOUS
<1>4. PICK p \in Nat : p = i - 1
  BY <1>1
<1>5. PICK q \in Nat : q = Len(s) - i
  BY <1>1
<1>6. i = p + 1 /\ Len(s) = p + q + 1
  BY <1>1, <1>4, <1>5
<1>7. a \in Seq(T) /\ Len(a) = p /\ \A j \in 1..p : a[j] = s[j]
  BY <1>1, <1>2, <1>4
<1>8. b \in Seq(T) /\ Len(b) = q /\ \A j \in 1..q : b[j] = s[i + j]
  BY <1>1, <1>3, <1>5
<1>9. ASSUME NEW l, l = a \o b
      PROVE  /\ l \in Seq(T) /\ DOMAIN l = 1..(Len(s) - 1)
             /\ \A j \in 1..(Len(s) - 1) : l[j] = IF j < i THEN s[j] ELSE s[j + 1]
  <2>1. /\ l \in Seq(T) /\ Len(l) = Len(a) + Len(b)
        /\ \A j \in 1..(Len(a) + Len(b)) :
             l[j] = IF j <= Len(a) THEN a[j] ELSE b[j - Len(a)]
    <3>1. a \in Seq(T) /\ b \in Seq(T)
      BY <1>7, <1>8
    <3>2. l \in Seq(T) /\ Len(l) = Len(a) + Len(b)
      BY <1>9, <3>1
    <3>3. \A j \in 1..(Len(a) + Len(b)) :
            l[j] = IF j <= Len(a) THEN a[j] ELSE b[j - Len(a)]
      BY <1>9, <3>1
    <3>4. QED
      BY <3>2, <3>3
  <2>2. l \in Seq(T) /\ DOMAIN l = 1..(p + q) /\ p + q = Len(s) - 1
    BY <1>6, <1>7, <1>8, <2>1
  <2>3. \A j \in 1..(p + q) : l[j] = IF j <= p THEN a[j] ELSE b[j - p]
    BY <1>7, <1>8, <2>1
  <2>4. ASSUME NEW j \in 1..(p + q)
        PROVE  l[j] = IF j < i THEN s[j] ELSE s[j + 1]
    <3>1. CASE j <= p
      <4>1. a[j] = s[j] /\ j < i
        BY <1>6, <1>7, <3>1
      <4>2. QED
        BY <2>3, <3>1, <4>1
    <3>2. CASE ~(j <= p)
      <4>1. PICK k \in 1..q : k = j - p
        BY <3>2
      <4>2. b[k] = s[i + k] /\ i + k = j + 1 /\ ~(j < i)
        BY <1>6, <1>8, <3>2, <4>1
      <4>3. QED
        BY <2>3, <3>2, <4>1, <4>2
    <3>3. QED
      BY <3>1, <3>2
  <2>5. QED
    BY <2>2, <2>4
<1>10. Cut(s, i) = a \o b
  BY <1>2, <1>3 DEF Cut
<1>11. PICK l : l = Cut(s, i)
  OBVIOUS
<1>12. QED
  BY <1>9, <1>10, <1>11

LEMMA WithoutIs ==
  ASSUME ListsTyped, ListOK, NEW m, NEW l, l = M!Without(m)
  PROVE  /\ l \in Seq(MonitorObject)
         /\ \A n : (\E j \in DOMAIN l : l[j] = n) <=> InList(n) /\ n # m
         /\ \A j, k \in DOMAIN l : l[j] = l[k] => j = k
<1>1. /\ list \in Seq(MonitorObject) /\ Len(list) \in Nat /\ DOMAIN list = 1..Len(list)
      /\ \A i, j \in DOMAIN list : list[i] = list[j] => i = j
  BY DEF ListsTyped, ListOK
<1>2. CASE \A i \in DOMAIN list : list[i] # m
  <2>1. l = list
    BY <1>2 DEF M!Without
  <2>2. QED
    BY <1>1, <1>2, <2>1 DEF InList
<1>3. CASE ~\A i \in DOMAIN list : list[i] # m
  <2>1. PICK i : i = CHOOSE j \in DOMAIN list :
                       list[j] = m /\ \A k \in 1..(j - 1) : list[k] # m
    OBVIOUS
  <2>2. l = Cut(list, i)
    BY <1>3, <2>1, Zenon DEF M!Without, Cut
  <2>3. \E j \in DOMAIN list : list[j] = m /\ \A k \in 1..(j - 1) : list[k] # m
    <3>1. PICK j \in DOMAIN list : list[j] = m
      BY <1>3
    <3>2. \A k \in 1..(j - 1) : k \in DOMAIN list /\ k # j
      BY <1>1
    <3>3. QED
      BY <1>1, <3>1, <3>2
  <2>4. i \in DOMAIN list /\ list[i] = m
    BY <2>1, <2>3
  <2>5. /\ l \in Seq(MonitorObject) /\ DOMAIN l = 1..(Len(list) - 1)
        /\ \A j \in 1..(Len(list) - 1) : l[j] = IF j < i THEN list[j] ELSE list[j + 1]
    BY <1>1, <2>2, <2>4, Removed
  <2>6. ASSUME NEW n
        PROVE  (\E j \in DOMAIN l : l[j] = n) <=> InList(n) /\ n # m
    <3>1. ASSUME NEW j \in DOMAIN l, l[j] = n
          PROVE  InList(n) /\ n # m
      <4>1. CASE j < i
        <5>1. j \in DOMAIN list /\ list[j] = n /\ j # i
          BY <1>1, <2>4, <2>5, <3>1, <4>1
        <5>2. QED
          BY <1>1, <2>4, <5>1 DEF InList
      <4>2. CASE ~(j < i)
        <5>1. j + 1 \in DOMAIN list /\ list[j + 1] = n /\ j + 1 # i
          BY <1>1, <2>4, <2>5, <3>1, <4>2
        <5>2. QED
          BY <1>1, <2>4, <5>1 DEF InList
      <4>3. QED
        BY <4>1, <4>2
    <3>2. ASSUME InList(n), n # m
          PROVE  \E j \in DOMAIN l : l[j] = n
      <4>1. PICK k \in DOMAIN list : list[k] = n
        BY <3>2 DEF InList
      <4>2. CASE k < i
        <5>1. k \in DOMAIN l /\ l[k] = n
          BY <1>1, <2>4, <2>5, <4>1, <4>2
        <5>2. QED
          BY <5>1
      <4>3. CASE k > i
        <5>1. k - 1 \in 1..(Len(list) - 1) /\ ~(k - 1 < i) /\ (k - 1) + 1 = k
          BY <1>1, <2>4, <4>1, <4>3
        <5>2. l[k - 1] = n
          BY <2>5, <4>1, <5>1
        <5>3. QED
          BY <2>5, <5>1, <5>2
      <4>4. k # i
        BY <2>4, <3>2, <4>1
      <4>5. QED
        BY <1>1, <2>4, <4>1, <4>2, <4>3, <4>4
    <3>3. QED
      BY <3>1, <3>2
  <2>7. ASSUME NEW j \in DOMAIN l, NEW k \in DOMAIN l, l[j] = l[k]
        PROVE  j = k
    <3>1. /\ j \in DOMAIN list /\ j + 1 \in DOMAIN list /\ j \in Nat
          /\ k \in DOMAIN list /\ k + 1 \in DOMAIN list /\ k \in Nat
      BY <1>1, <2>5
    <3>2. /\ l[j] = IF j < i THEN list[j] ELSE list[j + 1]
          /\ l[k] = IF k < i THEN list[k] ELSE list[k + 1]
      BY <2>5
    <3>3. PICK p \in DOMAIN list : p = IF j < i THEN j ELSE j + 1
      BY <3>1
    <3>4. PICK q \in DOMAIN list : q = IF k < i THEN k ELSE k + 1
      BY <3>1
    <3>5. list[p] = list[q]
      BY <2>7, <3>2, <3>3, <3>4
    <3>6. p = q
      BY <1>1, <3>5
    <3>7. i \in Nat
      BY <1>1, <2>4
    <3>8. QED
      BY <3>1, <3>3, <3>4, <3>6, <3>7
  <2>8. QED
    BY <2>5, <2>6, <2>7
<1>4. QED
  BY <1>2, <1>3

LEMMA DropKeeps ==
  ASSUME ListsInv, ~failed, M!Drop
  PROVE  ListsInv'
<1>1. PICK s : s = M!Below
  OBVIOUS
<1>2. /\ ListsTyped /\ RunInv(stack) /\ CoreInv(stack) /\ PollOK(stack)
      /\ CallsOK(stack) /\ ObjectsOK /\ ListOK
      /\ WindowOK(stack) /\ DesktopOK /\ ModesOK(stack)
  BY Parts
<1>3. PICK f : f = M!Top
  OBVIOUS
<1>4. PICK m : m = f.m
  OBVIOUS
<1>5. PICK g : g = M!Frame("free", m)
  OBVIOUS
<1>6. PICK t : t = Append(s, g)
  OBVIOUS
<1>7. PICK l : l = M!Without(m)
  OBVIOUS
<1>8. /\ stack # <<>> /\ f.fn = "drop" /\ list' = l /\ M!Tell(t)
      /\ UNCHANGED <<system, displays, active, primary, handle, changes, mode, pending,
                     monitor, full, holds, ready, failed, cut, nested, missed, stray, back,
                     failures>>
  BY <1>1, <1>3, <1>4, <1>5, <1>6, <1>7
     DEF M!Drop, M!Running, M!desktop, M!window, M!history
<1>9. /\ Prefix(s) /\ NoLeave(s) /\ Len(s) + 1 = Len(stack) /\ s \in Seq(FrameType)
      /\ f = stack[Len(stack)] /\ f \in FrameType /\ Len(stack) \in DOMAIN stack
      /\ DOMAIN stack = 1..Len(stack) /\ DOMAIN s = 1..Len(s) /\ Len(s) \in Nat
      /\ \A i \in DOMAIN s : s[i] = stack[i]
  BY <1>1, <1>2, <1>3, <1>8, BelowIs DEF Prefix
<1>10. /\ Live(m) /\ m \in MonitorObject
       /\ Len(stack) > 1 /\ stack[Len(stack) - 1].fn = "poll"
       /\ ~Awaits(stack[Len(stack) - 1], m)
  BY <1>2, <1>4, <1>8, <1>9 DEF CallsOK, CallOK, Live
<1>11. \A i \in DOMAIN stack : i > Len(s) => stack[i].fn = "drop"
  BY <1>8, <1>9
<1>12. /\ l \in Seq(MonitorObject) /\ \A n : InList(n)' <=> InList(n) /\ n # m
       /\ \A j, k \in DOMAIN l : l[j] = l[k] => j = k
  <2>1. /\ l \in Seq(MonitorObject)
        /\ \A n : (\E j \in DOMAIN l : l[j] = n) <=> InList(n) /\ n # m
        /\ \A j, k \in DOMAIN l : l[j] = l[k] => j = k
    BY <1>2, <1>7, WithoutIs
  <2>2. \A n : InList(n)' <=> \E j \in DOMAIN l : l[j] = n
    BY <1>8 DEF InList
  <2>3. QED
    BY <2>1, <2>2
<1>13. \A n : Live(n)' <=> Live(n)
  BY <1>8 DEF Live, M!Connector, M!Display, M!Adapter
<1>14. ListOK'
  <2>1. \A j \in DOMAIN l : InList(l[j])'
    BY <1>8 DEF InList
  <2>2. \A n : InList(n) => Live(n)
    BY <1>2 DEF InList, ListOK
  <2>3. \A j \in DOMAIN l : Live(l[j])'
    BY <1>12, <1>13, <2>1, <2>2
  <2>4. QED
    BY <1>8, <1>12, <2>3 DEF ListOK
<1>15. ObjectsOK'
  BY <1>2, <1>8, <1>13 DEF ObjectsOK, M!Gone
<1>16. g \in FrameType /\ g.fn = "free" /\ g.m = m
  BY <1>5, <1>10, FrameIs
<1>17. /\ t \in Seq(FrameType) /\ DOMAIN t = 1..(Len(s) + 1) /\ t[Len(s) + 1] = g
       /\ \A j \in DOMAIN s : t[j] = s[j] /\ j # Len(s) + 1
  BY <1>6, <1>9, <1>16, Push
<1>18. NoLeave(t)
  BY <1>9, <1>16, <1>17 DEF NoLeave
<1>19. CallsOK(t)'
  <2>1. \A i \in DOMAIN s : \A n : Uses(s[i], n) => Live(n)' /\ (~InList(n) => ~InList(n)')
    BY <1>12, <1>13 DEF Uses
  <2>2. CallsOK(s)'
    BY <1>2, <1>8, <1>9, <2>1, CallsLive
  <2>3. Len(s) \in DOMAIN s /\ Len(s) = Len(stack) - 1 /\ (Len(s) + 1) - 1 = Len(s)
    BY <1>9, <1>10
  <2>4. t[(Len(s) + 1) - 1] = stack[Len(stack) - 1] /\ Len(s) + 1 > 1
    BY <1>9, <1>10, <1>17, <2>3
  <2>5. CallOK(t, Len(s) + 1)'
    BY <1>10, <1>12, <1>13, <1>16, <1>17, <2>4 DEF CallOK
  <2>6. QED
    BY <1>6, <1>9, <1>16, <2>2, <2>5, PushCalls
<1>20. WindowOK(t)'
  <2>1. full # NoMonitor => Live(full)' /\ (back \/ InList(full)')
    <3>1. full # NoMonitor => Live(full) /\ (back \/ InList(full))
      BY <1>2 DEF WindowOK
    <3>2. full = m => back
      BY <1>2, <1>4, <1>8, <1>9 DEF WindowOK
    <3>3. PICK k : k = full /\ k = full'
      BY <1>8
    <3>4. k # NoMonitor => Live(k)' /\ (back \/ InList(k)')
      BY <1>12, <1>13, <3>1, <3>2, <3>3
    <3>5. QED
      BY <3>3, <3>4 DEF Live, InList
  <2>2. WindowOK(s)'
    BY <1>2, <1>8, <1>9, <1>11, <2>1, DropsKept
  <2>3. QED
    BY <1>6, <1>9, <1>16, <2>2, PushWindow
<1>21. ModesOK(t)'
  <2>1. ModesOK(s)'
    BY <1>2, <1>8, <1>9, <1>11, ModesKept
  <2>2. QED
    BY <1>6, <1>9, <1>16, <2>1, PushModes
<1>22. DesktopOK'
  BY <1>2, <1>8, DesktopKept
<1>23. PollOK(t)'
  <2>1. /\ \A j \in DOMAIN t : t[j].fn \in {"poll", "drop"} =>
             j \in DOMAIN stack /\ t[j] = stack[j] /\ j # Len(stack)
        /\ \A j \in DOMAIN stack : j = Len(stack) \/ (j \in DOMAIN t /\ t[j] = stack[j])
    BY <1>9, <1>16, <1>17
  <2>2. OnlyPoll(stack) => OnlyPoll(t)
    BY <2>1 DEF OnlyPoll
  <2>3. ASSUME OnlyPoll(stack), AwaitsListed(stack)
        PROVE  AwaitsListed(t)'
    <3>1. SUFFICES ASSUME NEW j \in DOMAIN t, NEW n \in MonitorObject,
                          t[j].fn = "poll", Awaits(t[j], n)
                   PROVE  InList(n) /\ n # m
      BY <1>12 DEF AwaitsListed
    <3>2. j \in DOMAIN stack /\ stack[j].fn = "poll" /\ Awaits(stack[j], n)
      BY <2>1, <3>1
    <3>3. j = Len(stack) - 1
      <4>1. Len(stack) - 1 \in DOMAIN stack
        BY <1>9, <1>10
      <4>2. QED
        BY <1>10, <2>3, <3>2, <4>1 DEF OnlyPoll
    <3>4. QED
      BY <1>10, <2>3, <3>2, <3>3 DEF AwaitsListed
  <2>4. ASSUME NEW n \in MonitorObject
        PROVE  Met(t, n)' <=> Met(stack, n)
    <3>1. CASE n = m
      <4>1. ~Met(stack, n)
        BY <1>4, <1>8, <1>9, <3>1 DEF Met
      <4>2. ~Met(t, n)'
        BY <1>12, <3>1 DEF Met
      <4>3. QED
        BY <4>1, <4>2
    <3>2. CASE n # m
      <4>1. Met(t, n)' => Met(stack, n)
        BY <1>4, <1>8, <1>9, <1>12, <2>1, <3>2 DEF Met
      <4>2. Met(stack, n) => Met(t, n)'
        BY <1>12, <2>1, <3>2 DEF Met
      <4>3. QED
        BY <4>1, <4>2
    <3>3. QED
      BY <3>1, <3>2
  <2>5. \A x \in M!Shown : AllPassed(t, x)' <=> AllPassed(stack, x)
    BY <1>8, <1>9, <2>1 DEF AllPassed, Passed, Place
  <2>6. \A n \in MonitorObject : (IsCurrent(n) => IsCurrent(n)')
                                 /\ \A x : M!IsFor(n, x)' <=> M!IsFor(n, x)
    BY <1>8 DEF IsCurrent, M!IsFor
  <2>7. QED
    BY <1>2, <1>8, <2>2, <2>3, <2>4, <2>5, <2>6, PollSame
<1>24. RunInv(t)'
  BY <1>14, <1>15, <1>19, <1>20, <1>21, <1>22, <1>23 DEF RunInv, CoreInv
<1>25. stack' \in Seq(FrameType) /\ RunInv(stack)'
  BY <1>8, <1>17, <1>18, <1>24, AfterTell
<1>26. ListsTyped'
  BY <1>2, <1>8, <1>12, <1>25, StillTyped DEF ListsTyped
<1>27. QED
  BY <1>25, <1>26 DEF ListsInv

LEMMA GoneIs == M!Gone \in MonitorType
BY DEF M!Gone, MonitorType

LEMMA NotInUse ==
  ASSUME NEW s \in Seq(FrameType), NEW m, m \notin M!InUse(s)
  PROVE  \A i \in DOMAIN s : s[i].fn \in {"poll", "left", "acquire", "drop", "free"} =>
           s[i].m # m /\ ~Awaits(s[i], m)
<1>1. TAKE i \in DOMAIN s
<1>2. HAVE s[i].fn \in {"poll", "left", "acquire", "drop", "free"}
<1>3. \A n \in {s[i].m} \union {s[i].old[j] : j \in DOMAIN s[i].old} : n \in M!InUse(s)
  BY <1>1, <1>2 DEF M!InUse
<1>4. QED
  BY <1>3 DEF Awaits

LEMMA FreeMonitorKeeps ==
  ASSUME ListsInv, ~failed, M!FreeMonitor
  PROVE  ListsInv'
<1>1. PICK s : s = M!Below
  OBVIOUS
<1>2. /\ ListsTyped /\ RunInv(stack) /\ CoreInv(stack) /\ PollOK(stack)
      /\ CallsOK(stack) /\ ObjectsOK /\ ListOK
      /\ WindowOK(stack) /\ DesktopOK /\ ModesOK(stack)
  BY Parts
<1>3. PICK f : f = M!Top
  OBVIOUS
<1>4. PICK m : m = f.m
  OBVIOUS
<1>5. /\ stack # <<>> /\ f.fn = "free" /\ stack' = s
      /\ monitor' = [monitor EXCEPT ![m] = M!Gone] /\ missed' = missed \ {m}
      /\ failed' = (m \in M!InUse(s) \union {full})
      /\ UNCHANGED <<system, displays, active, primary, handle, changes, mode, pending,
                     list, full, holds, ready, cut, nested, stray, back, failures>>
  BY <1>1, <1>3, <1>4 DEF M!FreeMonitor, M!Running, M!desktop, M!window
<1>6. /\ Prefix(s) /\ NoLeave(s) /\ Len(s) + 1 = Len(stack) /\ s \in Seq(FrameType)
      /\ f = stack[Len(stack)] /\ f \in FrameType /\ Len(stack) \in DOMAIN stack
      /\ DOMAIN stack = 1..Len(stack) /\ DOMAIN s = 1..Len(s) /\ Len(s) \in Nat
      /\ \A i \in DOMAIN s : s[i] = stack[i]
  BY <1>1, <1>2, <1>3, <1>5, BelowIs DEF Prefix
<1>7. Live(m) /\ m \in MonitorObject /\ ~InList(m)
  BY <1>2, <1>4, <1>5, <1>6 DEF CallsOK, CallOK, Live
<1>8. \A i \in DOMAIN stack : i > Len(s) => stack[i].fn = "free"
  BY <1>5, <1>6
<1>9. /\ monitor' \in [MonitorObject -> MonitorType] /\ monitor'[m] = M!Gone
      /\ \A n \in MonitorObject \ {m} : monitor'[n] = monitor[n]
  BY <1>2, <1>5, <1>7, GoneIs DEF ListsTyped
<1>10. UNCHANGED <<M!Adapter, M!Display, M!Connector>>
  BY DEF M!Adapter, M!Display, M!Connector
<1>11. \A n : Live(n)' <=> Live(n) /\ n # m
  <2>1. M!Gone.output \notin M!Connector
    BY Connectors DEF M!Gone
  <2>2. QED
    BY <1>7, <1>9, <1>10, <2>1 DEF Live
<1>12. \A n : InList(n)' <=> InList(n)
  BY <1>5 DEF InList
<1>13. ASSUME ~failed'  PROVE RunInv(s)'
  <2>1. /\ full # m
        /\ \A i \in DOMAIN s : s[i].fn \in {"poll", "left", "acquire", "drop", "free"} =>
             s[i].m # m /\ ~Awaits(s[i], m)
    BY <1>5, <1>6, <1>13, NotInUse
  <2>2. ListOK'
    <3>2. PICK l : l = list
      OBVIOUS
    <3>3. \A i \in DOMAIN l : Live(l[i])'
      BY <1>2, <1>7, <1>11, <3>2 DEF ListOK, InList
    <3>4. QED
      BY <1>2, <1>5, <3>2, <3>3 DEF ListOK
  <2>3. ObjectsOK'
    <3>1. ASSUME NEW n \in MonitorObject
          PROVE  /\ Live(n)' \/ monitor'[n] = M!Gone
                 /\ Live(n)' /\ system' = "cocoa" => monitor'[n].output[2] = 1
                 /\ Live(n)' /\ system' = "win32" => monitor'[n].screen
      BY <1>2, <1>5, <1>9, <1>11 DEF ObjectsOK
    <3>2. QED
      BY <3>1 DEF ObjectsOK, M!Gone
  <2>4. CallsOK(s)'
    <3>1. \A i \in DOMAIN s : \A n : Uses(s[i], n) => Live(n)' /\ (~InList(n) => ~InList(n)')
      BY <1>11, <1>12, <2>1 DEF Uses
    <3>2. QED
      BY <1>2, <1>5, <1>6, <3>1, CallsLive
  <2>5. WindowOK(s)'
    <3>1. PICK k : k = full /\ k = full'
      BY <1>5
    <3>2. k # NoMonitor => Live(k)' /\ (back \/ InList(k)')
      BY <1>2, <1>11, <1>12, <2>1, <3>1 DEF WindowOK
    <3>3. full # NoMonitor => Live(full)' /\ (back \/ InList(full)')
      BY <3>1, <3>2 DEF Live, InList
    <3>4. QED
      BY <1>2, <1>5, <1>6, <1>8, <3>3, DropsKept
  <2>6. ModesOK(s)'
    <3>1. \A i \in DOMAIN stack : stack[i].fn = "acquire" => stack[i].m # m
      BY <1>5, <1>6, <1>8, <2>1
    <3>2. QED
      BY <1>2, <1>5, <1>6, <1>8, <1>9, <2>1, <3>1, ModesOfOthers
  <2>7. DesktopOK'
    BY <1>2, <1>5, DesktopKept
  <2>8. PollOK(s)'
    <3>1. /\ \A j \in DOMAIN s : j \in DOMAIN stack /\ s[j] = stack[j]
          /\ \A j \in DOMAIN stack : stack[j].fn \in {"poll", "drop"} =>
               j \in DOMAIN s /\ s[j] = stack[j]
      BY <1>5, <1>6
    <3>2. OnlyPoll(stack) => OnlyPoll(s)
      BY <3>1 DEF OnlyPoll
    <3>3. AwaitsListed(stack) => AwaitsListed(s)'
      BY <1>12, <3>1 DEF AwaitsListed
    <3>4. \A n \in MonitorObject : Met(s, n)' <=> Met(stack, n)
      BY <1>12, <3>1 DEF Met
    <3>5. \A x \in M!Shown : AllPassed(s, x)' <=> AllPassed(stack, x)
      BY <3>1 DEF AllPassed, Passed, Place
    <3>6. ASSUME NEW n \in MonitorObject, Met(stack, n)
          PROVE  (IsCurrent(n) => IsCurrent(n)') /\ \A x : M!IsFor(n, x)' <=> M!IsFor(n, x)
      <4>1. n # m
        BY <1>7, <3>6 DEF Met
      <4>2. monitor'[n] = monitor[n]
        BY <1>9, <4>1
      <4>3. QED
        BY <1>5, <4>1, <4>2 DEF IsCurrent, M!IsFor
    <3>7. QED
      BY <1>2, <1>5, <3>2, <3>3, <3>4, <3>5, <3>6, PollSame
  <2>9. QED
    BY <2>2, <2>3, <2>4, <2>5, <2>6, <2>7, <2>8 DEF RunInv, CoreInv
<1>14. ~failed' => RunInv(stack)'
  BY <1>5, <1>13
<1>15. failed' \in BOOLEAN /\ missed' \subseteq MonitorObject
  BY <1>2, <1>5 DEF ListsTyped
<1>16. ListsTyped'
  BY <1>2, <1>5, <1>6, <1>9, <1>15, StillTyped DEF ListsTyped
<1>17. QED
  BY <1>14, <1>16 DEF ListsInv

LEMMA EndPollKeeps ==
  ASSUME ListsInv, ~failed, M!EndPoll
  PROVE  ListsInv'
<1>1. PICK s : s = M!Below
  OBVIOUS
<1>2. /\ ListsTyped /\ RunInv(stack) /\ CoreInv(stack) /\ PollOK(stack)
      /\ CallsOK(stack) /\ ObjectsOK /\ ListOK
      /\ WindowOK(stack) /\ DesktopOK /\ ModesOK(stack)
  BY Parts
<1>3. PICK f : f = M!Top
  OBVIOUS
<1>4. /\ stack # <<>> /\ f.fn = "poll" /\ f.a > Len(AdapterDisplays) /\ M!Left = {}
      /\ stack' = s /\ ready' = TRUE
      /\ UNCHANGED <<system, displays, active, primary, handle, changes, mode, pending, list,
                     monitor, full, holds, failed, cut, nested, missed, stray, back,
                     failures>>
  BY <1>1, <1>3
     DEF M!EndPoll, M!Ending, M!Running, M!desktop, M!window, M!history
<1>5. /\ Prefix(s) /\ NoLeave(s) /\ Len(s) + 1 = Len(stack) /\ s \in Seq(FrameType)
      /\ f = stack[Len(stack)] /\ f \in FrameType /\ Len(stack) \in DOMAIN stack
      /\ DOMAIN stack = 1..Len(stack) /\ DOMAIN s = 1..Len(s) /\ Len(s) \in Nat
      /\ \A i \in DOMAIN s : s[i] = stack[i]
  BY <1>1, <1>2, <1>3, <1>4, BelowIs DEF Prefix
<1>6. \A i \in DOMAIN stack : i > Len(s) => stack[i].fn = "poll"
  BY <1>4, <1>5
<1>7. SameObjects
  BY <1>4 DEF SameObjects
<1>8. ObjectsOK' /\ ListOK'
  BY <1>2, <1>7, ObjectsKept
<1>9. CallsOK(s)'
  BY <1>2, <1>5, <1>7, CallsKept
<1>10. WindowOK(s)'
  BY <1>2, <1>4, <1>5, <1>6, <1>7, WindowKept
<1>11. ModesOK(s)'
  BY <1>2, <1>4, <1>5, <1>6, ModesKept
<1>12. DesktopOK'
  BY <1>2, <1>4, DesktopKept
<1>13. PollOK(s)'
  <2>1. \A n \in MonitorObject : ~Awaits(f, n)
    BY <1>3, <1>4, NoMonitorIsNone DEF Awaits, M!Left
  <2>2. f.a # 0 /\ f.a \in Nat
    BY <1>4, <1>5, Adapters DEF FrameType
  <2>3. \A x \in M!Shown : Passed(f, x)
    <3>1. \A x \in M!Shown : x[1] \in 1..Len(AdapterDisplays)
      BY Adapters, ShownIs
    <3>2. QED
      BY <1>4, <2>2, <3>1, Adapters DEF Passed
  <2>4. /\ \A j \in DOMAIN s : j \in DOMAIN stack /\ s[j] = stack[j]
        /\ \A j \in DOMAIN stack : j = Len(stack) \/ (j \in DOMAIN s /\ s[j] = stack[j])
    BY <1>5
  <2>5. OnlyPoll(stack) => OnlyPoll(s)
    BY <2>4 DEF OnlyPoll
  <2>6. \A n : InList(n)' <=> InList(n)
    BY <1>4 DEF InList
  <2>7. AwaitsListed(stack) => AwaitsListed(s)'
    BY <2>4, <2>6 DEF AwaitsListed
  <2>8. \A n \in MonitorObject : Met(s, n)' <=> Met(stack, n)
    BY <1>4, <1>5, <2>1, <2>2, <2>4, <2>6 DEF Met
  <2>9. \A x \in M!Shown : AllPassed(s, x)' <=> AllPassed(stack, x)
    <3>1. \A x \in M!Shown : AllPassed(s, x) <=> AllPassed(stack, x)
      BY <1>4, <1>5, <2>3, <2>4 DEF AllPassed
    <3>2. \A x : AllPassed(s, x)' <=> AllPassed(s, x)
      BY DEF AllPassed, Passed, Place
    <3>3. QED
      BY <3>1, <3>2
  <2>10. \A n \in MonitorObject : (IsCurrent(n) => IsCurrent(n)')
                                  /\ \A x : M!IsFor(n, x)' <=> M!IsFor(n, x)
    BY <1>4 DEF IsCurrent, M!IsFor
  <2>11. QED
    BY <1>2, <1>4, <2>5, <2>7, <2>8, <2>9, <2>10, PollSame
<1>14. RunInv(stack)'
  BY <1>4, <1>8, <1>9, <1>10, <1>11, <1>12, <1>13 DEF RunInv, CoreInv
<1>15. ListsTyped'
  BY <1>2, <1>4, <1>5, StillTyped DEF ListsTyped
<1>16. QED
  BY <1>14, <1>15 DEF ListsInv

-----------------------------------------------------------------------------
(* The whole *)

\* Monitors that are not in use are as they were made, also when a call has failed.
UsedOrGone == \A m \in MonitorObject : Live(m) \/ monitor[m] = M!Gone

LEMMA ListsStart ==
  ASSUME M!Init
  PROVE  ListsInv /\ UsedOrGone
<1>1. /\ system \in System /\ displays \in [M!Display -> {"none", "on"}]
      /\ active = M!Adapter /\ primary = 1 /\ handle = [a \in M!Adapter |-> 0]
      /\ mode = [a \in M!Adapter |-> "desktop"] /\ pending = FALSE
      /\ monitor = [m \in MonitorObject |-> M!Gone] /\ list = <<>>
      /\ full = NoMonitor /\ holds = FALSE /\ ready = FALSE
      /\ stack = <<M!Frame("poll", NoMonitor)>>
      /\ failed = FALSE /\ cut = FALSE /\ nested = FALSE /\ missed = {}
      /\ stray = FALSE /\ back = FALSE /\ changes = 0 /\ failures = 0
      /\ system = "cocoa" => \A x \in M!Display : x[2] > 1 => displays[x] = "none"
  BY DEF M!Init
<1>2. MaxChanges \in Nat /\ MaxFailures \in Nat
  BY ListsAssumption DEF M!MonitorListsAssumption
<1>3. PICK f : f = M!Frame("poll", NoMonitor)
  OBVIOUS
<1>4. f \in FrameType /\ f.fn = "poll" /\ f.a = 0 /\ f.old = <<>> /\ f.d = 1
  BY <1>3, FrameIs
<1>5. /\ stack = <<f>> /\ stack \in Seq(FrameType) /\ Len(stack) = 1 /\ DOMAIN stack = {1}
      /\ stack[1] = f
  BY <1>1, <1>3, <1>4
<1>6. 1 \in M!Adapter
  BY Adapters
<1>7. displays \in [M!Display -> {"none", "idle", "on"}]
  BY <1>1
<1>8. monitor \in [MonitorObject -> MonitorType]
  BY <1>1, GoneIs
<1>9. handle \in [M!Adapter -> 0..MaxChanges] /\ mode \in [M!Adapter -> {"desktop", "game"}]
  BY <1>1, <1>2
<1>10. ListsTyped
  <2>1. /\ pending \in BOOLEAN /\ holds \in BOOLEAN /\ ready \in BOOLEAN
        /\ failed \in BOOLEAN /\ cut \in BOOLEAN /\ nested \in BOOLEAN
        /\ stray \in BOOLEAN /\ back \in BOOLEAN
    BY Zenon, <1>1
  <2>2. /\ list \in Seq(MonitorObject) /\ full \in MonitorObject \union {NoMonitor}
        /\ missed \subseteq MonitorObject
    BY <1>1
  <2>3. changes \in 0..MaxChanges /\ failures \in 0..MaxFailures
    BY <1>1, <1>2
  <2>4. system \in System /\ active \subseteq M!Adapter /\ primary \in M!Adapter
    BY <1>1, <1>6
  <2>5. QED
    BY Zenon, <1>5, <1>7, <1>8, <1>9, <2>1, <2>2, <2>3, <2>4 DEF ListsTyped
<1>11. UsedOrGone
  BY <1>1 DEF UsedOrGone
<1>12. \A m : ~Live(m) /\ ~InList(m)
  <2>1. \A m : ~InList(m)
    BY <1>1 DEF InList
  <2>2. \A m \in MonitorObject : monitor[m] = M!Gone
    BY <1>1
  <2>3. QED
    BY <2>1, <2>2, LiveIsUsed DEF Live
<1>13. ObjectsOK /\ ListOK
  <2>1. ObjectsOK
    BY <1>11, <1>12 DEF ObjectsOK, UsedOrGone
  <2>2. ListOK
    BY <1>1 DEF ListOK
  <2>3. QED
    BY <2>1, <2>2
<1>14. CallsOK(stack)
  <2>1. DOMAIN f.old = {} /\ f.a \notin M!Adapter
    BY <1>4, Adapters
  <2>2. OldOK(f)
    BY <1>4, <2>1, Adapters DEF OldOK
  <2>3. QED
    BY <1>4, <1>5, <2>2 DEF CallsOK, CallOK
<1>15. WindowOK(stack)
  BY <1>1, <1>4, <1>5 DEF WindowOK
<1>16. DesktopOK
  <2>1. \A a \in M!Adapter : handle[a] <= changes /\ mode[a] # "game"
    BY <1>1
  <2>2. QED
    BY <1>1, <2>1 DEF DesktopOK
<1>17. ModesOK(stack)
  BY <1>1, <1>4, <1>5 DEF ModesOK
<1>18. PollOK(stack)
  <2>1. \A m : ~Met(stack, m)
    BY <1>12 DEF Met
  <2>2. \A x : ~AllPassed(stack, x)
    BY <1>4, <1>5 DEF AllPassed, Passed
  <2>3. OnlyPoll(stack) /\ AwaitsListed(stack)
    BY <1>4, <1>5 DEF OnlyPoll, AwaitsListed, Awaits
  <2>4. QED
    BY <2>1, <2>2, <2>3 DEF PollOK, MetIsShown, MetOnce, PassedIsMet
<1>19. QED
  BY <1>10, <1>11, <1>13, <1>14, <1>15, <1>16, <1>17, <1>18 DEF ListsInv, RunInv, CoreInv

LEMMA ListsStep ==
  ASSUME ListsInv, M!Next
  PROVE  ListsInv'
<1>1. ~failed
  BY DEF M!Next, M!Polling, M!FullScreen, M!Change, M!HandleChange, M!StartPoll,
         M!PassDisplay, M!MeetKnown, M!MeetNew, M!MeetNameless, M!Disconnect, M!Drop,
         M!FreeMonitor, M!EndPoll, M!SetWindowMonitor, M!LeaveFullScreen, M!Acquire, M!Set,
         M!Leave, M!HasLeft, M!CallbackReturns, M!Idle, M!AppRuns, M!Running,
         M!Enumerating, M!Ending
<1>2. CASE M!Polling
  BY <1>1, <1>2, StartPollKeeps, PassDisplayKeeps, MeetKnownKeeps, MeetNewKeeps,
     MeetNamelessKeeps, DisconnectKeeps, DropKeeps, FreeMonitorKeeps, EndPollKeeps
     DEF M!Polling
<1>3. CASE M!FullScreen
  BY <1>1, <1>3, SetWindowMonitorKeeps, LeaveFullScreenKeeps, AcquireKeeps, SetKeeps,
     LeaveCocoaKeeps, LeaveWin32Keeps, HasLeftKeeps DEF M!FullScreen
<1>4. QED
  BY <1>1, <1>2, <1>3, ChangeKeeps, HandleChangeKeeps, CallbackReturnsKeeps DEF M!Next

LEMMA OnlyTheseFail ==
  ASSUME M!Next
  PROVE  ~failed' \/ M!Acquire \/ M!FreeMonitor
<1>1. CASE M!Polling
  <2>1. M!StartPoll => ~failed'
    BY DEF M!StartPoll, M!Running
  <2>2. M!PassDisplay => ~failed'
    BY DEF M!PassDisplay, M!Enumerating, M!Running, M!OnlyStack
  <2>3. M!MeetKnown => ~failed'
    BY DEF M!MeetKnown, M!Enumerating, M!Running
  <2>4. M!MeetNew => ~failed'
    BY DEF M!MeetNew, M!Enumerating, M!Running
  <2>5. M!MeetNameless => ~failed'
    BY DEF M!MeetNameless, M!Enumerating, M!Running
  <2>6. M!Disconnect => ~failed'
    BY DEF M!Disconnect, M!Ending, M!Running, M!OnlyStack
  <2>7. M!Drop => ~failed'
    BY DEF M!Drop, M!Running
  <2>8. M!EndPoll => ~failed'
    BY DEF M!EndPoll, M!Ending, M!Running
  <2>9. QED
    BY <1>1, <2>1, <2>2, <2>3, <2>4, <2>5, <2>6, <2>7, <2>8 DEF M!Polling
<1>2. CASE M!FullScreen
  <2>1. \A m \in MonitorObject : M!SetWindowMonitor(m) => ~failed'
    BY DEF M!SetWindowMonitor, M!AppRuns, M!Idle, M!Running
  <2>2. M!LeaveFullScreen => ~failed'
    BY DEF M!LeaveFullScreen, M!AppRuns, M!Idle, M!Running, M!OnlyStack
  <2>3. M!Set => ~failed'
    BY DEF M!Set, M!Running
  <2>4. M!Leave => ~failed'
    BY DEF M!Leave, M!Running
  <2>5. M!HasLeft => ~failed'
    BY DEF M!HasLeft, M!Running, M!history
  <2>6. QED
    BY <1>2, <2>1, <2>2, <2>3, <2>4, <2>5 DEF M!FullScreen
<1>3. M!Change => ~failed'
  BY DEF M!Change
<1>4. M!HandleChange => ~failed'
  BY DEF M!HandleChange, M!Idle
<1>5. M!CallbackReturns => ~failed'
  BY DEF M!CallbackReturns, M!Running, M!OnlyStack
<1>6. QED
  BY <1>1, <1>2, <1>3, <1>4, <1>5 DEF M!Next

LEMMA UsedStep ==
  ASSUME ListsInv, UsedOrGone, M!Next
  PROVE  UsedOrGone'
<1>1. CASE ~failed'
  <2>1. ObjectsOK'
    BY <1>1, ListsStep DEF ListsInv, RunInv, CoreInv
  <2>2. QED
    BY <2>1 DEF ObjectsOK, UsedOrGone
<1>2. UNCHANGED <<M!Connector, M!Gone>>
  BY DEF M!Connector, M!Display, M!Adapter, M!Gone
<1>3. CASE M!FreeMonitor
  <2>1. monitor' = [monitor EXCEPT ![M!Top.m] = M!Gone]
    BY <1>3 DEF M!FreeMonitor
  <2>2. QED
    BY <1>2, <2>1 DEF UsedOrGone, Live, ListsInv, ListsTyped
<1>4. CASE M!Acquire
  <2>1. /\ monitor' = [monitor EXCEPT ![M!Top.m].modeChanged = TRUE] /\ ~failed
        /\ stack # <<>> /\ M!Top.fn = "acquire"
    BY <1>4 DEF M!Acquire, M!Running
  <2>2. Live(M!Top.m) /\ ListsTyped
    <3>1. ListsTyped /\ CallsOK(stack)
      BY <2>1, Parts
    <3>2. M!Top = stack[Len(stack)] /\ Len(stack) \in DOMAIN stack
      BY <2>1, <3>1, Pop
    <3>3. QED
      BY <2>1, <3>1, <3>2 DEF CallsOK, CallOK
  <2>3. PICK m \in MonitorObject : m = M!Top.m
    BY <2>2 DEF Live
  <2>4. PICK b \in BOOLEAN : b = TRUE
    OBVIOUS
  <2>5. monitor' = [monitor EXCEPT ![m].modeChanged = b]
    BY <2>1, <2>3, <2>4
  <2>6. /\ \A n \in MonitorObject : monitor'[n].output = monitor[n].output
        /\ \A n \in MonitorObject \ {m} : monitor'[n] = monitor[n]
    BY <2>2, <2>5, ModeChangedIs
  <2>7. QED
    BY <1>2, <2>2, <2>3, <2>6 DEF UsedOrGone, Live
<1>5. QED
  BY <1>1, <1>3, <1>4, OnlyTheseFail

\* With no call in progress the list has just what is shown.
LEMMA SettledList ==
  ASSUME ListsInv, M!Settled
  PROVE  /\ Len(list) = Cardinality(M!Shown)
         /\ \A x \in M!Shown : \E m \in M!Listed : M!IsFor(m, x)
         /\ \A m \in M!Listed : m \in missed \/ monitor[m].handle = handle[monitor[m].output[1]]
         /\ \A m \in M!Listed : monitor[m].screen
<1>1. stack = <<>> /\ ~failed /\ ~pending /\ ~cut /\ ~nested
  BY DEF M!Settled, M!Idle
<1>2. /\ ListsTyped /\ PollOK(stack) /\ ListOK /\ DOMAIN stack = {}
  BY <1>1, Parts
<1>3. MetIsShown(stack) /\ MetOnce(stack) /\ PassedIsMet(stack)
  BY <1>1, <1>2 DEF PollOK
<1>4. \A m \in MonitorObject : Met(stack, m) <=> InList(m)
  BY <1>2 DEF Met
<1>5. \A x : AllPassed(stack, x)
  BY <1>2 DEF AllPassed
<1>6. /\ list \in Seq(MonitorObject) /\ Len(list) \in Nat /\ DOMAIN list = 1..Len(list)
  BY <1>2 DEF ListsTyped
<1>7. \A m \in M!Listed : m \in MonitorObject /\ InList(m)
  BY <1>6 DEF M!Listed, InList
<1>8. \A m : InList(m) => m \in M!Listed
  BY DEF M!Listed, InList
<1>9. \A m \in M!Listed : IsCurrent(m) /\ \E x \in M!Shown : M!IsFor(m, x)
  BY <1>3, <1>4, <1>7 DEF MetIsShown
<1>10. \A x \in M!Shown : \E m \in M!Listed : M!IsFor(m, x)
  BY <1>3, <1>4, <1>5, <1>8 DEF PassedIsMet
<1>11. Len(list) = Cardinality(M!Shown)
  <2> DEFINE shows(i) == CHOOSE x \in M!Shown : M!IsFor(list[i], x)
             F == [i \in 1..Len(list) |-> shows(i)]
  <2>1. ASSUME NEW i \in 1..Len(list)
        PROVE  shows(i) \in M!Shown /\ M!IsFor(list[i], shows(i))
    <3>1. list[i] \in M!Listed
      BY <1>6 DEF M!Listed
    <3>2. \E x \in M!Shown : M!IsFor(list[i], x)
      BY <1>9, <3>1
    <3>3. QED
      BY <3>2
  <2> HIDE DEF shows
  <2>2. F \in [1..Len(list) -> M!Shown]
    BY <2>1
  <2>3. ASSUME NEW i \in 1..Len(list), NEW j \in 1..Len(list), F[i] = F[j]
        PROVE  i = j
    <3>1. /\ list[i] \in MonitorObject /\ InList(list[i])
          /\ list[j] \in MonitorObject /\ InList(list[j])
      BY <1>6 DEF InList
    <3>2. list[i] = list[j]
      BY <1>3, <1>4, <2>1, <2>3, <3>1 DEF MetOnce
    <3>3. QED
      BY <1>2, <1>6, <3>2 DEF ListOK
  <2>4. ASSUME NEW x \in M!Shown
        PROVE  \E i \in 1..Len(list) : F[i] = x
    <3>1. PICK i \in 1..Len(list) : M!IsFor(list[i], x)
      BY <1>6, <1>10 DEF M!Listed
    <3>2. shows(i) = x
      BY <1>2, <2>1, <3>1, ForOne
    <3>3. QED
      BY <3>2
  <2>5. F \in Bijection(1..Len(list), M!Shown)
    BY <2>2, <2>3, <2>4 DEF Bijection, Injection, Surjection, IsInjective
  <2> HIDE DEF F
  <2>6. ExistsBijection(1..Len(list), M!Shown)
    BY <2>5 DEF ExistsBijection
  <2>7. IsFiniteSet(1..Len(list)) /\ Cardinality(1..Len(list)) = Len(list)
    BY <1>6, FS_Interval
  <2>8. QED
    BY <2>6, <2>7, FS_Bijection
<1>12. QED
  BY <1>9, <1>10, <1>11 DEF IsCurrent

LEMMA FullScreenOfInv ==
  ASSUME ListsInv
  PROVE  M!FullScreenIsListed
<1>1. ASSUME M!AppRuns, full # NoMonitor, ~back
      PROVE  full \in M!Listed
  <2>1. ~failed
    BY <1>1 DEF M!AppRuns, M!Idle, M!Running
  <2>2. InList(full)
    BY <1>1, <2>1, Parts DEF WindowOK
  <2>3. QED
    BY <2>2 DEF M!Listed, InList
<1>2. ASSUME M!Idle, full = NoMonitor, ~stray, NEW a \in M!Adapter
      PROVE  mode[a] = "desktop"
  <2>1. ~failed /\ stack = <<>>
    BY <1>2 DEF M!Idle
  <2>2. ModesOK(stack) /\ mode[a] \in {"desktop", "game"}
    BY <2>1, Parts DEF ListsTyped
  <2>3. ~IsOwed(stack, a) /\ ~IsHeld(a)
    BY <1>2, <2>1 DEF IsOwed, IsHeld
  <2>4. QED
    BY <1>2, <2>2, <2>3 DEF ModesOK
<1>3. QED
  BY <1>1, <1>2 DEF M!FullScreenIsListed

LEMMA TypesOfInv ==
  ASSUME ListsInv, UsedOrGone
  PROVE  M!TypeOK
<1>1. ListsTyped
  BY DEF ListsInv
<1>2. \A m \in MonitorObject : /\ DOMAIN monitor[m] = DOMAIN M!Gone
                               /\ monitor[m] = M!Gone \/ monitor[m].output \in M!Connector
  BY <1>1 DEF ListsTyped, MonitorType, M!Gone, UsedOrGone, Live
<1>3. \A i \in DOMAIN stack :
        stack[i].fn \in {"poll", "leave", "left", "set", "acquire", "drop", "free", "app"}
  <2>1. \A i \in DOMAIN stack : stack[i] \in FrameType
    BY <1>1 DEF ListsTyped
  <2>2. QED
    BY <2>1 DEF FrameType
<1>4. {pending, holds, ready, failed, cut, nested, stray, back} \subseteq BOOLEAN
  BY <1>1 DEF ListsTyped
<1>5. QED
  BY <1>1, <1>2, <1>3, <1>4 DEF ListsTyped, M!TypeOK

\* Win32 and macOS, with any adapters and any number of changes: once GRWL knows of
\* every change, its list has a monitor for each output that shows something and for
\* nothing else, with the present handles; and full screen windows are on monitors of
\* it.  For polls that are cut short, or interrupted by another one, it says nothing,
\* and for windows that a callback brings back to a monitor that goes.
THEOREM MonitorsListedAlways == WindowsSpec => []MonitorsListed
<1> DEFINE Inv == subject = "lists" => ListsInv /\ UsedOrGone
<1>1. WindowsInit => Inv
  BY ListsStart DEF WindowsInit
<1>2. Inv /\ [WindowsNext]_<<subject, vars, listVars, waylandVars>> => Inv'
  <2> SUFFICES ASSUME Inv, [WindowsNext]_<<subject, vars, listVars, waylandVars>>,
                      subject' = "lists"
               PROVE  ListsInv' /\ UsedOrGone'
    OBVIOUS
  <2>1. CASE WindowsNext
    <3>1. subject = "lists" /\ M!Next
      BY <2>1 DEF WindowsNext
    <3>2. QED
      BY <3>1, ListsStep, UsedStep
  <2>2. CASE UNCHANGED <<subject, vars, listVars, waylandVars>>
    <3>1. ListsInv /\ UsedOrGone
      BY <2>2
    <3>2. UNCHANGED listVars
      BY <2>2
    <3>3. UNCHANGED <<M!Adapter, M!Display, M!Connector, M!Shown, M!Gone>>
      BY <3>2 DEF listVars, M!Adapter, M!Display, M!Connector, M!Shown, M!IsOn, M!IsBare,
                  M!Gone
    <3>4. ListsInv' <=> ListsInv
      BY <3>2, <3>3 DEF listVars, ListsInv, ListsTyped, MonitorType, RunInv, CoreInv,
         ObjectsOK, ListOK, CallsOK, CallOK, OldOK, Live, InList, WindowOK, DesktopOK,
         ModesOK, IsOwed, IsHeld, PollOK, AwaitsListed, MetIsShown, MetOnce, PassedIsMet,
         Met, AllPassed, IsCurrent, M!IsFor, M!Lives, OnlyPoll, Passed, Place, Awaits
    <3>5. UsedOrGone'
      BY <3>1, <3>2, <3>3 DEF UsedOrGone, Live, listVars
    <3>6. QED
      BY <3>1, <3>4, <3>5
  <2>3. QED
    BY <2>1, <2>2
<1>3. Inv => MonitorsListed
  <2> SUFFICES ASSUME subject = "lists", ListsInv, UsedOrGone
               PROVE  M!TypeOK /\ M!ListIsShown /\ M!FullScreenIsListed
    BY DEF MonitorsListed
  <2>1. M!ListIsShown
    <3>1. M!Cardinality(M!Shown) = Cardinality(M!Shown)
      BY DEF M!Cardinality, Cardinality
    <3>2. QED
      BY <3>1, SettledList DEF M!ListIsShown
  <2>2. QED
    BY <2>1, FullScreenOfInv, TypesOfInv
<1> HIDE DEF Inv
<1>4. QED
  BY <1>1, <1>2, <1>3, PTL DEF WindowsSpec
=============================================================================
