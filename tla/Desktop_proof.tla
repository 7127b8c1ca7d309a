---------------------------- MODULE Desktop_proof ----------------------------
(***************************************************************************)
(* The cursor on X11, focus and full screen on Win32, and the creation of  *)
(* contexts: what MC_Desktop checks for two windows, for any set of them.  *)
(***************************************************************************)
EXTENDS MC_Desktop, SequenceTheorems, FiniteSetTheorems, TLAPS

(***************************************************************************)
(* CursorMode.  The strengthening: while focus events wait, the last one   *)
(* brings the focus to where the server has it.  Whatever an earlier event *)
(* makes the handlers do, the window that has the focus in the end is      *)
(* served last.                                                            *)
(***************************************************************************)
LastEventIsOfFocus ==
    queue # <<>> /\ focus # NoWindow =>
        queue[Len(queue)] = [type |-> "FocusIn", window |-> focus]

CursorInv ==
    /\ TypeOK
    /\ focus \in windows \union {NoWindow}
    /\ LastEventIsOfFocus
    /\ DisabledWindowLives
    /\ FocusedDisabledIsGrabbed
    /\ CursorShown

LEMMA InitCursorInv == Init => CursorInv
<1> SUFFICES ASSUME Init PROVE CursorInv
  OBVIOUS
<1>1. cursorMode \in [Window -> Mode] /\ rawMouseMotion \in [Window -> BOOLEAN]
  BY DEF Init, Mode
<1>2. cursorOf \in [Window -> Cursor \union {NoCursor}] /\ image \in [Window -> Image]
  BY DEF Init, Image
<1>3. queue \in Seq(Event)
  BY DEF Init
<1>4. TypeOK
  BY <1>1, <1>2, <1>3, CursorAssumption DEF Init, TypeOK
<1>5. QED
  BY <1>4 DEF Init, CursorInv, LastEventIsOfFocus, DisabledWindowLives,
              FocusedDisabledIsGrabbed, CursorShown

\* The last element stays when the first is taken away.
LEMMA LastOfTail ==
    ASSUME NEW S, NEW q \in Seq(S), q # <<>>, Tail(q) # <<>>
    PROVE  /\ Tail(q) \in Seq(S)
           /\ Tail(q)[Len(Tail(q))] = q[Len(q)]
           /\ Len(Tail(q)) = Len(q) - 1
           /\ \A i \in 1..Len(Tail(q)) : Tail(q)[i] = q[i + 1]
<1>1. /\ Tail(q) \in Seq(S)
      /\ Len(Tail(q)) = Len(q) - 1
      /\ \A i \in 1..Len(Tail(q)) : Tail(q)[i] = q[i + 1]
  BY HeadTailProperties
<1>2. Len(Tail(q)) \in Nat /\ Len(Tail(q)) # 0 /\ Len(q) \in Nat
  BY <1>1, EmptySeq, LenProperties
<1>3. QED
  BY <1>1, <1>2

\* A sequence ends with the element that was appended.
LEMMA LastOfConcat ==
    ASSUME NEW S, NEW q \in Seq(S), NEW e \in S
    PROVE  /\ q \o <<e>> \in Seq(S)
           /\ Len(q \o <<e>>) = Len(q) + 1
           /\ (q \o <<e>>)[Len(q) + 1] = e
           /\ \A i \in 1..Len(q) : (q \o <<e>>)[i] = q[i]
           /\ q \o <<e>> # <<>>
<1>1. <<e>> \in Seq(S) /\ Len(<<e>>) = 1 /\ <<e>>[1] = e
  OBVIOUS
<1>2. QED
  BY <1>1, ConcatProperties, LenProperties, EmptySeq

\* The events that a move of the focus queues.
LEMMA FocusMoveEvents ==
    ASSUME CursorInv, NEW w \in windows \union {NoWindow}
    PROVE  LET q == queue \o OldFocus \o NewFocus(w) IN
           /\ q \in Seq(Event)
           /\ w # NoWindow => /\ q[Len(q)] = [type |-> "FocusIn", window |-> w]
                              /\ q # <<>>
<1>1. queue \in Seq(Event) /\ windows \in SUBSET Window
  BY DEF CursorInv, TypeOK
<1>2. queue \o OldFocus \in Seq(Event)
  <2>1. OldFocus \in Seq(Event)
    <3>1. CASE focus = NoWindow
      BY <3>1 DEF OldFocus
    <3>2. CASE focus # NoWindow
      <4>1. [type |-> "FocusOut", window |-> focus] \in Event
        BY <3>2 DEF Event, CursorInv, TypeOK
      <4>2. QED
        BY <3>2, <4>1 DEF OldFocus
    <3>3. QED
      BY <3>1, <3>2
  <2>2. QED
    BY <1>1, <2>1, ConcatProperties
<1>3. CASE w = NoWindow
  BY <1>2, <1>3, ConcatProperties, EmptySeq DEF NewFocus
<1>4. CASE w # NoWindow
  <2>1. [type |-> "FocusIn", window |-> w] \in Event
    BY <1>1, <1>4 DEF Event
  <2>2. NewFocus(w) = <<[type |-> "FocusIn", window |-> w]>>
    BY <1>4 DEF NewFocus
  <2>3. QED
    BY <1>2, <1>4, <2>1, <2>2, LastOfConcat
<1>5. QED
  BY <1>3, <1>4

\* What every handler does to the queue.
LEMMA HandledEvent ==
    ASSUME CursorInv, queue # <<>>, queue' = Tail(queue), focus' = focus
    PROVE  /\ queue' \in Seq(Event)
           /\ LastEventIsOfFocus'
           /\ queue' = <<>> /\ focus # NoWindow =>
                Head(queue) = [type |-> "FocusIn", window |-> focus]
<1>1. queue \in Seq(Event)
  BY DEF CursorInv, TypeOK
<1>2. queue' \in Seq(Event)
  BY <1>1, HeadTailProperties
<1>3. LastEventIsOfFocus'
  BY <1>1, LastOfTail DEF CursorInv, LastEventIsOfFocus
<1>4. ASSUME queue' = <<>>
      PROVE  Len(queue) = 1 /\ Head(queue) = queue[1]
  <2>1. Len(Tail(queue)) = Len(queue) - 1
    BY <1>1, HeadTailProperties
  <2>2. Len(Tail(queue)) = 0
    BY <1>4, EmptySeq
  <2>3. QED
    BY <1>1, <2>1, <2>2, HeadTailProperties, LenProperties
<1>5. QED
  BY <1>2, <1>3, <1>4 DEF CursorInv, LastEventIsOfFocus

LEMMA ImageType ==
    ASSUME NEW mode, NEW c \in Cursor \union {NoCursor}
    PROVE  ImageOf(mode, c) \in Image
BY DEF ImageOf, Image

LEMMA NextCursorInv == CursorInv /\ [Next]_vars => CursorInv'
<1> SUFFICES ASSUME CursorInv, [Next]_vars PROVE CursorInv'
  OBVIOUS
<1> USE CursorAssumption
<1> USE DEF objects, look, lockVars
<1>1. ASSUME NEW w \in Window \union {NoWindow}, MoveFocus(w) PROVE CursorInv'
  <2>1. /\ queue' \in Seq(Event)
        /\ w # NoWindow => /\ queue'[Len(queue')] = [type |-> "FocusIn", window |-> w]
                           /\ queue' # <<>>
    BY <1>1, FocusMoveEvents DEF MoveFocus
  <2>2. TypeOK'
    BY <1>1, <2>1 DEF MoveFocus, CursorInv, TypeOK
  <2>3. LastEventIsOfFocus' /\ FocusedDisabledIsGrabbed'
    BY <1>1, <2>1 DEF MoveFocus, LastEventIsOfFocus, FocusedDisabledIsGrabbed,
                      CursorInv, TypeOK
  <2>4. DisabledWindowLives' /\ CursorShown' /\ focus' \in windows' \union {NoWindow}
    BY <1>1 DEF MoveFocus, DisabledWindowLives, CursorShown, ImageOf, CursorInv
  <2>5. QED
    BY <2>2, <2>3, <2>4 DEF CursorInv
<1>2. ASSUME NEW p \in Position, MovePointer(p) \/ Recentre PROVE CursorInv'
  BY <1>2 DEF MovePointer, Recentre, CursorInv, TypeOK, LastEventIsOfFocus,
              DisabledWindowLives, FocusedDisabledIsGrabbed, CursorShown, ImageOf
<1>3. ASSUME EventOfDestroyed PROVE CursorInv'
  <2>1. /\ queue' \in Seq(Event) /\ LastEventIsOfFocus'
        /\ queue' = <<>> /\ focus # NoWindow => Head(queue).window = focus
    BY <1>3, HandledEvent DEF EventOfDestroyed
  <2>2. TypeOK'
    BY <1>3, <2>1 DEF EventOfDestroyed, CursorInv, TypeOK
  <2>3. FocusedDisabledIsGrabbed'
    BY <1>3, <2>1 DEF EventOfDestroyed, FocusedDisabledIsGrabbed, CursorInv, TypeOK
  <2>4. DisabledWindowLives' /\ CursorShown' /\ focus' \in windows' \union {NoWindow}
    BY <1>3 DEF EventOfDestroyed, DisabledWindowLives, CursorShown, ImageOf, CursorInv
  <2>5. QED
    BY <2>1, <2>2, <2>3, <2>4 DEF CursorInv
<1>4. ASSUME NEW w \in Window, FocusIn(w) PROVE CursorInv'
  <2>1. /\ queue' \in Seq(Event) /\ LastEventIsOfFocus'
        /\ queue' = <<>> /\ focus # NoWindow => w = focus
    BY <1>4, HandledEvent DEF FocusIn
  <2>2. TypeOK'
    BY <1>4, <2>1 DEF FocusIn, Disable, Confine, CursorInv, TypeOK, Mode
  <2>3. FocusedDisabledIsGrabbed'
    BY <1>4, <2>1 DEF FocusIn, Disable, Confine, FocusedDisabledIsGrabbed, CursorInv,
                      TypeOK
  <2>4. DisabledWindowLives'
    BY <1>4 DEF FocusIn, Disable, Confine, DisabledWindowLives, CursorInv
  <2>5. CursorShown' /\ focus' \in windows' \union {NoWindow}
    BY <1>4 DEF FocusIn, CursorShown, ImageOf, CursorInv
  <2>6. QED
    BY <2>1, <2>2, <2>3, <2>4, <2>5 DEF CursorInv
<1>5. ASSUME NEW w \in Window, FocusOut(w) PROVE CursorInv'
  <2>1. /\ queue' \in Seq(Event) /\ LastEventIsOfFocus'
        /\ queue' = <<>> => focus = NoWindow
    BY <1>5, HandledEvent DEF FocusOut
  <2>2. TypeOK'
    BY <1>5, <2>1 DEF FocusOut, Enable, Confine, CursorInv, TypeOK, Mode
  <2>3. FocusedDisabledIsGrabbed'
    BY <1>5, <2>1 DEF FocusOut, FocusedDisabledIsGrabbed, CursorInv, TypeOK
  <2>4. DisabledWindowLives'
    BY <1>5 DEF FocusOut, Enable, Confine, DisabledWindowLives, CursorInv
  <2>5. CursorShown' /\ focus' \in windows' \union {NoWindow}
    BY <1>5 DEF FocusOut, CursorShown, ImageOf, CursorInv
  <2>6. QED
    BY <2>1, <2>2, <2>3, <2>4, <2>5 DEF CursorInv
<1>6. ASSUME NEW w \in Window, CreateWindow(w) PROVE CursorInv'
  <2>1. TypeOK'
    BY <1>6 DEF CreateWindow, CursorInv, TypeOK, Mode, Image
  <2>2. CursorShown'
    BY <1>6 DEF CreateWindow, CursorShown, ImageOf, CursorInv, TypeOK
  <2>3. /\ LastEventIsOfFocus' /\ DisabledWindowLives' /\ FocusedDisabledIsGrabbed'
        /\ focus' \in windows' \union {NoWindow}
    BY <1>6 DEF CreateWindow, LastEventIsOfFocus, DisabledWindowLives,
                FocusedDisabledIsGrabbed, CursorInv, TypeOK
  <2>4. QED
    BY <2>1, <2>2, <2>3 DEF CursorInv
<1>7. ASSUME NEW w \in Window, DestroyWindow(w) PROVE CursorInv'
  <2>1. TypeOK' /\ focus' \in windows' \union {NoWindow}
    BY <1>7 DEF DestroyWindow, Enable, Confine, CursorInv, TypeOK
  <2>2. DisabledWindowLives'
    BY <1>7 DEF DestroyWindow, Enable, Confine, DisabledWindowLives, CursorInv
  <2>3. FocusedDisabledIsGrabbed'
    BY <1>7 DEF DestroyWindow, Enable, Confine, FocusedDisabledIsGrabbed, CursorInv,
                TypeOK
  <2>4. LastEventIsOfFocus' /\ CursorShown'
    BY <1>7 DEF DestroyWindow, LastEventIsOfFocus, CursorShown, ImageOf, CursorInv
  <2>5. QED
    BY <2>1, <2>2, <2>3, <2>4 DEF CursorInv
<1>8. ASSUME NEW w \in Window, NEW mode \in Mode, SetCursorMode(w, mode)
      PROVE  CursorInv'
  <2>1. cursorOf[w] \in Cursor \union {NoCursor}
    BY DEF CursorInv, TypeOK
  <2>2. TypeOK'
    BY <1>8, <2>1, ImageType DEF SetCursorMode, Disable, Confine, CursorInv, TypeOK
  <2>3. FocusedDisabledIsGrabbed'
    BY <1>8 DEF SetCursorMode, Disable, Confine, FocusedDisabledIsGrabbed, CursorInv,
                TypeOK
  <2>4. DisabledWindowLives'
    BY <1>8 DEF SetCursorMode, Disable, Confine, DisabledWindowLives, CursorInv
  <2>5. CursorShown'
    BY <1>8 DEF SetCursorMode, CursorShown, CursorInv, TypeOK
  <2>6. LastEventIsOfFocus' /\ focus' \in windows' \union {NoWindow}
    BY <1>8 DEF SetCursorMode, LastEventIsOfFocus, CursorInv
  <2>7. QED
    BY <2>2, <2>3, <2>4, <2>5, <2>6 DEF CursorInv
<1>9. ASSUME NEW w \in Window, NEW enabled \in BOOLEAN, SetRawMouseMotion(w, enabled)
      PROVE  CursorInv'
  BY <1>9 DEF SetRawMouseMotion, CursorInv, TypeOK, LastEventIsOfFocus,
              DisabledWindowLives, FocusedDisabledIsGrabbed, CursorShown, ImageOf
<1>10. ASSUME NEW w \in Window, NEW c \in Cursor \union {NoCursor}, SetCursor(w, c)
       PROVE  CursorInv'
  <2>1. TypeOK'
    BY <1>10 DEF SetCursor, UseCursor, CursorInv, TypeOK, Image
  <2>2. CursorShown'
    BY <1>10 DEF SetCursor, UseCursor, CursorShown, ImageOf, CursorInv, TypeOK
  <2>3. QED
    BY <1>10, <2>1, <2>2 DEF SetCursor, CursorInv, LastEventIsOfFocus,
                             DisabledWindowLives, FocusedDisabledIsGrabbed
<1>11. ASSUME NEW c \in Cursor, CreateCursor(c) PROVE CursorInv'
  BY <1>11 DEF CreateCursor, CursorInv, TypeOK, LastEventIsOfFocus,
               DisabledWindowLives, FocusedDisabledIsGrabbed, CursorShown, ImageOf
<1>12. ASSUME NEW c \in Cursor, DestroyCursor(c) PROVE CursorInv'
  <2>1. TypeOK'
    BY <1>12 DEF DestroyCursor, UseCursor, CursorInv, TypeOK, Image
  <2>2. CursorShown'
    BY <1>12 DEF DestroyCursor, UseCursor, CursorShown, ImageOf, CursorInv, TypeOK
  <2>3. QED
    BY <1>12, <2>1, <2>2 DEF DestroyCursor, CursorInv, LastEventIsOfFocus,
                             DisabledWindowLives, FocusedDisabledIsGrabbed
<1>13. ASSUME UNCHANGED vars PROVE CursorInv'
  BY <1>13 DEF vars, CursorInv, TypeOK, LastEventIsOfFocus, DisabledWindowLives,
               FocusedDisabledIsGrabbed, CursorShown, ImageOf
<1>14. QED
  BY <1>1, <1>2, <1>3, <1>4, <1>5, <1>6, <1>7, <1>8, <1>9, <1>10, <1>11, <1>12, <1>13
     DEF Next, Server

-----------------------------------------------------------------------------
(***************************************************************************)
(* Win32Windows, the monitors.  A full screen window that GRWL does not    *)
(* know to be iconified holds its monitor, in the middle of a WM_SIZE too. *)
(***************************************************************************)
Holds ==
    \A w \in Window :
        /\ win[w].alive /\ win[w].monitor # NoMonitor /\ ~win[w].iconified
        /\ w \notin taken \union {creating}
        => holder[win[w].monitor] = w

DeadAreBlank == \A w \in Window : ~win[w].alive => win[w] = N!Blank

\* The two parts of MonitorsCounted.
Held == {m \in Monitor : holder[m] # NoWindow}
Counted ==
    /\ acquiredMonitorCount = Cardinality(Held)
    /\ awake <=> Held # {}
    /\ changed \subseteq Held
HolderIsOnMonitor ==
    \A m \in Monitor : holder[m] # NoWindow =>
        win[holder[m]].alive /\ win[holder[m]].monitor = m

\* A callback of the system or of the application runs for a window that
\* cannot go, and the window that is being created stays full screen.
InProgress ==
    /\ sizing.window \in N!Alive \union {NoWindow}
    /\ creating \in N!Alive \union {NoWindow}
    /\ creating # NoWindow => win[creating].monitor # NoMonitor

MonitorInv ==
    /\ N!TypeOK
    /\ DeadAreBlank
    /\ InProgress
    /\ Counted
    /\ HolderIsOnMonitor
    /\ Holds

LEMMA Facts ==
    /\ NoWindow \notin Window /\ NoMonitor \notin Monitor /\ IsFiniteSet(Monitor)
    /\ MaxInbox \in Nat
BY DesktopAssumption DEF N!Win32Assumption, N!IsFiniteSet, IsFiniteSet

LEMMA CountedIs == N!MonitorsCounted <=>
    (Counted /\ \A m \in Held : holder[m] \in N!Alive /\ win[holder[m]].monitor = m)
<1>1. \A S : N!Cardinality(S) = Cardinality(S)
  BY DEF N!Cardinality, Cardinality
<1>2. QED
  BY <1>1 DEF N!MonitorsCounted, Counted, Held

LEMMA HeldCounts ==
    /\ IsFiniteSet(Held) /\ Cardinality(Held) \in Nat
    /\ Cardinality(Held) = 0 <=> Held = {}
    /\ \A m : m \in Held => Cardinality(Held \ {m}) = Cardinality(Held) - 1
    /\ \A m : m \notin Held => Cardinality(Held \union {m}) = Cardinality(Held) + 1
    /\ \A m : IsFiniteSet(Held \ {m}) /\ IsFiniteSet(Held \union {m})
<1>1. IsFiniteSet(Held)
  BY Facts, FS_Subset DEF Held
<1>2. QED
  BY <1>1, FS_CardinalityType, FS_EmptySet, FS_AddElement, FS_RemoveElement

\* w acquires the monitor m.
LEMMA Acquires ==
    ASSUME N!TypeOK, Counted, NEW w \in Window, NEW m \in Monitor,
           N!AcquireMonitor(w, m)
    PROVE  /\ holder' \in [Monitor -> Window \union {NoWindow}]
           /\ acquiredMonitorCount' \in Int /\ awake' \in BOOLEAN
           /\ changed' \subseteq Monitor /\ taken' \subseteq Window
           /\ Counted'
           /\ \A x \in Monitor : holder'[x] = IF x = m THEN w ELSE holder[x]
           /\ taken' = (taken \ {w}) \union ({holder[m]} \ {w, NoWindow})
<1>1. /\ holder \in [Monitor -> Window \union {NoWindow}]
      /\ acquiredMonitorCount \in Int /\ changed \subseteq Monitor
      /\ awake \in BOOLEAN /\ taken \subseteq Window
  BY DEF N!TypeOK
<1>2. /\ holder' = [holder EXCEPT ![m] = w]
      /\ taken' = (taken \ {w}) \union ({holder[m]} \ {w, NoWindow})
      /\ changed' \in {changed, changed \union {m}}
      /\ awake' = (awake \/ acquiredMonitorCount = 0)
      /\ acquiredMonitorCount' = acquiredMonitorCount + N!NewlyAcquired(m)
  BY DEF N!AcquireMonitor
<1>3. /\ holder' \in [Monitor -> Window \union {NoWindow}]
      /\ \A x \in Monitor : holder'[x] = IF x = m THEN w ELSE holder[x]
      /\ changed' \subseteq Monitor /\ taken' \subseteq Window /\ awake' \in BOOLEAN
  BY <1>1, <1>2
<1>4. Held' = Held \union {m} /\ (m \in Held <=> holder[m] # NoWindow)
  BY <1>3, Facts DEF Held
<1>5. acquiredMonitorCount' = Cardinality(Held')
  <2>1. acquiredMonitorCount = Cardinality(Held)
    BY DEF Counted
  <2>2. CASE m \in Held
    <3>1. Held' = Held
      BY <1>4, <2>2
    <3>2. acquiredMonitorCount' = acquiredMonitorCount
      BY <1>1, <1>2, <1>4, <2>2 DEF N!NewlyAcquired
    <3>3. QED
      BY <2>1, <3>1, <3>2
  <2>3. CASE m \notin Held
    <3>1. Cardinality(Held \union {m}) = Cardinality(Held) + 1
      BY <2>3, HeldCounts
    <3>2. QED
      BY <1>1, <1>2, <1>4, <2>1, <2>3, <3>1 DEF N!NewlyAcquired
  <2>4. QED
    BY <2>2, <2>3
<1>6. awake' <=> Held' # {}
  BY <1>2, <1>4, HeldCounts DEF Counted
<1>7. changed' \subseteq Held'
  BY <1>2, <1>4 DEF Counted
<1>8. acquiredMonitorCount' \in Int
  BY <1>1, <1>2 DEF N!NewlyAcquired
<1>9. QED
  BY <1>2, <1>3, <1>5, <1>6, <1>7, <1>8 DEF Counted

\* w gives the monitor m back, if it holds it.
LEMMA Releases ==
    ASSUME N!TypeOK, Counted, NEW w \in Window, NEW m \in Monitor,
           N!Release(w, m)
    PROVE  /\ holder' \in [Monitor -> Window \union {NoWindow}]
           /\ acquiredMonitorCount' \in Int /\ awake' \in BOOLEAN
           /\ changed' \subseteq Monitor
           /\ Counted'
           /\ \A x \in Monitor :
                holder'[x] = IF x = m /\ holder[m] = w THEN NoWindow ELSE holder[x]
<1>1. /\ holder \in [Monitor -> Window \union {NoWindow}]
      /\ acquiredMonitorCount \in Int /\ changed \subseteq Monitor
      /\ awake \in BOOLEAN
  BY DEF N!TypeOK
<1>2. CASE holder[m] # w
  BY <1>1, <1>2 DEF N!Release, Counted, Held
<1>3. CASE holder[m] = w
  <2>1. /\ acquiredMonitorCount' = acquiredMonitorCount - 1
        /\ awake' = (acquiredMonitorCount # 1)
        /\ holder' = [holder EXCEPT ![m] = NoWindow]
        /\ changed' = changed \ {m}
    BY <1>3 DEF N!Release
  <2>2. /\ holder' \in [Monitor -> Window \union {NoWindow}]
        /\ \A x \in Monitor : holder'[x] = IF x = m THEN NoWindow ELSE holder[x]
    BY <1>1, <2>1
  <2>3. Held' = Held \ {m} /\ m \in Held
    BY <1>3, <2>2, Facts DEF Held
  <2>4. acquiredMonitorCount' = Cardinality(Held')
    BY <2>1, <2>3, HeldCounts DEF Counted
  <2>5. awake' <=> Held' # {}
    <3>1. Cardinality(Held \ {m}) = 0 <=> Held \ {m} = {}
      BY HeldCounts, FS_EmptySet
    <3>2. /\ Cardinality(Held \ {m}) = Cardinality(Held) - 1
          /\ acquiredMonitorCount = Cardinality(Held)
      BY <2>3, HeldCounts DEF Counted
    <3>3. acquiredMonitorCount # 1 <=> Cardinality(Held \ {m}) # 0
      BY <1>1, <3>2
    <3>4. QED
      BY <2>1, <2>3, <3>1, <3>3
  <2>6. changed' \subseteq Held'
    BY <2>1, <2>3 DEF Counted
  <2>7. QED
    BY <1>1, <1>3, <2>1, <2>2, <2>4, <2>5, <2>6 DEF Counted
<1>4. QED
  BY <1>2, <1>3

\* w leaves its monitor for m.
LEMMA Moves ==
    ASSUME N!TypeOK, Counted, HolderIsOnMonitor, NEW w \in Window,
           NEW m \in Monitor \union {NoMonitor}, m # win[w].monitor,
           N!MoveToMonitor(w, m)
    PROVE  /\ holder' \in [Monitor -> Window \union {NoWindow}]
           /\ acquiredMonitorCount' \in Int /\ awake' \in BOOLEAN
           /\ changed' \subseteq Monitor /\ taken' \subseteq Window
           /\ Counted'
           /\ \A x \in Monitor :
                holder'[x] = IF x = m THEN w
                             ELSE IF holder[x] = w THEN NoWindow ELSE holder[x]
           /\ taken' = (taken \ {w}) \union
                (IF m = NoMonitor THEN {} ELSE {holder[m]} \ {NoWindow})
<1> DEFINE old == win[w].monitor
           releases == old # NoMonitor /\ holder[old] = w
           released == IF releases THEN [holder EXCEPT ![old] = NoWindow] ELSE holder
           left == {x \in Monitor : released[x] # NoWindow}
           count == acquiredMonitorCount - (IF releases THEN 1 ELSE 0)
           gains == m # NoMonitor /\ released[m] = NoWindow
           kept == IF releases THEN changed \ {old} ELSE changed
<1>1. /\ holder \in [Monitor -> Window \union {NoWindow}]
      /\ acquiredMonitorCount \in Int /\ changed \subseteq Monitor
      /\ awake \in BOOLEAN /\ taken \subseteq Window
      /\ old \in Monitor \union {NoMonitor}
  BY DEF N!TypeOK, N!WindowRecord
<1>2. /\ acquiredMonitorCount' = count + (IF gains THEN 1 ELSE 0)
      /\ awake' = (m # NoMonitor \/ IF releases THEN count # 0 ELSE awake)
      /\ holder' = [x \in Monitor |-> IF x = m THEN w ELSE released[x]]
      /\ changed' \in {kept, kept \union ({m} \ {NoMonitor})}
      /\ taken' = (taken \ {w}) \union
           (IF m = NoMonitor THEN {} ELSE {released[m]} \ {NoWindow})
  BY DEF N!MoveToMonitor
<1>3. \A x \in Monitor : holder[x] = w => x = old
  BY Facts DEF HolderIsOnMonitor
<1>4. /\ released \in [Monitor -> Window \union {NoWindow}]
      /\ \A x \in Monitor : released[x] = IF holder[x] = w THEN NoWindow ELSE holder[x]
  <2>1. CASE releases
    BY <1>1, <1>3, <2>1
  <2>2. CASE ~releases
    BY <1>1, <1>3, <2>2, Facts
  <2>3. QED
    BY <2>1, <2>2
<1>5. /\ left = IF releases THEN Held \ {old} ELSE Held
      /\ releases => old \in Held
  BY <1>1, <1>3, <1>4, Facts DEF Held
<1>6. /\ IsFiniteSet(left) /\ Cardinality(left) \in Nat /\ count = Cardinality(left)
      /\ kept \subseteq left
      /\ (IF releases THEN count # 0 ELSE awake) <=> left # {}
  <2>1. CASE releases
    <3>1. IsFiniteSet(left) /\ Cardinality(left) = Cardinality(Held) - 1
      BY <1>5, <2>1, HeldCounts
    <3>2. Cardinality(left) \in Nat /\ (Cardinality(left) = 0 <=> left = {})
      BY <3>1, FS_CardinalityType, FS_EmptySet
    <3>3. count = Cardinality(left)
      BY <2>1, <3>1 DEF Counted
    <3>4. kept \subseteq left
      BY <1>5, <2>1 DEF Counted
    <3>5. QED
      BY <2>1, <3>1, <3>2, <3>3, <3>4
  <2>2. CASE ~releases
    <3>1. left = Held /\ count = acquiredMonitorCount /\ kept = changed
      BY <1>1, <1>5, <2>2
    <3>2. QED
      BY <2>2, <3>1, HeldCounts DEF Counted
  <2>3. QED
    BY <2>1, <2>2
<1>7. Held' = left \union ({m} \ {NoMonitor})
  BY <1>1, <1>2, <1>4, Facts DEF Held
<1>8. acquiredMonitorCount' = Cardinality(Held')
  <2>1. CASE gains
    <3>1. m \notin left /\ Held' = left \union {m}
      BY <1>7, <2>1
    <3>2. Cardinality(Held') = Cardinality(left) + 1
      BY <1>6, <3>1, FS_AddElement
    <3>3. QED
      BY <1>2, <1>6, <2>1, <3>2
  <2>2. CASE ~gains
    <3>1. Held' = left
      BY <1>4, <1>7, <2>2
    <3>2. acquiredMonitorCount' = count
      BY <1>2, <1>6, <2>2
    <3>3. QED
      BY <1>6, <3>1, <3>2
  <2>3. QED
    BY <2>1, <2>2
<1>9. awake' <=> Held' # {}
  BY <1>2, <1>6, <1>7, Facts
<1>10. changed' \subseteq Held'
  BY <1>2, <1>6, <1>7
<1>11. Counted'
  BY <1>8, <1>9, <1>10 DEF Counted
<1>12. /\ holder' \in [Monitor -> Window \union {NoWindow}]
       /\ \A x \in Monitor :
            holder'[x] = IF x = m THEN w
                         ELSE IF holder[x] = w THEN NoWindow ELSE holder[x]
  BY <1>2, <1>4
<1>13. taken' = (taken \ {w}) \union
                (IF m = NoMonitor THEN {} ELSE {holder[m]} \ {NoWindow})
  BY <1>2, <1>3, <1>4
<1>14. /\ acquiredMonitorCount' \in Int /\ awake' \in BOOLEAN
       /\ changed' \subseteq Monitor /\ taken' \subseteq Window
  BY <1>1, <1>2, <1>6, <1>12, <1>13
<1>15. QED
  BY <1>11, <1>12, <1>13, <1>14

\* The messages that a change of the foreground window sends.
LEMMA FocusMovesType ==
    ASSUME NEW old \in Window \union {NoWindow}, NEW new \in Window \union {NoWindow},
           NEW q \in Seq(N!Message)
    PROVE  /\ q \o N!FocusMoves(old, new) \in Seq(N!Message)
           /\ Len(q \o N!FocusMoves(old, new)) <= Len(q) + 2
           /\ old = NoWindow => Len(q \o N!FocusMoves(old, new)) <= Len(q) + 1
<1> DEFINE a == IF old = NoWindow THEN <<>> ELSE <<[type |-> "kill", window |-> old]>>
           b == IF new = NoWindow THEN <<>> ELSE <<[type |-> "set", window |-> new]>>
<1>1. a \in Seq(N!Message) /\ Len(a) \in Nat /\ Len(a) <= 1 /\ (old = NoWindow => Len(a) = 0)
  <2>1. CASE old = NoWindow
    BY <2>1
  <2>2. CASE old # NoWindow
    <3>1. [type |-> "kill", window |-> old] \in N!Message
      BY <2>2 DEF N!Message
    <3>2. QED
      BY <2>2, <3>1
  <2>3. QED
    BY <2>1, <2>2
<1>2. b \in Seq(N!Message) /\ Len(b) \in Nat /\ Len(b) <= 1
  <2>1. CASE new = NoWindow
    BY <2>1
  <2>2. CASE new # NoWindow
    <3>1. [type |-> "set", window |-> new] \in N!Message
      BY <2>2 DEF N!Message
    <3>2. QED
      BY <2>2, <3>1
  <2>3. QED
    BY <2>1, <2>2
<1>3. N!FocusMoves(old, new) = a \o b
  BY DEF N!FocusMoves
<1>4. a \o b \in Seq(N!Message) /\ Len(a \o b) = Len(a) + Len(b)
  BY <1>1, <1>2, ConcatProperties
<1>5. q \o (a \o b) \in Seq(N!Message) /\ Len(q \o (a \o b)) = Len(q) + Len(a \o b)
  BY <1>4, ConcatProperties
<1>6. Len(q) \in Nat
  BY LenProperties
<1>7. QED
  BY <1>1, <1>2, <1>3, <1>4, <1>5, <1>6

MessagesType ==
    /\ foreground \in Window \union {NoWindow}
    /\ inbox \in Seq(N!Message) /\ Len(inbox) <= MaxInbox + 2
    /\ sync \in BOOLEAN

CursorType ==
    {win32Disabled, capturedCursorWindow, rawTarget} \subseteq Window \union {NoWindow}

LEMMA ForegroundChanges ==
    ASSUME N!TypeOK, NEW x \in Window \union {NoWindow}, foreground' = x,
           sync' \in BOOLEAN, Len(inbox) <= MaxInbox,
           inbox' = inbox \o N!FocusMoves(foreground, x)
    PROVE  MessagesType'
<1>1. MessagesType /\ Len(inbox) \in Nat
  BY LenProperties DEF MessagesType, N!TypeOK
<1>2. inbox' \in Seq(N!Message) /\ Len(inbox') <= Len(inbox) + 2
  BY <1>1, FocusMovesType DEF MessagesType
<1>3. Len(inbox') \in Nat
  BY <1>2, LenProperties
<1>4. QED
  BY <1>1, <1>2, <1>3, Facts DEF MessagesType

LEMMA ActivateType ==
    ASSUME N!TypeOK, NEW x \in Window \union {NoWindow}, N!Activate(x)
    PROVE  MessagesType'
<1>1. CASE x = foreground
  BY <1>1 DEF N!Activate, N!messages, MessagesType, N!TypeOK
<1>2. CASE x # foreground
  <2>1. /\ foreground' = x /\ sync' = TRUE /\ Len(inbox) <= MaxInbox
        /\ inbox' = inbox \o N!FocusMoves(foreground, x)
    BY <1>2 DEF N!Activate
  <2>2. QED
    BY <2>1, ForegroundChanges
<1>3. QED
  BY <1>1, <1>2

LEMMA CursorKeepsType ==
    ASSUME N!TypeOK, NEW w \in Window,
           N!GrabCursor(w) \/ N!FreeCursor(w) \/ N!EnableCursor(w) \/ UNCHANGED N!cursor
    PROVE  CursorType'
BY DEF N!GrabCursor, N!FreeCursor, N!EnableCursor, N!CursorIs, N!cursor, CursorType,
       N!TypeOK

WinType == win \in [Window -> N!WindowRecord]

MonitorsType ==
    /\ holder \in [Monitor -> Window \union {NoWindow}]
    /\ acquiredMonitorCount \in Int
    /\ awake \in BOOLEAN
    /\ changed \subseteq Monitor
    /\ taken \subseteq Window

ProgressType ==
    /\ sizing \in [window : Window \union {NoWindow}, iconified : BOOLEAN]
    /\ creating \in Window \union {NoWindow}

LEMMA TypeParts ==
    N!TypeOK <=> WinType /\ MessagesType /\ CursorType /\ MonitorsType /\ ProgressType
BY DEF N!TypeOK, WinType, MessagesType, CursorType, MonitorsType, ProgressType

\* A window but not what it is for GRWL: alive, full screen, iconified.
SameWindows ==
    \A v \in Window :
        /\ win'[v].alive = win[v].alive
        /\ win'[v].monitor = win[v].monitor
        /\ win'[v].iconified = win[v].iconified
        /\ ~win[v].alive => win'[v] = win[v]

LEMMA FieldChanges ==
    ASSUME WinType, NEW w \in N!Alive, NEW b \in BOOLEAN,
           NEW mode \in {"normal", "disabled", "captured"},
           \/ win' = [win EXCEPT ![w].minimized = b]
           \/ win' = [win EXCEPT ![w].frameAction = b]
           \/ win' = [win EXCEPT ![w].loop = b]
           \/ win' = [win EXCEPT ![w].rawMouseMotion = b]
           \/ win' = [win EXCEPT ![w].mode = mode]
    PROVE  WinType' /\ SameWindows
<1>1. w \in Window /\ win[w].alive /\ win[w] \in N!WindowRecord
  BY DEF N!Alive, WinType
<1>2. \A v \in Window \ {w} : win'[v] = win[v]
  BY <1>1 DEF WinType
<1>3. \/ win'[w] = [win[w] EXCEPT !.minimized = b]
      \/ win'[w] = [win[w] EXCEPT !.frameAction = b]
      \/ win'[w] = [win[w] EXCEPT !.loop = b]
      \/ win'[w] = [win[w] EXCEPT !.rawMouseMotion = b]
      \/ win'[w] = [win[w] EXCEPT !.mode = mode]
  BY <1>1 DEF WinType
<1>4. /\ win'[w] \in N!WindowRecord /\ win'[w].alive = win[w].alive
      /\ win'[w].monitor = win[w].monitor /\ win'[w].iconified = win[w].iconified
  BY <1>1, <1>3 DEF N!WindowRecord
<1>5. win' = [v \in Window |-> win'[v]]
  BY DEF WinType
<1>6. WinType'
  BY <1>1, <1>2, <1>4, <1>5 DEF WinType
<1>7. QED
  BY <1>1, <1>2, <1>4, <1>6 DEF SameWindows

\* Steps that change no monitor.
LEMMA QuietStep ==
    ASSUME MonitorInv, WinType', MessagesType', CursorType', SameWindows,
           UNCHANGED N!monitors, creating' = creating,
           sizing' \in [window : N!Alive \union {NoWindow}, iconified : BOOLEAN]
    PROVE  MonitorInv'
<1>1. /\ holder' = holder /\ acquiredMonitorCount' = acquiredMonitorCount
      /\ awake' = awake /\ changed' = changed /\ taken' = taken
  BY DEF N!monitors
<1>2. N!Alive' = N!Alive /\ N!Alive \subseteq Window
  BY DEF N!Alive, SameWindows
<1>3. InProgress'
  BY <1>2 DEF InProgress, MonitorInv, SameWindows, N!Alive
<1>4. MonitorsType' /\ ProgressType'
  BY <1>1, <1>2, TypeParts DEF MonitorInv, MonitorsType, ProgressType
<1>5. N!TypeOK'
  BY <1>4 DEF N!TypeOK, WinType, MessagesType, CursorType, MonitorsType, ProgressType
<1>6. DeadAreBlank'
  BY DEF MonitorInv, DeadAreBlank, SameWindows, N!Blank
<1>7. Counted'
  BY <1>1 DEF MonitorInv, Counted, Held
<1>8. HolderIsOnMonitor'
  <2>1. holder \in [Monitor -> Window \union {NoWindow}]
    BY DEF MonitorInv, N!TypeOK
  <2>2. QED
    BY <1>1, <2>1 DEF MonitorInv, HolderIsOnMonitor, SameWindows
<1>9. Holds'
  BY <1>1 DEF MonitorInv, Holds, SameWindows
<1>10. QED
  BY <1>3, <1>5, <1>6, <1>7, <1>8, <1>9 DEF MonitorInv

LEMMA QuietActions ==
    ASSUME MonitorInv, NEW w \in Window \union {NoWindow},
           \/ N!UserActivates(w) \/ N!SetFocus \/ N!KillFocus
           \/ /\ w \in Window
              /\ \/ N!CaptionClick(w) \/ N!CaptureChanged(w)
                 \/ N!EnterSizeMove(w) \/ N!ExitSizeMove(w)
                 \/ \E mode \in {"normal", "disabled", "captured"} : N!SetCursorMode(w, mode)
                 \/ N!SetRawMouseMotion(w) \/ N!IconifyWindow(w) \/ N!RestoreWindow(w)
                 \/ N!ShowWindowNested(w) \/ N!FocusWindow(w)
    PROVE  MonitorInv'
<1> USE DEF N!messages, N!cursor, N!monitors
<1>1. /\ WinType /\ MessagesType /\ CursorType /\ N!TypeOK
      /\ sizing \in [window : N!Alive \union {NoWindow}, iconified : BOOLEAN]
      /\ Len(inbox) \in Nat
  BY TypeParts, LenProperties DEF MonitorInv, ProgressType, InProgress, MessagesType
<1>2. \A v \in N!Alive : v \in Window /\ win[v].alive
  BY DEF N!Alive
<1>3. UNCHANGED win => WinType' /\ SameWindows
  BY <1>1 DEF WinType, SameWindows
<1>4. CASE N!UserActivates(w)
  <2>1. /\ foreground' = w /\ sync' = FALSE /\ Len(inbox) <= MaxInbox
        /\ inbox' = inbox \o N!FocusMoves(foreground, w)
    BY <1>4 DEF N!UserActivates
  <2>2. MessagesType'
    BY <1>1, <2>1, ForegroundChanges
  <2>3. QED
    BY <1>1, <1>3, <1>4, <2>2, QuietStep DEF N!UserActivates, CursorType
<1>5. ASSUME inbox # <<>>, inbox' = Tail(inbox), UNCHANGED <<foreground, sync>>
      PROVE  MessagesType' /\ Head(inbox) \in N!Message
  <2>1. Tail(inbox) \in Seq(N!Message) /\ Len(Tail(inbox)) = Len(inbox) - 1
    BY <1>1, <1>5, HeadTailProperties DEF MessagesType
  <2>2. Head(inbox) \in N!Message
    BY <1>1, <1>5, HeadTailProperties DEF MessagesType
  <2>3. QED
    BY <1>1, <1>5, <2>1, <2>2, Facts DEF MessagesType
<1>6. CASE N!SetFocus
  <2>1. MessagesType' /\ Head(inbox).window \in Window
    BY <1>5, <1>6 DEF N!SetFocus, N!Received, N!Message
  <2>2. CursorType'
    BY <1>1, <1>6, <2>1, CursorKeepsType DEF N!SetFocus
  <2>3. QED
    BY <1>1, <1>3, <1>6, <2>1, <2>2, QuietStep DEF N!SetFocus
<1>7. CASE N!KillFocus
  <2> DEFINE v == Head(inbox).window
  <2>1. MessagesType' /\ v \in Window
    BY <1>5, <1>7 DEF N!KillFocus, N!Received, N!Message
  <2>2. CursorType'
    BY <1>1, <1>7, <2>1, CursorKeepsType DEF N!KillFocus
  <2>3. CASE UNCHANGED <<win, sizing>>
    BY <1>1, <1>3, <1>7, <2>1, <2>2, <2>3, QuietStep DEF N!KillFocus
  <2>4. CASE /\ win[v].monitor # NoMonitor
             /\ win' = [win EXCEPT ![v].minimized = TRUE]
             /\ N!SizeBegin(v, TRUE)
    <3>1. win[v].alive /\ v \in N!Alive
      BY <2>1, <2>4 DEF MonitorInv, DeadAreBlank, N!Blank, N!Alive
    <3>2. WinType' /\ SameWindows
      BY <1>1, <2>4, <3>1, FieldChanges
    <3>3. sizing' \in [window : N!Alive \union {NoWindow}, iconified : BOOLEAN]
      BY <2>4, <3>1 DEF N!SizeBegin
    <3>4. QED
      BY <1>7, <2>1, <2>2, <3>2, <3>3, QuietStep DEF N!KillFocus
  <2>5. QED
    BY <1>7, <2>3, <2>4 DEF N!KillFocus
<1>8. CASE w \in Window /\ N!CaptionClick(w)
  <2>1. WinType' /\ SameWindows
    BY <1>1, <1>8, FieldChanges DEF N!CaptionClick, N!Shown
  <2>2. MessagesType'
    BY <1>1, <1>8, ActivateType DEF N!CaptionClick
  <2>3. QED
    BY <1>1, <1>8, <2>1, <2>2, QuietStep DEF N!CaptionClick, CursorType
<1>9. CASE w \in Window /\ (N!CaptureChanged(w) \/ N!EnterSizeMove(w) \/ N!ExitSizeMove(w))
  <2>1. WinType' /\ SameWindows
    BY <1>1, <1>9, FieldChanges
       DEF N!CaptureChanged, N!EnterSizeMove, N!ExitSizeMove, N!Shown
  <2>2. CursorType'
    BY <1>1, <1>9, CursorKeepsType DEF N!CaptureChanged, N!EnterSizeMove, N!ExitSizeMove
  <2>3. QED
    BY <1>1, <1>9, <2>1, <2>2, QuietStep
       DEF N!CaptureChanged, N!EnterSizeMove, N!ExitSizeMove, MessagesType
<1>10. CASE /\ w \in Window
            /\ \E mode \in {"normal", "disabled", "captured"} : N!SetCursorMode(w, mode)
  <2>1. PICK mode \in {"normal", "disabled", "captured"} : N!SetCursorMode(w, mode)
    BY <1>10
  <2>2. WinType' /\ SameWindows
    BY <1>1, <2>1, FieldChanges DEF N!SetCursorMode
  <2>3. CursorType'
    BY <1>1, <1>10, <2>1 DEF N!SetCursorMode, N!CursorIs, CursorType
  <2>4. QED
    BY <1>1, <2>1, <2>2, <2>3, QuietStep DEF N!SetCursorMode, MessagesType
<1>11. CASE w \in Window /\ N!SetRawMouseMotion(w)
  <2>1. (~win[w].rawMouseMotion) \in BOOLEAN
    OBVIOUS
  <2>2. WinType' /\ SameWindows
    BY <1>1, <1>11, <2>1, FieldChanges DEF N!SetRawMouseMotion
  <2>3. CursorType'
    BY <1>1, <1>11 DEF N!SetRawMouseMotion, CursorType
  <2>4. QED
    BY <1>1, <1>11, <2>2, <2>3, QuietStep DEF N!SetRawMouseMotion, MessagesType
<1>12. CASE w \in Window /\ (N!IconifyWindow(w) \/ N!RestoreWindow(w))
  <2>1. w \in N!Alive
    BY <1>12 DEF N!IconifyWindow, N!RestoreWindow, N!Shown
  <2>2. PICK b \in BOOLEAN : win' = [win EXCEPT ![w].minimized = b] /\ N!SizeBegin(w, b)
    BY <1>12 DEF N!IconifyWindow, N!RestoreWindow
  <2>3. WinType' /\ SameWindows
    BY <1>1, <2>1, <2>2, FieldChanges
  <2>4. sizing' \in [window : N!Alive \union {NoWindow}, iconified : BOOLEAN]
    BY <2>1, <2>2 DEF N!SizeBegin
  <2>5. MessagesType'
    BY <1>1, <1>2, <1>12, ActivateType
       DEF N!IconifyWindow, N!RestoreWindow, N!Shown, MessagesType
  <2>6. QED
    BY <1>1, <1>12, <2>3, <2>4, <2>5, QuietStep
       DEF N!IconifyWindow, N!RestoreWindow, CursorType
<1>13. CASE w \in Window /\ N!ShowWindowNested(w)
  <2>1. w \in N!Alive
    BY <1>13, Facts DEF N!ShowWindowNested, N!InCallback, MonitorInv, InProgress
  <2>2. win' = [win EXCEPT ![w].minimized = ~win[w].minimized]
    BY <1>1, <1>13 DEF N!ShowWindowNested, WinType
  <2>3. (~win[w].minimized) \in BOOLEAN
    OBVIOUS
  <2>4. WinType' /\ SameWindows
    BY <1>1, <2>1, <2>2, <2>3, FieldChanges
  <2>5. MessagesType'
    BY <1>1, <1>13, ActivateType DEF N!ShowWindowNested, MessagesType
  <2>6. QED
    BY <1>1, <1>13, <2>4, <2>5, QuietStep DEF N!ShowWindowNested, CursorType
<1>14. CASE w \in Window /\ N!FocusWindow(w)
  BY <1>1, <1>3, <1>14, ActivateType, QuietStep DEF N!FocusWindow, CursorType
<1>15. QED
  BY <1>4, <1>6, <1>7, <1>8, <1>9, <1>10, <1>11, <1>12, <1>13, <1>14

LEMMA IconifiedChanges ==
    ASSUME WinType, NEW w \in Window, NEW b \in BOOLEAN,
           win' = [win EXCEPT ![w].iconified = b]
    PROVE  /\ WinType'
           /\ \A v \in Window \ {w} : win'[v] = win[v]
           /\ win'[w].alive = win[w].alive /\ win'[w].monitor = win[w].monitor
           /\ win'[w].iconified = b
BY DEF WinType, N!WindowRecord

LEMMA SizeEndStep == MonitorInv /\ N!SizeEnd => MonitorInv'
<1> SUFFICES ASSUME MonitorInv, N!SizeEnd PROVE MonitorInv'
  OBVIOUS
<1> DEFINE w == sizing.window
           b == sizing.iconified
           m == win[w].monitor
<1>1. /\ N!TypeOK /\ WinType /\ MessagesType /\ CursorType /\ MonitorsType /\ ProgressType
      /\ Counted
  BY TypeParts DEF MonitorInv
<1>2. w \in N!Alive /\ w \in Window /\ win[w].alive /\ b \in BOOLEAN
      /\ m \in Monitor \union {NoMonitor}
  BY <1>1 DEF N!SizeEnd, MonitorInv, InProgress, ProgressType, N!Alive, WinType,
              N!WindowRecord
<1>3. /\ win' = [win EXCEPT ![w].iconified = b]
      /\ sizing' = N!NoSizing /\ creating' = creating
      /\ foreground' = foreground /\ inbox' = inbox /\ sync' = sync
      /\ win32Disabled' = win32Disabled /\ capturedCursorWindow' = capturedCursorWindow
      /\ rawTarget' = rawTarget
  BY DEF N!SizeEnd, N!messages, N!cursor
<1>4. WinType' /\ \A v \in Window \ {w} : win'[v] = win[v]
  BY <1>1, <1>2, <1>3, IconifiedChanges
<1>5. /\ win'[w].alive = win[w].alive /\ win'[w].monitor = win[w].monitor
      /\ win'[w].iconified = b
  BY <1>1, <1>2, <1>3, IconifiedChanges
<1>6. N!Alive' = N!Alive
  BY <1>4, <1>5 DEF N!Alive
<1>7. MessagesType' /\ CursorType' /\ ProgressType' /\ InProgress' /\ DeadAreBlank'
  <2>1. MessagesType' /\ CursorType' /\ ProgressType'
    BY <1>1, <1>3 DEF MessagesType, CursorType, ProgressType, N!NoSizing
  <2>2. InProgress'
    BY <1>3, <1>4, <1>5, <1>6 DEF MonitorInv, InProgress, N!NoSizing, N!Alive
  <2>3. DeadAreBlank'
    BY <1>2, <1>4, <1>5 DEF MonitorInv, DeadAreBlank, N!Blank
  <2>4. QED
    BY <2>1, <2>2, <2>3
<1>8. /\ HolderIsOnMonitor /\ Holds /\ NoWindow \notin Window /\ NoMonitor \notin Monitor
      /\ \A x \in Monitor : holder[x] # NoWindow => holder[x] \in Window
  BY <1>1, Facts DEF MonitorInv, MonitorsType
<1>9. MonitorsType' /\ Counted' /\ HolderIsOnMonitor' /\ Holds'
  <2>1. CASE m = NoMonitor \/ ~N!Differs(w, b)
    <3>1. /\ holder' = holder /\ acquiredMonitorCount' = acquiredMonitorCount
          /\ awake' = awake /\ changed' = changed /\ taken' = taken
      BY <2>1 DEF N!SizeEnd, N!monitors
    <3>2. m = NoMonitor \/ win'[w].iconified = win[w].iconified
      BY <1>5, <2>1 DEF N!Differs
    <3>3. HolderIsOnMonitor'
      BY <1>4, <1>5, <1>8, <3>1 DEF HolderIsOnMonitor
    <3>4. Holds'
      BY <1>3, <1>4, <1>5, <1>8, <3>1, <3>2 DEF Holds
    <3>5. QED
      BY <1>1, <3>1, <3>3, <3>4 DEF MonitorsType, Counted, Held
  <2>2. CASE m # NoMonitor /\ b /\ N!ReleaseMonitor(w, m)
    <3>1. /\ holder' \in [Monitor -> Window \union {NoWindow}]
          /\ acquiredMonitorCount' \in Int /\ awake' \in BOOLEAN
          /\ changed' \subseteq Monitor /\ Counted' /\ taken' = taken
          /\ \A x \in Monitor :
               holder'[x] = IF x = m /\ holder[m] = w THEN NoWindow ELSE holder[x]
      BY <1>1, <1>2, <2>2, Releases DEF N!ReleaseMonitor
    <3>2. HolderIsOnMonitor'
      BY <1>4, <1>5, <1>8, <3>1 DEF HolderIsOnMonitor
    <3>3. Holds'
      BY <1>1, <1>2, <1>3, <1>4, <1>5, <1>8, <2>2, <3>1 DEF Holds, WinType, N!WindowRecord
    <3>4. QED
      BY <1>1, <3>1, <3>2, <3>3 DEF MonitorsType
  <2>3. CASE m # NoMonitor /\ N!AcquireMonitor(w, m)
    <3>1. /\ holder' \in [Monitor -> Window \union {NoWindow}]
          /\ acquiredMonitorCount' \in Int /\ awake' \in BOOLEAN
          /\ changed' \subseteq Monitor /\ taken' \subseteq Window /\ Counted'
          /\ \A x \in Monitor : holder'[x] = IF x = m THEN w ELSE holder[x]
          /\ taken' = (taken \ {w}) \union ({holder[m]} \ {w, NoWindow})
      BY <1>1, <1>2, <2>3, Acquires
    <3>2. HolderIsOnMonitor'
      <4>1. ASSUME NEW x \in Monitor, holder'[x] # NoWindow
            PROVE  win'[holder'[x]].alive /\ win'[holder'[x]].monitor = x
        <5>1. CASE x = m
          <6>1. holder'[x] = w
            BY <3>1, <5>1
          <6>2. win'[w].alive /\ win'[w].monitor = m
            BY <1>2, <1>5
          <6>3. QED
            BY <5>1, <6>1, <6>2
        <5>2. CASE x # m
          <6>1. holder'[x] = holder[x] /\ holder[x] \in Window
            BY <1>8, <3>1, <4>1, <5>2
          <6>2. win[holder[x]].alive /\ win[holder[x]].monitor = x
            BY <1>8, <4>1, <6>1 DEF HolderIsOnMonitor
          <6>3. CASE holder[x] = w
            BY <1>5, <6>1, <6>2, <6>3
          <6>4. CASE holder[x] # w
            BY <1>4, <6>1, <6>2, <6>4
          <6>5. QED
            BY <6>3, <6>4
        <5>3. QED
          BY <5>1, <5>2
      <4>2. QED
        BY <4>1 DEF HolderIsOnMonitor
    <3>3. Holds'
      BY <1>1, <1>2, <1>3, <1>4, <1>5, <1>8, <2>3, <3>1 DEF Holds, WinType, N!WindowRecord
    <3>4. QED
      BY <3>1, <3>2, <3>3 DEF MonitorsType
  <2>4. QED
    BY <2>1, <2>2, <2>3 DEF N!SizeEnd
<1>10. QED
  BY <1>4, <1>7, <1>9
     DEF MonitorInv, N!TypeOK, WinType, MessagesType, CursorType, MonitorsType, ProgressType

LEMMA SetWindowMonitorStep ==
    ASSUME MonitorInv, NEW w \in Window, NEW m \in Monitor \union {NoMonitor},
           N!SetWindowMonitor(w, m)
    PROVE  MonitorInv'
<1>1. /\ N!TypeOK /\ WinType /\ MessagesType /\ CursorType /\ MonitorsType /\ ProgressType
      /\ Counted /\ HolderIsOnMonitor /\ Holds
  BY TypeParts DEF MonitorInv
<1>2. /\ win[w].alive /\ w # creating /\ sizing' = sizing /\ creating' = creating
      /\ foreground' = foreground /\ inbox' = inbox /\ sync' = sync
      /\ win32Disabled' = win32Disabled /\ capturedCursorWindow' = capturedCursorWindow
      /\ rawTarget' = rawTarget
  BY Facts DEF N!SetWindowMonitor, N!MayCall, N!InCallback, N!Idle, N!Alive, N!messages,
               N!cursor
<1>3. MessagesType' /\ CursorType' /\ ProgressType'
  BY <1>1, <1>2 DEF MessagesType, CursorType, ProgressType
<1>4. /\ NoWindow \notin Window /\ NoMonitor \notin Monitor
      /\ \A x \in Monitor : holder[x] # NoWindow => holder[x] \in Window
  BY <1>1, Facts DEF MonitorsType
<1>5. CASE m # win[w].monitor
  <2>1. N!MoveToMonitor(w, m) /\ win' = [win EXCEPT ![w].monitor = m]
    BY <1>5 DEF N!SetWindowMonitor, N!MoveToMonitor
  <2>2. /\ WinType'
        /\ win'[w] = [win[w] EXCEPT !.monitor = m]
        /\ \A v \in Window \ {w} : win'[v] = win[v]
    BY <1>1, <2>1 DEF WinType, N!WindowRecord
  <2>3. /\ win'[w].alive = win[w].alive /\ win'[w].monitor = m
        /\ win'[w].iconified = win[w].iconified
    BY <1>1, <2>2 DEF WinType, N!WindowRecord
  <2>4. N!Alive' = N!Alive
    BY <2>2, <2>3 DEF N!Alive
  <2>5. /\ holder' \in [Monitor -> Window \union {NoWindow}]
        /\ acquiredMonitorCount' \in Int /\ awake' \in BOOLEAN
        /\ changed' \subseteq Monitor /\ taken' \subseteq Window /\ Counted'
        /\ \A x \in Monitor :
             holder'[x] = IF x = m THEN w
                          ELSE IF holder[x] = w THEN NoWindow ELSE holder[x]
        /\ taken' = (taken \ {w}) \union
             (IF m = NoMonitor THEN {} ELSE {holder[m]} \ {NoWindow})
    BY <1>1, <1>5, <2>1, Moves
  <2>6. InProgress'
    BY <1>2, <2>2, <2>3, <2>4 DEF MonitorInv, InProgress, N!Alive
  <2>7. DeadAreBlank'
    BY <1>2, <2>2, <2>3 DEF MonitorInv, DeadAreBlank, N!Blank
  <2>8. HolderIsOnMonitor'
    <3>1. ASSUME NEW x \in Monitor, holder'[x] # NoWindow
          PROVE  win'[holder'[x]].alive /\ win'[holder'[x]].monitor = x
      <4>1. CASE x = m
        BY <1>2, <2>3, <2>5, <4>1
      <4>2. CASE x # m
        <5>1. holder'[x] = holder[x] /\ holder[x] \in Window \ {w}
          BY <1>4, <2>5, <3>1, <4>2
        <5>2. win[holder[x]].alive /\ win[holder[x]].monitor = x
          BY <1>1, <3>1, <5>1 DEF HolderIsOnMonitor
        <5>3. QED
          BY <2>2, <5>1, <5>2
      <4>3. QED
        BY <4>1, <4>2
    <3>2. QED
      BY <3>1 DEF HolderIsOnMonitor
  <2>9. Holds'
    <3>1. ASSUME NEW v \in Window, win'[v].alive, win'[v].monitor # NoMonitor,
                 ~win'[v].iconified, v \notin taken' \union {creating'}
          PROVE  holder'[win'[v].monitor] = v
      <4>1. CASE v = w
        BY <2>3, <2>5, <3>1, <4>1
      <4>2. CASE v # w
        <5>1. win'[v] = win[v] /\ win[v].monitor \in Monitor
          BY <1>1, <2>2, <3>1, <4>2 DEF WinType, N!WindowRecord
        <5>2. v \notin taken \union {creating} /\ (m # NoMonitor => v # holder[m])
          BY <1>2, <1>4, <2>5, <3>1, <4>2
        <5>3. holder[win[v].monitor] = v
          BY <1>1, <3>1, <5>1, <5>2 DEF Holds
        <5>4. QED
          BY <1>4, <2>5, <4>2, <5>1, <5>2, <5>3
      <4>3. QED
        BY <4>1, <4>2
    <3>2. QED
      BY <3>1 DEF Holds
  <2>10. QED
    BY <1>3, <2>2, <2>5, <2>6, <2>7, <2>8, <2>9
       DEF MonitorInv, N!TypeOK, WinType, MessagesType, CursorType, ProgressType
<1>6. CASE m = win[w].monitor
  <2>1. m \in Monitor /\ N!AcquireMonitor(w, m) /\ win' = win /\ holder[m] = w
    BY <1>6 DEF N!SetWindowMonitor, N!Reacquire
  <2>2. /\ holder' \in [Monitor -> Window \union {NoWindow}]
        /\ acquiredMonitorCount' \in Int /\ awake' \in BOOLEAN
        /\ changed' \subseteq Monitor /\ taken' \subseteq Window /\ Counted'
        /\ \A x \in Monitor : holder'[x] = IF x = m THEN w ELSE holder[x]
        /\ taken' = (taken \ {w}) \union ({holder[m]} \ {w, NoWindow})
    BY <1>1, <2>1, Acquires
  <2>3. HolderIsOnMonitor' /\ Holds'
    BY <1>1, <1>2, <1>4, <1>6, <2>1, <2>2 DEF HolderIsOnMonitor, Holds, WinType,
                                              N!WindowRecord
  <2>4. InProgress' /\ DeadAreBlank' /\ WinType'
    BY <1>1, <1>2, <2>1 DEF MonitorInv, InProgress, DeadAreBlank, N!Blank, N!Alive, WinType
  <2>5. QED
    BY <1>3, <2>2, <2>3, <2>4
       DEF MonitorInv, N!TypeOK, WinType, MessagesType, CursorType, ProgressType
<1>7. QED
  BY <1>5, <1>6

\* A window that the application creates, or one that it destroys.
LEMMA CreateWindowStep ==
    ASSUME MonitorInv, NEW w \in Window, NEW m \in Monitor \union {NoMonitor},
           N!CreateWindow(w, m)
    PROVE  MonitorInv'
<1> DEFINE new == [N!Blank EXCEPT !.alive = TRUE, !.monitor = m]
<1>1. /\ N!TypeOK /\ WinType /\ MessagesType /\ CursorType /\ MonitorsType /\ ProgressType
      /\ Counted /\ HolderIsOnMonitor /\ Holds
  BY TypeParts DEF MonitorInv
<1>2. /\ ~win[w].alive /\ sizing = N!NoSizing /\ sizing' = sizing
      /\ creating' = IF m = NoMonitor THEN NoWindow ELSE w
      /\ win32Disabled' = win32Disabled /\ capturedCursorWindow' = capturedCursorWindow
      /\ rawTarget' = rawTarget
      /\ holder' = holder /\ acquiredMonitorCount' = acquiredMonitorCount
      /\ awake' = awake /\ changed' = changed /\ taken' = taken
  BY DEF N!CreateWindow, N!Idle, N!Alive, N!cursor, N!monitors
<1>3. win' = [win EXCEPT ![w] = new]
  BY DEF N!CreateWindow
<1>4. /\ new \in N!WindowRecord
      /\ new.alive /\ new.monitor = m /\ ~new.iconified /\ new.mode = "normal"
      /\ ~new.rawMouseMotion /\ ~new.frameAction /\ ~new.loop
  BY DEF N!Blank, N!WindowRecord
<1> HIDE DEF new
<1>5. WinType' /\ win'[w] = new /\ \A v \in Window \ {w} : win'[v] = win[v]
  BY <1>1, <1>3, <1>4 DEF WinType
<1>6. N!Alive' = N!Alive \union {w}
  BY <1>4, <1>5 DEF N!Alive
<1>7. MessagesType'
  BY <1>1, ActivateType DEF N!CreateWindow, N!messages, MessagesType
<1>8. CursorType' /\ MonitorsType' /\ ProgressType' /\ Counted'
  BY <1>1, <1>2 DEF CursorType, MonitorsType, ProgressType, Counted, Held
<1>9. InProgress' /\ DeadAreBlank'
  <2>1. sizing.window = NoWindow /\ sizing' = sizing
    BY <1>2 DEF N!NoSizing
  <2>2. InProgress'
    BY <1>2, <1>4, <1>5, <1>6, <2>1 DEF InProgress
  <2>3. \A v \in Window \ {w} : ~win[v].alive => win[v] = N!Blank
    BY DEF MonitorInv, DeadAreBlank
  <2>4. \A v \in Window : ~win'[v].alive => win'[v] = N!Blank
    BY <1>4, <1>5, <2>3
  <2>5. N!Blank' = N!Blank
    BY DEF N!Blank
  <2>6. QED
    BY <2>2, <2>4, <2>5 DEF DeadAreBlank
<1>10. HolderIsOnMonitor'
  <2>1. \A x \in Monitor : holder[x] # NoWindow => holder[x] \in Window \ {w}
    BY <1>1, <1>2 DEF MonitorsType, HolderIsOnMonitor
  <2>2. QED
    BY <1>1, <1>2, <1>5, <2>1 DEF HolderIsOnMonitor
<1>11. Holds'
  <2>1. creating = NoWindow
    BY DEF N!CreateWindow, N!Idle
  <2>2. QED
    BY <1>1, <1>2, <1>4, <1>5, <2>1, Facts DEF Holds
<1>12. QED
  BY <1>5, <1>7, <1>8, <1>9, <1>10, <1>11
     DEF MonitorInv, N!TypeOK, WinType, MessagesType, CursorType, MonitorsType, ProgressType

LEMMA CreateEndStep == MonitorInv /\ N!CreateEnd => MonitorInv'
<1> SUFFICES ASSUME MonitorInv, N!CreateEnd PROVE MonitorInv'
  OBVIOUS
<1> DEFINE w == creating
           m == win[w].monitor
<1>1. /\ N!TypeOK /\ WinType /\ MessagesType /\ CursorType /\ MonitorsType /\ ProgressType
      /\ Counted /\ HolderIsOnMonitor /\ Holds
  BY TypeParts DEF MonitorInv
<1>2. /\ w \in Window /\ win[w].alive /\ m \in Monitor /\ N!AcquireMonitor(w, m)
      /\ creating' = NoWindow /\ win' = win /\ sizing' = sizing
      /\ UNCHANGED N!messages /\ UNCHANGED N!cursor
  BY <1>1 DEF N!CreateEnd, MonitorInv, InProgress, N!Alive, WinType, N!WindowRecord
<1>3. /\ holder' \in [Monitor -> Window \union {NoWindow}]
      /\ acquiredMonitorCount' \in Int /\ awake' \in BOOLEAN
      /\ changed' \subseteq Monitor /\ taken' \subseteq Window /\ Counted'
      /\ \A x \in Monitor : holder'[x] = IF x = m THEN w ELSE holder[x]
      /\ taken' = (taken \ {w}) \union ({holder[m]} \ {w, NoWindow})
  BY <1>1, <1>2, Acquires
<1>4. \A x \in Monitor : holder[x] # NoWindow => holder[x] \in Window
  BY <1>1 DEF MonitorsType
<1>5. HolderIsOnMonitor'
  BY <1>1, <1>2, <1>3, <1>4 DEF HolderIsOnMonitor
<1>6. Holds'
  <2>1. ASSUME NEW v \in Window, win[v].alive, win[v].monitor # NoMonitor,
               ~win[v].iconified, v \notin taken'
        PROVE  holder'[win[v].monitor] = v
    <3>1. win[v].monitor \in Monitor
      BY <1>1, <2>1 DEF WinType, N!WindowRecord
    <3>2. CASE v = w
      BY <1>2, <1>3, <3>2
    <3>3. CASE v # w
      <4>1. v \notin taken /\ v # holder[m]
        BY <1>3, <2>1, <3>3, Facts
      <4>2. holder[win[v].monitor] = v
        BY <1>1, <2>1, <3>3, <4>1 DEF Holds
      <4>3. QED
        BY <1>3, <3>1, <4>1, <4>2
    <3>4. QED
      BY <3>2, <3>3
  <2>2. QED
    BY <1>2, <2>1 DEF Holds
<1>7. InProgress' /\ DeadAreBlank' /\ ProgressType'
  BY <1>1, <1>2 DEF MonitorInv, InProgress, DeadAreBlank, N!Blank, N!Alive, ProgressType
<1>8. MessagesType' /\ CursorType' /\ WinType'
  BY <1>1, <1>2 DEF MessagesType, CursorType, WinType, N!messages, N!cursor
<1>9. QED
  BY <1>3, <1>5, <1>6, <1>7, <1>8
     DEF MonitorInv, N!TypeOK, WinType, MessagesType, CursorType, ProgressType

LEMMA DestroyWindowStep ==
    ASSUME MonitorInv, NEW w \in Window, N!DestroyWindow(w)
    PROVE  MonitorInv'
<1> DEFINE m == win[w].monitor
<1>1. /\ N!TypeOK /\ WinType /\ MessagesType /\ CursorType /\ MonitorsType /\ ProgressType
      /\ Counted /\ HolderIsOnMonitor /\ Holds
  BY TypeParts DEF MonitorInv
<1>2. /\ win[w].alive /\ m \in Monitor \union {NoMonitor}
      /\ sizing = N!NoSizing /\ creating = NoWindow
      /\ sizing' = sizing /\ creating' = creating
      /\ win' = [win EXCEPT ![w] = N!Blank] /\ taken' = taken \ {w}
  BY <1>1 DEF N!DestroyWindow, N!Idle, N!Alive, WinType, N!WindowRecord
<1>3. N!Blank \in N!WindowRecord /\ ~N!Blank.alive
  BY DEF N!Blank, N!WindowRecord
<1>4. WinType' /\ win'[w] = N!Blank /\ \A v \in Window \ {w} : win'[v] = win[v]
  BY <1>1, <1>2, <1>3 DEF WinType
<1>5. /\ holder' \in [Monitor -> Window \union {NoWindow}]
      /\ acquiredMonitorCount' \in Int /\ awake' \in BOOLEAN
      /\ changed' \subseteq Monitor /\ Counted'
      /\ \A x \in Monitor :
           holder'[x] = IF x = m /\ holder[m] = w THEN NoWindow ELSE holder[x]
  <2>1. CASE m = NoMonitor
    <3>1. /\ holder' = holder /\ acquiredMonitorCount' = acquiredMonitorCount
          /\ awake' = awake /\ changed' = changed
      BY <2>1 DEF N!DestroyWindow
    <3>2. QED
      BY <1>1, <2>1, <3>1, Facts DEF MonitorsType, Counted, Held
  <2>2. CASE m # NoMonitor
    <3>1. m \in Monitor /\ N!Release(w, m)
      BY <1>2, <2>2 DEF N!DestroyWindow
    <3>2. QED
      BY <1>1, <3>1, Releases
  <2>3. QED
    BY <2>1, <2>2
<1>6. HolderIsOnMonitor'
  <2>1. ASSUME NEW x \in Monitor, holder'[x] # NoWindow
        PROVE  win'[holder'[x]].alive /\ win'[holder'[x]].monitor = x
    <3>1. holder'[x] = holder[x] /\ holder[x] \in Window
      BY <1>1, <1>5, <2>1 DEF MonitorsType
    <3>2. win[holder[x]].alive /\ win[holder[x]].monitor = x
      BY <1>1, <2>1, <3>1 DEF HolderIsOnMonitor
    <3>3. holder[x] # w
      BY <1>5, <2>1, <3>1, <3>2
    <3>4. QED
      BY <1>4, <3>1, <3>2, <3>3
  <2>2. QED
    BY <2>1 DEF HolderIsOnMonitor
<1>7. Holds'
  <2>1. \A v \in Window \ {w} : win[v].monitor \in Monitor \union {NoMonitor}
    BY <1>1 DEF WinType, N!WindowRecord
  <2>2. QED
    BY <1>1, <1>2, <1>3, <1>4, <1>5, <2>1 DEF Holds
<1>8. InProgress' /\ DeadAreBlank' /\ ProgressType'
  BY <1>1, <1>2, <1>3, <1>4 DEF MonitorInv, InProgress, DeadAreBlank, N!NoSizing, N!Blank,
                                N!Alive, ProgressType
<1>9. CursorType'
  BY <1>1, CursorKeepsType DEF N!DestroyWindow, N!CursorIs, CursorType
<1>10. MessagesType'
  <2>1. CASE foreground # w
    BY <1>1, <2>1 DEF N!DestroyWindow, N!messages, MessagesType
  <2>2. CASE foreground = w
    <3>1. PICK x \in (N!Shown \ {w}) \union {NoWindow} :
             /\ Len(inbox) <= MaxInbox /\ foreground' = x /\ sync' = TRUE
             /\ inbox' = inbox \o N!FocusMoves(NoWindow, x)
      BY <2>2 DEF N!DestroyWindow
    <3>2. x \in Window \union {NoWindow}
      BY DEF N!Shown, N!Alive
    <3>3. inbox' \in Seq(N!Message) /\ Len(inbox') <= Len(inbox) + 2
      BY <1>1, <3>1, <3>2, FocusMovesType DEF MessagesType
    <3>4. Len(inbox) \in Nat /\ Len(inbox') \in Nat
      BY <1>1, <3>3, LenProperties DEF MessagesType
    <3>5. QED
      BY <3>1, <3>2, <3>3, <3>4, Facts DEF MessagesType
  <2>3. QED
    BY <2>1, <2>2
<1>11. MonitorsType'
  BY <1>1, <1>2, <1>5 DEF MonitorsType
<1>12. QED
  BY <1>4, <1>5, <1>6, <1>7, <1>8, <1>9, <1>10, <1>11
     DEF MonitorInv, N!TypeOK, WinType, MessagesType, CursorType, MonitorsType, ProgressType

LEMMA InitMonitorInv == N!Init => MonitorInv
<1> SUFFICES ASSUME N!Init PROVE MonitorInv
  OBVIOUS
<1>1. N!Blank \in N!WindowRecord /\ ~N!Blank.alive
  BY DEF N!Blank, N!WindowRecord
<1>2. Held = {} /\ Cardinality({}) = 0
  BY FS_EmptySet DEF N!Init, Held
<1>3. WinType /\ MessagesType /\ CursorType /\ MonitorsType
  <2>1. WinType
    BY <1>1 DEF N!Init, WinType
  <2>2. CursorType
    BY DEF N!Init, CursorType
  <2>3. MonitorsType
    <3>1. holder \in [Monitor -> Window \union {NoWindow}]
      BY DEF N!Init
    <3>2. changed = {} /\ taken = {} /\ acquiredMonitorCount = 0
      BY DEF N!Init
    <3>3. awake \in BOOLEAN
      BY DEF N!Init
    <3>4. acquiredMonitorCount \in Int
      BY <3>2
    <3>5. QED
      BY <3>1, <3>2, <3>3, <3>4 DEF MonitorsType
  <2>4. inbox \in Seq(N!Message) /\ Len(inbox) = 0
    BY EmptySeq DEF N!Init
  <2>5. foreground \in Window \union {NoWindow} /\ sync \in BOOLEAN
    BY DEF N!Init
  <2>6. MessagesType
    BY <2>4, <2>5, Facts DEF MessagesType
  <2>7. QED
    BY <2>1, <2>2, <2>3, <2>6
<1>4. ProgressType /\ InProgress
  BY DEF N!Init, N!NoSizing, ProgressType, InProgress
<1>5. Counted /\ HolderIsOnMonitor /\ Holds /\ DeadAreBlank
  BY <1>1, <1>2 DEF N!Init, Counted, HolderIsOnMonitor, Holds, DeadAreBlank
<1>6. QED
  BY <1>3, <1>4, <1>5, TypeParts DEF MonitorInv

LEMMA NextMonitorInv == MonitorInv /\ N!Next => MonitorInv'
<1> SUFFICES ASSUME MonitorInv, N!Next PROVE MonitorInv'
  OBVIOUS
<1>1. CASE N!System
  BY <1>1, QuietActions, SizeEndStep DEF N!System
<1>2. CASE N!Call
  BY <1>2, QuietActions, SetWindowMonitorStep, CreateWindowStep, CreateEndStep,
     DestroyWindowStep DEF N!Call
<1>3. QED
  BY <1>1, <1>2 DEF N!Next

-----------------------------------------------------------------------------
(***************************************************************************)
(* Win32Windows, the focus.  The messages q that wait are a chain to the   *)
(* foreground window f: what gets the focus loses it before another window *)
(* gets it, unless it has been destroyed.                                  *)
(***************************************************************************)
IsChain(q, f, alive) ==
    /\ \A i \in 1..Len(q) - 1 :
         IF q[i].type = "kill" THEN q[i + 1].type = "set"
         ELSE \/ q[i + 1] = [type |-> "kill", window |-> q[i].window]
              \/ q[i].window \notin alive /\ q[i + 1].type = "set"
    /\ q # <<>> => f = IF q[Len(q)].type = "set" /\ q[Len(q)].window \in alive
                       THEN q[Len(q)].window ELSE NoWindow

\* The window that has the focus as far as the messages that have been handled
\* say, when those of q wait.
KnownOf(q, f) ==
    IF q = <<>> THEN f
    ELSE IF q[1].type = "kill" THEN q[1].window
    ELSE NoWindow

Known == KnownOf(inbox, foreground)

\* Only a window that has the focus is moved; one that a click on its caption
\* activates gets the focus before anything else happens.
LoopsAreKnown ==
    \A w \in Window :
        /\ win[w].loop => Known = w
        /\ win[w].frameAction =>
             \/ Known = w
             \/ sync /\ \E i \in 1..Len(inbox) : inbox[i] = [type |-> "set", window |-> w]

Free == win32Disabled = NoWindow /\ capturedCursorWindow = NoWindow

IsOf(w) ==
    /\ win32Disabled = IF win[w].mode = "disabled" THEN w ELSE NoWindow
    /\ capturedCursorWindow = IF win[w].mode # "normal" THEN w ELSE NoWindow

\* The cursor is the one that the known window's mode asks for, or free while
\* that window is moved.
CursorIsOfKnown ==
    IF Known = NoWindow THEN Free
    ELSE IsOf(Known) \/ (Free /\ (win[Known].loop \/ win[Known].frameAction))

FocusInv ==
    /\ foreground \in N!Alive \union {NoWindow}
    /\ IsChain(inbox, foreground, N!Alive)
    /\ LoopsAreKnown
    /\ CursorIsOfKnown
    /\ N!RawFollowsCursor

LEMMA KillAppended ==
    ASSUME NEW q \in Seq(N!Message), NEW alive \in SUBSET Window, NEW f \in alive,
           IsChain(q, f, alive)
    PROVE  LET r == q \o <<[type |-> "kill", window |-> f]>> IN
           /\ r \in Seq(N!Message)
           /\ IsChain(r, NoWindow, alive)
           /\ KnownOf(r, NoWindow) = KnownOf(q, f)
           /\ Len(r) = Len(q) + 1 /\ \A i \in 1..Len(q) : r[i] = q[i]
<1> DEFINE e == [type |-> "kill", window |-> f]
           r == q \o <<e>>
<1>1. e \in N!Message /\ e.type = "kill" /\ e.window = f
  BY DEF N!Message
<1>2. /\ r \in Seq(N!Message) /\ Len(r) = Len(q) + 1 /\ r[Len(q) + 1] = e
      /\ \A i \in 1..Len(q) : r[i] = q[i]
      /\ r # <<>> /\ Len(q) \in Nat
  BY <1>1, LastOfConcat, LenProperties
<1> HIDE DEF r, e
<1>3. f # NoWindow
  BY Facts
<1>4. ASSUME NEW i \in 1..Len(r) - 1
      PROVE  IF r[i].type = "kill" THEN r[i + 1].type = "set"
             ELSE \/ r[i + 1] = [type |-> "kill", window |-> r[i].window]
                  \/ r[i].window \notin alive /\ r[i + 1].type = "set"
  <2>1. CASE i = Len(q)
    <3>1. q # <<>> /\ r[i] = q[Len(q)] /\ r[i + 1] = e
      BY <1>2, <1>4, <2>1, EmptySeq
    <3>2. q[Len(q)].type = "set" /\ q[Len(q)].window = f
      BY <1>3, <3>1 DEF IsChain
    <3>3. QED
      BY <3>1, <3>2 DEF e
  <2>2. CASE i # Len(q)
    <3>1. i \in 1..Len(q) - 1 /\ r[i] = q[i] /\ r[i + 1] = q[i + 1]
      BY <1>2, <1>4, <2>2
    <3>2. QED
      BY <3>1 DEF IsChain
  <2>3. QED
    BY <2>1, <2>2
<1>5. IsChain(r, NoWindow, alive)
  BY <1>1, <1>2, <1>4 DEF IsChain
<1>6. KnownOf(r, NoWindow) = KnownOf(q, f)
  <2>1. CASE q = <<>>
    <3>1. Len(q) = 0
      BY <2>1
    <3>2. r[1] = e
      BY <1>2, <3>1
    <3>3. QED
      BY <1>1, <1>2, <2>1, <3>2 DEF KnownOf
  <2>2. CASE q # <<>>
    <3>1. r[1] = q[1]
      BY <1>2, <2>2, EmptySeq
    <3>2. QED
      BY <1>2, <2>2, <3>1 DEF KnownOf
  <2>3. QED
    BY <2>1, <2>2
<1>7. QED
  BY <1>2, <1>5, <1>6 DEF r, e

LEMMA SetAppended ==
    ASSUME NEW q \in Seq(N!Message), NEW alive \in SUBSET Window, NEW x \in alive,
           IsChain(q, NoWindow, alive)
    PROVE  LET r == q \o <<[type |-> "set", window |-> x]>> IN
           /\ r \in Seq(N!Message)
           /\ IsChain(r, x, alive)
           /\ KnownOf(r, x) = KnownOf(q, NoWindow)
           /\ Len(r) = Len(q) + 1 /\ r[Len(r)] = [type |-> "set", window |-> x]
           /\ \A i \in 1..Len(q) : r[i] = q[i]
<1> DEFINE e == [type |-> "set", window |-> x]
           r == q \o <<e>>
<1>1. e \in N!Message /\ e.type = "set" /\ e.window = x
  BY DEF N!Message
<1>2. /\ r \in Seq(N!Message) /\ Len(r) = Len(q) + 1 /\ r[Len(q) + 1] = e
      /\ \A i \in 1..Len(q) : r[i] = q[i]
      /\ r # <<>> /\ Len(q) \in Nat
  BY <1>1, LastOfConcat, LenProperties
<1> HIDE DEF r, e
<1>3. \A v \in alive : v # NoWindow
  BY Facts
<1>4. ASSUME NEW i \in 1..Len(r) - 1
      PROVE  IF r[i].type = "kill" THEN r[i + 1].type = "set"
             ELSE \/ r[i + 1] = [type |-> "kill", window |-> r[i].window]
                  \/ r[i].window \notin alive /\ r[i + 1].type = "set"
  <2>1. CASE i = Len(q)
    <3>1. q # <<>> /\ r[i] = q[Len(q)] /\ r[i + 1] = e /\ q[Len(q)] \in N!Message
      BY <1>2, <1>4, <2>1, EmptySeq, ElementOfSeq
    <3>2. q[Len(q)].type = "kill" \/ q[Len(q)].window \notin alive
      BY <1>3, <3>1 DEF IsChain, N!Message
    <3>3. QED
      BY <1>1, <3>1, <3>2
  <2>2. CASE i # Len(q)
    <3>1. i \in 1..Len(q) - 1 /\ r[i] = q[i] /\ r[i + 1] = q[i + 1]
      BY <1>2, <1>4, <2>2
    <3>2. QED
      BY <3>1 DEF IsChain
  <2>3. QED
    BY <2>1, <2>2
<1>5. IsChain(r, x, alive)
  BY <1>1, <1>2, <1>4 DEF IsChain
<1>6. KnownOf(r, x) = KnownOf(q, NoWindow)
  <2>1. CASE q = <<>>
    <3>1. Len(q) = 0
      BY <2>1
    <3>2. r[1] = e
      BY <1>2, <3>1
    <3>3. QED
      BY <1>1, <1>2, <2>1, <3>2 DEF KnownOf
  <2>2. CASE q # <<>>
    <3>1. r[1] = q[1]
      BY <1>2, <2>2, EmptySeq
    <3>2. QED
      BY <1>2, <2>2, <3>1 DEF KnownOf
  <2>3. QED
    BY <2>1, <2>2
<1>7. QED
  BY <1>2, <1>5, <1>6 DEF r, e

\* The messages of a change of the foreground window continue the chain, and
\* nothing is known of the change before they are handled.
LEMMA FocusMovesContinue ==
    ASSUME NEW q \in Seq(N!Message), NEW alive \in SUBSET Window,
           NEW f \in alive \union {NoWindow}, NEW x \in alive \union {NoWindow},
           x # f, IsChain(q, f, alive)
    PROVE  LET r == q \o N!FocusMoves(f, x) IN
           /\ r \in Seq(N!Message)
           /\ IsChain(r, x, alive)
           /\ KnownOf(r, x) = KnownOf(q, f)
           /\ \A i \in 1..Len(q) : r[i] = q[i]
           /\ x # NoWindow => r[Len(r)] = [type |-> "set", window |-> x]
           /\ Len(q) \in Nat /\ Len(r) \in Nat /\ Len(q) < Len(r)
<1>1. Len(q) \in Nat /\ NoWindow \notin alive
  BY LenProperties, Facts
<1>2. CASE f = NoWindow
  <2>1. N!FocusMoves(f, x) = <<>> \o <<[type |-> "set", window |-> x]>>
    BY <1>2 DEF N!FocusMoves
  <2>2. [type |-> "set", window |-> x] \in N!Message
    BY <1>2 DEF N!Message
  <2>3. N!FocusMoves(f, x) = <<[type |-> "set", window |-> x]>>
    <3>1. <<[type |-> "set", window |-> x]>> \in Seq(N!Message)
      BY <2>2
    <3>2. QED
      BY <2>1, <3>1, ConcatEmptySeq
  <2>4. QED
    BY <1>1, <1>2, <2>3, SetAppended
<1>3. CASE f # NoWindow
  <2> DEFINE k == <<[type |-> "kill", window |-> f]>>
             t == <<[type |-> "set", window |-> x]>>
             r == q \o k
  <2>1. /\ r \in Seq(N!Message) /\ IsChain(r, NoWindow, alive)
        /\ KnownOf(r, NoWindow) = KnownOf(q, f)
        /\ Len(r) = Len(q) + 1 /\ \A i \in 1..Len(q) : r[i] = q[i]
    BY <1>3, KillAppended
  <2>2. k \in Seq(N!Message)
    <3>1. [type |-> "kill", window |-> f] \in N!Message
      BY <1>3 DEF N!Message
    <3>2. QED
      BY <3>1
  <2>3. CASE x = NoWindow
    <3>1. N!FocusMoves(f, x) = k \o <<>>
      BY <1>3, <2>3 DEF N!FocusMoves
    <3>2. N!FocusMoves(f, x) = k
      BY <2>2, <3>1, ConcatEmptySeq
    <3>3. QED
      BY <1>1, <2>1, <2>3, <3>2
  <2>4. CASE x # NoWindow
    <3>1. N!FocusMoves(f, x) = k \o t
      BY <1>3, <2>4 DEF N!FocusMoves
    <3>2. t \in Seq(N!Message)
      <4>1. [type |-> "set", window |-> x] \in N!Message
        BY <2>4 DEF N!Message
      <4>2. QED
        BY <4>1
    <3>3. q \o N!FocusMoves(f, x) = r \o t
      BY <2>2, <3>1, <3>2, ConcatAssociative
    <3> HIDE DEF r
    <3>4. /\ r \o t \in Seq(N!Message) /\ IsChain(r \o t, x, alive)
          /\ KnownOf(r \o t, x) = KnownOf(r, NoWindow)
          /\ Len(r \o t) = Len(r) + 1
          /\ (r \o t)[Len(r \o t)] = [type |-> "set", window |-> x]
          /\ \A i \in 1..Len(r) : (r \o t)[i] = r[i]
      BY <2>1, <2>4, SetAppended
    <3>5. QED
      BY <1>1, <2>1, <3>3, <3>4
  <2>5. QED
    BY <2>3, <2>4
<1>4. QED
  BY <1>2, <1>3

\* The first message is handled.
LEMMA TailContinues ==
    ASSUME NEW q \in Seq(N!Message), q # <<>>, NEW alive \in SUBSET Window,
           NEW f, IsChain(q, f, alive)
    PROVE  /\ Tail(q) \in Seq(N!Message)
           /\ Head(q) = q[1] /\ q[1] \in N!Message
           /\ IsChain(Tail(q), f, alive)
           /\ q[1].type = "kill" => KnownOf(Tail(q), f) = NoWindow
           /\ q[1].type = "set" =>
                \/ KnownOf(Tail(q), f) = q[1].window
                \/ q[1].window \notin alive /\ KnownOf(Tail(q), f) = NoWindow
           /\ Len(Tail(q)) = Len(q) - 1 /\ Len(q) \in Nat /\ Len(q) >= 1
           /\ \A i \in 1..Len(q) - 1 : Tail(q)[i] = q[i + 1]
<1> DEFINE t == Tail(q)
<1>1. /\ t \in Seq(N!Message) /\ Head(q) = q[1]
      /\ Len(t) = Len(q) - 1 /\ Len(q) \in Nat /\ Len(q) >= 1
      /\ \A i \in 1..Len(q) - 1 : t[i] = q[i + 1]
  BY HeadTailProperties, LenProperties, EmptySeq
<1>2. q[1] \in N!Message
  BY <1>1, ElementOfSeq
<1>3. t = <<>> <=> Len(q) = 1
  BY <1>1, EmptySeq
<1> HIDE DEF t
<1>4. IsChain(t, f, alive)
  <2>1. ASSUME NEW i \in 1..Len(t) - 1
        PROVE  IF t[i].type = "kill" THEN t[i + 1].type = "set"
               ELSE \/ t[i + 1] = [type |-> "kill", window |-> t[i].window]
                    \/ t[i].window \notin alive /\ t[i + 1].type = "set"
    <3>1. i + 1 \in 1..Len(q) - 1 /\ t[i] = q[i + 1] /\ t[i + 1] = q[(i + 1) + 1]
      BY <1>1, <2>1
    <3>2. QED
      BY <3>1 DEF IsChain
  <2>2. t # <<>> => t[Len(t)] = q[Len(q)]
    BY <1>1, <1>3
  <2>3. QED
    BY <1>1, <1>3, <2>1, <2>2 DEF IsChain
<1>5. CASE t = <<>>
  <2>1. f = IF q[1].type = "set" /\ q[1].window \in alive THEN q[1].window ELSE NoWindow
    BY <1>3, <1>5 DEF IsChain
  <2>2. KnownOf(t, f) = f
    BY <1>5 DEF KnownOf
  <2>3. QED
    BY <1>1, <1>2, <1>4, <2>1, <2>2 DEF t, N!Message
<1>6. CASE t # <<>>
  <2>1. 1 \in 1..Len(q) - 1 /\ t[1] = q[2]
    BY <1>1, <1>3, <1>6
  <2>2. IF q[1].type = "kill" THEN q[2].type = "set"
        ELSE \/ q[2] = [type |-> "kill", window |-> q[1].window]
             \/ q[1].window \notin alive /\ q[2].type = "set"
    BY <2>1 DEF IsChain
  <2>3. KnownOf(t, f) = IF q[2].type = "kill" THEN q[2].window ELSE NoWindow
    BY <1>6, <2>1 DEF KnownOf
  <2>4. QED
    BY <1>1, <1>2, <1>4, <2>2, <2>3 DEF t, N!Message
<1>7. QED
  BY <1>5, <1>6

\* A window goes, or comes.
LEMMA ForgottenChain ==
    ASSUME NEW q \in Seq(N!Message), NEW alive \in SUBSET Window, NEW f,
           NEW w \in alive, IsChain(q, f, alive)
    PROVE  IsChain(q, IF f = w THEN NoWindow ELSE f, alive \ {w})
<1>1. w # NoWindow
  BY Facts
<1>2. \A i \in 1..Len(q) - 1 :
         IF q[i].type = "kill" THEN q[i + 1].type = "set"
         ELSE \/ q[i + 1] = [type |-> "kill", window |-> q[i].window]
              \/ q[i].window \notin alive \ {w} /\ q[i + 1].type = "set"
  BY DEF IsChain
<1>3. QED
  BY <1>1, <1>2 DEF IsChain

LEMMA ExtendedChain ==
    ASSUME NEW q \in Seq(N!Message), NEW alive \in SUBSET Window, NEW f,
           NEW w \in Window, \A i \in DOMAIN q : q[i].window # w,
           IsChain(q, f, alive)
    PROVE  IsChain(q, f, alive \union {w})
<1>1. DOMAIN q = 1..Len(q) /\ Len(q) \in Nat
  BY LenProperties
<1>2. \A i \in 1..Len(q) - 1 : i \in DOMAIN q
  BY <1>1
<1>3. q # <<>> => Len(q) \in DOMAIN q
  BY <1>1, EmptySeq
<1>4. QED
  BY <1>2, <1>3 DEF IsChain

LEMMA FocusFacts ==
    ASSUME MonitorInv, FocusInv
    PROVE  /\ WinType /\ inbox \in Seq(N!Message) /\ N!Alive \in SUBSET Window
           /\ foreground \in N!Alive \union {NoWindow}
           /\ Known \in Window \union {NoWindow}
           /\ Len(inbox) \in Nat
           /\ NoWindow \notin Window
           /\ win32Disabled \in Window \union {NoWindow}
           /\ \A w \in Window : w \in N!Alive <=> win[w].alive
           /\ \A w \in Window : w \notin N!Alive =>
                win[w].mode = "normal" /\ ~win[w].loop /\ ~win[w].frameAction
                /\ ~win[w].rawMouseMotion
<1>1. /\ WinType /\ inbox \in Seq(N!Message) /\ win32Disabled \in Window \union {NoWindow}
      /\ foreground \in N!Alive \union {NoWindow} /\ NoWindow \notin Window
  BY TypeParts, Facts DEF MonitorInv, FocusInv, MessagesType, CursorType
<1>2. N!Alive \in SUBSET Window /\ \A w \in Window : w \in N!Alive <=> win[w].alive
  BY DEF N!Alive
<1>3. Known \in Window \union {NoWindow}
  <2>1. CASE inbox = <<>>
    BY <1>1, <1>2, <2>1 DEF Known, KnownOf
  <2>2. CASE inbox # <<>>
    <3>1. inbox[1] \in N!Message
      BY <1>1, <2>2, EmptySeq, ElementOfSeq
    <3>2. QED
      BY <2>2, <3>1 DEF Known, KnownOf, N!Message
  <2>3. QED
    BY <2>1, <2>2
<1>4. \A w \in Window : w \notin N!Alive => win[w] = N!Blank
  BY <1>2 DEF MonitorInv, DeadAreBlank
<1>5. N!Blank.mode = "normal" /\ ~N!Blank.loop /\ ~N!Blank.frameAction
      /\ ~N!Blank.rawMouseMotion
  BY DEF N!Blank
<1>6. QED
  BY <1>1, <1>2, <1>3, <1>4, <1>5, LenProperties

\* What the cursor depends on stays as it is.
SameForCursor ==
    \A v \in Window :
        /\ win'[v].alive = win[v].alive
        /\ win'[v].mode = win[v].mode
        /\ win'[v].rawMouseMotion = win[v].rawMouseMotion
        /\ win'[v].loop = win[v].loop
        /\ win'[v].frameAction = win[v].frameAction

\* Steps that leave the cursor alone, and announce a change of the focus at most.
LEMMA AnnounceStep ==
    ASSUME MonitorInv, FocusInv, SameForCursor, UNCHANGED N!cursor,
           \/ UNCHANGED N!messages
           \/ /\ foreground' \in (N!Alive \union {NoWindow}) \ {foreground}
              /\ inbox' = inbox \o N!FocusMoves(foreground, foreground')
              /\ sync' \/ ~(sync /\ inbox # <<>>)
    PROVE  FocusInv'
<1>1. /\ WinType /\ inbox \in Seq(N!Message) /\ N!Alive \in SUBSET Window
      /\ Known \in Window \union {NoWindow} /\ Len(inbox) \in Nat
      /\ NoWindow \notin Window /\ win32Disabled \in Window \union {NoWindow}
      /\ foreground \in N!Alive \union {NoWindow}
  BY FocusFacts
<1>2. N!Alive' = N!Alive
  BY DEF SameForCursor, N!Alive
<1>3. /\ win32Disabled' = win32Disabled /\ capturedCursorWindow' = capturedCursorWindow
      /\ rawTarget' = rawTarget
  BY DEF N!cursor
<1>4. /\ foreground' \in N!Alive \union {NoWindow}
      /\ IsChain(inbox', foreground', N!Alive)
      /\ KnownOf(inbox', foreground') = Known
      /\ LoopsAreKnown'
  <2>1. CASE UNCHANGED N!messages
    BY <1>1, <2>1 DEF N!messages, FocusInv, Known, LoopsAreKnown, SameForCursor
  <2>2. CASE /\ foreground' \in (N!Alive \union {NoWindow}) \ {foreground}
             /\ inbox' = inbox \o N!FocusMoves(foreground, foreground')
             /\ sync' \/ ~(sync /\ inbox # <<>>)
    <3>1. /\ IsChain(inbox', foreground', N!Alive)
          /\ KnownOf(inbox', foreground') = Known
          /\ \A i \in 1..Len(inbox) : inbox'[i] = inbox[i]
          /\ Len(inbox') \in Nat /\ Len(inbox) < Len(inbox')
      <4>1. PICK x \in N!Alive \union {NoWindow} : x = foreground' /\ x # foreground
        BY <2>2
      <4>2. IsChain(inbox, foreground, N!Alive)
        BY DEF FocusInv
      <4>3. LET r == inbox \o N!FocusMoves(foreground, x) IN
            /\ r \in Seq(N!Message)
            /\ IsChain(r, x, N!Alive)
            /\ KnownOf(r, x) = KnownOf(inbox, foreground)
            /\ \A i \in 1..Len(inbox) : r[i] = inbox[i]
            /\ x # NoWindow => r[Len(r)] = [type |-> "set", window |-> x]
            /\ Len(inbox) \in Nat /\ Len(r) \in Nat /\ Len(inbox) < Len(r)
        <5>1. /\ inbox \in Seq(N!Message) /\ N!Alive \in SUBSET Window
              /\ foreground \in N!Alive \union {NoWindow}
          BY <1>1
        <5>2. x \in N!Alive \union {NoWindow} /\ x # foreground
          BY <4>1
        <5>3. QED
          BY <4>2, <5>1, <5>2, FocusMovesContinue
      <4>4. inbox' = inbox \o N!FocusMoves(foreground, x)
        BY <2>2, <4>1
      <4>5. QED
        BY <4>1, <4>3, <4>4 DEF Known
    <3>2. Known' = Known
      BY <3>1 DEF Known
    <3>3. ASSUME NEW w \in Window, win'[w].frameAction, Known # w
          PROVE  sync' /\ \E i \in 1..Len(inbox') :
                            inbox'[i] = [type |-> "set", window |-> w]
      <4>1. sync /\ \E i \in 1..Len(inbox) : inbox[i] = [type |-> "set", window |-> w]
        BY <3>3 DEF FocusInv, LoopsAreKnown, SameForCursor
      <4>2. inbox # <<>>
        BY <4>1
      <4>3. QED
        BY <1>1, <2>2, <3>1, <4>1, <4>2
    <3>4. QED
      BY <2>2, <3>1, <3>2, <3>3 DEF FocusInv, LoopsAreKnown, SameForCursor
  <2>3. QED
    BY <2>1, <2>2
<1>5. CursorIsOfKnown'
  BY <1>1, <1>3, <1>4 DEF FocusInv, CursorIsOfKnown, Known, Free, IsOf, SameForCursor
<1>6. N!RawFollowsCursor'
  BY <1>1, <1>3 DEF FocusInv, N!RawFollowsCursor, SameForCursor
<1>7. QED
  BY <1>2, <1>4, <1>5, <1>6 DEF FocusInv

LEMMA OtherFieldChanges ==
    ASSUME WinType, NEW w \in Window, NEW b \in BOOLEAN,
           NEW m \in Monitor \union {NoMonitor},
           \/ win' = [win EXCEPT ![w].minimized = b]
           \/ win' = [win EXCEPT ![w].iconified = b]
           \/ win' = [win EXCEPT ![w].monitor = m]
    PROVE  SameForCursor
<1>1. \A v \in Window \ {w} : win'[v] = win[v]
  BY DEF WinType
<1>2. \/ win'[w] = [win[w] EXCEPT !.minimized = b]
      \/ win'[w] = [win[w] EXCEPT !.iconified = b]
      \/ win'[w] = [win[w] EXCEPT !.monitor = m]
  BY DEF WinType
<1>3. win[w] \in N!WindowRecord
  BY DEF WinType
<1>4. /\ win'[w].alive = win[w].alive /\ win'[w].mode = win[w].mode
      /\ win'[w].rawMouseMotion = win[w].rawMouseMotion
      /\ win'[w].loop = win[w].loop /\ win'[w].frameAction = win[w].frameAction
  BY <1>2, <1>3 DEF N!WindowRecord
<1>5. QED
  BY <1>1, <1>4 DEF SameForCursor

\* What Activate announces.
LEMMA ActivateAnnounces ==
    ASSUME MonitorInv, FocusInv, NEW x \in N!Alive \union {NoWindow}, N!Activate(x)
    PROVE  \/ UNCHANGED N!messages
           \/ /\ foreground' \in (N!Alive \union {NoWindow}) \ {foreground}
              /\ inbox' = inbox \o N!FocusMoves(foreground, foreground')
              /\ sync'
BY DEF N!Activate

LEMMA AnnouncingActions ==
    ASSUME MonitorInv, FocusInv, NEW w \in Window \union {NoWindow},
           NEW m \in Monitor \union {NoMonitor},
           \/ N!UserActivates(w) \/ N!SizeEnd \/ N!CreateEnd
           \/ /\ w \in Window
              /\ \/ N!IconifyWindow(w) \/ N!RestoreWindow(w) \/ N!FocusWindow(w)
                 \/ N!ShowWindowNested(w) \/ N!SetWindowMonitor(w, m)
    PROVE  FocusInv'
<1>1. WinType /\ \A v \in Window : v \in N!Alive <=> win[v].alive
  BY FocusFacts
<1>2. UNCHANGED win => SameForCursor
  BY DEF SameForCursor
<1>3. CASE N!UserActivates(w)
  <2>1. /\ foreground' \in (N!Alive \union {NoWindow}) \ {foreground}
        /\ inbox' = inbox \o N!FocusMoves(foreground, foreground')
        /\ ~(sync /\ inbox # <<>>)
    BY <1>3 DEF N!UserActivates, N!Shown, N!Idle
  <2>2. UNCHANGED win /\ UNCHANGED N!cursor
    BY <1>3 DEF N!UserActivates
  <2>3. QED
    BY <1>2, <2>1, <2>2, AnnounceStep
<1>4. CASE N!SizeEnd
  <2>1. sizing.window \in Window /\ sizing.iconified \in BOOLEAN
    BY <1>4, TypeParts DEF N!SizeEnd, MonitorInv, ProgressType
  <2>2. /\ win' = [win EXCEPT ![sizing.window].iconified = sizing.iconified]
        /\ UNCHANGED N!messages /\ UNCHANGED N!cursor
    BY <1>4 DEF N!SizeEnd
  <2>3. SameForCursor
    BY <1>1, <2>1, <2>2, OtherFieldChanges
  <2>4. QED
    BY <2>2, <2>3, AnnounceStep
<1>5. CASE N!CreateEnd
  <2>1. UNCHANGED win /\ UNCHANGED N!messages /\ UNCHANGED N!cursor
    BY <1>5 DEF N!CreateEnd
  <2>2. QED
    BY <1>2, <2>1, AnnounceStep
<1>6. CASE w \in Window /\ (N!IconifyWindow(w) \/ N!RestoreWindow(w))
  <2>1. PICK b \in BOOLEAN : win' = [win EXCEPT ![w].minimized = b]
    BY <1>6 DEF N!IconifyWindow, N!RestoreWindow
  <2>2. SameForCursor
    BY <1>1, <1>6, <2>1, OtherFieldChanges
  <2>3. UNCHANGED N!cursor
    BY <1>6 DEF N!IconifyWindow, N!RestoreWindow
  <2>4. UNCHANGED N!messages \/ \E x \in N!Alive \union {NoWindow} : N!Activate(x)
    BY <1>6 DEF N!IconifyWindow, N!RestoreWindow, N!Shown
  <2>5. QED
    BY <2>2, <2>3, <2>4, ActivateAnnounces, AnnounceStep
<1>7. CASE w \in Window /\ N!FocusWindow(w)
  <2>1. /\ w \in N!Alive /\ N!Activate(w) /\ UNCHANGED win /\ UNCHANGED N!cursor
    BY <1>7 DEF N!FocusWindow, N!Shown
  <2>2. QED
    BY <1>2, <2>1, ActivateAnnounces, AnnounceStep
<1>8. CASE w \in Window /\ N!ShowWindowNested(w)
  <2>1. w \in N!Alive
    BY <1>8, Facts DEF N!ShowWindowNested, N!InCallback, MonitorInv, InProgress
  <2>2. win' = [win EXCEPT ![w].minimized = ~win[w].minimized]
    BY <1>1, <1>8 DEF N!ShowWindowNested, WinType
  <2>3. (~win[w].minimized) \in BOOLEAN
    OBVIOUS
  <2>4. SameForCursor
    BY <1>1, <1>8, <2>2, <2>3, OtherFieldChanges
  <2>5. (UNCHANGED N!messages \/ N!Activate(w)) /\ UNCHANGED N!cursor
    BY <1>8 DEF N!ShowWindowNested
  <2>6. QED
    BY <2>1, <2>4, <2>5, ActivateAnnounces, AnnounceStep
<1>9. CASE w \in Window /\ N!SetWindowMonitor(w, m)
  <2>1. UNCHANGED win \/ win' = [win EXCEPT ![w].monitor = m]
    BY <1>9 DEF N!SetWindowMonitor, N!MoveToMonitor, N!Reacquire
  <2>2. SameForCursor
    BY <1>1, <1>2, <1>9, <2>1, OtherFieldChanges
  <2>3. UNCHANGED N!messages /\ UNCHANGED N!cursor
    BY <1>9 DEF N!SetWindowMonitor
  <2>4. QED
    BY <2>2, <2>3, AnnounceStep
<1>10. QED
  BY <1>3, <1>4, <1>5, <1>6, <1>7, <1>8, <1>9

\* What the handlers of the cursor do, for the window w that is known.
LEMMA GrabsCursor ==
    ASSUME MonitorInv, NEW w \in Window, N!GrabCursor(w), N!RawFollowsCursor,
           Free \/ IsOf(w)
    PROVE  /\ win32Disabled' = IF win[w].mode = "disabled" THEN w ELSE NoWindow
           /\ capturedCursorWindow' = IF win[w].mode # "normal" THEN w ELSE NoWindow
           /\ rawTarget' = IF win[w].mode = "disabled" /\ win[w].rawMouseMotion
                           THEN w ELSE NoWindow
<1>1. w # NoWindow /\ win[w].mode \in {"normal", "disabled", "captured"}
  BY Facts, TypeParts DEF MonitorInv, WinType, N!WindowRecord
<1>2. QED
  BY <1>1 DEF N!GrabCursor, N!CursorIs, N!cursor, N!RawFollowsCursor, Free, IsOf

LEMMA FreesCursor ==
    ASSUME MonitorInv, NEW w \in Window, N!FreeCursor(w) , N!RawFollowsCursor,
           Free \/ IsOf(w)
    PROVE  /\ win32Disabled' = NoWindow
           /\ capturedCursorWindow' = NoWindow
           /\ rawTarget' = NoWindow
<1>1. w # NoWindow /\ win[w].mode \in {"normal", "disabled", "captured"}
  BY Facts, TypeParts DEF MonitorInv, WinType, N!WindowRecord
<1>2. QED
  BY <1>1 DEF N!FreeCursor, N!EnableCursor, N!CursorIs, N!cursor, N!RawFollowsCursor,
              Free, IsOf

LEMMA SetFocusStep ==
    ASSUME MonitorInv, FocusInv, N!SetFocus
    PROVE  FocusInv'
<1> DEFINE w == inbox[1].window
<1>1. /\ WinType /\ inbox \in Seq(N!Message) /\ N!Alive \in SUBSET Window
      /\ NoWindow \notin Window
      /\ foreground \in N!Alive \union {NoWindow}
      /\ \A v \in Window : v \notin N!Alive =>
           win[v].mode = "normal" /\ ~win[v].loop /\ ~win[v].frameAction
  BY FocusFacts
<1>2. /\ inbox # <<>> /\ inbox' = Tail(inbox) /\ foreground' = foreground
      /\ sync' = sync /\ win' = win
  BY DEF N!SetFocus, N!Received
<1>3. /\ inbox[1] \in N!Message /\ Head(inbox) = inbox[1]
      /\ IsChain(inbox', foreground, N!Alive)
      /\ inbox[1].type = "set" =>
           \/ KnownOf(inbox', foreground) = w
           \/ w \notin N!Alive /\ KnownOf(inbox', foreground) = NoWindow
      /\ Len(Tail(inbox)) = Len(inbox) - 1 /\ Len(inbox) \in Nat
      /\ \A i \in 1..Len(inbox) - 1 : inbox'[i] = inbox[i + 1]
  BY <1>1, <1>2, TailContinues DEF FocusInv
<1>4. inbox[1].type = "set" /\ w \in Window
  BY <1>3 DEF N!SetFocus, N!Message
<1>5. Known = NoWindow /\ (Known' = w \/ (w \notin N!Alive /\ Known' = NoWindow))
  BY <1>2, <1>3, <1>4 DEF Known, KnownOf
<1>6. Free /\ N!RawFollowsCursor /\ LoopsAreKnown
  BY <1>5 DEF FocusInv, CursorIsOfKnown
<1>7. N!Alive' = N!Alive
  BY <1>2 DEF N!Alive
<1>8. LoopsAreKnown'
  <2>1. ASSUME NEW v \in Window, win[v].loop PROVE FALSE
    BY <1>1, <1>5, <1>6, <2>1 DEF LoopsAreKnown
  <2>2. ASSUME NEW v \in Window, win[v].frameAction, Known' # v
        PROVE  sync /\ \E i \in 1..Len(inbox') : inbox'[i] = [type |-> "set", window |-> v]
    <3>1. sync /\ \E i \in 1..Len(inbox) : inbox[i] = [type |-> "set", window |-> v]
      BY <1>1, <1>5, <1>6, <2>2 DEF LoopsAreKnown
    <3>2. PICK i \in 1..Len(inbox) : inbox[i] = [type |-> "set", window |-> v]
      BY <3>1
    <3>3. CASE i = 1
      <4>1. v = w
        BY <3>2, <3>3
      <4>2. QED
        BY <1>1, <1>5, <2>2, <4>1
    <3>4. CASE i # 1
      <4>1. i - 1 \in 1..Len(inbox) - 1 /\ inbox'[i - 1] = inbox[i]
        BY <1>3, <3>4
      <4>2. QED
        BY <1>2, <1>3, <3>1, <3>2, <4>1
    <3>5. QED
      BY <3>3, <3>4
  <2>3. QED
    BY <1>2, <2>1, <2>2 DEF LoopsAreKnown
<1>9. CASE win[w].frameAction
  <2>1. UNCHANGED N!cursor /\ Known' = w
    BY <1>1, <1>3, <1>4, <1>5, <1>9 DEF N!SetFocus
  <2>2. CursorIsOfKnown' /\ N!RawFollowsCursor'
    BY <1>1, <1>2, <1>4, <1>6, <1>9, <2>1
       DEF CursorIsOfKnown, Free, N!RawFollowsCursor, N!cursor
  <2>3. QED
    BY <1>1, <1>2, <1>3, <1>7, <1>8, <2>2 DEF FocusInv
<1>10. CASE ~win[w].frameAction
  <2>1. N!GrabCursor(w)
    BY <1>3, <1>10 DEF N!SetFocus
  <2>2. /\ win32Disabled' = IF win[w].mode = "disabled" THEN w ELSE NoWindow
        /\ capturedCursorWindow' = IF win[w].mode # "normal" THEN w ELSE NoWindow
        /\ rawTarget' = IF win[w].mode = "disabled" /\ win[w].rawMouseMotion
                        THEN w ELSE NoWindow
    BY <1>4, <1>6, <2>1, GrabsCursor
  <2>3. CursorIsOfKnown'
    BY <1>1, <1>2, <1>4, <1>5, <2>2 DEF CursorIsOfKnown, Free, IsOf
  <2>4. N!RawFollowsCursor'
    BY <1>1, <1>2, <1>4, <2>2 DEF N!RawFollowsCursor
  <2>5. QED
    BY <1>1, <1>2, <1>3, <1>7, <1>8, <2>3, <2>4 DEF FocusInv
<1>11. QED
  BY <1>9, <1>10

LEMMA KillFocusStep ==
    ASSUME MonitorInv, FocusInv, N!KillFocus
    PROVE  FocusInv'
<1> DEFINE w == inbox[1].window
<1>1. /\ WinType /\ inbox \in Seq(N!Message) /\ N!Alive \in SUBSET Window
      /\ NoWindow \notin Window
      /\ foreground \in N!Alive \union {NoWindow}
  BY FocusFacts
<1>2. /\ inbox # <<>> /\ inbox' = Tail(inbox) /\ foreground' = foreground
      /\ sync' = sync
  BY DEF N!KillFocus, N!Received
<1>3. /\ inbox[1] \in N!Message /\ Head(inbox) = inbox[1]
      /\ IsChain(inbox', foreground, N!Alive)
      /\ inbox[1].type = "kill" => KnownOf(inbox', foreground) = NoWindow
      /\ Len(Tail(inbox)) = Len(inbox) - 1 /\ Len(inbox) \in Nat
      /\ \A i \in 1..Len(inbox) - 1 : inbox'[i] = inbox[i + 1]
  BY <1>1, <1>2, TailContinues DEF FocusInv
<1>4. /\ inbox[1].type = "kill" /\ w \in Window /\ ~win[w].loop /\ ~win[w].frameAction
      /\ N!FreeCursor(w)
  BY <1>3 DEF N!KillFocus, N!Message
<1>5. Known = w /\ Known' = NoWindow
  BY <1>2, <1>3, <1>4 DEF Known, KnownOf
<1>6. (Free \/ IsOf(w)) /\ N!RawFollowsCursor /\ LoopsAreKnown
  BY <1>1, <1>4, <1>5 DEF FocusInv, CursorIsOfKnown
<1>7. SameForCursor
  <2>1. win' = win \/ win' = [win EXCEPT ![w].minimized = TRUE]
    BY <1>3 DEF N!KillFocus
  <2>2. QED
    BY <1>1, <1>4, <2>1, OtherFieldChanges DEF SameForCursor
<1>8. N!Alive' = N!Alive
  BY <1>7 DEF N!Alive, SameForCursor
<1>9. LoopsAreKnown'
  <2>1. ASSUME NEW v \in Window, win[v].loop PROVE FALSE
    BY <1>4, <1>5, <1>6, <2>1 DEF LoopsAreKnown
  <2>2. ASSUME NEW v \in Window, win[v].frameAction
        PROVE  sync /\ \E i \in 1..Len(inbox') : inbox'[i] = [type |-> "set", window |-> v]
    <3>1. sync /\ \E i \in 1..Len(inbox) : inbox[i] = [type |-> "set", window |-> v]
      BY <1>4, <1>5, <1>6, <2>2 DEF LoopsAreKnown
    <3>2. PICK i \in 1..Len(inbox) : inbox[i] = [type |-> "set", window |-> v]
      BY <3>1
    <3>3. i # 1
      BY <1>4, <3>2
    <3>4. i - 1 \in 1..Len(inbox) - 1 /\ inbox'[i - 1] = inbox[i]
      BY <1>3, <3>3
    <3>5. QED
      BY <1>2, <1>3, <3>1, <3>2, <3>4
  <2>3. QED
    BY <1>2, <1>7, <2>1, <2>2 DEF LoopsAreKnown, SameForCursor
<1>10. win32Disabled' = NoWindow /\ capturedCursorWindow' = NoWindow /\ rawTarget' = NoWindow
  BY <1>4, <1>6, FreesCursor
<1>11. CursorIsOfKnown' /\ N!RawFollowsCursor'
  BY <1>5, <1>10 DEF CursorIsOfKnown, Free, N!RawFollowsCursor
<1>12. QED
  BY <1>1, <1>2, <1>3, <1>8, <1>9, <1>11 DEF FocusInv

\* A field that is set to one window.
LEMMA SetField ==
    ASSUME WinType, NEW w \in Window, NEW b \in BOOLEAN,
           NEW mode \in {"normal", "disabled", "captured"}
    PROVE  /\ win' = [win EXCEPT ![w].frameAction = b] =>
                win'[w] = [win[w] EXCEPT !.frameAction = b]
           /\ win' = [win EXCEPT ![w].loop = b] => win'[w] = [win[w] EXCEPT !.loop = b]
           /\ win' = [win EXCEPT ![w].rawMouseMotion = b] =>
                win'[w] = [win[w] EXCEPT !.rawMouseMotion = b]
           /\ win' = [win EXCEPT ![w].mode = mode] =>
                win'[w] = [win[w] EXCEPT !.mode = mode]
           /\ win[w] \in N!WindowRecord
BY DEF WinType

\* What the window w is for the cursor changes; the messages stay.
LEMMA HandlerStep ==
    ASSUME MonitorInv, FocusInv, NEW w \in Window, UNCHANGED N!messages,
           win'[w].alive = win[w].alive, \A v \in Window \ {w} : win'[v] = win[v],
           Known = w => win'[w].loop \/ win'[w].frameAction \/ IsOf(w)',
           Known = w => IsOf(w)' \/ Free',
           Known # w => /\ UNCHANGED <<win32Disabled, capturedCursorWindow>>
                        /\ ~win'[w].loop
                        /\ win'[w].frameAction => win[w].frameAction,
           N!RawFollowsCursor'
    PROVE  FocusInv'
<1>1. /\ inbox' = inbox /\ foreground' = foreground /\ sync' = sync
      /\ Known \in Window \union {NoWindow} /\ NoWindow \notin Window
  BY FocusFacts DEF N!messages
<1>2. Known' = Known
  BY <1>1 DEF Known
<1>3. N!Alive' = N!Alive
  BY DEF N!Alive
<1>4. LoopsAreKnown'
  <2>1. ASSUME NEW v \in Window
        PROVE  /\ win'[v].loop => Known = v
               /\ win'[v].frameAction =>
                    \/ Known = v
                    \/ sync /\ \E i \in 1..Len(inbox) :
                                 inbox[i] = [type |-> "set", window |-> v]
    <3>1. /\ win[v].loop => Known = v
          /\ win[v].frameAction =>
               \/ Known = v
               \/ sync /\ \E i \in 1..Len(inbox) :
                            inbox[i] = [type |-> "set", window |-> v]
      BY DEF FocusInv, LoopsAreKnown
    <3>2. CASE v = w
      BY <3>1, <3>2
    <3>3. CASE v # w
      BY <3>1, <3>3
    <3>4. QED
      BY <3>2, <3>3
  <2>2. QED
    BY <1>1, <1>2, <2>1 DEF LoopsAreKnown
<1>5. CursorIsOfKnown'
  <2>1. CASE Known = w
    BY <1>1, <1>2, <2>1 DEF CursorIsOfKnown
  <2>2. CASE Known # w
    <3>1. CursorIsOfKnown
      BY DEF FocusInv
    <3>2. Known # NoWindow => win'[Known] = win[Known]
      BY <1>1, <2>2
    <3>3. QED
      BY <1>1, <1>2, <2>2, <3>1, <3>2 DEF CursorIsOfKnown, Free, IsOf
  <2>3. QED
    BY <2>1, <2>2
<1>6. QED
  BY <1>1, <1>3, <1>4, <1>5 DEF FocusInv

LEMMA CaptureChangedStep ==
    ASSUME MonitorInv, FocusInv, NEW w \in Window, N!CaptureChanged(w)
    PROVE  FocusInv'
<1>1. /\ WinType /\ inbox \in Seq(N!Message) /\ NoWindow \notin Window
      /\ win32Disabled \in Window \union {NoWindow}
  BY FocusFacts
<1>2. /\ win[w].frameAction /\ ~win[w].loop /\ N!GrabCursor(w) /\ UNCHANGED N!messages
      /\ win' = [win EXCEPT ![w].frameAction = FALSE]
  BY DEF N!CaptureChanged
<1>3. Known = w
  <2>1. CASE sizing = N!NoSizing /\ inbox # <<>>
             /\ Head(inbox) = [type |-> "kill", window |-> w]
    <3>1. Head(inbox) = inbox[1]
      BY <1>1, <2>1, HeadTailProperties
    <3>2. QED
      BY <2>1, <3>1 DEF Known, KnownOf
  <2>2. CASE N!Idle
    <3>1. ~(sync /\ \E i \in 1..Len(inbox) : inbox[i] = [type |-> "set", window |-> w])
      BY <2>2 DEF N!Idle
    <3>2. QED
      BY <1>2, <3>1 DEF FocusInv, LoopsAreKnown
  <2>3. QED
    BY <2>1, <2>2 DEF N!CaptureChanged
<1>4. win'[w] = [win[w] EXCEPT !.frameAction = FALSE] /\ win[w] \in N!WindowRecord
  BY <1>1, <1>2, SetField
<1>5. \A v \in Window \ {w} : win'[v] = win[v]
  BY <1>1, <1>2 DEF WinType
<1>6. (Free \/ IsOf(w)) /\ N!RawFollowsCursor
  BY <1>1, <1>3 DEF FocusInv, CursorIsOfKnown
<1>7. /\ win32Disabled' = IF win[w].mode = "disabled" THEN w ELSE NoWindow
      /\ capturedCursorWindow' = IF win[w].mode # "normal" THEN w ELSE NoWindow
      /\ rawTarget' = IF win[w].mode = "disabled" /\ win[w].rawMouseMotion
                      THEN w ELSE NoWindow
  BY <1>2, <1>6, GrabsCursor
<1>8. /\ win'[w].alive = win[w].alive /\ win'[w].mode = win[w].mode
      /\ win'[w].rawMouseMotion = win[w].rawMouseMotion
  BY <1>4 DEF N!WindowRecord
<1>9. IsOf(w)' /\ N!RawFollowsCursor'
  BY <1>1, <1>7, <1>8 DEF IsOf, N!RawFollowsCursor
<1>10. QED
  BY <1>2, <1>3, <1>5, <1>8, <1>9, HandlerStep

LEMMA EnterSizeMoveStep ==
    ASSUME MonitorInv, FocusInv, NEW w \in Window, N!EnterSizeMove(w)
    PROVE  FocusInv'
<1>1. WinType /\ NoWindow \notin Window /\ win32Disabled \in Window \union {NoWindow}
  BY FocusFacts
<1>2. /\ inbox = <<>> /\ w = foreground /\ UNCHANGED N!messages
      /\ win' = [win EXCEPT ![w].loop = TRUE]
  BY DEF N!EnterSizeMove
<1>3. Known = w
  BY <1>2 DEF Known, KnownOf
<1>4. win'[w] = [win[w] EXCEPT !.loop = TRUE] /\ win[w] \in N!WindowRecord
  BY <1>1, <1>2, SetField
<1>5. \A v \in Window \ {w} : win'[v] = win[v]
  BY <1>1, <1>2 DEF WinType
<1>6. (Free \/ IsOf(w)) /\ N!RawFollowsCursor
  BY <1>1, <1>3 DEF FocusInv, CursorIsOfKnown
<1>7. /\ win'[w].alive = win[w].alive /\ win'[w].mode = win[w].mode
      /\ win'[w].rawMouseMotion = win[w].rawMouseMotion /\ win'[w].loop
  BY <1>4 DEF N!WindowRecord
<1>8. (IsOf(w)' \/ Free') /\ N!RawFollowsCursor'
  <2>1. CASE win[w].frameAction
    <3>1. UNCHANGED <<win32Disabled, capturedCursorWindow, rawTarget>>
      BY <2>1 DEF N!EnterSizeMove, N!cursor
    <3>2. IsOf(w)' \/ Free'
      BY <1>6, <1>7, <3>1 DEF IsOf, Free
    <3>3. N!RawFollowsCursor'
      BY <1>1, <1>5, <1>6, <1>7, <3>1 DEF N!RawFollowsCursor
    <3>4. QED
      BY <3>2, <3>3
  <2>2. CASE ~win[w].frameAction
    <3>1. N!FreeCursor(w)
      BY <2>2 DEF N!EnterSizeMove
    <3>2. QED
      BY <1>6, <3>1, FreesCursor DEF Free, N!RawFollowsCursor
  <2>3. QED
    BY <2>1, <2>2
<1>9. QED
  BY <1>2, <1>3, <1>5, <1>7, <1>8, HandlerStep

LEMMA ExitSizeMoveStep ==
    ASSUME MonitorInv, FocusInv, NEW w \in Window, N!ExitSizeMove(w)
    PROVE  FocusInv'
<1>1. WinType /\ NoWindow \notin Window /\ win32Disabled \in Window \union {NoWindow}
  BY FocusFacts
<1>2. /\ win[w].loop /\ UNCHANGED N!messages
      /\ win' = [win EXCEPT ![w].loop = FALSE]
  BY DEF N!ExitSizeMove
<1>3. Known = w
  BY <1>2 DEF FocusInv, LoopsAreKnown
<1>4. win'[w] = [win[w] EXCEPT !.loop = FALSE] /\ win[w] \in N!WindowRecord
  BY <1>1, <1>2, SetField
<1>5. \A v \in Window \ {w} : win'[v] = win[v]
  BY <1>1, <1>2 DEF WinType
<1>6. (Free \/ IsOf(w)) /\ N!RawFollowsCursor
  BY <1>1, <1>3 DEF FocusInv, CursorIsOfKnown
<1>7. /\ win'[w].alive = win[w].alive /\ win'[w].mode = win[w].mode
      /\ win'[w].rawMouseMotion = win[w].rawMouseMotion
      /\ win'[w].frameAction = win[w].frameAction
  BY <1>4 DEF N!WindowRecord
<1>8. CASE win[w].frameAction
  <2>1. UNCHANGED <<win32Disabled, capturedCursorWindow, rawTarget>>
    BY <1>8 DEF N!ExitSizeMove, N!cursor
  <2>2. IsOf(w)' \/ Free'
    BY <1>6, <1>7, <2>1 DEF IsOf, Free
  <2>3. N!RawFollowsCursor'
    BY <1>1, <1>5, <1>6, <1>7, <2>1 DEF N!RawFollowsCursor
  <2>4. QED
    BY <1>2, <1>3, <1>5, <1>7, <1>8, <2>2, <2>3, HandlerStep
<1>9. CASE ~win[w].frameAction
  <2>1. N!GrabCursor(w)
    BY <1>9 DEF N!ExitSizeMove
  <2>2. /\ win32Disabled' = IF win[w].mode = "disabled" THEN w ELSE NoWindow
        /\ capturedCursorWindow' = IF win[w].mode # "normal" THEN w ELSE NoWindow
        /\ rawTarget' = IF win[w].mode = "disabled" /\ win[w].rawMouseMotion
                        THEN w ELSE NoWindow
    BY <1>6, <2>1, GrabsCursor
  <2>3. IsOf(w)' /\ N!RawFollowsCursor'
    BY <1>1, <1>7, <2>2 DEF IsOf, N!RawFollowsCursor
  <2>4. QED
    BY <1>2, <1>3, <1>5, <1>7, <2>3, HandlerStep
<1>10. QED
  BY <1>8, <1>9

LEMMA SetCursorModeStep ==
    ASSUME ~Late, MonitorInv, FocusInv, NEW w \in Window,
           NEW mode \in {"normal", "disabled", "captured"}, N!SetCursorMode(w, mode)
    PROVE  FocusInv'
<1>1. /\ WinType /\ NoWindow \notin Window /\ win32Disabled \in Window \union {NoWindow}
      /\ Known \in Window \union {NoWindow}
  BY FocusFacts
<1>2. /\ inbox = <<>> /\ UNCHANGED N!messages
      /\ win' = [win EXCEPT ![w].mode = mode]
  BY DEF N!SetCursorMode
<1>3. Known = foreground
  BY <1>2 DEF Known, KnownOf
<1>4. win'[w] = [win[w] EXCEPT !.mode = mode] /\ win[w] \in N!WindowRecord
  BY <1>1, <1>2, SetField
<1>5. \A v \in Window \ {w} : win'[v] = win[v]
  BY <1>1, <1>2 DEF WinType
<1>6. CursorIsOfKnown /\ N!RawFollowsCursor /\ LoopsAreKnown
  BY DEF FocusInv
<1>7. /\ win'[w].alive = win[w].alive /\ win'[w].mode = mode
      /\ win'[w].rawMouseMotion = win[w].rawMouseMotion
      /\ win'[w].frameAction = win[w].frameAction /\ win'[w].loop = win[w].loop
  BY <1>4 DEF N!WindowRecord
<1>8. CASE foreground # w
  <2>1. UNCHANGED <<win32Disabled, capturedCursorWindow, rawTarget>>
    BY <1>8 DEF N!SetCursorMode, N!cursor
  <2>2. ~win[w].loop
    BY <1>3, <1>6, <1>8 DEF LoopsAreKnown
  <2>3. N!RawFollowsCursor'
    BY <1>1, <1>5, <1>6, <1>7, <2>1 DEF N!RawFollowsCursor
  <2>4. QED
    BY <1>2, <1>3, <1>5, <1>7, <1>8, <2>1, <2>2, <2>3, HandlerStep
<1>9. CASE foreground = w
  <2>1. Free \/ IsOf(w)
    BY <1>1, <1>3, <1>6, <1>9 DEF CursorIsOfKnown
  <2>2. N!CursorIs(IF mode = "disabled" THEN w
                   ELSE IF win32Disabled = w THEN NoWindow ELSE win32Disabled,
                   IF mode = "normal" THEN NoWindow ELSE w,
                   IF ~win[w].rawMouseMotion THEN rawTarget
                   ELSE IF mode = "disabled" THEN w
                   ELSE IF win32Disabled = w THEN NoWindow ELSE rawTarget)
    BY <1>9 DEF N!SetCursorMode
  <2>3. /\ win32Disabled' = IF mode = "disabled" THEN w ELSE NoWindow
        /\ capturedCursorWindow' = IF mode # "normal" THEN w ELSE NoWindow
        /\ rawTarget' = IF mode = "disabled" /\ win[w].rawMouseMotion THEN w ELSE NoWindow
    <3>1. /\ win32Disabled = w \/ win32Disabled = NoWindow
          /\ rawTarget = IF win32Disabled = w /\ win[w].rawMouseMotion
                         THEN w ELSE NoWindow
      BY <1>1, <1>6, <2>1 DEF Free, IsOf, N!RawFollowsCursor
    <3>2. CASE mode = "disabled"
      BY <2>2, <3>1, <3>2 DEF N!CursorIs
    <3>3. CASE mode # "disabled" /\ win32Disabled = w
      BY <1>1, <2>2, <3>1, <3>3 DEF N!CursorIs
    <3>4. CASE mode # "disabled" /\ win32Disabled # w
      BY <1>1, <2>2, <3>1, <3>4 DEF N!CursorIs
    <3>5. QED
      BY <3>2, <3>3, <3>4
  <2>4. IsOf(w)' /\ N!RawFollowsCursor'
    BY <1>1, <1>7, <2>3 DEF IsOf, N!RawFollowsCursor
  <2>5. QED
    BY <1>2, <1>3, <1>5, <1>7, <1>9, <2>4, HandlerStep
<1>10. QED
  BY <1>8, <1>9

LEMMA SetRawMouseMotionStep ==
    ASSUME MonitorInv, FocusInv, NEW w \in Window, N!SetRawMouseMotion(w)
    PROVE  FocusInv'
<1>1. /\ WinType /\ NoWindow \notin Window /\ win32Disabled \in Window \union {NoWindow}
      /\ Known \in Window \union {NoWindow}
  BY FocusFacts
<1> DEFINE b == ~win[w].rawMouseMotion
<1>2. b \in BOOLEAN
  OBVIOUS
<1>3. /\ UNCHANGED N!messages /\ UNCHANGED <<win32Disabled, capturedCursorWindow>>
      /\ win' = [win EXCEPT ![w].rawMouseMotion = b]
      /\ rawTarget' = IF win32Disabled # w THEN rawTarget ELSE IF b THEN w ELSE NoWindow
  <2>1. /\ UNCHANGED N!messages /\ UNCHANGED <<win32Disabled, capturedCursorWindow>>
        /\ win' = [win EXCEPT ![w].rawMouseMotion = b]
    BY DEF N!SetRawMouseMotion
  <2>2. CASE win32Disabled # w
    BY <2>2 DEF N!SetRawMouseMotion, N!RawApplies
  <2>3. CASE win32Disabled = w
    BY <2>3 DEF N!SetRawMouseMotion, N!RawApplies
  <2>4. QED
    BY <2>1, <2>2, <2>3
<1> HIDE DEF b
<1>4. win'[w] = [win[w] EXCEPT !.rawMouseMotion = b] /\ win[w] \in N!WindowRecord
  BY <1>1, <1>2, <1>3, SetField
<1>5. \A v \in Window \ {w} : win'[v] = win[v]
  BY <1>1, <1>3 DEF WinType
<1>6. CursorIsOfKnown /\ N!RawFollowsCursor /\ LoopsAreKnown
  BY DEF FocusInv
<1>7. /\ win'[w].alive = win[w].alive /\ win'[w].mode = win[w].mode
      /\ win'[w].rawMouseMotion = b
      /\ win'[w].frameAction = win[w].frameAction /\ win'[w].loop = win[w].loop
  BY <1>4 DEF N!WindowRecord
<1>8. N!RawFollowsCursor'
  BY <1>1, <1>3, <1>5, <1>6, <1>7 DEF N!RawFollowsCursor
<1>9. CASE Known = w
  <2>1. IsOf(w) \/ (Free /\ (win[w].loop \/ win[w].frameAction))
    BY <1>1, <1>6, <1>9 DEF CursorIsOfKnown
  <2>2. IsOf(w)' \/ (Free' /\ (win'[w].loop \/ win'[w].frameAction))
    BY <1>3, <1>7, <2>1 DEF IsOf, Free
  <2>3. QED
    BY <1>3, <1>5, <1>7, <1>8, <1>9, <2>2, HandlerStep
<1>10. CASE Known # w
  <2>1. ~win[w].loop
    BY <1>6, <1>10 DEF LoopsAreKnown
  <2>2. QED
    BY <1>3, <1>5, <1>7, <1>8, <1>10, <2>1, HandlerStep
<1>11. QED
  BY <1>9, <1>10

LEMMA NothingLoops ==
    ASSUME MonitorInv, FocusInv, ~N!InLoop
    PROVE  \A v \in Window : ~win[v].loop /\ ~win[v].frameAction
BY FocusFacts DEF N!InLoop

LEMMA CaptionClickStep ==
    ASSUME MonitorInv, FocusInv, NEW w \in Window, N!CaptionClick(w)
    PROVE  FocusInv'
<1> DEFINE last == [type |-> "set", window |-> w]
<1>1. /\ WinType /\ inbox \in Seq(N!Message) /\ NoWindow \notin Window
      /\ N!Alive \in SUBSET Window /\ foreground \in N!Alive \union {NoWindow}
      /\ win32Disabled \in Window \union {NoWindow}
  BY FocusFacts
<1>2. /\ inbox = <<>> /\ ~N!InLoop /\ w \in N!Alive /\ w # foreground
      /\ win' = [win EXCEPT ![w].frameAction = TRUE]
      /\ N!Activate(w) /\ UNCHANGED N!cursor
  BY DEF N!CaptionClick, N!Shown
<1>3. foreground' = w /\ sync' /\ inbox' = inbox \o N!FocusMoves(foreground, w)
  BY <1>2 DEF N!Activate
<1>4. Known = foreground
  BY <1>2 DEF Known, KnownOf
<1>5. IsChain(inbox, foreground, N!Alive) /\ CursorIsOfKnown /\ N!RawFollowsCursor
  BY DEF FocusInv
<1>6. w \in N!Alive \union {NoWindow} /\ w # foreground
  BY <1>2
<1>7. LET r == inbox \o N!FocusMoves(foreground, w) IN
      /\ r \in Seq(N!Message)
      /\ IsChain(r, w, N!Alive)
      /\ KnownOf(r, w) = KnownOf(inbox, foreground)
      /\ \A i \in 1..Len(inbox) : r[i] = inbox[i]
      /\ w # NoWindow => r[Len(r)] = [type |-> "set", window |-> w]
      /\ Len(inbox) \in Nat /\ Len(r) \in Nat /\ Len(inbox) < Len(r)
  BY <1>1, <1>5, <1>6, FocusMovesContinue
<1>8. /\ IsChain(inbox', w, N!Alive) /\ Known' = Known
      /\ inbox'[Len(inbox')] = last /\ Len(inbox') \in 1..Len(inbox')
  BY <1>1, <1>3, <1>7 DEF Known
<1>9. win'[w] = [win[w] EXCEPT !.frameAction = TRUE] /\ win[w] \in N!WindowRecord
  BY <1>1, <1>2, SetField
<1>10. \A v \in Window \ {w} : win'[v] = win[v]
  BY <1>1, <1>2 DEF WinType
<1>11. /\ win'[w].alive = win[w].alive /\ win'[w].loop = win[w].loop
       /\ win'[w].rawMouseMotion = win[w].rawMouseMotion
  BY <1>9 DEF N!WindowRecord
<1>12. N!Alive' = N!Alive
  BY <1>10, <1>11 DEF N!Alive
<1>13. LoopsAreKnown'
  <2>1. ASSUME NEW v \in Window
        PROVE  ~win'[v].loop /\ (win'[v].frameAction => v = w)
    BY <1>2, <1>10, <1>11, NothingLoops
  <2>2. sync' /\ \E i \in 1..Len(inbox') : inbox'[i] = [type |-> "set", window |-> w]
    BY <1>3, <1>8
  <2>3. QED
    BY <2>1, <2>2 DEF LoopsAreKnown
<1>14. CursorIsOfKnown'
  <2>1. Known # NoWindow => win'[Known] = win[Known]
    BY <1>1, <1>2, <1>4, <1>10
  <2>2. QED
    BY <1>2, <1>5, <1>8, <2>1 DEF CursorIsOfKnown, Free, IsOf, N!cursor
<1>15. N!RawFollowsCursor'
  BY <1>1, <1>2, <1>5, <1>10, <1>11 DEF N!RawFollowsCursor, N!cursor
<1>16. QED
  BY <1>1, <1>2, <1>3, <1>8, <1>12, <1>13, <1>14, <1>15 DEF FocusInv

\* Nothing waits for a window that is created.
LEMMA FocusOfCreated ==
    ASSUME MonitorInv, FocusInv, NEW w \in Window, NEW m \in Monitor \union {NoMonitor},
           N!CreateWindow(w, m)
    PROVE  FocusInv'
<1> DEFINE alive == N!Alive \union {w}
<1>1. /\ WinType /\ inbox \in Seq(N!Message) /\ NoWindow \notin Window
      /\ N!Alive \in SUBSET Window /\ foreground \in N!Alive \union {NoWindow}
      /\ win32Disabled \in Window \union {NoWindow}
      /\ Known \in Window \union {NoWindow}
  BY FocusFacts
<1>2. /\ ~N!InLoop /\ w \notin N!Alive
      /\ \A i \in DOMAIN inbox : inbox[i].window # w
      /\ win' = [win EXCEPT ![w] = [N!Blank EXCEPT !.alive = TRUE, !.monitor = m]]
      /\ N!Activate(w) \/ UNCHANGED N!messages
      /\ UNCHANGED N!cursor
  BY DEF N!CreateWindow
<1>3. /\ win[w].mode = "normal" /\ ~win[w].rawMouseMotion
  BY <1>2, FocusFacts
<1>4. /\ win'[w].alive /\ ~win'[w].rawMouseMotion
      /\ ~win'[w].loop /\ ~win'[w].frameAction
  <2>1. win'[w] = [N!Blank EXCEPT !.alive = TRUE, !.monitor = m]
    BY <1>1, <1>2 DEF WinType
  <2>2. QED
    BY <2>1 DEF N!Blank
<1>5. \A v \in Window \ {w} : win'[v] = win[v]
  BY <1>1, <1>2 DEF WinType
<1>6. N!Alive' = alive
  BY <1>4, <1>5 DEF N!Alive
<1>7. IsChain(inbox, foreground, N!Alive) /\ CursorIsOfKnown /\ N!RawFollowsCursor
  BY DEF FocusInv
<1>8. IsChain(inbox, foreground, alive)
  BY <1>1, <1>2, <1>7, ExtendedChain
<1>9. foreground' \in alive \union {NoWindow} /\ IsChain(inbox', foreground', alive)
      /\ Known' = Known
  <2>1. CASE UNCHANGED N!messages
    BY <1>1, <1>8, <2>1 DEF N!messages, Known
  <2>2. CASE N!Activate(w)
    <3>1. w # foreground
      BY <1>1, <1>2
    <3>2. foreground' = w /\ inbox' = inbox \o N!FocusMoves(foreground, w)
      BY <2>2, <3>1 DEF N!Activate
    <3>3. /\ alive \in SUBSET Window /\ foreground \in alive \union {NoWindow}
          /\ w \in alive \union {NoWindow}
      BY <1>1
    <3> HIDE DEF alive
    <3>4. LET r == inbox \o N!FocusMoves(foreground, w) IN
          /\ r \in Seq(N!Message)
          /\ IsChain(r, w, alive)
          /\ KnownOf(r, w) = KnownOf(inbox, foreground)
          /\ \A i \in 1..Len(inbox) : r[i] = inbox[i]
          /\ w # NoWindow => r[Len(r)] = [type |-> "set", window |-> w]
          /\ Len(inbox) \in Nat /\ Len(r) \in Nat /\ Len(inbox) < Len(r)
      BY <1>1, <1>8, <3>1, <3>3, FocusMovesContinue
    <3>5. QED
      BY <3>2, <3>3, <3>4 DEF Known
  <2>3. QED
    BY <1>2, <2>1, <2>2
<1>10. LoopsAreKnown'
  <2>1. ASSUME NEW v \in Window PROVE ~win'[v].loop /\ ~win'[v].frameAction
    BY <1>2, <1>4, <1>5, NothingLoops
  <2>2. QED
    BY <2>1 DEF LoopsAreKnown
<1>11. Known # w
  <2>1. CASE inbox = <<>>
    BY <1>1, <1>2, <2>1 DEF Known, KnownOf
  <2>2. CASE inbox # <<>>
    <3>1. 1 \in DOMAIN inbox
      BY <1>1, <2>2, EmptySeq, LenProperties
    <3>2. QED
      BY <1>1, <1>2, <2>2, <3>1 DEF Known, KnownOf
  <2>3. QED
    BY <2>1, <2>2
<1>12. CursorIsOfKnown'
  <2>1. Known # NoWindow => win'[Known] = win[Known]
    BY <1>1, <1>5, <1>11
  <2>2. QED
    BY <1>2, <1>7, <1>9, <2>1 DEF CursorIsOfKnown, Free, IsOf, N!cursor
<1>13. N!RawFollowsCursor'
  BY <1>1, <1>2, <1>3, <1>4, <1>5, <1>7 DEF N!RawFollowsCursor, N!cursor
<1>14. QED
  BY <1>6, <1>9, <1>10, <1>12, <1>13 DEF FocusInv

LEMMA FocusOfDestroyed ==
    ASSUME MonitorInv, FocusInv, NEW w \in Window, N!DestroyWindow(w)
    PROVE  FocusInv'
<1> DEFINE alive == N!Alive \ {w}
           f == IF foreground = w THEN NoWindow ELSE foreground
<1>1. /\ WinType /\ inbox \in Seq(N!Message) /\ NoWindow \notin Window
      /\ N!Alive \in SUBSET Window /\ foreground \in N!Alive \union {NoWindow}
      /\ win32Disabled \in Window \union {NoWindow}
      /\ Known \in Window \union {NoWindow}
  BY FocusFacts
<1>2. /\ ~N!InLoop /\ w \in N!Alive /\ win' = [win EXCEPT ![w] = N!Blank]
  BY DEF N!DestroyWindow
<1>3. IF win32Disabled = w THEN N!EnableCursor(w)
      ELSE N!CursorIs(win32Disabled,
                      IF capturedCursorWindow = w THEN NoWindow ELSE capturedCursorWindow,
                      rawTarget)
  BY DEF N!DestroyWindow
<1>4. IF foreground # w THEN UNCHANGED N!messages
      ELSE \E x \in (N!Shown \ {w}) \union {NoWindow} :
             /\ foreground' = x /\ inbox' = inbox \o N!FocusMoves(NoWindow, x)
  BY DEF N!DestroyWindow
<1>5. win'[w] = N!Blank /\ \A v \in Window \ {w} : win'[v] = win[v]
  BY <1>1, <1>2 DEF WinType
<1>6. /\ ~win'[w].alive /\ ~win'[w].loop /\ ~win'[w].frameAction
      /\ win'[w].mode = "normal"
  BY <1>5 DEF N!Blank
<1>7. N!Alive' = alive
  BY <1>5, <1>6 DEF N!Alive
<1>8. IsChain(inbox, foreground, N!Alive) /\ CursorIsOfKnown /\ N!RawFollowsCursor
  BY DEF FocusInv
<1>9. IsChain(inbox, f, alive) /\ alive \in SUBSET Window
      /\ f \in alive \union {NoWindow}
  BY <1>1, <1>2, <1>8, ForgottenChain
<1>10. /\ foreground' \in alive \union {NoWindow} /\ IsChain(inbox', foreground', alive)
       /\ Known' = Known \/ (Known = w /\ Known' = NoWindow)
  <2>1. CASE foreground # w
    BY <1>4, <1>9, <2>1 DEF N!messages, Known
  <2>2. CASE foreground = w
    <3>1. PICK x \in (N!Shown \ {w}) \union {NoWindow} :
            foreground' = x /\ inbox' = inbox \o N!FocusMoves(NoWindow, x)
      BY <1>4, <2>2
    <3>2. x \in alive \union {NoWindow}
      BY <3>1 DEF N!Shown
    <3>3. IsChain(inbox, NoWindow, alive)
      BY <1>9, <2>2
    <3> HIDE DEF alive, f
    <3>4. IsChain(inbox', x, alive) /\ KnownOf(inbox', x) = KnownOf(inbox, NoWindow)
      <4>1. CASE x = NoWindow
        <5>1. N!FocusMoves(NoWindow, x) = <<>> \o <<>>
          BY <4>1 DEF N!FocusMoves
        <5>2. <<>> \in Seq(N!Message)
          OBVIOUS
        <5>3. N!FocusMoves(NoWindow, x) = <<>> /\ inbox \o <<>> = inbox
          BY <1>1, <5>1, <5>2, ConcatEmptySeq
        <5>4. QED
          BY <3>1, <3>3, <4>1, <5>3
      <4>2. CASE x # NoWindow
        <5>1. NoWindow \in alive \union {NoWindow} /\ x # NoWindow
          BY <4>2
        <5>2. LET r == inbox \o N!FocusMoves(NoWindow, x) IN
              /\ r \in Seq(N!Message)
              /\ IsChain(r, x, alive)
              /\ KnownOf(r, x) = KnownOf(inbox, NoWindow)
              /\ \A i \in 1..Len(inbox) : r[i] = inbox[i]
              /\ x # NoWindow => r[Len(r)] = [type |-> "set", window |-> x]
              /\ Len(inbox) \in Nat /\ Len(r) \in Nat /\ Len(inbox) < Len(r)
          BY <1>1, <1>9, <3>2, <3>3, <5>1, FocusMovesContinue
        <5>3. QED
          BY <3>1, <5>2
      <4>3. QED
        BY <4>1, <4>2
    <3>5. KnownOf(inbox, NoWindow) = Known \/ (Known = w /\ KnownOf(inbox, NoWindow) = NoWindow)
      BY <2>2 DEF Known, KnownOf
    <3>6. QED
      BY <3>1, <3>2, <3>4, <3>5 DEF Known
  <2>3. QED
    BY <2>1, <2>2
<1>11. LoopsAreKnown'
  <2>1. ASSUME NEW v \in Window PROVE ~win'[v].loop /\ ~win'[v].frameAction
    BY <1>2, <1>5, <1>6, NothingLoops
  <2>2. QED
    BY <2>1 DEF LoopsAreKnown
<1>12. IF Known = NoWindow THEN Free ELSE IsOf(Known)
  BY <1>1, <1>2, <1>8, NothingLoops DEF CursorIsOfKnown
<1>13. CASE Known = w
  <2>1. Free' /\ rawTarget' = NoWindow
    <3>1. /\ win32Disabled = w \/ win32Disabled = NoWindow
          /\ capturedCursorWindow = w \/ capturedCursorWindow = NoWindow
          /\ rawTarget = IF win32Disabled = w /\ win[w].rawMouseMotion THEN w ELSE NoWindow
      BY <1>1, <1>8, <1>12, <1>13 DEF IsOf, N!RawFollowsCursor
    <3>2. CASE win32Disabled = w
      BY <1>3, <3>1, <3>2 DEF N!EnableCursor, N!CursorIs, Free
    <3>3. CASE win32Disabled # w
      BY <1>3, <3>1, <3>3 DEF N!CursorIs, Free
    <3>4. QED
      BY <3>2, <3>3
  <2>2. CursorIsOfKnown' /\ N!RawFollowsCursor'
    <3>1. N!RawFollowsCursor'
      BY <2>1 DEF Free, N!RawFollowsCursor
    <3>2. Known' = NoWindow \/ Known' = w
      BY <1>10, <1>13
    <3>3. IsOf(w)'
      BY <1>6, <2>1 DEF Free, IsOf
    <3>4. QED
      BY <1>1, <2>1, <3>1, <3>2, <3>3 DEF CursorIsOfKnown
  <2>3. QED
    BY <1>7, <1>10, <1>11, <2>2 DEF FocusInv
<1>14. CASE Known # w
  <2>1. win32Disabled # w /\ capturedCursorWindow # w
    BY <1>1, <1>12, <1>14 DEF IsOf, Free
  <2>2. UNCHANGED <<win32Disabled, capturedCursorWindow, rawTarget>>
    BY <1>3, <2>1 DEF N!CursorIs
  <2>3. Known' = Known /\ (Known # NoWindow => win'[Known] = win[Known])
    BY <1>1, <1>5, <1>10, <1>14
  <2>4. CursorIsOfKnown'
    BY <1>12, <2>2, <2>3 DEF CursorIsOfKnown, Free, IsOf
  <2>5. N!RawFollowsCursor'
    BY <1>1, <1>5, <1>8, <2>1, <2>2 DEF N!RawFollowsCursor
  <2>6. QED
    BY <1>7, <1>10, <1>11, <2>4, <2>5 DEF FocusInv
<1>15. QED
  BY <1>13, <1>14

LEMMA InitFocusInv == N!Init => FocusInv
<1> SUFFICES ASSUME N!Init PROVE FocusInv
  OBVIOUS
<1>1. /\ foreground = NoWindow /\ inbox = <<>> /\ win32Disabled = NoWindow
      /\ capturedCursorWindow = NoWindow /\ rawTarget = NoWindow
      /\ \A v \in Window : ~win[v].loop /\ ~win[v].frameAction
  BY DEF N!Init, N!Blank
<1>2. Known = NoWindow
  BY <1>1 DEF Known, KnownOf
<1>3. IsChain(inbox, foreground, N!Alive)
  BY <1>1 DEF IsChain
<1>4. LoopsAreKnown
  BY <1>1 DEF LoopsAreKnown
<1>5. CursorIsOfKnown /\ N!RawFollowsCursor
  BY <1>1, <1>2 DEF CursorIsOfKnown, Free, N!RawFollowsCursor
<1>6. QED
  BY <1>1, <1>3, <1>4, <1>5 DEF FocusInv

LEMMA NextFocusInv ==
    ASSUME ~Late, MonitorInv, FocusInv, N!Next
    PROVE  FocusInv'
<1>1. CASE N!System
  <2>1. CASE \E x \in Window \union {NoWindow} : N!UserActivates(x)
    <3>1. NoMonitor \in Monitor \union {NoMonitor}
      OBVIOUS
    <3>2. QED
      BY <2>1, <3>1, AnnouncingActions
  <2>2. CASE \E w \in Window : N!CaptionClick(w)
    BY <2>2, CaptionClickStep
  <2>3. CASE \E w \in Window : N!CaptureChanged(w)
    BY <2>3, CaptureChangedStep
  <2>4. CASE \E w \in Window : N!EnterSizeMove(w)
    BY <2>4, EnterSizeMoveStep
  <2>5. CASE \E w \in Window : N!ExitSizeMove(w)
    BY <2>5, ExitSizeMoveStep
  <2>6. CASE N!SetFocus
    BY <2>6, SetFocusStep
  <2>7. CASE N!KillFocus
    BY <2>7, KillFocusStep
  <2>8. CASE N!SizeEnd
    <3>1. NoMonitor \in Monitor \union {NoMonitor} /\ NoWindow \in Window \union {NoWindow}
      OBVIOUS
    <3>2. QED
      BY <2>8, <3>1, AnnouncingActions
  <2>9. QED
    BY <1>1, <2>1, <2>2, <2>3, <2>4, <2>5, <2>6, <2>7, <2>8 DEF N!System
<1>2. CASE N!Call
  <2>1. CASE \E w \in Window, mode \in {"normal", "disabled", "captured"} :
               N!SetCursorMode(w, mode)
    BY <2>1, SetCursorModeStep
  <2>2. CASE \E w \in Window : N!SetRawMouseMotion(w)
    BY <2>2, SetRawMouseMotionStep
  <2>3. CASE \E w \in Window, m \in Monitor \union {NoMonitor} : N!SetWindowMonitor(w, m)
    BY <2>3, AnnouncingActions
  <2>4. CASE \E w \in Window : \/ N!IconifyWindow(w) \/ N!RestoreWindow(w)
                               \/ N!FocusWindow(w) \/ N!ShowWindowNested(w)
    <3>1. NoMonitor \in Monitor \union {NoMonitor}
      OBVIOUS
    <3>2. QED
      BY <2>4, <3>1, AnnouncingActions
  <2>5. CASE \E w \in Window, m \in Monitor \union {NoMonitor} : N!CreateWindow(w, m)
    BY <2>5, FocusOfCreated
  <2>6. CASE N!CreateEnd
    <3>1. NoMonitor \in Monitor \union {NoMonitor} /\ NoWindow \in Window \union {NoWindow}
      OBVIOUS
    <3>2. QED
      BY <2>6, <3>1, AnnouncingActions
  <2>7. CASE \E w \in Window : N!DestroyWindow(w)
    BY <2>7, FocusOfDestroyed
  <2>8. QED
    BY <1>2, <2>1, <2>2, <2>3, <2>4, <2>5, <2>6, <2>7 DEF N!Call
<1>3. QED
  BY <1>1, <1>2 DEF N!Next

-----------------------------------------------------------------------------
(***************************************************************************)
(* ContextCreation.  The stages of a creation are put together from parts: *)
(* what every stage of s makes is in A, or what every stage but the last.  *)
(***************************************************************************)
Stages == Seq(SUBSET C!Thing)
Within(s, A) == \A i \in 1..Len(s) : s[i] \subseteq A
ButLast(s, A) == \A i \in 1..Len(s) - 1 : s[i] \subseteq A

LEMMA StagesJoined ==
    ASSUME NEW s \in Stages, NEW t \in Stages, NEW A,
           Within(s, A)
    PROVE  /\ s \o t \in Stages
           /\ Within(t, A) => Within(s \o t, A)
           /\ ButLast(t, A) => ButLast(s \o t, A)
           /\ Len(s \o t) = Len(s) + Len(t) /\ Len(s) \in Nat /\ Len(t) \in Nat
           /\ \A i \in 1..Len(s) : (s \o t)[i] = s[i]
<1>1. /\ s \o t \in Stages /\ Len(s \o t) = Len(s) + Len(t)
      /\ Len(s) \in Nat /\ Len(t) \in Nat
      /\ \A i \in 1..Len(s) + Len(t) :
           (s \o t)[i] = IF i <= Len(s) THEN s[i] ELSE t[i - Len(s)]
  BY ConcatProperties, LenProperties DEF Stages
<1> DEFINE r == s \o t
<1>2. /\ r \in Stages /\ Len(r) = Len(s) + Len(t)
      /\ \A i \in 1..Len(s) + Len(t) : r[i] = IF i <= Len(s) THEN s[i] ELSE t[i - Len(s)]
  BY <1>1
<1> HIDE DEF r
<1>3. Within(t, A) => Within(r, A)
  BY <1>1, <1>2 DEF Within
<1>4. ButLast(t, A) => ButLast(r, A)
  BY <1>1, <1>2 DEF Within, ButLast
<1>5. QED
  BY <1>1, <1>2, <1>3, <1>4 DEF r

\* The parts are written out: one to three stages, or none.
LEMMA NoStage == ASSUME NEW A PROVE <<>> \in Stages /\ Within(<<>>, A) /\ ButLast(<<>>, A)
BY DEF Stages, Within, ButLast

LEMMA OneStage ==
    ASSUME NEW a \in SUBSET C!Thing, NEW A
    PROVE  /\ <<a>> \in Stages /\ ButLast(<<a>>, A)
           /\ a \subseteq A => Within(<<a>>, A)
BY DEF Stages, Within, ButLast

LEMMA TwoStages ==
    ASSUME NEW a \in SUBSET C!Thing, NEW b \in SUBSET C!Thing, NEW A
    PROVE  /\ <<a, b>> \in Stages
           /\ a \subseteq A => ButLast(<<a, b>>, A)
           /\ a \subseteq A /\ b \subseteq A => Within(<<a, b>>, A)
BY DEF Stages, Within, ButLast

LEMMA ThreeStages ==
    ASSUME NEW a \in SUBSET C!Thing, NEW b \in SUBSET C!Thing, NEW d \in SUBSET C!Thing,
           NEW A
    PROVE  /\ <<a, b, d>> \in Stages
           /\ a \subseteq A /\ b \subseteq A /\ d \subseteq A => Within(<<a, b, d>>, A)
BY DEF Stages, Within

\* The parts, for the back end at hand.
LEMMA PartsOfCreation ==
    ASSUME C!TypeOK, NEW c, NEW share \in BOOLEAN
    PROVE  /\ C!ChooseVisual \in Stages /\ Within(C!ChooseVisual, {})
           /\ C!ChooseConfig \in Stages
           /\ Within(C!ChooseConfig, IF source = "nsgl" THEN {"format"} ELSE {})
           /\ C!NativeContext(c, share) \in Stages
           /\ Within(C!NativeContext(c, share), {"context", "sharing"})
           /\ ButLast(C!NativeContext(c, share),
                IF source = "wgl" /\ "attribs" \notin has THEN {"context"} ELSE {})
           /\ C!Drawable \in Stages
           /\ Within(C!Drawable, {"drawable", "library"})
           /\ source # "egl" => ButLast(C!Drawable, {})
           /\ source \in {"wgl", "nsgl"} => C!Drawable = <<>>
           /\ C!UserDrawable \in Stages /\ Within(C!UserDrawable, {"drawable"})
           /\ source # "egl" => C!UserDrawable = <<>>
<1>1. \A A : A \in {{}, {"format"}, {"context"}, {"sharing"}, {"drawable"},
                    {"library"}, {"context", "sharing"}} => A \in SUBSET C!Thing
  BY DEF C!Thing
<1>2. C!ChooseVisual \in Stages /\ Within(C!ChooseVisual, {})
  <2>1. C!ChooseVisual = <<{}>> \/ C!ChooseVisual = <<>>
    BY DEF C!ChooseVisual
  <2>2. CASE C!ChooseVisual = <<{}>>
    BY <1>1, <2>2, OneStage
  <2>3. CASE C!ChooseVisual = <<>>
    BY <2>3, NoStage
  <2>4. QED
    BY <2>1, <2>2, <2>3
<1>3. /\ C!ChooseConfig \in Stages
      /\ Within(C!ChooseConfig, IF source = "nsgl" THEN {"format"} ELSE {})
  <2>1. CASE source = "wgl"
    <3>1. C!ChooseConfig = <<{}, {}, {}>>
      BY <2>1 DEF C!ChooseConfig
    <3>2. QED
      BY <1>1, <2>1, <3>1, ThreeStages
  <2>2. CASE source = "nsgl"
    <3>1. C!ChooseConfig = <<{}, {"format"}>>
      BY <2>2 DEF C!ChooseConfig
    <3>2. QED
      BY <1>1, <2>2, <3>1, TwoStages
  <2>3. CASE source \notin {"wgl", "nsgl"}
    <3>1. C!ChooseConfig = <<{}>>
      BY <2>3 DEF C!ChooseConfig
    <3>2. QED
      BY <1>1, <2>3, <3>1, OneStage
  <2>4. QED
    BY <2>1, <2>2, <2>3
<1>4. /\ C!NativeContext(c, share) \in Stages
      /\ Within(C!NativeContext(c, share), {"context", "sharing"})
      /\ ButLast(C!NativeContext(c, share),
           IF source = "wgl" /\ "attribs" \notin has THEN {"context"} ELSE {})
  <2>1. CASE source = "wgl" /\ "attribs" \notin has
    <3>1. \/ C!NativeContext(c, share) = <<{"context"}>>
          \/ C!NativeContext(c, share) = <<{"context"}, {"sharing"}>>
      BY <2>1 DEF C!NativeContext
    <3>2. CASE C!NativeContext(c, share) = <<{"context"}>>
      BY <1>1, <2>1, <3>2, OneStage
    <3>3. CASE C!NativeContext(c, share) = <<{"context"}, {"sharing"}>>
      BY <1>1, <2>1, <3>3, TwoStages
    <3>4. QED
      BY <3>1, <3>2, <3>3
  <2>2. CASE ~(source = "wgl" /\ "attribs" \notin has)
    <3>1. \/ C!NativeContext(c, share) = <<{"context"}>>
          \/ C!NativeContext(c, share) = <<{"context", "sharing"}>>
      BY <2>2 DEF C!NativeContext
    <3>2. CASE C!NativeContext(c, share) = <<{"context"}>>
      BY <1>1, <2>2, <3>2, OneStage
    <3>3. CASE C!NativeContext(c, share) = <<{"context", "sharing"}>>
      BY <1>1, <2>2, <3>3, OneStage
    <3>4. QED
      BY <3>1, <3>2, <3>3
  <2>3. QED
    BY <2>1, <2>2
<1>5. /\ C!Drawable \in Stages
      /\ Within(C!Drawable, {"drawable", "library"})
      /\ source # "egl" => ButLast(C!Drawable, {})
      /\ source \in {"wgl", "nsgl"} => C!Drawable = <<>>
  <2>1. CASE source = "glx"
    <3>1. C!Drawable = <<{"drawable"}>>
      BY <2>1 DEF C!Drawable
    <3>2. QED
      BY <1>1, <2>1, <3>1, OneStage
  <2>2. CASE source = "egl"
    <3>1. C!Drawable = <<{"drawable"}>> \/ C!Drawable = <<{"drawable"}, {"library"}>>
      BY <2>2 DEF C!Drawable
    <3>2. CASE C!Drawable = <<{"drawable"}>>
      BY <1>1, <2>2, <3>2, OneStage
    <3>3. CASE C!Drawable = <<{"drawable"}, {"library"}>>
      BY <1>1, <2>2, <3>3, TwoStages
    <3>4. QED
      BY <3>1, <3>2, <3>3
  <2>3. CASE source \notin {"glx", "egl"}
    <3>1. C!Drawable = <<>>
      BY <2>3 DEF C!Drawable
    <3>2. QED
      BY <1>1, <2>3, <3>1, NoStage
  <2>4. QED
    BY <2>1, <2>2, <2>3
<1>6. /\ C!UserDrawable \in Stages /\ Within(C!UserDrawable, {"drawable"})
      /\ source # "egl" => C!UserDrawable = <<>>
  <2>1. /\ C!UserDrawable = <<{}, {"drawable"}>> \/ C!UserDrawable = <<>>
        /\ source # "egl" => C!UserDrawable = <<>>
    BY DEF C!UserDrawable
  <2>2. CASE C!UserDrawable = <<{}, {"drawable"}>>
    BY <1>1, <2>1, <2>2, TwoStages
  <2>3. CASE C!UserDrawable = <<>>
    BY <2>3, NoStage
  <2>4. QED
    BY <2>1, <2>2, <2>3
<1>7. QED
  BY <1>2, <1>3, <1>4, <1>5, <1>6

LEMMA PartsMade ==
    ASSUME NEW s \in Stages, NEW A
    PROVE  /\ Within(s, A) => \A k \in DOMAIN s : C!MadeBefore(s, k) \subseteq A
           /\ ButLast(s, A) => \A k \in DOMAIN s : C!MadeBefore(s, k) \subseteq A
           /\ C!MadeBefore(s, Len(s) + 1) \in SUBSET C!Thing
           /\ \A k \in DOMAIN s : C!MadeBefore(s, k) \in SUBSET C!Thing
           /\ \A i \in 1..Len(s) : s[i] \subseteq C!MadeBefore(s, Len(s) + 1)
<1>1. DOMAIN s = 1..Len(s) /\ Len(s) \in Nat /\ \A i \in 1..Len(s) : s[i] \in SUBSET C!Thing
  BY ElementOfSeq, LenProperties DEF Stages
<1>2. \A k : \A x \in C!MadeBefore(s, k) : \E i \in 1..k - 1 : x \in s[i]
  BY DEF C!MadeBefore
<1>3. ASSUME NEW k \in DOMAIN s, NEW i \in 1..k - 1
      PROVE  i \in 1..Len(s) /\ i \in 1..Len(s) - 1
  BY <1>1
<1>4. Within(s, A) => \A k \in DOMAIN s : C!MadeBefore(s, k) \subseteq A
  BY <1>2, <1>3 DEF Within
<1>5. ButLast(s, A) => \A k \in DOMAIN s : C!MadeBefore(s, k) \subseteq A
  BY <1>2, <1>3 DEF ButLast
<1>6. \A k \in DOMAIN s : C!MadeBefore(s, k) \in SUBSET C!Thing
  BY <1>1, <1>2, <1>3
<1>7. (Len(s) + 1) - 1 = Len(s)
  BY <1>1
<1>8. C!MadeBefore(s, Len(s) + 1) \in SUBSET C!Thing
  BY <1>1, <1>2, <1>7
<1>9. \A i \in 1..Len(s) : s[i] \subseteq C!MadeBefore(s, Len(s) + 1)
  BY <1>7 DEF C!MadeBefore
<1>10. QED
  BY <1>4, <1>5, <1>6, <1>8, <1>9

\* What a creation that fails loses, by its back end.
Lost == IF source = "glx" THEN {"context"}
        ELSE IF source = "egl" THEN {"context", "drawable", "library"}
        ELSE IF source = "nsgl" THEN {"format"}
        ELSE IF "attribs" \notin has THEN {"context"} ELSE {}

LEMMA SourceIsOneOf == C!TypeOK => source \in {"glx", "egl", "wgl", "nsgl"}
BY DesktopAssumption DEF C!ContextAssumption, C!TypeOK

\* A creation of a window's context that fails at a stage.
LEMMA WindowStagesMake ==
    ASSUME C!TypeOK, NEW c, NEW share \in BOOLEAN
    PROVE  LET stages == C!WindowStages(c, share) IN
           /\ \A k \in DOMAIN stages : C!Objects(C!MadeBefore(stages, k)) \subseteq Lost
           /\ \A k \in DOMAIN stages : C!Objects(C!MadeBefore(stages, k)) \in SUBSET C!Thing
           /\ C!MadeBefore(stages, Len(stages) + 1) \in SUBSET C!Thing
<1> DEFINE v == C!ChooseVisual
           n == C!NativeContext(c, share)
           d == C!Drawable
           stages == C!WindowStages(c, share)
<1>1. stages = ((v \o C!ChooseConfig) \o n) \o d
  BY DEF C!WindowStages
<1>2. /\ v \in Stages /\ Within(v, {})
      /\ C!ChooseConfig \in Stages
      /\ Within(C!ChooseConfig, IF source = "nsgl" THEN {"format"} ELSE {})
      /\ n \in Stages /\ Within(n, {"context", "sharing"})
      /\ ButLast(n, IF source = "wgl" /\ "attribs" \notin has THEN {"context"} ELSE {})
      /\ d \in Stages /\ Within(d, {"drawable", "library"})
      /\ source # "egl" => ButLast(d, {})
      /\ source \in {"wgl", "nsgl"} => d = <<>>
  BY PartsOfCreation
<1> HIDE DEF v, n, d, stages
<1> DEFINE g == v \o C!ChooseConfig
           h == g \o n
<1>joined. stages = h \o d
  BY <1>1
<1>3. \A A, B : \A s \in Stages : A \subseteq B =>
        (Within(s, A) => Within(s, B)) /\ (ButLast(s, A) => ButLast(s, B))
  BY DEF Within, ButLast
<1>4. /\ g \in Stages
      /\ Within(g, IF source = "nsgl" THEN {"format"} ELSE {})
  <2>1. Within(v, IF source = "nsgl" THEN {"format"} ELSE {})
    BY <1>2, <1>3
  <2>2. QED
    BY <1>2, <2>1, StagesJoined
<1> HIDE DEF g
<1>5. h \in Stages /\ stages \in Stages
  <2>1. h \in Stages
    BY <1>2, <1>4, StagesJoined
  <2>2. QED
    BY <1>1, <1>2, <2>1, ConcatProperties DEF Stages
<1>6. \E A : ButLast(stages, A) /\ A \subseteq Lost \union {"sharing"}
  <2>1. CASE source = "glx"
    <3> DEFINE A == {"context", "sharing"}
    <3>1. Within(g, A) /\ Within(n, A) /\ ButLast(d, A)
      BY <1>2, <1>3, <1>4, <2>1
    <3> HIDE DEF A
    <3>2. Within(h, A)
      BY <1>2, <1>4, <3>1, StagesJoined
    <3>3. ButLast(stages, A)
      BY <1>joined, <1>2, <1>5, <3>1, <3>2, StagesJoined
    <3>4. A \subseteq Lost \union {"sharing"}
      BY <2>1 DEF Lost, A
    <3>5. QED
      BY <3>3, <3>4
  <2>2. CASE source = "egl"
    <3> DEFINE A == {"context", "drawable", "library", "sharing"}
    <3>1. Within(g, A) /\ Within(n, A) /\ Within(d, A)
      BY <1>2, <1>3, <1>4, <2>2
    <3> HIDE DEF A
    <3>2. Within(h, A)
      BY <1>2, <1>4, <3>1, StagesJoined
    <3>3. Within(stages, A)
      BY <1>joined, <1>2, <1>5, <3>1, <3>2, StagesJoined
    <3>4. ButLast(stages, A)
      BY <1>5, <3>3, LenProperties DEF Within, ButLast, Stages
    <3>5. A \subseteq Lost \union {"sharing"}
      BY <2>2 DEF Lost, A
    <3>6. QED
      BY <3>4, <3>5
  <2>3. CASE source \in {"wgl", "nsgl"}
    <3> DEFINE A == IF source = "nsgl" THEN {"format"}
                    ELSE IF "attribs" \notin has THEN {"context"} ELSE {}
    <3>1. Within(g, A) /\ ButLast(n, A)
      BY <1>2, <1>3, <1>4, <2>3
    <3>2. A \subseteq Lost \union {"sharing"}
      BY <2>3 DEF Lost
    <3> HIDE DEF A
    <3>3. ButLast(h, A)
      BY <1>2, <1>4, <3>1, StagesJoined
    <3>4. stages = h
      BY <1>joined, <1>2, <1>5, <2>3, ConcatEmptySeq DEF Stages
    <3>5. QED
      BY <3>2, <3>3, <3>4
  <2>4. QED
    BY <2>1, <2>2, <2>3, SourceIsOneOf
<1>7. PICK A : ButLast(stages, A) /\ A \subseteq Lost \union {"sharing"}
  BY <1>6
<1>8. \A k \in DOMAIN stages : /\ C!MadeBefore(stages, k) \subseteq A
                               /\ C!MadeBefore(stages, k) \in SUBSET C!Thing
  BY <1>5, <1>7, PartsMade
<1>9. C!MadeBefore(stages, Len(stages) + 1) \in SUBSET C!Thing
  BY <1>5, PartsMade
<1>10. QED
  BY <1>7, <1>8, <1>9 DEF C!Objects, stages

\* A creation of a user context: what it loses, and what it has made at the end.
LEMMA UserStagesMake ==
    ASSUME C!TypeOK, NEW c
    PROVE  LET stages == C!UserStages(c) IN
           /\ \A k \in DOMAIN stages :
                /\ C!Objects(C!MadeBefore(stages, k)) \ C!UserUndone(stages, k)
                     \subseteq IF source = "wgl" /\ "attribs" \notin has
                               THEN {"context"} ELSE {}
                /\ C!Objects(C!MadeBefore(stages, k)) \in SUBSET C!Thing
           /\ C!MadeBefore(stages, Len(stages) + 1) \in SUBSET C!Thing
           /\ {"context", "sharing"} \subseteq C!MadeBefore(stages, Len(stages) + 1)
<1> DEFINE n == C!NativeContext(c, TRUE)
           d == C!UserDrawable
           stages == C!UserStages(c)
           A == IF source = "wgl" /\ "attribs" \notin has THEN {"context"} ELSE {}
<1>1. stages = n \o d
  BY DEF C!UserStages
<1>2. /\ n \in Stages /\ Within(n, {"context", "sharing"}) /\ ButLast(n, A)
      /\ d \in Stages /\ (source # "egl" => d = <<>>)
  BY PartsOfCreation
<1>3. \/ n = <<{"context"}, {"sharing"}>>
      \/ n = <<{"context", "sharing"}>>
  BY DEF C!NativeContext
<1> HIDE DEF n, d, stages
<1>4. \A x \in {"context", "sharing"} : \E i \in 1..Len(n) : x \in n[i]
  <2>1. CASE n = <<{"context"}, {"sharing"}>>
    <3>1. Len(n) = 2 /\ n[1] = {"context"} /\ n[2] = {"sharing"}
      BY <2>1
    <3>2. 1 \in 1..Len(n) /\ 2 \in 1..Len(n) /\ "context" \in n[1] /\ "sharing" \in n[2]
      BY <3>1
    <3>3. QED
      BY <3>2
  <2>2. CASE n = <<{"context", "sharing"}>>
    <3>1. Len(n) = 1 /\ n[1] = {"context", "sharing"}
      BY <2>2
    <3>2. 1 \in 1..Len(n) /\ "context" \in n[1] /\ "sharing" \in n[1]
      BY <3>1
    <3>3. QED
      BY <3>2
  <2>3. QED
    BY <1>3, <2>1, <2>2
<1>5. /\ stages \in Stages /\ Len(stages) = Len(n) + Len(d)
      /\ Len(n) \in Nat /\ Len(d) \in Nat
      /\ \A i \in 1..Len(n) : stages[i] = n[i]
  BY <1>1, <1>2, StagesJoined
<1>6. /\ C!MadeBefore(stages, Len(stages) + 1) \in SUBSET C!Thing
      /\ \A k \in DOMAIN stages : C!MadeBefore(stages, k) \in SUBSET C!Thing
      /\ \A i \in 1..Len(stages) : stages[i] \subseteq C!MadeBefore(stages, Len(stages) + 1)
  BY <1>5, PartsMade
<1>7. {"context", "sharing"} \subseteq C!MadeBefore(stages, Len(stages) + 1)
  <2>1. ASSUME NEW x \in {"context", "sharing"}
        PROVE  x \in C!MadeBefore(stages, Len(stages) + 1)
    <3>1. PICK i \in 1..Len(n) : x \in n[i]
      BY <1>4
    <3>2. i \in 1..Len(stages) /\ x \in stages[i]
      BY <1>5, <3>1
    <3>3. QED
      BY <1>6, <3>2
  <2>2. QED
    BY <2>1
<1>8. ASSUME NEW k \in DOMAIN stages
      PROVE  C!Objects(C!MadeBefore(stages, k)) \ C!UserUndone(stages, k) \subseteq A
  <2>1. CASE source = "egl"
    BY <2>1 DEF C!UserUndone
  <2>2. CASE source # "egl"
    <3>1. stages = n
      BY <1>1, <1>2, <2>2, ConcatEmptySeq DEF Stages
    <3>2. ButLast(stages, A)
      BY <1>2, <3>1
    <3> HIDE DEF A
    <3>3. C!MadeBefore(stages, k) \subseteq A
      BY <1>5, <3>2, PartsMade
    <3>4. QED
      BY <3>3 DEF C!Objects
  <2>3. QED
    BY <2>1, <2>2
<1>9. QED
  BY <1>6, <1>7, <1>8 DEF C!Objects, stages

WindowOf == [client : {"gl", "es", "none"}, config : C!Config, made : SUBSET C!Thing]
UserOf == [of : Window, client : {"gl", "es"}, made : SUBSET C!Thing, asWindow : BOOLEAN]
Reports == [call : {"none", "window", "user", "destroy"}, failed : BOOLEAN,
            orphans : SUBSET C!Thing]
Maybe(R) == {<<>>} \union {<<r>> : r \in R}

\* The strengthening: a window's context is the one that its configuration
\* yields, and a user context's window is open and has a context.
HasItsContext ==
    \A w \in Window : window[w] # <<>> /\ window[w][1].client # "none" =>
        window[w][1].client = C!ClientOf(window[w][1].config)
UserOfOpenWindow ==
    \A u \in User : user[u] # <<>> =>
        window[user[u][1].of] # <<>> /\ window[user[u][1].of][1].client # "none"

ContextInv ==
    /\ C!TypeOK
    /\ window \in [Window -> Maybe(WindowOf)] /\ user \in [User -> Maybe(UserOf)]
    /\ HasItsContext
    /\ UserOfOpenWindow
    /\ C!OrphansAreKnown
    /\ C!UserContextFits

LEMMA MaybeFacts ==
    ASSUME NEW R
    PROVE  /\ <<>> \in Maybe(R)
           /\ \A r \in R : <<r>> \in Maybe(R) /\ <<r>> # <<>> /\ <<r>>[1] = r
           /\ \A x \in Maybe(R) : x # <<>> => x[1] \in R
<1>1. <<>> \in Maybe(R)
  BY DEF Maybe
<1>2. ASSUME NEW r \in R PROVE <<r>> \in Maybe(R) /\ <<r>> # <<>> /\ <<r>>[1] = r
  BY DEF Maybe
<1>3. ASSUME NEW x \in Maybe(R), x # <<>> PROVE x[1] \in R
  <2>1. PICK r \in R : x = <<r>>
    BY <1>3 DEF Maybe
  <2>2. QED
    BY <2>1
<1>4. QED
  BY <1>1, <1>2, <1>3

\* What a configuration yields.
LEMMA YieldsContext ==
    ASSUME C!TypeOK, NEW c \in C!Config
    PROVE  /\ C!ClientOf(c) \in {"gl", "es"}
           /\ source = "nsgl" => C!ClientOf(c) = "gl"
<1>1. c.client \in {"gl", "es", "none"}
  BY DEF C!Config
<1>2. CASE source = "glx"
  BY <1>1, <1>2 DEF C!ClientOf
<1>3. CASE source = "wgl"
  BY <1>1, <1>3 DEF C!ClientOf
<1>4. CASE source = "egl"
  BY <1>1, <1>4 DEF C!ClientOf
<1>5. CASE source = "nsgl"
  BY <1>1, <1>5 DEF C!ClientOf
<1>6. QED
  BY <1>2, <1>3, <1>4, <1>5, SourceIsOneOf

LEMMA ContextParts ==
    ASSUME ContextInv
    PROVE  /\ C!TypeOK
           /\ source \in Source /\ onX11 \in BOOLEAN /\ has \in C!Extensions
           /\ hint \in C!Config
           /\ window \in [Window -> Maybe(WindowOf)] /\ user \in [User -> Maybe(UserOf)]
           /\ current \in Window \union {NoWindow} /\ report \in Reports
           /\ \A w \in Window : window[w] # <<>> => window[w][1] \in WindowOf
           /\ \A u \in User : user[u] # <<>> => user[u][1] \in UserOf
<1>1. \A w \in Window : window[w] # <<>> => window[w][1] \in WindowOf
  BY MaybeFacts DEF ContextInv
<1>2. \A u \in User : user[u] # <<>> => user[u][1] \in UserOf
  BY MaybeFacts DEF ContextInv
<1>3. QED
  BY <1>1, <1>2 DEF ContextInv, C!TypeOK, Reports

\* The back end, its extensions and the platform stay.
SameBackEnd == source' = source /\ onX11' = onX11 /\ has' = has

LEMMA TypesStay ==
    ASSUME ContextInv, SameBackEnd, hint' \in C!Config,
           window' \in [Window -> Maybe(WindowOf)], user' \in [User -> Maybe(UserOf)],
           current' \in Window \union {NoWindow}, report' \in Reports
    PROVE  C!TypeOK'
<1>1. source' \in Source /\ onX11' \in BOOLEAN /\ has' \in C!Extensions'
  BY ContextParts DEF SameBackEnd, C!Extensions
<1>2. \A w \in Window : C!Open(w)' => window'[w][1] \in WindowOf
  BY MaybeFacts DEF C!Open
<1>3. \A u \in User : user'[u] # <<>> => user'[u][1] \in UserOf
  BY MaybeFacts
<1>4. QED
  BY <1>1, <1>2, <1>3 DEF C!TypeOK, WindowOf, UserOf, Reports

\* A call that changes no window and no user context.
LEMMA CallStep ==
    ASSUME ContextInv, SameBackEnd, window' = window, user' = user,
           hint' \in C!Config, current' \in Window \union {NoWindow},
           report' \in Reports, C!OrphansAreKnown'
    PROVE  ContextInv'
<1>1. C!TypeOK'
  BY ContextParts, TypesStay
<1>2. HasItsContext'
  BY DEF ContextInv, HasItsContext, SameBackEnd, C!ClientOf
<1>3. QED
  BY <1>1, <1>2 DEF ContextInv, UserOfOpenWindow, C!UserContextFits, SameBackEnd

\* A report without orphans.
LEMMA NothingLost ==
    ASSUME NEW call \in {"none", "window", "user", "destroy"}, NEW b \in BOOLEAN,
           report' = C!Report(call, b, {})
    PROVE  report' \in Reports /\ C!OrphansAreKnown'
<1>1. report' = [call |-> call, failed |-> b, orphans |-> {}]
  BY DEF C!Report
<1>2. report' \in Reports
  BY <1>1 DEF Reports
<1>3. report'.orphans = {}
  BY <1>1
<1>4. QED
  BY <1>2, <1>3 DEF C!OrphansAreKnown

\* The calls that fail, change a hint or make a context current.
LEMMA RefusedCalls ==
    ASSUME ContextInv, NEW w \in Window \union {NoWindow},
           \/ \E c \in C!Config : C!WindowHint(c)
           \/ C!Failed({}) \/ C!UserFailed({})
           \/ C!MakeContextCurrent(w)
    PROVE  ContextInv'
<1>1. CASE \E c \in C!Config : C!WindowHint(c)
  <2>1. /\ hint' \in C!Config /\ report' = C!Report("none", FALSE, {})
        /\ SameBackEnd /\ UNCHANGED <<window, user, current>>
    BY <1>1 DEF C!WindowHint, C!NoReport, SameBackEnd
  <2>2. report' \in Reports /\ C!OrphansAreKnown'
    BY <2>1, NothingLost
  <2>3. QED
    BY <2>1, <2>2, ContextParts, CallStep
<1>2. CASE C!Failed({}) \/ C!UserFailed({})
  <2>1. /\ report' = C!Report("window", TRUE, {}) \/ report' = C!Report("user", TRUE, {})
        /\ SameBackEnd /\ UNCHANGED <<hint, window, user, current>>
    BY <1>2 DEF C!Failed, C!UserFailed, SameBackEnd
  <2>2. report' \in Reports /\ C!OrphansAreKnown'
    BY <2>1, NothingLost
  <2>3. QED
    BY <2>1, <2>2, ContextParts, CallStep
<1>3. CASE C!MakeContextCurrent(w)
  <2>1. /\ current' = w /\ report' = C!Report("none", FALSE, {})
        /\ SameBackEnd /\ UNCHANGED <<hint, window, user>>
    BY <1>3 DEF C!MakeContextCurrent, C!NoReport, SameBackEnd
  <2>2. report' \in Reports /\ C!OrphansAreKnown'
    BY <2>1, NothingLost
  <2>3. QED
    BY <2>1, <2>2, ContextParts, CallStep
<1>4. QED
  BY <1>1, <1>2, <1>3

LEMMA FailToCreateStep ==
    ASSUME ContextInv, NEW w \in Window, NEW s, C!FailToCreate(w, s)
    PROVE  ContextInv'
<1> DEFINE stages == C!WindowStages(hint, s # NoWindow)
<1>1. PICK k \in DOMAIN stages : C!Failed(C!Objects(C!MadeBefore(stages, k)))
  BY DEF C!FailToCreate
<1> DEFINE lost == C!Objects(C!MadeBefore(stages, k))
<1>2. lost \subseteq Lost /\ lost \in SUBSET C!Thing
  <2>1. C!TypeOK /\ (s # NoWindow) \in BOOLEAN
    BY ContextParts
  <2>2. QED
    BY <2>1, WindowStagesMake
<1> HIDE DEF lost, stages
<1>3. /\ report' = [call |-> "window", failed |-> TRUE, orphans |-> lost]
      /\ SameBackEnd /\ UNCHANGED <<hint, window, user, current>>
  BY <1>1 DEF C!Failed, C!Report, SameBackEnd, lost
<1>4. report' \in Reports
  BY <1>2, <1>3 DEF Reports
<1>5. C!OrphansAreKnown'
  <2>1. report'.failed /\ report'.call = "window" /\ report'.orphans = lost
    BY <1>3
  <2>2. source \in {"glx", "egl", "wgl", "nsgl"}
    BY ContextParts, SourceIsOneOf
  <2>3. lost \subseteq C!KnownOrphans'
    BY <1>2, <1>3, <2>1, <2>2 DEF C!KnownOrphans, Lost, SameBackEnd
  <2>4. QED
    BY <2>1, <2>3 DEF C!OrphansAreKnown
<1>6. QED
  BY <1>3, <1>4, <1>5, ContextParts, CallStep

LEMMA FailToCreateUserContextStep ==
    ASSUME ContextInv, NEW u \in User, NEW w \in Window, C!FailToCreateUserContext(u, w)
    PROVE  ContextInv'
<1> DEFINE stages == C!UserStages(hint)
<1>1. PICK k \in DOMAIN stages :
        C!UserFailed(C!Objects(C!MadeBefore(stages, k)) \ C!UserUndone(stages, k))
  BY DEF C!FailToCreateUserContext
<1> DEFINE lost == C!Objects(C!MadeBefore(stages, k)) \ C!UserUndone(stages, k)
<1>2. /\ lost \subseteq IF source = "wgl" /\ "attribs" \notin has THEN {"context"} ELSE {}
      /\ lost \in SUBSET C!Thing
  BY ContextParts, UserStagesMake
<1> HIDE DEF lost, stages
<1>3. /\ report' = [call |-> "user", failed |-> TRUE, orphans |-> lost]
      /\ SameBackEnd /\ UNCHANGED <<hint, window, user, current>>
  BY <1>1 DEF C!UserFailed, C!Report, SameBackEnd, lost
<1>4. report' \in Reports
  BY <1>2, <1>3 DEF Reports
<1>5. C!OrphansAreKnown'
  <2>1. report'.failed /\ report'.call = "user" /\ report'.orphans = lost
    BY <1>3
  <2>2. lost \subseteq C!KnownOrphans'
    BY <1>2, <1>3, <2>1 DEF C!KnownOrphans, SameBackEnd
  <2>3. QED
    BY <2>1, <2>2 DEF C!OrphansAreKnown
<1>6. QED
  BY <1>3, <1>4, <1>5, ContextParts, CallStep

\* A window gets the record r.
LEMMA WindowOpens ==
    ASSUME ContextInv, SameBackEnd, NEW w \in Window, ~C!Open(w), NEW r \in WindowOf,
           r.client # "none" => r.client = C!ClientOf(r.config),
           window' = [window EXCEPT ![w] = <<r>>],
           report' = C!Report("window", FALSE, {}), UNCHANGED <<hint, user, current>>
    PROVE  ContextInv'
<1>1. window' \in [Window -> Maybe(WindowOf)]
  BY ContextParts, MaybeFacts
<1>2. report' \in Reports /\ C!OrphansAreKnown'
  BY NothingLost
<1>3. C!TypeOK'
  BY <1>1, <1>2, ContextParts, TypesStay
<1>4. /\ window'[w] = <<r>> /\ <<r>>[1] = r /\ window[w] = <<>>
      /\ \A v \in Window \ {w} : window'[v] = window[v]
  BY ContextParts DEF C!Open
<1>5. \A c : C!ClientOf(c)' = C!ClientOf(c)
  BY DEF C!ClientOf, SameBackEnd
<1>6. HasItsContext'
  <2>1. HasItsContext
    BY DEF ContextInv
  <2>2. ASSUME NEW v \in Window, window'[v] # <<>>, window'[v][1].client # "none"
        PROVE  window'[v][1].client = C!ClientOf(window'[v][1].config)
    BY <1>4, <2>1, <2>2 DEF HasItsContext
  <2>3. QED
    BY <1>5, <2>2 DEF HasItsContext
<1>7. \A u \in User : user[u] # <<>> =>
         /\ user[u][1].of \in Window \ {w}
         /\ window'[user[u][1].of] = window[user[u][1].of]
  BY <1>4, ContextParts DEF ContextInv, UserOfOpenWindow, UserOf
<1>8. UserOfOpenWindow' /\ C!UserContextFits'
  BY <1>7 DEF ContextInv, UserOfOpenWindow, C!UserContextFits, SameBackEnd
<1>9. QED
  BY <1>1, <1>2, <1>3, <1>6, <1>8, ContextParts DEF ContextInv

LEMMA CreateStep ==
    ASSUME ContextInv, NEW w \in Window, NEW s, C!Create(w, s)
    PROVE  ContextInv'
<1> DEFINE stages == C!WindowStages(hint, s # NoWindow)
           made == C!MadeBefore(stages, Len(stages) + 1)
           r == [client |-> C!ClientOf(hint), config |-> hint, made |-> made]
           lost == C!Objects(made) \ C!Destroyed(made, C!ClientOf(hint))
<1>1. /\ ~C!Open(w)
      /\ \/ /\ window' = [window EXCEPT ![w] = <<r>>]
            /\ report' = C!Report("window", FALSE, {})
            /\ UNCHANGED <<source, onX11, has, hint, user, current>>
         \/ C!Failed(lost)
  BY DEF C!Create, C!MayCreate
<1>2. made \in SUBSET C!Thing
  <2>1. C!TypeOK /\ (s # NoWindow) \in BOOLEAN
    BY ContextParts
  <2>2. QED
    BY <2>1, WindowStagesMake
<1>3. hint \in C!Config /\ C!ClientOf(hint) \in {"gl", "es"}
  BY ContextParts, YieldsContext
<1> HIDE DEF stages, made
<1>4. CASE C!Failed(lost)
  <2>1. lost \subseteq (IF source = "egl" /\ onX11 THEN {"library"} ELSE {})
        /\ lost \in SUBSET C!Thing
    BY <1>2 DEF C!Destroyed, C!Objects
  <2> HIDE DEF lost
  <2>2. /\ report' = [call |-> "window", failed |-> TRUE, orphans |-> lost]
        /\ SameBackEnd /\ UNCHANGED <<hint, window, user, current>>
    BY <1>4 DEF C!Failed, C!Report, SameBackEnd
  <2>3. report' \in Reports /\ report'.orphans = lost
    BY <2>1, <2>2 DEF Reports
  <2>4. C!OrphansAreKnown'
    BY <2>1, <2>2, <2>3 DEF C!OrphansAreKnown, SameBackEnd
  <2>5. QED
    BY <2>2, <2>3, <2>4, ContextParts, CallStep
<1>5. CASE ~C!Failed(lost)
  <2>1. r \in WindowOf /\ r.client = C!ClientOf(r.config)
    BY <1>2, <1>3 DEF WindowOf
  <2> HIDE DEF r
  <2>2. SameBackEnd
    BY <1>1, <1>5 DEF SameBackEnd
  <2>3. QED
    BY <1>1, <1>5, <2>1, <2>2, WindowOpens
<1>6. QED
  BY <1>4, <1>5

LEMMA CreateWithoutContextStep ==
    ASSUME ContextInv, NEW w \in Window, C!CreateWithoutContext(w)
    PROVE  ContextInv'
<1>1. C!Nothing \in WindowOf /\ C!Nothing.client = "none"
  <2>1. [client |-> "none", wants |-> "any"] \in C!Config
    BY DEF C!Config
  <2>2. (CHOOSE c \in C!Config : TRUE) \in C!Config
    BY <2>1
  <2>3. QED
    BY <2>2 DEF C!Nothing, WindowOf
<1>2. /\ ~C!Open(w) /\ window' = [window EXCEPT ![w] = <<C!Nothing>>]
      /\ report' = C!Report("window", FALSE, {})
      /\ SameBackEnd /\ UNCHANGED <<hint, user, current>>
  BY DEF C!CreateWithoutContext, SameBackEnd
<1>3. QED
  BY <1>1, <1>2, WindowOpens

LEMMA CloseWindowStep ==
    ASSUME ContextInv, NEW w \in Window, C!DestroyWindow(w)
    PROVE  ContextInv'
<1> DEFINE it == window[w][1]
           lost == C!Objects(it.made) \ C!Destroyed(it.made, it.client)
<1>1. /\ window[w] # <<>> /\ \A u \in User : user[u] # <<>> => user[u][1].of # w
      /\ report' = C!Report("destroy", FALSE, lost)
      /\ window' = [window EXCEPT ![w] = <<>>]
      /\ current' = (IF current = w THEN NoWindow ELSE current)
      /\ UNCHANGED <<source, onX11, has, hint, user>>
  BY DEF C!DestroyWindow, C!Open
<1>2. it.made \in SUBSET C!Thing
  BY <1>1, ContextParts DEF WindowOf
<1>3. lost \subseteq (IF source = "egl" /\ onX11 THEN {"library"} ELSE {})
      /\ lost \in SUBSET C!Thing
  BY <1>2 DEF C!Destroyed, C!Objects
<1> HIDE DEF it, lost
<1>4. SameBackEnd /\ report' = [call |-> "destroy", failed |-> FALSE, orphans |-> lost]
  BY <1>1 DEF SameBackEnd, C!Report
<1>5. report' \in Reports /\ report'.orphans = lost
  BY <1>3, <1>4 DEF Reports
<1>6. C!OrphansAreKnown'
  BY <1>3, <1>4, <1>5 DEF C!OrphansAreKnown, SameBackEnd
<1>7. window' \in [Window -> Maybe(WindowOf)]
  BY <1>1, ContextParts, MaybeFacts
<1>8. current' \in Window \union {NoWindow}
  BY <1>1, ContextParts
<1>9. C!TypeOK'
  BY <1>1, <1>4, <1>5, <1>7, <1>8, ContextParts, TypesStay
<1>10. window'[w] = <<>> /\ \A v \in Window \ {w} : window'[v] = window[v]
  BY <1>1, ContextParts
<1>11. \A c : C!ClientOf(c)' = C!ClientOf(c)
  BY <1>4 DEF C!ClientOf, SameBackEnd
<1>12. HasItsContext'
  <2>1. HasItsContext
    BY DEF ContextInv
  <2>2. ASSUME NEW v \in Window, window'[v] # <<>>, window'[v][1].client # "none"
        PROVE  window'[v][1].client = C!ClientOf(window'[v][1].config)
    BY <1>10, <2>1, <2>2 DEF HasItsContext
  <2>3. QED
    BY <1>11, <2>2 DEF HasItsContext
<1>13. \A u \in User : user[u] # <<>> =>
          window'[user[u][1].of] = window[user[u][1].of]
  BY <1>1, <1>10, ContextParts DEF UserOf
<1>14. UserOfOpenWindow' /\ C!UserContextFits'
  BY <1>1, <1>4, <1>13 DEF ContextInv, UserOfOpenWindow, C!UserContextFits, SameBackEnd
<1>15. QED
  BY <1>1, <1>6, <1>7, <1>9, <1>12, <1>14, ContextParts DEF ContextInv

\* A user context is created with what made names, by the configuration of hint.
LEMMA UserMadeStep ==
    ASSUME ContextInv, NEW u \in User, NEW w \in Window, C!MayCreateUser(u, w),
           NEW made \in SUBSET C!Thing, NEW client \in {"gl", "es"},
           source # "nsgl" => {"context", "sharing"} \subseteq made,
           hint = window[w][1].config => client = window[w][1].client,
           C!UserMade(u, w, made, client)
    PROVE  ContextInv'
<1> DEFINE r == [of |-> w, client |-> client, made |-> made,
                 asWindow |-> hint = window[w][1].config]
<1>1. user' = [user EXCEPT ![u] = <<r>>]
  BY DEF C!UserMade
<1>2. /\ report' = C!Report("user", FALSE, {}) /\ SameBackEnd
      /\ UNCHANGED <<hint, window, current>>
  BY DEF C!UserMade, SameBackEnd
<1>3. user[u] = <<>> /\ window[w] # <<>> /\ window[w][1].client # "none"
  BY DEF C!MayCreateUser, C!Open
<1>4. /\ r \in UserOf /\ r.of = w /\ r.client = client /\ r.made = made
      /\ r.asWindow => hint = window[w][1].config
  <2>1. /\ r.of = w /\ r.client = client /\ r.made = made
        /\ r.asWindow = (hint = window[w][1].config)
    OBVIOUS
  <2>2. (hint = window[w][1].config) \in BOOLEAN
    OBVIOUS
  <2>3. r \in UserOf
    BY <2>2 DEF UserOf
  <2>4. QED
    BY <2>1, <2>3
<1> HIDE DEF r
<1>5. user' \in [User -> Maybe(UserOf)]
  BY <1>1, <1>4, ContextParts, MaybeFacts
<1>6. report' \in Reports /\ C!OrphansAreKnown'
  BY <1>2, NothingLost
<1>7. C!TypeOK'
  BY <1>2, <1>5, <1>6, ContextParts, TypesStay
<1>8. /\ user'[u] = <<r>> /\ user'[u][1] = r
      /\ \A v \in User \ {u} : user'[v] = user[v]
  BY <1>1, ContextParts
<1>9. HasItsContext'
  BY <1>2 DEF ContextInv, HasItsContext, SameBackEnd, C!ClientOf
<1>10. UserOfOpenWindow'
  BY <1>2, <1>3, <1>4, <1>8 DEF ContextInv, UserOfOpenWindow
<1>11. C!UserContextFits'
  <2>1. ASSUME NEW v \in User, user'[v] # <<>>, user'[v][1].asWindow
        PROVE  /\ user'[v][1].client = window[user'[v][1].of][1].client
               /\ source # "nsgl" => {"context", "sharing"} \subseteq user'[v][1].made
    <3>1. CASE v = u
      BY <1>4, <1>8, <2>1, <3>1
    <3>2. CASE v # u
      BY <1>8, <2>1, <3>2 DEF ContextInv, C!UserContextFits
    <3>3. QED
      BY <3>1, <3>2
  <2>2. QED
    BY <1>2, <2>1 DEF C!UserContextFits, SameBackEnd
<1>12. QED
  BY <1>2, <1>5, <1>6, <1>7, <1>9, <1>10, <1>11, ContextParts DEF ContextInv

LEMMA CreateUserContextStep ==
    ASSUME ContextInv, NEW u \in User, NEW w \in Window,
           C!CreateUserContext(u, w) \/ C!CreateUserContextOfNothing(u, w)
    PROVE  ContextInv'
<1>1. /\ C!TypeOK /\ hint \in C!Config /\ HasItsContext
      /\ \A v \in Window : window[v] # <<>> => window[v][1] \in WindowOf
  BY ContextParts DEF ContextInv
<1>2. C!MayCreateUser(u, w) /\ window[w] # <<>> /\ window[w][1].client # "none"
  BY DEF C!CreateUserContext, C!CreateUserContextOfNothing, C!MayCreateUser, C!Open
<1>3. /\ window[w][1].client = C!ClientOf(window[w][1].config)
      /\ window[w][1].config \in C!Config
  BY <1>1, <1>2 DEF HasItsContext, WindowOf
<1>4. CASE C!CreateUserContext(u, w)
  <2> DEFINE stages == C!UserStages(hint)
             made == C!MadeBefore(stages, Len(stages) + 1)
  <2>1. C!UserMade(u, w, made, C!ClientOf(hint))
    BY <1>4 DEF C!CreateUserContext
  <2>2. made \in SUBSET C!Thing /\ {"context", "sharing"} \subseteq made
    BY <1>1, UserStagesMake
  <2> HIDE DEF made
  <2>3. C!ClientOf(hint) \in {"gl", "es"}
    BY <1>1, YieldsContext
  <2>4. hint = window[w][1].config => C!ClientOf(hint) = window[w][1].client
    BY <1>3
  <2>5. QED
    BY <1>2, <2>1, <2>2, <2>3, <2>4, UserMadeStep
<1>5. CASE C!CreateUserContextOfNothing(u, w)
  <2>1. source = "nsgl" /\ C!UserMade(u, w, {}, "gl")
    BY <1>5 DEF C!CreateUserContextOfNothing
  <2>2. window[w][1].client = "gl"
    BY <1>1, <1>3, <2>1, YieldsContext
  <2>3. {} \in SUBSET C!Thing /\ "gl" \in {"gl", "es"}
    OBVIOUS
  <2>4. QED
    BY <1>2, <2>1, <2>2, <2>3, UserMadeStep
<1>6. QED
  BY <1>4, <1>5

LEMMA DestroyUserContextStep ==
    ASSUME ContextInv, NEW u \in User, C!DestroyUserContext(u)
    PROVE  ContextInv'
<1>1. /\ user' = [user EXCEPT ![u] = <<>>]
      /\ report' = C!Report("destroy", FALSE, {}) /\ SameBackEnd
      /\ UNCHANGED <<hint, window, current>>
  BY DEF C!DestroyUserContext, SameBackEnd
<1>2. user' \in [User -> Maybe(UserOf)]
  BY <1>1, ContextParts, MaybeFacts
<1>3. report' \in Reports /\ C!OrphansAreKnown'
  BY <1>1, NothingLost
<1>4. C!TypeOK'
  BY <1>1, <1>2, <1>3, ContextParts, TypesStay
<1>5. user'[u] = <<>> /\ \A v \in User \ {u} : user'[v] = user[v]
  BY <1>1, ContextParts
<1>6. HasItsContext'
  BY <1>1 DEF ContextInv, HasItsContext, SameBackEnd, C!ClientOf
<1>7. UserOfOpenWindow' /\ C!UserContextFits'
  BY <1>1, <1>5 DEF ContextInv, UserOfOpenWindow, C!UserContextFits, SameBackEnd
<1>8. QED
  BY <1>1, <1>2, <1>3, <1>4, <1>6, <1>7, ContextParts DEF ContextInv

LEMMA InitContextInv == C!Init => ContextInv
<1> SUFFICES ASSUME C!Init PROVE ContextInv
  OBVIOUS
<1>1. /\ source \in Source /\ has \in C!Extensions /\ current = NoWindow
      /\ hint = [client |-> "gl", wants |-> "any"]
      /\ window = [w \in Window |-> <<>>] /\ user = [u \in User |-> <<>>]
      /\ report = [call |-> "none", failed |-> FALSE, orphans |-> {}]
  BY DEF C!Init, C!NoReport, C!Report
<1>2. onX11 \in BOOLEAN
  <2>1. (source = "glx") \in BOOLEAN
    OBVIOUS
  <2>2. QED
    BY <2>1 DEF C!Init
<1>3. hint \in C!Config /\ report \in Reports
  BY <1>1 DEF C!Config, Reports
<1>4. /\ window \in [Window -> Maybe(WindowOf)] /\ user \in [User -> Maybe(UserOf)]
      /\ \A w \in Window : window[w] = <<>>
      /\ \A u \in User : user[u] = <<>>
  BY <1>1, MaybeFacts
<1>5. C!TypeOK
  BY <1>1, <1>2, <1>3, <1>4 DEF C!TypeOK, C!Open, Reports
<1>6. HasItsContext /\ UserOfOpenWindow /\ C!UserContextFits
  BY <1>4 DEF HasItsContext, UserOfOpenWindow, C!UserContextFits
<1>7. C!OrphansAreKnown
  BY <1>1 DEF C!OrphansAreKnown
<1>8. QED
  BY <1>4, <1>5, <1>6, <1>7 DEF ContextInv

LEMMA NextContextInv ==
    ASSUME ContextInv, C!Next
    PROVE  ContextInv'
<1>1. CASE \E c \in C!Config : C!WindowHint(c)
  <2>1. NoWindow \in Window \union {NoWindow}
    OBVIOUS
  <2>2. QED
    BY <1>1, <2>1, RefusedCalls
<1>2. CASE C!Failed({}) \/ C!UserFailed({})
  <2>1. NoWindow \in Window \union {NoWindow}
    OBVIOUS
  <2>2. QED
    BY <1>2, <2>1, RefusedCalls
<1>3. CASE \E w \in Window : \/ C!RefuseConfig(w) \/ C!RefuseContext(w)
                             \/ \E o \in Window : C!RefuseShare(w, o)
  <2>1. C!Failed({})
    BY <1>3 DEF C!RefuseConfig, C!RefuseContext, C!RefuseShare
  <2>2. QED
    BY <1>2, <2>1
<1>4. CASE \E u \in User, w \in Window : C!RefuseUserContext(u, w)
  <2>1. C!UserFailed({})
    BY <1>4 DEF C!RefuseUserContext
  <2>2. QED
    BY <1>2, <2>1
<1>5. CASE \E w \in Window \union {NoWindow} : C!MakeContextCurrent(w)
  BY <1>5, RefusedCalls
<1>6. CASE \E w \in Window : C!CreateWithoutContext(w)
  BY <1>6, CreateWithoutContextStep
<1>7. CASE \E w \in Window : C!DestroyWindow(w)
  BY <1>7, CloseWindowStep
<1>8. CASE \E w \in Window : \E s \in (Window \ {w}) \union {NoWindow} : C!FailToCreate(w, s)
  BY <1>8, FailToCreateStep
<1>9. CASE \E w \in Window : \E s \in (Window \ {w}) \union {NoWindow} : C!Create(w, s)
  BY <1>9, CreateStep
<1>10. CASE \E u \in User, w \in Window : C!FailToCreateUserContext(u, w)
  BY <1>10, FailToCreateUserContextStep
<1>11. CASE \E u \in User, w \in Window :
              C!CreateUserContext(u, w) \/ C!CreateUserContextOfNothing(u, w)
  BY <1>11, CreateUserContextStep
<1>12. CASE \E u \in User : C!DestroyUserContext(u)
  BY <1>12, DestroyUserContextStep
<1>13. QED
  BY <1>1, <1>3, <1>4, <1>5, <1>6, <1>7, <1>8, <1>9, <1>10, <1>11, <1>12 DEF C!Next

-----------------------------------------------------------------------------
(***************************************************************************)
(* The theorems.  A behaviour is one of the subject's module: the others'  *)
(* variables stand still, and so does subject.                             *)
(***************************************************************************)
\* The disabled window of X11 lives, has the pointer while it has the focus,
\* and every window shows the cursor of its mode: CursorMode, for any windows,
\* cursors and length of the event queue.
THEOREM CursorFollowsModeAlways == DesktopSpec => []CursorFollowsMode
<1> DEFINE I == subject = "cursor" => CursorInv
<1>1. DesktopInit => I
  BY InitCursorInv DEF DesktopInit
<1>2. I /\ [DesktopNext]_<<subject, vars, win32, contexts>> => I'
  <2> SUFFICES ASSUME I, [DesktopNext]_<<subject, vars, win32, contexts>>,
                      subject' = "cursor"
               PROVE  CursorInv'
    OBVIOUS
  <2>1. subject = "cursor" /\ [Next]_vars
    BY DEF DesktopNext
  <2>2. QED
    BY <2>1, NextCursorInv
<1>3. I => CursorFollowsMode
  BY DEF CursorFollowsMode, CursorInv
<1>4. QED
  BY <1>1, <1>2, <1>3, PTL DEF DesktopSpec

LEMMA MonitorConsequences ==
    ASSUME MonitorInv
    PROVE  N!MonitorsCounted /\ N!HeldWhileShown
<1>1. /\ holder \in [Monitor -> Window \union {NoWindow}] /\ Counted
      /\ HolderIsOnMonitor /\ Holds
  BY DEF MonitorInv, N!TypeOK
<1>2. \A m \in Held : holder[m] \in N!Alive /\ win[holder[m]].monitor = m
  BY <1>1 DEF Held, HolderIsOnMonitor, N!Alive
<1>3. N!MonitorsCounted
  BY <1>1, <1>2, CountedIs
<1>4. N!HeldWhileShown
  BY <1>1 DEF N!HeldWhileShown, Holds, N!Alive
<1>5. QED
  BY <1>3, <1>4

LEMMA MonitorInvHolds ==
    DesktopSpec => [](subject = "win32" => MonitorInv)
<1> DEFINE I == subject = "win32" => MonitorInv
<1>1. DesktopInit => I
  BY InitMonitorInv DEF DesktopInit
<1>2. I /\ [DesktopNext]_<<subject, vars, win32, contexts>> => I'
  <2> SUFFICES ASSUME I, [DesktopNext]_<<subject, vars, win32, contexts>>,
                      subject' = "win32"
               PROVE  MonitorInv'
    OBVIOUS
  <2>1. subject = "win32" /\ (N!Next \/ UNCHANGED win32)
    BY DEF DesktopNext
  <2>2. CASE N!Next
    BY <2>1, <2>2, NextMonitorInv
  <2>3. CASE UNCHANGED win32
    BY <2>1, <2>3
       DEF win32, MonitorInv, N!TypeOK, DeadAreBlank, InProgress, Counted, Held,
           HolderIsOnMonitor, Holds, N!Alive
  <2>4. QED
    BY <2>1, <2>2, <2>3
<1>3. QED
  BY <1>1, <1>2, PTL DEF DesktopSpec

\* Monitors are counted and released by whom they were acquired: Win32Windows,
\* for any windows and any finite set of monitors, in the middle of a creation,
\* of a change of the size and of the calls in its callback too.
THEOREM MonitorsHeldAlways == DesktopSpec => []MonitorsHeld
<1>1. (subject = "win32" => MonitorInv) => MonitorsHeld
  BY MonitorConsequences DEF MonitorsHeld
<1>2. QED
  BY <1>1, MonitorInvHolds, PTL

LEMMA FocusConsequences ==
    ASSUME MonitorInv, FocusInv
    PROVE  N!TypeOK /\ N!CursorFollowsFocus /\ N!RawFollowsCursor
<1>1. N!TypeOK /\ N!RawFollowsCursor
  BY DEF MonitorInv, FocusInv
<1>2. ASSUME N!Settled
      PROVE  IF foreground = NoWindow THEN Free ELSE IsOf(foreground)
  <2>1. Known = foreground /\ ~N!InLoop /\ foreground \in Window \union {NoWindow}
    BY <1>2, FocusFacts DEF N!Settled, Known, KnownOf
  <2>2. CursorIsOfKnown
    BY DEF FocusInv
  <2>3. QED
    BY <2>1, <2>2, NothingLoops DEF CursorIsOfKnown
<1>3. N!CursorFollowsFocus
  BY <1>2 DEF N!CursorFollowsFocus, Free, IsOf
<1>4. QED
  BY <1>1, <1>3

\* The cursor and raw input are those of the foreground window whenever every
\* message has been handled: Win32Windows, for any windows, if the application
\* changes no cursor mode while a message about the focus waits.
THEOREM CursorFollowsFocusAlways ==
    ASSUME ~Late
    PROVE  DesktopSpec => []CursorFollowsFocus
<1> DEFINE M == subject = "win32" => MonitorInv
           I == subject = "win32" => FocusInv
<1>1. DesktopInit => I
  BY InitFocusInv DEF DesktopInit
<1>2. M /\ I /\ [DesktopNext]_<<subject, vars, win32, contexts>> => I'
  <2> SUFFICES ASSUME M, I, [DesktopNext]_<<subject, vars, win32, contexts>>,
                      subject' = "win32"
               PROVE  FocusInv'
    OBVIOUS
  <2>1. subject = "win32" /\ (N!Next \/ UNCHANGED win32)
    BY DEF DesktopNext
  <2>2. CASE N!Next
    BY <2>1, <2>2, NextFocusInv
  <2>3. CASE UNCHANGED win32
    BY <2>1, <2>3
       DEF win32, FocusInv, IsChain, LoopsAreKnown, CursorIsOfKnown, Known, KnownOf,
           Free, IsOf, N!RawFollowsCursor, N!Alive
  <2>4. QED
    BY <2>1, <2>2, <2>3
<1>3. M /\ I => CursorFollowsFocus
  BY FocusConsequences DEF CursorFollowsFocus
<1>4. QED
  BY <1>1, <1>2, <1>3, MonitorInvHolds, PTL DEF DesktopSpec

\* What a failed creation leaves behind is known, and a user context fits its
\* window's: ContextCreation, for any windows, user contexts and back ends.
THEOREM ContextsFitAlways == DesktopSpec => []ContextsFit
<1> DEFINE I == subject = "contexts" => ContextInv
<1>1. DesktopInit => I
  BY InitContextInv DEF DesktopInit
<1>2. I /\ [DesktopNext]_<<subject, vars, win32, contexts>> => I'
  <2> SUFFICES ASSUME I, [DesktopNext]_<<subject, vars, win32, contexts>>,
                      subject' = "contexts"
               PROVE  ContextInv'
    OBVIOUS
  <2>1. subject = "contexts" /\ (C!Next \/ UNCHANGED contexts)
    BY DEF DesktopNext
  <2>2. CASE C!Next
    BY <2>1, <2>2, NextContextInv
  <2>3. CASE UNCHANGED contexts
    <3>1. /\ SameBackEnd /\ UNCHANGED <<hint, window, user, current, report>>
      BY <2>3 DEF contexts, SameBackEnd
    <3>2. C!OrphansAreKnown'
      BY <2>1, <3>1 DEF ContextInv, C!OrphansAreKnown, C!KnownOrphans, SameBackEnd
    <3>3. QED
      BY <2>1, <3>1, <3>2, ContextParts, CallStep
  <2>4. QED
    BY <2>1, <2>2, <2>3
<1>3. I => ContextsFit
  BY DEF ContextsFit, ContextInv
<1>4. QED
  BY <1>1, <1>2, <1>3, PTL DEF DesktopSpec
=============================================================================
