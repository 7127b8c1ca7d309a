--------------------------- MODULE Choices_proof ---------------------------
(***************************************************************************)
(* Three of the modules that MC_Choices composes.  The choice of a         *)
(* framebuffer configuration returns the closest one, for any list of the  *)
(* driver and any request.  A gamepad uses a mapping that fits it, for any *)
(* tables and updates.  The joysticks on Linux are what inotify and evdev  *)
(* say, and point to mappings that exist, for any number of devices and    *)
(* slots, kernel queues of any length, and callbacks that poll and update  *)
(* mappings below any call.                                                *)
(***************************************************************************)
EXTENDS MC_Choices, SequenceTheorems, FiniteSetTheorems, WellFoundedInduction, TLAPS

--------------------------------------------------------------------------------
(* The choice of a framebuffer configuration *)

Triple == Int \X Int \X Int

\* What has been read of the driver's list, up to n.
Sound == \A k \in DOMAIN usable : ~Rejects(backend, want, natives[usable[k]])
Ordered == \A j, k \in DOMAIN usable : j < k => usable[j] < usable[k]
CompleteTo(n) ==
    \A i \in DOMAIN natives : i < n /\ ~Rejects(backend, want, natives[i]) =>
        \E k \in DOMAIN usable : usable[k] = i

WhileFiltering ==
    /\ best = 0 /\ least = Infinite /\ error = "none"
    /\ Len(usable) < at /\ \A k \in DOMAIN usable : usable[k] < at
    /\ CompleteTo(at)

\* What has been seen of the usable configurations, up to n.
BestOf(n) ==
    /\ best = 0 =>
         /\ least = Infinite
         /\ \A k \in DOMAIN usable : k < n => Barred(backend, want, natives[usable[k]])
    /\ best # 0 =>
         /\ best \in DOMAIN usable /\ best < n /\ least = Cost(usable[best])
         /\ ~Barred(backend, want, natives[usable[best]])
         /\ \A k \in DOMAIN usable :
              k < n /\ ~Barred(backend, want, natives[usable[k]]) =>
                /\ ~Less(Cost(usable[k]), least)
                /\ k < best => Less(least, Cost(usable[k]))

WhileScanning ==
    /\ error = "none" /\ Len(usable) <= Len(natives)
    /\ CompleteTo(Len(natives) + 1) /\ BestOf(at)

IInv ==
    /\ TypeOK /\ Sound /\ Ordered
    /\ pc = "filter" => WhileFiltering
    /\ pc = "scan" => WhileScanning
    /\ ChosenIsClosest

--------------------------------------------------------------------------------
(* Costs and their order *)

LEMMA CostType ==
    ASSUME TypeOK, NEW i \in DOMAIN natives
    PROVE  Cost(i) \in Triple /\ Cost(i)[1] < UintMax
<1> DEFINE n == natives[i]
           h == Read(backend, want, n)
<1>1. n \in Native /\ want \in Format /\ backend \in Backend
  BY DEF TypeOK
<1>2. n \in NativeType /\ want \in FormatType
  BY <1>1, ConfigAssumption
<1>3. /\ h.bits \in [Channel -> Int] /\ h.aux \in Int
      /\ want.bits \in [Channel -> Int] /\ want.aux \in Int
  BY <1>2 DEF Read, NativeType, FormatType
<1> HIDE DEF h
<1>4. ASSUME NEW c \in Channel
      PROVE  Lacks(want, h, c) \in Int /\ Off(want, h, c) \in Int
  BY <1>3 DEF Lacks, One, Off, Apart
<1>5. Missing(want, h) \in Int
  BY <1>3, <1>4 DEF Missing, One, Channel
<1>6. ColorDiff(want, h) \in Int
  BY <1>4 DEF ColorDiff, Channel
<1>7. ExtraDiff(want, h) \in Int
  BY <1>4 DEF ExtraDiff, One, Channel
<1>8. Cost(i) = <<Missing(want, h), ColorDiff(want, h), ExtraDiff(want, h)>>
  BY DEF Cost, CostOf, h
<1>9. CostOf(backend, want, n)[1] < UintMax
  BY <1>1, ConfigAssumption
<1>10. QED
  BY <1>5, <1>6, <1>7, <1>8, <1>9 DEF Cost, Triple

LEMMA LessIsCloser ==
    ASSUME NEW c \in Triple, NEW d \in Triple
    PROVE  Less(c, d) <=> Closer(c, d)
<1>1. ASSUME Less(c, d) PROVE Closer(c, d)
  <2>1. CASE c[1] < d[1]
    BY <2>1 DEF Closer
  <2>2. CASE c[1] = d[1] /\ c[2] < d[2]
    <3>1. 2 \in 1..3 /\ \A j \in 1..(2 - 1) : c[j] = d[j]
      BY <2>2
    <3>2. QED
      BY <2>2, <3>1 DEF Closer
  <2>3. CASE c[1] = d[1] /\ c[2] = d[2] /\ c[3] < d[3]
    <3>1. 3 \in 1..3 /\ \A j \in 1..(3 - 1) : c[j] = d[j]
      BY <2>3
    <3>2. QED
      BY <2>3, <3>1 DEF Closer
  <2>4. QED
    BY <1>1, <2>1, <2>2, <2>3 DEF Less
<1>2. ASSUME Closer(c, d) PROVE Less(c, d)
  <2>1. PICK k \in 1..3 : c[k] < d[k] /\ \A j \in 1..(k - 1) : c[j] = d[j]
    BY <1>2 DEF Closer
  <2>2. CASE k = 1
    BY <2>1, <2>2 DEF Less
  <2>3. CASE k = 2
    BY <2>1, <2>3 DEF Less
  <2>4. CASE k = 3
    BY <2>1, <2>4 DEF Less
  <2>5. QED
    BY <2>2, <2>3, <2>4
<1>3. QED
  BY <1>1, <1>2

\* A cost less than one that nothing is less than is less than everything.
LEMMA LessOrder ==
    ASSUME NEW c \in Triple, NEW d \in Triple, NEW e \in Triple,
           Less(c, d), ~Less(e, d)
    PROVE  Less(c, e) /\ ~Less(e, c)
BY DEF Less, Triple

LEMMA LessIrreflexive ==
    ASSUME NEW c \in Triple
    PROVE  ~Less(c, c)
BY DEF Less, Triple

--------------------------------------------------------------------------------
(* The steps *)

LEMMA Starts == Init => IInv
<1> SUFFICES ASSUME Init PROVE IInv
  OBVIOUS
<1>1. natives \in Seq(Native)
  BY DEF Init
<1>2. Infinite \in Int \X Int \X Int
  BY ConfigAssumption DEF Infinite
<1>3. TypeOK
  <2>1. usable \in Seq(DOMAIN natives) /\ Len(usable) = 0
    BY DEF Init
  <2>2. at \in 1..(Len(natives) + 1) /\ best \in 0..Len(usable)
    BY <1>1, <2>1 DEF Init
  <2>3. least \in Int \X Int \X Int
    BY <1>2 DEF Init
  <2>4. QED
    BY <1>1, <2>1, <2>2, <2>3 DEF Init, TypeOK
<1>4. CompleteTo(1) /\ Sound /\ Ordered
  BY <1>1 DEF Init, CompleteTo, Sound, Ordered
<1>5. QED
  BY <1>3, <1>4 DEF Init, IInv, WhileFiltering, ChosenIsClosest

\* A call that fails while it filters, with the reason why nothing is lost.
LEMMA FailStep ==
    ASSUME IInv, pc = "filter", NEW e, Fail(e),
           e \in {"API_UNAVAILABLE", "FORMAT_UNAVAILABLE", "PLATFORM_ERROR"},
           e # "PLATFORM_ERROR" => \A i \in DOMAIN natives : ~Acceptable(i)
    PROVE  IInv'
<1>1. TypeOK' /\ Sound' /\ Ordered'
  BY DEF IInv, Fail, TypeOK, Sound, Ordered
<1>2. best' = 0 /\ error' = e
  BY DEF IInv, WhileFiltering, Fail
<1>3. \A i \in DOMAIN natives : Acceptable(i)' <=> Acceptable(i)
  BY DEF Fail, Acceptable
<1>4. ChosenIsClosest'
  BY <1>2, <1>3 DEF ChosenIsClosest, Fail
<1>5. QED
  BY <1>1, <1>4 DEF IInv, Fail

LEMMA RefuseStep == IInv /\ Refuse => IInv'
<1> SUFFICES ASSUME IInv, Refuse PROVE IInv'
  OBVIOUS
<1>1. CASE IsEgl(backend) /\ want.stereo /\ Fail("FORMAT_UNAVAILABLE")
  <2>1. \A i \in DOMAIN natives : ~Acceptable(i)
    BY <1>1 DEF Acceptable, Barred, Read
  <2>2. QED
    BY <1>1, <2>1, FailStep DEF Refuse
<1>2. CASE natives = <<>> /\ Fail(IF backend = "glx" THEN "FORMAT_UNAVAILABLE"
                                                    ELSE "API_UNAVAILABLE")
  BY <1>2, FailStep DEF Refuse
<1>3. QED
  BY <1>1, <1>2 DEF Refuse

LEMMA FailToReadStep == IInv /\ FailToRead => IInv'
BY FailStep DEF FailToRead, Filtering

LEMMA KeepStep == IInv /\ Keep => IInv'
<1> SUFFICES ASSUME IInv, Keep PROVE IInv'
  OBVIOUS
<1> DEFINE u == Append(usable, at)
<1>1. /\ pc = "filter" /\ pc' = "filter" /\ WhileFiltering /\ TypeOK
      /\ at \in DOMAIN natives /\ at' = at + 1 /\ usable' = u
      /\ ~Rejects(backend, want, natives[at])
      /\ UNCHANGED <<backend, want, natives, otherApi, best, least, error>>
  BY DEF IInv, Keep, Filtering
<1>2. /\ natives \in Seq(Native) /\ DOMAIN natives = 1..Len(natives)
      /\ usable \in Seq(DOMAIN natives) /\ DOMAIN usable = 1..Len(usable)
  BY <1>1 DEF TypeOK
<1>3. /\ u \in Seq(DOMAIN natives) /\ Len(u) = Len(usable) + 1
      /\ DOMAIN u = 1..(Len(usable) + 1) /\ u[Len(usable) + 1] = at
      /\ \A k \in DOMAIN usable : k \in DOMAIN u /\ u[k] = usable[k]
  BY <1>1, <1>2
<1>4. TypeOK'
  BY <1>1, <1>2, <1>3 DEF TypeOK, WhileFiltering
<1>5. \A k \in DOMAIN u : k \in DOMAIN usable \/ k = Len(usable) + 1
  BY <1>2, <1>3
<1>6. Sound'
  BY <1>1, <1>3, <1>5 DEF IInv, Sound
<1>7. \A k \in DOMAIN usable : usable[k] < at
  BY <1>1 DEF WhileFiltering
<1>8. Ordered'
  <2> SUFFICES ASSUME NEW j \in DOMAIN u, NEW k \in DOMAIN u, j < k
               PROVE  u[j] < u[k]
    BY <1>1 DEF Ordered
  <2>1. j \in DOMAIN usable
    BY <1>2, <1>3, <1>5
  <2>2. CASE k \in DOMAIN usable
    BY <1>3, <2>1, <2>2 DEF IInv, Ordered
  <2>3. CASE k = Len(usable) + 1
    BY <1>3, <1>7, <2>1, <2>3
  <2>4. QED
    BY <1>5, <2>2, <2>3
<1>9. CompleteTo(at)
  BY <1>1 DEF WhileFiltering
<1>10. WhileFiltering'
  <2>1. ASSUME NEW i \in DOMAIN natives, i < at + 1, ~Rejects(backend, want, natives[i])
        PROVE  \E k \in DOMAIN u : u[k] = i
    <3>1. CASE i = at
      BY <1>2, <1>3, <3>1
    <3>2. CASE i < at
      <4>1. PICK k \in DOMAIN usable : usable[k] = i
        BY <1>9, <2>1, <3>2 DEF CompleteTo
      <4>2. QED
        BY <1>3, <4>1
    <3>3. QED
      BY <1>1, <1>2, <2>1, <3>1, <3>2
  <2>2. CompleteTo(at)'
    BY <1>1, <2>1 DEF CompleteTo
  <2>3. \A k \in DOMAIN u : u[k] < at + 1
    BY <1>1, <1>2, <1>3, <1>5, <1>7
  <2>4. Len(u) < at + 1
    BY <1>1, <1>2, <1>3 DEF WhileFiltering
  <2>5. QED
    BY <1>1, <2>2, <2>3, <2>4 DEF WhileFiltering
<1>11. QED
  BY <1>1, <1>4, <1>6, <1>8, <1>10 DEF IInv, ChosenIsClosest

LEMMA RejectStep == IInv /\ Reject => IInv'
<1> SUFFICES ASSUME IInv, Reject PROVE IInv'
  OBVIOUS
<1>1. /\ pc = "filter" /\ pc' = "filter" /\ WhileFiltering /\ TypeOK
      /\ at \in DOMAIN natives /\ at' = at + 1
      /\ Rejects(backend, want, natives[at])
      /\ UNCHANGED <<backend, want, natives, usable, best, least, error>>
  BY DEF IInv, Reject, Filtering
<1>2. otherApi' \in BOOLEAN
  BY DEF Reject, IInv, TypeOK
<1>3. /\ natives \in Seq(Native) /\ DOMAIN natives = 1..Len(natives) /\ at \in Int
      /\ usable \in Seq(DOMAIN natives) /\ DOMAIN usable = 1..Len(usable)
  BY <1>1 DEF TypeOK
<1>4. TypeOK'
  BY <1>1, <1>2, <1>3 DEF TypeOK
<1>5. Sound' /\ Ordered'
  BY <1>1 DEF IInv, Sound, Ordered
<1>6. \A i \in DOMAIN natives :
        i < at + 1 /\ ~Rejects(backend, want, natives[i]) => i < at
  BY <1>1, <1>3
<1>7. CompleteTo(at)'
  BY <1>1, <1>6 DEF CompleteTo, WhileFiltering
<1>8. \A k \in DOMAIN usable : usable[k] < at + 1
  BY <1>1, <1>3 DEF WhileFiltering
<1>9. Len(usable) < at + 1
  BY <1>1, <1>3 DEF WhileFiltering
<1>10. WhileFiltering'
  BY <1>1, <1>7, <1>8, <1>9 DEF WhileFiltering
<1>11. QED
  BY <1>1, <1>4, <1>5, <1>10 DEF IInv, ChosenIsClosest

LEMMA EndFilterStep == IInv /\ EndFilter => IInv'
<1> SUFFICES ASSUME IInv, EndFilter PROVE IInv'
  OBVIOUS
<1>1. pc = "filter" /\ WhileFiltering /\ TypeOK /\ at > Len(natives)
  BY DEF IInv, EndFilter
<1>2. /\ natives \in Seq(Native) /\ DOMAIN natives = 1..Len(natives)
      /\ at = Len(natives) + 1 /\ Len(natives) \in Nat
      /\ usable \in Seq(DOMAIN natives) /\ DOMAIN usable = 1..Len(usable)
  BY <1>1 DEF TypeOK
<1>3. CompleteTo(Len(natives) + 1)
  BY <1>1, <1>2 DEF WhileFiltering
<1>4. CASE backend = "wgl" /\ usable = <<>>
  <2>1. \A i \in DOMAIN natives : ~Acceptable(i)
    BY <1>2, <1>3, <1>4 DEF CompleteTo, Acceptable
  <2>2. Fail("API_UNAVAILABLE")
    BY <1>4 DEF EndFilter
  <2>3. QED
    BY <1>1, <2>1, <2>2, FailStep
<1>5. CASE ~(backend = "wgl" /\ usable = <<>>)
  <2>1. /\ pc' = "scan" /\ at' = 1
        /\ UNCHANGED <<backend, want, natives, usable, otherApi, best, least, error>>
    BY <1>5 DEF EndFilter
  <2>2. TypeOK'
    BY <1>1, <1>2, <2>1 DEF TypeOK
  <2>3. Sound' /\ Ordered'
    BY <2>1 DEF IInv, Sound, Ordered
  <2>4. CompleteTo(Len(natives) + 1)'
    BY <1>3, <2>1 DEF CompleteTo
  <2>5. Len(usable) <= Len(natives)
    BY <1>1, <1>2 DEF WhileFiltering
  <2>6. BestOf(1)'
    BY <1>1, <1>2, <2>1 DEF WhileFiltering, BestOf
  <2>7. WhileScanning'
    BY <1>1, <2>1, <2>4, <2>5, <2>6 DEF WhileFiltering, WhileScanning
  <2>8. QED
    BY <2>1, <2>2, <2>3, <2>7 DEF IInv, ChosenIsClosest
<1>6. QED
  BY <1>4, <1>5

LEMMA TakeStep == IInv /\ Take => IInv'
<1> SUFFICES ASSUME IInv, Take PROVE IInv'
  OBVIOUS
<1>1. /\ pc = "scan" /\ pc' = "scan" /\ WhileScanning /\ TypeOK
      /\ at \in DOMAIN usable /\ at' = at + 1
      /\ ~Barred(backend, want, natives[usable[at]])
      /\ Less(Cost(usable[at]), least)
      /\ best' = at /\ least' = Cost(usable[at])
      /\ UNCHANGED <<backend, want, natives, usable, otherApi, error>>
  BY DEF IInv, Take, Scanning
<1>2. /\ natives \in Seq(Native) /\ at \in Nat \ {0} /\ Len(natives) \in Nat
      /\ usable \in Seq(DOMAIN natives) /\ DOMAIN usable = 1..Len(usable)
      /\ \A k \in DOMAIN usable : usable[k] \in DOMAIN natives
  BY <1>1 DEF TypeOK
<1>3. \A k \in DOMAIN usable : Cost(usable[k]) \in Triple
  BY <1>1, <1>2, CostType
<1>4. least \in Triple
  BY <1>1 DEF TypeOK, Triple
<1>5. \A i : Cost(i)' = Cost(i)
  BY <1>1 DEF Cost
<1>6. TypeOK'
  <2>1. at + 1 \in 1..(Len(natives) + 1) /\ at \in 0..Len(usable)
    BY <1>1, <1>2 DEF WhileScanning
  <2>2. QED
    BY <1>1, <1>2, <1>3, <2>1 DEF TypeOK, Triple
<1>7. Sound' /\ Ordered' /\ CompleteTo(Len(natives) + 1)'
  BY <1>1 DEF IInv, Sound, Ordered, WhileScanning, CompleteTo
<1>8. ASSUME NEW k \in DOMAIN usable, k < at + 1,
             ~Barred(backend, want, natives[usable[k]])
      PROVE  /\ ~Less(Cost(usable[k]), Cost(usable[at]))
             /\ k < at => Less(Cost(usable[at]), Cost(usable[k]))
  <2>1. CASE k = at
    BY <1>2, <1>3, <2>1, LessIrreflexive
  <2>2. CASE k < at
    <3>1. best # 0
      BY <1>1, <1>8, <2>2 DEF WhileScanning, BestOf
    <3>2. ~Less(Cost(usable[k]), least)
      BY <1>1, <1>8, <2>2, <3>1 DEF WhileScanning, BestOf
    <3>3. QED
      BY <1>1, <1>3, <1>4, <3>2, LessOrder
  <2>3. QED
    BY <1>2, <1>8, <2>1, <2>2
<1>9. BestOf(at)'
  BY <1>1, <1>2, <1>5, <1>8 DEF BestOf
<1>10. WhileScanning'
  BY <1>1, <1>7, <1>9 DEF WhileScanning
<1>11. QED
  BY <1>1, <1>6, <1>7, <1>10 DEF IInv, ChosenIsClosest

LEMMA PassStep == IInv /\ Pass => IInv'
<1> SUFFICES ASSUME IInv, Pass PROVE IInv'
  OBVIOUS
<1>1. /\ pc = "scan" /\ pc' = "scan" /\ WhileScanning /\ TypeOK
      /\ at \in DOMAIN usable /\ at' = at + 1
      /\ \/ Barred(backend, want, natives[usable[at]])
         \/ ~Less(Cost(usable[at]), least)
      /\ UNCHANGED <<backend, want, natives, usable, otherApi, best, least, error>>
  BY DEF IInv, Pass, Scanning
<1>2. /\ natives \in Seq(Native) /\ at \in Nat \ {0} /\ Len(natives) \in Nat
      /\ usable \in Seq(DOMAIN natives) /\ DOMAIN usable = 1..Len(usable)
      /\ \A k \in DOMAIN usable : usable[k] \in DOMAIN natives
  BY <1>1 DEF TypeOK
<1>3. Cost(usable[at]) \in Triple /\ Cost(usable[at])[1] < UintMax
  BY <1>1, <1>2, CostType
<1>4. Less(Cost(usable[at]), Infinite)
  BY <1>3 DEF Less, Infinite
<1>5. \A i : Cost(i)' = Cost(i)
  BY <1>1 DEF Cost
<1>6. TypeOK'
  <2>1. at + 1 \in 1..(Len(natives) + 1)
    BY <1>1, <1>2 DEF WhileScanning
  <2>2. QED
    BY <1>1, <2>1 DEF TypeOK
<1>7. Sound' /\ Ordered' /\ CompleteTo(Len(natives) + 1)'
  BY <1>1 DEF IInv, Sound, Ordered, WhileScanning, CompleteTo
<1>8. \A k \in DOMAIN usable : k < at + 1 => k < at \/ k = at
  BY <1>2
<1>9. BestOf(at)
  BY <1>1 DEF WhileScanning
<1>10. CASE best = 0
  <2>1. Barred(backend, want, natives[usable[at]])
    BY <1>1, <1>4, <1>9, <1>10 DEF BestOf
  <2>2. BestOf(at)'
    BY <1>1, <1>8, <1>9, <1>10, <2>1 DEF BestOf
  <2>3. QED
    BY <1>1, <1>6, <1>7, <2>2 DEF IInv, ChosenIsClosest, WhileScanning
<1>11. CASE best # 0
  <2>1. /\ best \in DOMAIN usable /\ best < at /\ least = Cost(usable[best])
        /\ ~Barred(backend, want, natives[usable[best]])
    BY <1>9, <1>11 DEF BestOf
  <2>2. best < at + 1 /\ ~(at < best)
    BY <1>2, <2>1
  <2>3. \A k \in DOMAIN usable :
          k < at + 1 /\ ~Barred(backend, want, natives[usable[k]]) =>
            /\ ~Less(Cost(usable[k]), least)
            /\ k < best => Less(least, Cost(usable[k]))
    BY <1>1, <1>8, <1>9, <1>11, <2>2 DEF BestOf
  <2>4. BestOf(at)'
    BY <1>1, <1>5, <1>11, <2>1, <2>2, <2>3 DEF BestOf
  <2>5. QED
    BY <1>1, <1>6, <1>7, <2>4 DEF IInv, ChosenIsClosest, WhileScanning
<1>12. QED
  BY <1>10, <1>11

LEMMA EndScanStep == IInv /\ EndScan => IInv'
<1> SUFFICES ASSUME IInv, EndScan PROVE IInv'
  OBVIOUS
<1>1. /\ pc = "scan" /\ pc' = "done" /\ WhileScanning /\ TypeOK
      /\ at > Len(usable)
      /\ error' = IF best # 0 THEN "none"
                  ELSE IF IsEgl(backend) /\ otherApi THEN "API_UNAVAILABLE"
                  ELSE "FORMAT_UNAVAILABLE"
      /\ UNCHANGED <<backend, want, natives, at, usable, otherApi, best, least>>
  BY DEF IInv, EndScan
<1>2. /\ natives \in Seq(Native) /\ DOMAIN natives = 1..Len(natives)
      /\ Len(natives) \in Nat /\ at \in Nat
      /\ usable \in Seq(DOMAIN natives) /\ DOMAIN usable = 1..Len(usable)
      /\ \A k \in DOMAIN usable : usable[k] \in DOMAIN natives
  BY <1>1 DEF TypeOK
<1>3. \A k \in DOMAIN usable : k < at
  BY <1>1, <1>2
<1>4. BestOf(at) /\ CompleteTo(Len(natives) + 1)
  BY <1>1 DEF WhileScanning
<1>5. ASSUME NEW i \in DOMAIN natives, Acceptable(i)
      PROVE  \E k \in DOMAIN usable : usable[k] = i
  BY <1>2, <1>4, <1>5 DEF Acceptable, CompleteTo
<1>6. TypeOK'
  BY <1>1 DEF TypeOK
<1>7. \A i : Cost(i)' = Cost(i) /\ Acceptable(i)' = Acceptable(i)
  BY <1>1 DEF Cost, Acceptable
<1>8. CASE best = 0
  <2>1. error' # "none"
    BY <1>1, <1>8
  <2>2. \A i \in DOMAIN natives : ~Acceptable(i)
    BY <1>3, <1>4, <1>5, <1>8 DEF BestOf, Acceptable
  <2>3. ChosenIsClosest'
    BY <1>1, <1>7, <1>8, <2>1, <2>2 DEF ChosenIsClosest
  <2>4. QED
    BY <1>1, <1>6, <2>3 DEF IInv, Sound, Ordered
<1>9. CASE best # 0
  <2> DEFINE b == usable[best]
  <2>1. best \in DOMAIN usable /\ least = Cost(b) /\ Cost(b) \in Triple
    BY <1>1, <1>2, <1>4, <1>9, CostType DEF BestOf
  <2>2. Acceptable(b)
    BY <1>4, <1>9, <2>1 DEF BestOf, Acceptable, IInv, Sound
  <2>3. ASSUME NEW i \in DOMAIN natives, Acceptable(i)
        PROVE  ~Closer(Cost(i), Cost(b)) /\ (i < b => Closer(Cost(b), Cost(i)))
    <3>1. PICK k \in DOMAIN usable : usable[k] = i
      BY <1>5, <2>3
    <3>2. ~Less(Cost(i), Cost(b)) /\ (k < best => Less(Cost(b), Cost(i)))
      BY <1>3, <1>4, <1>9, <2>1, <2>3, <3>1 DEF BestOf, Acceptable
    <3>3. Cost(i) \in Triple
      BY <1>1, <2>3, CostType
    <3>4. ASSUME i < b PROVE k < best
      <4>1. k \in Int /\ best \in Int /\ i \in Int /\ b \in Int
        BY <1>2, <2>1
      <4>2. best < k => b < i
        BY <2>1, <3>1 DEF IInv, Ordered
      <4>3. best = k => b = i
        BY <3>1
      <4>4. QED
        BY <3>4, <4>1, <4>2, <4>3
    <3>5. QED
      BY <2>1, <3>2, <3>3, <3>4, LessIsCloser
  <2>4. ChosenIsClosest'
    BY <1>1, <1>7, <1>9, <2>2, <2>3 DEF ChosenIsClosest
  <2>5. QED
    BY <1>1, <1>6, <2>4 DEF IInv, Sound, Ordered
<1>10. QED
  BY <1>8, <1>9

--------------------------------------------------------------------------------

LEMMA Inductive == IInv /\ [Next]_vars => IInv'
<1>1. IInv /\ UNCHANGED vars => IInv'
  BY DEF IInv, vars, TypeOK, Sound, Ordered, WhileFiltering, WhileScanning,
         CompleteTo, BestOf, Cost, ChosenIsClosest, Acceptable
<1>2. QED
  BY <1>1, RefuseStep, KeepStep, RejectStep, FailToReadStep, EndFilterStep,
     TakeStep, PassStep, EndScanStep DEF Next

\* Every variable of the choice keeps its type: the indices stay within the
\* driver's list and the list of usable configurations.
THEOREM TypeCorrect == Spec => []TypeOK
<1>1. IInv => TypeOK
  BY DEF IInv
<1>2. QED
  BY <1>1, Starts, Inductive, PTL DEF Spec

\* One pass over the driver's list with a running minimum returns the first of
\* the closest acceptable configurations, whatever the list and the request
\* (_grwlChooseFBConfig and the filters of the back ends).
THEOREM ChosenCorrect == Spec => []ChosenIsClosest
<1>1. IInv => ChosenIsClosest
  BY DEF IInv
<1>2. QED
  BY <1>1, Starts, Inductive, PTL DEF Spec

--------------------------------------------------------------------------------
LEMMA LeastNatural ==
    ASSUME NEW T, T \subseteq Nat, T # {}
    PROVE  \E m \in T : \A k \in T : m <= k
<1> DEFINE R == {ss \in Nat \X Nat : ss[1] < ss[2]}
<1>1. IsWellFoundedOn(R, Nat)
  BY NatLessThanWellFounded DEF OpToRel
<1>2. \A k, m \in Nat : k < m => <<k, m>> \in R
  OBVIOUS
<1> HIDE DEF R
<1>3. PICK m \in T : \A k \in T : ~ (<<k, m>> \in R)
  BY <1>1, WFMin
<1>4. ASSUME NEW k \in T PROVE m <= k
  <2>1. k \in Nat /\ m \in Nat /\ ~(<<k, m>> \in R)
    BY <1>3
  <2>2. ~(k < m)
    BY <1>2, <2>1
  <2>3. QED
    BY <2>1, <2>2
<1>5. QED
  BY <1>4

LEMMA Induction ==
    ASSUME NEW T, 0 \in T, \A n \in Nat : n \in T => n + 1 \in T
    PROVE  \A n \in Nat : n \in T
<1> SUFFICES ASSUME Nat \ T # {} PROVE FALSE
  OBVIOUS
<1>1. PICK m \in Nat \ T : \A k \in Nat \ T : m <= k
  BY LeastNatural
<1>2. m - 1 \in Nat /\ m - 1 \notin T
  BY <1>1
<1>3. QED
  BY <1>1, <1>2

Largest(S) == CHOOSE x \in S : \A y \in S : x >= y

LEMMA LargestIs ==
    ASSUME NEW n \in Nat, NEW s \in SUBSET (1..n), s # {}
    PROVE  Largest(s) \in s /\ \A y \in s : Largest(s) >= y
<1> DEFINE T == {n - y : y \in s}
<1>1. T \subseteq Nat /\ T # {}
  <2>1. \A y \in s : y \in 1..n
    OBVIOUS
  <2>2. \A y \in s : n - y \in Nat
    BY <2>1
  <2>3. QED
    BY <2>2
<1>2. PICK m \in T : \A k \in T : m <= k
  BY <1>1, LeastNatural
<1>3. PICK x \in s : m = n - x
  OBVIOUS
<1>4. ASSUME NEW y \in s PROVE x >= y
  <2>1. m <= n - y
    BY <1>2
  <2>2. x \in 1..n /\ y \in 1..n
    OBVIOUS
  <2>3. QED
    BY <1>3, <2>1, <2>2
<1>5. QED
  BY <1>4 DEF Largest

LEMMA WithoutLargest ==
    ASSUME NEW n \in Nat, NEW s \in SUBSET (1..n + 1), s # {}
    PROVE  s \ {Largest(s)} \in SUBSET (1..n)
<1>1. n + 1 \in Nat
  OBVIOUS
<1>2. Largest(s) \in s /\ \A y \in s : Largest(s) >= y
  BY <1>1, LargestIs
<1>3. ASSUME NEW y \in s, y # Largest(s) PROVE y \in 1..n
  <2>1. y \in 1..n + 1 /\ Largest(s) \in 1..n + 1 /\ Largest(s) >= y
    BY <1>2
  <2>2. QED
    BY <1>3, <2>1
<1>4. QED
  BY <1>3

\* A fold over the indices 1..n, which are taken from the largest down.
IsFold(it, n, base, h) ==
    \A s \in SUBSET (1..n) :
        it[s] = IF s = {} THEN base ELSE h[<<it[s \ {Largest(s)}], Largest(s)>>]

LEMMA FoldExists ==
    ASSUME NEW n \in Nat, NEW T, NEW base \in T, NEW h \in [T \X (1..n) -> T]
    PROVE  \E it \in [SUBSET (1..n) -> T] : IsFold(it, n, base, h)
<1> DEFINE N == {m \in Nat : m <= n =>
                   \E it \in [SUBSET (1..m) -> T] : IsFold(it, m, base, h)}
<1>1. 0 \in N
  <2>1. SUBSET (1..0) = {{}}
    OBVIOUS
  <2>2. IsFold([s \in SUBSET (1..0) |-> base], 0, base, h)
    BY <2>1 DEF IsFold
  <2>3. QED
    BY <2>2
<1>2. ASSUME NEW m \in Nat, m \in N PROVE m + 1 \in N
  <2>1. SUFFICES ASSUME m + 1 <= n
                 PROVE  \E it \in [SUBSET (1..m + 1) -> T] : IsFold(it, m + 1, base, h)
    <3>1. m + 1 \in Nat
      OBVIOUS
    <3>2. QED
      BY <3>1, <2>1
  <2>2. m <= n /\ m + 1 \in Nat
    BY <2>1
  <2>3. PICK it \in [SUBSET (1..m) -> T] : IsFold(it, m, base, h)
    BY <1>2, <2>2
  <2> DEFINE next == [s \in SUBSET (1..m + 1) |->
                        IF s = {} THEN base
                        ELSE h[<<it[s \ {Largest(s)}], Largest(s)>>]]
  <2>4. ASSUME NEW s \in SUBSET (1..m + 1), s # {}
        PROVE  /\ s \ {Largest(s)} \in SUBSET (1..m)
               /\ Largest(s) \in 1..n
    <3>1. s \ {Largest(s)} \in SUBSET (1..m)
      BY <2>4, WithoutLargest
    <3>2. Largest(s) \in s
      BY <2>4, <2>2, LargestIs
    <3>3. Largest(s) \in 1..m + 1
      BY <3>2
    <3>4. QED
      BY <2>1, <3>1, <3>3
  <2>5. next \in [SUBSET (1..m + 1) -> T]
    BY <2>4
  <2>6. ASSUME NEW s \in SUBSET (1..m) PROVE next[s] = it[s]
    BY <2>3 DEF IsFold
  <2>7. IsFold(next, m + 1, base, h)
    BY <2>4, <2>6 DEF IsFold
  <2>8. QED
    BY <2>5, <2>7
<1> HIDE DEF N
<1>3. n \in N
  BY <1>1, <1>2, Induction
<1>4. QED
  <2>1. n <= n
    OBVIOUS
  <2>2. QED
    BY <1>3, <2>1 DEF N

LEMMA FoldKeeps ==
    ASSUME NEW n \in Nat, NEW T, NEW it, it[{}] \in T,
           \A s \in SUBSET (1..n) : s # {} /\ it[s \ {Largest(s)}] \in T => it[s] \in T
    PROVE  it[1..n] \in T
<1> DEFINE N == {m \in Nat : m <= n => \A s \in SUBSET (1..m) : it[s] \in T}
<1>1. 0 \in N
  <2>1. SUBSET (1..0) = {{}}
    OBVIOUS
  <2>2. QED
    BY <2>1
<1>2. ASSUME NEW m \in Nat, m \in N PROVE m + 1 \in N
  <2>1. SUFFICES ASSUME m + 1 <= n, NEW s \in SUBSET (1..m + 1) PROVE it[s] \in T
    <3>1. m + 1 \in Nat
      OBVIOUS
    <3>2. QED
      BY <3>1, <2>1
  <2>2. CASE s = {}
    BY <2>2
  <2>3. CASE s # {}
    <3>1. s \ {Largest(s)} \in SUBSET (1..m)
      BY <2>3, WithoutLargest
    <3>2. it[s \ {Largest(s)}] \in T
      BY <1>2, <2>1, <3>1
    <3>3. s \in SUBSET (1..n)
      BY <2>1
    <3>4. QED
      BY <2>3, <3>2, <3>3
  <2>4. QED
    BY <2>2, <2>3
<1> HIDE DEF N
<1>3. n \in N
  BY <1>1, <1>2, Induction
<1>4. QED
  BY <1>3 DEF N
--------------------------------------------------------------------------------
(* The elements of a mapping, and where a search for one ends. *)

Mappings == {G!Mapping(l) : l \in Line}

ElementType ==
    [type : {"none", "hat", "button", "axis"}, index : 0..255,
     scale : {-2, -1, 0, 1, 2}, offset : {-1, 0, 1}]

\* Half an axis is stretched to the whole, and shifted accordingly.
IsStretched(e) == e.offset # 0 => e.scale \in {-2, 2}

LEMMA ElementIs ==
    ASSUME NEW t \in G!Text
    PROVE  G!Element(t) \in ElementType /\ IsStretched(G!Element(t))
<1> DEFINE low == IF t.half = "upper" THEN 0 ELSE -1
           high == IF t.half = "lower" THEN 0 ELSE 1
           sign == IF t.inverted THEN -1 ELSE 1
<1>1. /\ t.kind \in {"axis", "button", "hat", "junk"} /\ t.half \in {"upper", "lower", "full"}
      /\ t.index \in Nat /\ t.bit \in Nat
  BY DEF G!Text
<1>2. t.index % 256 \in 0..255 /\ (16 * t.index + t.bit) % 256 \in 0..255
  <2>1. \A k \in Nat : k % 256 \in 0..255
    OBVIOUS
  <2>2. 16 * t.index + t.bit \in Nat
    BY <1>1
  <2>3. QED
    BY <1>1, <2>1, <2>2
<1>3. /\ 2 \div (high - low) = IF t.half = "full" THEN 1 ELSE 2
      /\ -(high + low) = IF t.half = "upper" THEN -1 ELSE IF t.half = "lower" THEN 1 ELSE 0
  <2>1. 2 \div 1 = 2 /\ 2 \div 2 = 1
    OBVIOUS
  <2>2. high - low = (IF t.half = "full" THEN 2 ELSE 1)
    BY <1>1
  <2>3. -(high + low) = IF t.half = "upper" THEN -1 ELSE IF t.half = "lower" THEN 1 ELSE 0
    BY <1>1
  <2>4. QED
    BY <2>1, <2>2, <2>3
<1>4. CASE t.kind = "axis"
  <2>1. G!Element(t) = [type |-> "axis", index |-> t.index % 256,
                        scale |-> sign * (2 \div (high - low)),
                        offset |-> sign * (-(high + low))]
    BY <1>4 DEF G!Element
  <2>2. /\ sign * (2 \div (high - low)) \in {-2, -1, 1, 2}
        /\ sign * (-(high + low)) \in {-1, 0, 1}
        /\ sign * (-(high + low)) # 0 => sign * (2 \div (high - low)) \in {-2, 2}
    BY <1>3
  <2> HIDE DEF low, high, sign
  <2>3. QED
    BY <1>2, <2>1, <2>2 DEF ElementType, IsStretched
<1>5. CASE t.kind # "axis"
  <2>1. \/ G!Element(t) = [type |-> "none", index |-> 0, scale |-> 0, offset |-> 0]
        \/ G!Element(t) = [type |-> "hat", scale |-> 0, offset |-> 0,
                           index |-> (16 * t.index + t.bit) % 256]
        \/ G!Element(t) = [type |-> "button", index |-> t.index % 256,
                           scale |-> 0, offset |-> 0]
    BY <1>1, <1>5 DEF G!Element
  <2>2. QED
    BY <1>2, <2>1 DEF ElementType, IsStretched
<1>6. QED
  BY <1>4, <1>5

LEMMA MappingIs ==
    ASSUME NEW m \in Mappings
    PROVE  /\ m.button \in ElementType /\ IsStretched(m.button)
           /\ m.axis \in ElementType /\ IsStretched(m.axis)
<1>1. PICK l \in Line : m = G!Mapping(l)
  BY DEF Mappings
<1>2. l.button \in G!Text /\ l.axis \in G!Text
  BY PadsAssumption DEF G!GamepadsAssumption
<1>3. m.button = G!Element(l.button) /\ m.axis = G!Element(l.axis)
  BY <1>1 DEF G!Mapping
<1>4. QED
  BY <1>2, <1>3, ElementIs

LEMMA FindIs ==
    ASSUME NEW tab \in Seq(Mappings), NEW g
    PROVE  /\ G!FindMapping(tab, g) \in 0..Len(tab)
           /\ \A i \in DOMAIN tab :
                tab[i].guid = g => /\ G!FindMapping(tab, g) \in DOMAIN tab
                                   /\ tab[G!FindMapping(tab, g)].guid = g
                                   /\ G!FindMapping(tab, g) <= i
<1> DEFINE exact == {i \in DOMAIN tab : tab[i].guid = g}
           alike == {i \in DOMAIN tab : G!SameVendorProduct(tab[i].guid, g)}
           first(S) == CHOOSE i \in S : \A j \in S : i <= j
<1>1. DOMAIN tab = 1..Len(tab) /\ Len(tab) \in Nat
  OBVIOUS
<1>2. ASSUME NEW S \in SUBSET DOMAIN tab, S # {}
      PROVE  first(S) \in S /\ \A j \in S : first(S) <= j
  <2>1. S \subseteq Nat
    BY <1>1
  <2>2. \E i \in S : \A j \in S : i <= j
    BY <1>2, <2>1, LeastNatural
  <2>3. QED
    BY <2>2
<1>3. exact \in SUBSET DOMAIN tab /\ alike \in SUBSET DOMAIN tab
  OBVIOUS
<1>4. G!FindMapping(tab, g) = IF exact # {} THEN first(exact)
                              ELSE IF alike # {} THEN first(alike) ELSE 0
  BY DEF G!FindMapping
<1>5. \A i \in DOMAIN tab : i \in exact <=> tab[i].guid = g
  OBVIOUS
<1> HIDE DEF exact, alike, first
<1>6. CASE exact # {}
  <2>1. first(exact) \in exact /\ \A j \in exact : first(exact) <= j
    BY <1>2, <1>3, <1>6
  <2>2. QED
    BY <1>1, <1>3, <1>4, <1>5, <1>6, <2>1
<1>7. CASE exact = {}
  <2>1. alike # {} => first(alike) \in DOMAIN tab
    BY <1>2, <1>3
  <2>2. G!FindMapping(tab, g) \in 0..Len(tab)
    BY <1>1, <1>4, <1>7, <2>1
  <2>3. QED
    BY <1>5, <1>7, <2>2
<1>8. QED
  BY <1>6, <1>7

\* Each line of an update makes a table of a table.
LEMMA WithLineIs ==
    ASSUME NEW tab \in Seq(Mappings), NEW l \in Line
    PROVE  G!WithLine(tab, l) \in Seq(Mappings)
<1>1. G!Mapping(l) \in Mappings
  BY DEF Mappings
<1>2. G!FindMapping(tab, l.guid) \in 0..Len(tab) /\ Len(tab) \in Nat
  BY FindIs
<1>3. QED
  BY <1>1, <1>2 DEF G!WithLine

LEMMA UpdatedIs ==
    ASSUME NEW tab \in Seq(Mappings), NEW n \in Nat, NEW lines \in [1..n -> Line]
    PROVE  G!FoldLeft(G!WithLine, tab, lines) \in Seq(Mappings)
<1> DEFINE T == Seq(Mappings)
           h == [p \in T \X (1..n) |-> G!WithLine(p[1], lines[p[2]])]
           Is(it) == it = [s \in SUBSET DOMAIN lines |->
                             IF s = {} THEN tab
                             ELSE G!WithLine(it[s \ {Largest(s)}], lines[Largest(s)])]
           W == CHOOSE it : Is(it)
<1>1. G!FoldLeft(G!WithLine, tab, lines) = W[DOMAIN lines]
  BY Zenon DEF G!FoldLeft, G!MapThenFoldSet, G!Max, Largest
<1>2. DOMAIN lines = 1..n /\ \A i \in 1..n : lines[i] \in Line
  OBVIOUS
<1>3. \A s \in SUBSET (1..n) : s # {} => Largest(s) \in 1..n
  BY LargestIs
<1>4. \A t \in T, i \in 1..n : h[<<t, i>>] = G!WithLine(t, lines[i]) /\ h[<<t, i>>] \in T
  BY <1>2, WithLineIs
<1>5. h \in [T \X (1..n) -> T]
  BY <1>2, WithLineIs
<1>6. \E it : Is(it)
  <2> HIDE DEF h
  <2>1. PICK it \in [SUBSET (1..n) -> T] : IsFold(it, n, tab, h)
    BY <1>5, FoldExists
  <2>2. ASSUME NEW s \in SUBSET (1..n)
        PROVE  it[s] = IF s = {} THEN tab
                       ELSE G!WithLine(it[s \ {Largest(s)}], lines[Largest(s)])
    <3>1. CASE s = {}
      BY <2>1, <3>1 DEF IsFold
    <3>2. CASE s # {}
      <4>1. Largest(s) \in 1..n /\ it[s \ {Largest(s)}] \in T
        BY <1>3, <2>1, <3>2
      <4>2. it[s] = h[<<it[s \ {Largest(s)}], Largest(s)>>]
        BY <2>1, <3>2 DEF IsFold
      <4>3. QED
        BY <1>4, <3>2, <4>1, <4>2
    <3>3. QED
      BY <3>1, <3>2
  <2>3. Is(it)
    BY <1>2, <2>1, <2>2
  <2>4. QED
    BY <2>3
<1>7. Is(W)
  BY <1>6
<1> HIDE DEF h, W
<1>8. W[{}] \in T
  BY <1>2, <1>7
<1>9. ASSUME NEW s \in SUBSET (1..n), s # {}, W[s \ {Largest(s)}] \in T
      PROVE  W[s] \in T
  <2>1. W[s] = G!WithLine(W[s \ {Largest(s)}], lines[Largest(s)])
    BY <1>2, <1>7, <1>9
  <2>2. lines[Largest(s)] \in Line
    BY <1>2, <1>3, <1>9
  <2>3. QED
    BY <1>9, <2>1, <2>2, WithLineIs
<1>10. W[1..n] \in T
  BY <1>8, <1>9, FoldKeeps
<1>11. QED
  BY <1>1, <1>2, <1>10

\* The table that the library starts with.
LEMMA DefaultsIs ==
    ASSUME G!Init
    PROVE  table \in Seq(Mappings)
<1> DEFINE Add(t, l) == IF l.native THEN Append(t, G!Mapping(l)) ELSE t
           T == Seq(Mappings)
<1>1. PICK lines \in Defaults :
        table = G!FoldLeft(LAMBDA t, l : IF l.native THEN Append(t, G!Mapping(l)) ELSE t,
                           <<>>, lines)
  BY DEF G!Init
<1> DEFINE n == Len(lines)
           h == [p \in T \X (1..n) |-> Add(p[1], lines[p[2]])]
           Is(it) == it = [s \in SUBSET DOMAIN lines |->
                             IF s = {} THEN <<>>
                             ELSE Add(it[s \ {Largest(s)}], lines[Largest(s)])]
           W == CHOOSE it : Is(it)
<1>2. table = W[DOMAIN lines]
  BY <1>1, Zenon DEF G!FoldLeft, G!MapThenFoldSet, G!Max, Largest
<1>3. lines \in Seq(Line)
  BY PadsAssumption DEF G!GamepadsAssumption
<1>4. n \in Nat /\ DOMAIN lines = 1..n /\ \A i \in 1..n : lines[i] \in Line
  BY <1>3
<1>5. \A s \in SUBSET (1..n) : s # {} => Largest(s) \in 1..n
  BY <1>4, LargestIs
<1>6. \A t \in T, l \in Line : Add(t, l) \in T
  BY DEF Mappings
<1> HIDE DEF Add, n
<1>7. \A t \in T, i \in 1..n : h[<<t, i>>] = Add(t, lines[i])
  OBVIOUS
<1>8. h \in [T \X (1..n) -> T]
  BY <1>4, <1>6
<1> HIDE DEF h
<1>9. \E it : Is(it)
  <2>1. <<>> \in T
    OBVIOUS
  <2>2. PICK it \in [SUBSET (1..n) -> T] : IsFold(it, n, <<>>, h)
    BY <1>4, <1>8, <2>1, FoldExists
  <2>3. ASSUME NEW s \in SUBSET (1..n)
        PROVE  it[s] = IF s = {} THEN <<>>
                       ELSE Add(it[s \ {Largest(s)}], lines[Largest(s)])
    <3>1. CASE s = {}
      BY <2>2, <3>1 DEF IsFold
    <3>2. CASE s # {}
      <4>1. Largest(s) \in 1..n /\ it[s \ {Largest(s)}] \in T
        BY <1>5, <2>2, <3>2
      <4>2. it[s] = h[<<it[s \ {Largest(s)}], Largest(s)>>]
        BY <2>2, <3>2 DEF IsFold
      <4>3. QED
        BY <1>7, <3>2, <4>1, <4>2
    <3>3. QED
      BY <3>1, <3>2
  <2>4. Is(it)
    BY <1>4, <2>2, <2>3
  <2>5. QED
    BY <2>4
<1>10. Is(W)
  BY <1>9
<1> HIDE DEF W
<1>11. W[{}] \in T
  BY <1>4, <1>10
<1>12. ASSUME NEW s \in SUBSET (1..n), s # {}, W[s \ {Largest(s)}] \in T
       PROVE  W[s] \in T
  <2>1. W[s] = Add(W[s \ {Largest(s)}], lines[Largest(s)])
    BY <1>4, <1>10, <1>12
  <2>2. lines[Largest(s)] \in Line
    BY <1>4, <1>5, <1>12
  <2>3. QED
    BY <1>6, <1>12, <2>1, <2>2
<1>13. W[1..n] \in T
  BY <1>4, <1>11, <1>12, FoldKeeps
<1>14. QED
  BY <1>2, <1>4, <1>13

--------------------------------------------------------------------------------
(* The mappings that the joysticks use, and what their hats are. *)

Point == [x : -1..1, y : -1..1]

Hats(s, d) ==
    /\ hats[s] \in Seq(SUBSET {1, 2, 4, 8}) /\ stick[s] \in Seq(Point)
    /\ d # NoDevice => Len(hats[s]) = d.hats /\ Len(stick[s]) = d.hats

PadsInv ==
    /\ table \in Seq(Mappings)
    /\ device \in [Player -> Gamepad \union {NoDevice}]
    /\ axes \in [Player -> -2..2] /\ buttons \in [Player -> BOOLEAN]
    /\ mapping = [s \in Player |-> IF device[s] = NoDevice THEN 0
                                   ELSE G!FindValidMapping(table, device[s])]
    /\ DOMAIN hats = Player /\ DOMAIN stick = Player
    /\ \A s \in Player : Hats(s, device[s])

LEMMA PadsType == PadsInv => G!TypeOK
<1> SUFFICES ASSUME PadsInv PROVE G!TypeOK
  OBVIOUS
<1>1. ASSUME NEW s \in Player PROVE mapping[s] \in 0..Len(table)
  BY <1>1, FindIs DEF PadsInv, G!FindValidMapping
<1>2. mapping \in [Player -> 0..Len(table)]
  BY <1>1 DEF PadsInv
<1>3. QED
  BY <1>2 DEF PadsInv, G!TypeOK, Mappings, Hats, Point

LEMMA InitPads == G!Init => PadsInv
<1> SUFFICES ASSUME G!Init PROVE PadsInv
  OBVIOUS
<1>1. table \in Seq(Mappings)
  BY DefaultsIs
<1>2. /\ device = [s \in Player |-> NoDevice] /\ mapping = [s \in Player |-> 0]
      /\ axes = [s \in Player |-> 0] /\ buttons = [s \in Player |-> FALSE]
      /\ stick = [s \in Player |-> <<>>] /\ hats = [s \in Player |-> <<>>]
  BY Zenon DEF G!Init
<1>3. QED
  BY <1>1, <1>2 DEF PadsInv, Hats

LEMMA UpdatePads == PadsInv /\ G!UpdateGamepadMappings => PadsInv'
<1> SUFFICES ASSUME PadsInv, G!UpdateGamepadMappings PROVE PadsInv'
  OBVIOUS
<1>1. PICK n \in 1..MaxLines : \E lines \in [1..n -> Line] :
        table' = G!FoldLeft(G!WithLine, table, lines)
  BY DEF G!UpdateGamepadMappings
<1>2. PICK lines \in [1..n -> Line] : table' = G!FoldLeft(G!WithLine, table, lines)
  BY <1>1
<1>3. n \in Nat
  BY PadsAssumption DEF G!GamepadsAssumption
<1>4. table' \in Seq(Mappings)
  BY <1>2, <1>3, UpdatedIs DEF PadsInv
<1>5. /\ UNCHANGED <<device, axes, buttons, stick, hats>>
      /\ mapping' = [s \in Player |-> IF G!Connected(s)
                                      THEN G!FindValidMapping(table', device[s])
                                      ELSE mapping[s]]
  BY DEF G!UpdateGamepadMappings
<1>6. mapping' = [s \in Player |-> IF device[s] = NoDevice THEN 0
                                   ELSE G!FindValidMapping(table', device[s])]
  BY <1>5 DEF PadsInv, G!Connected
<1>7. QED
  BY <1>4, <1>5, <1>6 DEF PadsInv, Hats

LEMMA ConnectPads == ASSUME PadsInv, NEW p \in Player, G!Connect(p) PROVE PadsInv'
<1>1. PICK d \in Gamepad :
        /\ device' = [device EXCEPT ![p] = d]
        /\ mapping' = [mapping EXCEPT ![p] = G!FindValidMapping(table, d)]
        /\ stick' = [stick EXCEPT ![p] = G!Still(d)]
        /\ hats' = [hats EXCEPT ![p] = [h \in 1..d.hats |-> {}]]
        /\ UNCHANGED <<table, axes, buttons>>
  BY DEF G!Connect
<1>2. d.hats \in Nat /\ d # NoDevice
  BY PadsAssumption DEF G!GamepadsAssumption
<1>3. mapping' = [s \in Player |-> IF device'[s] = NoDevice THEN 0
                                   ELSE G!FindValidMapping(table, device'[s])]
  BY <1>1, <1>2 DEF PadsInv
<1>4. G!Still(d) \in Seq(Point) /\ Len(G!Still(d)) = d.hats
  <2>1. G!Rest \in Point
    BY DEF G!Rest, Point
  <2>2. G!Still(d) = [h \in 1..d.hats |-> G!Rest]
    BY DEF G!Still
  <2>3. QED
    BY <1>2, <2>1, <2>2
<1>5. /\ [h \in 1..d.hats |-> {}] \in Seq(SUBSET {1, 2, 4, 8})
      /\ Len([h \in 1..d.hats |-> {}]) = d.hats
  BY <1>2
<1>6. ASSUME NEW s \in Player PROVE Hats(s, device[s])'
  <2>1. CASE s = p
    BY <1>1, <1>4, <1>5, <2>1 DEF PadsInv, Hats
  <2>2. CASE s # p
    BY <1>1, <2>2 DEF PadsInv, Hats
  <2>3. QED
    BY <2>1, <2>2
<1>7. QED
  BY <1>1, <1>3, <1>6 DEF PadsInv

LEMMA DisconnectPads == ASSUME PadsInv, NEW p \in Player, G!Disconnect(p) PROVE PadsInv'
<1>1. mapping' = [s \in Player |-> IF device'[s] = NoDevice THEN 0
                                   ELSE G!FindValidMapping(table', device'[s])]
  BY DEF PadsInv, G!Disconnect
<1>2. ASSUME NEW s \in Player PROVE Hats(s, device[s])'
  BY <1>2 DEF PadsInv, Hats, G!Disconnect
<1>3. QED
  BY <1>1, <1>2 DEF PadsInv, G!Disconnect

LEMMA MoveHatPads == ASSUME PadsInv, NEW p \in Player, G!MoveHat(p) PROVE PadsInv'
<1>1. PICK h \in DOMAIN hats[p], axis_ \in {"x", "y"}, v \in -1..1 :
        /\ stick' = [stick EXCEPT ![p][h] =
                       IF axis_ = "x" THEN [@ EXCEPT !.x = v] ELSE [@ EXCEPT !.y = v]]
        /\ hats' = [hats EXCEPT ![p][G!Shown(h, axis_)] = G!Bits(stick'[p][h])]
        /\ UNCHANGED <<table, device, mapping, axes, buttons>>
  BY DEF G!MoveHat
<1>2. G!Shown(h, axis_) \in DOMAIN hats[p]
  <2>1. hats[p] \in Seq(SUBSET {1, 2, 4, 8})
    BY DEF PadsInv, Hats
  <2>2. 1 \in DOMAIN hats[p]
    BY <2>1
  <2>3. QED
    BY <2>2 DEF G!Shown
<1>3. G!Bits(stick'[p][h]) \in SUBSET {1, 2, 4, 8}
  BY DEF G!Bits
<1>4. ASSUME NEW s \in Player PROVE Hats(s, device[s])'
  <2>1. CASE s # p
    BY <1>1, <2>1 DEF PadsInv, Hats
  <2>2. CASE s = p
    <3> DEFINE k == G!Shown(h, axis_)
               bits == G!Bits(stick'[p][h])
               to == IF axis_ = "x" THEN [stick[p][h] EXCEPT !.x = v]
                     ELSE [stick[p][h] EXCEPT !.y = v]
    <3>1. hats'[p] = [hats[p] EXCEPT ![k] = bits] /\ stick'[p] = [stick[p] EXCEPT ![h] = to]
      BY <1>1 DEF PadsInv
    <3>2. hats[p] \in Seq(SUBSET {1, 2, 4, 8}) /\ stick[p] \in Seq(Point)
      BY DEF PadsInv, Hats
    <3>3. hats'[p] \in Seq(SUBSET {1, 2, 4, 8}) /\ Len(hats'[p]) = Len(hats[p])
      <4> HIDE DEF k, bits
      <4>1. k \in DOMAIN hats[p] /\ bits \in SUBSET {1, 2, 4, 8}
        BY <1>2, <1>3 DEF k, bits
      <4>2. QED
        BY <3>1, <3>2, <4>1
    <3>4. stick'[p] \in Seq(Point) /\ Len(stick'[p]) = Len(stick[p])
      <4>1. ASSUME h \in DOMAIN stick[p] PROVE to \in Point
        <5>1. stick[p][h] \in Point
          BY <3>2, <4>1
        <5>2. v \in -1..1
          OBVIOUS
        <5>3. QED
          BY <5>1, <5>2 DEF Point
      <4> HIDE DEF to
      <4>2. CASE h \in DOMAIN stick[p]
        BY <3>1, <3>2, <4>1, <4>2
      <4>3. CASE h \notin DOMAIN stick[p]
        <5>1. stick'[p] = stick[p]
          BY <3>1, <3>2, <4>3
        <5>2. QED
          BY <3>2, <5>1
      <4>4. QED
        BY <4>2, <4>3
    <3>5. Hats(p, device[p])
      BY DEF PadsInv
    <3> HIDE DEF k, bits, to
    <3>6. QED
      BY <1>1, <2>2, <3>3, <3>4, <3>5 DEF Hats
  <2>3. QED
    BY <2>1, <2>2
<1>5. QED
  BY <1>1, <1>4 DEF PadsInv

LEMMA NextPads == PadsInv /\ G!Next => PadsInv'
<1> SUFFICES ASSUME PadsInv, G!Next PROVE PadsInv'
  OBVIOUS
<1>1. ASSUME NEW p \in Player, G!MoveAxis(p) \/ G!PressButton(p) PROVE PadsInv'
  BY <1>1 DEF PadsInv, Hats, G!MoveAxis, G!PressButton
<1>2. QED
  BY <1>1, UpdatePads, ConnectPads, DisconnectPads, MoveHatPads DEF G!Next

LEMMA PadsFit == PadsInv => G!MappingFits
<1> SUFFICES ASSUME PadsInv, NEW s \in Player, G!Connected(s)
             PROVE
        LET exact == {i \in DOMAIN table : table[i].guid = device[s].guid}
            has(e) == \/ e.type = "hat" /\ (e.index \div 16) + 1 \in DOMAIN hats[s]
                      \/ e.type = "button" /\ e.index \in 0..(device[s].buttons - 1)
                      \/ e.type = "axis" /\ e.index \in 0..(device[s].axes - 1)
                      \/ e.type = "none"
            fits(i) == has(table[i].button) /\ has(table[i].axis)
        IN /\ mapping[s] # 0 => fits(mapping[s])
           /\ (\E i \in exact : fits(i) /\ \A j \in exact : i <= j)
                => mapping[s] \in exact
  BY DEF G!MappingFits, G!Connected, PadsInv
<1> DEFINE d == device[s]
           f == G!FindMapping(table, d.guid)
           exact == {i \in DOMAIN table : table[i].guid = d.guid}
           has(e) == \/ e.type = "hat" /\ (e.index \div 16) + 1 \in DOMAIN hats[s]
                     \/ e.type = "button" /\ e.index \in 0..(d.buttons - 1)
                     \/ e.type = "axis" /\ e.index \in 0..(d.axes - 1)
                     \/ e.type = "none"
           fits(i) == has(table[i].button) /\ has(table[i].axis)
<1>1. d \in Gamepad /\ d # NoDevice /\ hats[s] \in Seq(SUBSET {1, 2, 4, 8}) /\ Len(hats[s]) = d.hats
  BY DEF PadsInv, Hats, G!Connected
<1>2. d.axes \in Nat /\ d.buttons \in Nat /\ d.hats \in Nat /\ DOMAIN hats[s] = 1..d.hats
  BY <1>1, PadsAssumption DEF G!GamepadsAssumption
<1>3. ASSUME NEW e \in ElementType PROVE G!IsValidElement(e, d) <=> has(e)
  <2>1. e.type \in {"none", "hat", "button", "axis"} /\ e.index \in 0..255
    BY DEF ElementType
  <2>2. e.index \div 16 \in Nat
    BY <2>1
  <2> HIDE DEF d
  <2>3. \A i, k \in Nat : (i < k <=> i \in 0..(k - 1)) /\ (i < k <=> i + 1 \in 1..k)
    OBVIOUS
  <2>4. e.index \div 16 < d.hats <=> (e.index \div 16) + 1 \in DOMAIN hats[s]
    BY <1>2, <2>2, <2>3
  <2>5. /\ e.index < d.buttons <=> e.index \in 0..(d.buttons - 1)
        /\ e.index < d.axes <=> e.index \in 0..(d.axes - 1)
    <3>1. e.index \in Nat
      BY <2>1
    <3>2. d.buttons \in Nat /\ d.axes \in Nat
      BY <1>2
    <3>3. e.index < d.buttons <=> e.index \in 0..(d.buttons - 1)
      BY <2>3, <3>1, <3>2
    <3>4. e.index < d.axes <=> e.index \in 0..(d.axes - 1)
      BY <2>3, <3>1, <3>2
    <3>5. QED
      BY <3>3, <3>4
  <2>6. /\ e.index \div 16 < d.hats <=> (e.index \div 16) + 1 \in DOMAIN hats[s]
        /\ e.index < d.buttons <=> e.index \in 0..(d.buttons - 1)
        /\ e.index < d.axes <=> e.index \in 0..(d.axes - 1)
    BY <2>4, <2>5
  <2>7. CASE e.type = "hat"
    BY <2>6, <2>7 DEF G!IsValidElement
  <2>8. CASE e.type = "button"
    BY <2>6, <2>8 DEF G!IsValidElement
  <2>9. CASE e.type = "axis"
    BY <2>6, <2>9 DEF G!IsValidElement
  <2>10. CASE e.type = "none"
    BY <2>10 DEF G!IsValidElement
  <2>11. QED
    BY <2>1, <2>7, <2>8, <2>9, <2>10
<1>4. /\ table \in Seq(Mappings)
      /\ mapping[s] = IF /\ f # 0 /\ G!IsValidElement(table[f].button, d)
                         /\ G!IsValidElement(table[f].axis, d)
                      THEN f ELSE 0
  BY DEF PadsInv, G!FindValidMapping, G!Connected
<1>5. ASSUME NEW i \in DOMAIN table
      PROVE  /\ G!IsValidElement(table[i].button, d) <=> has(table[i].button)
             /\ G!IsValidElement(table[i].axis, d) <=> has(table[i].axis)
  BY <1>3, <1>4, MappingIs
<1>6. /\ f \in 0..Len(table) /\ DOMAIN table = 1..Len(table) /\ Len(table) \in Nat
      /\ \A i \in exact : f \in exact /\ f <= i
  BY <1>4, FindIs
<1>7. exact \subseteq DOMAIN table
  OBVIOUS
<1> HIDE DEF d, f, exact, has
<1>8. f # 0 => f \in DOMAIN table
  BY <1>6
<1>9. mapping[s] # 0 => fits(mapping[s])
  BY <1>4, <1>5, <1>8
<1>10. ASSUME NEW i \in exact, fits(i), \A j \in exact : i <= j PROVE mapping[s] \in exact
  <2>1. f = i
    BY <1>6, <1>7, <1>10
  <2>2. i # 0 /\ i \in DOMAIN table
    BY <1>6, <1>7
  <2>3. QED
    BY <1>4, <1>5, <1>10, <2>1, <2>2
<1>11. QED
  BY <1>9, <1>10 DEF d, exact, has

LEMMA HalvesPress == PadsInv => G!HalfAxisPresses
<1> SUFFICES ASSUME PadsInv, NEW s \in Player, mapping[s] # 0,
                    table[mapping[s]].button.type = "axis",
                    table[mapping[s]].button.offset # 0
             PROVE
        LET e == table[mapping[s]].button
            upper == (e.scale > 0 /\ e.offset < 0) \/ (e.scale < 0 /\ e.offset > 0)
        IN G!Pressed(s, e) = IF upper THEN axes[s] >= 1 ELSE axes[s] <= -1
  BY DEF G!HalfAxisPresses
<1> DEFINE e == table[mapping[s]].button
<1>1. mapping[s] \in DOMAIN table /\ table \in Seq(Mappings) /\ axes[s] \in -2..2
  BY PadsType DEF PadsInv, G!TypeOK
<1>2. e.scale \in {-2, 2} /\ e.offset \in {-1, 1} /\ e.type = "axis"
  BY <1>1, MappingIs DEF ElementType, IsStretched
<1> HIDE DEF e
<1>3. G!Pressed(s, e) = IF e.offset < 0 THEN axes[s] * e.scale + 2 * e.offset >= 0
                        ELSE axes[s] * e.scale + 2 * e.offset <= 0
  BY <1>2 DEF G!Pressed, G!Value
<1> DEFINE upper == (e.scale > 0 /\ e.offset < 0) \/ (e.scale < 0 /\ e.offset > 0)
<1>4. G!Pressed(s, e) = IF upper THEN axes[s] >= 1 ELSE axes[s] <= -1
  BY <1>1, <1>2, <1>3
<1>5. QED
  BY <1>4 DEF e

\* A joystick uses the mapping of its GUID when the table has one it has the
\* elements for, and never reads an element it does not have, whatever tables,
\* updates and joysticks there are; a button bound to half an axis is down when
\* that half is moved half its way (findValidMapping, grwlGetGamepadState).
THEOREM MappingFitsAlways == ChoicesSpec => []MappingFits
<1> DEFINE Inv == subject = "gamepads" => PadsInv
<1>1. ChoicesInit => Inv
  BY InitPads DEF ChoicesInit
<1>2. Inv /\ [ChoicesNext]_<<subject, vars, video, gamepads, joysticks>> => Inv'
  <2> SUFFICES ASSUME PadsInv, G!Next \/ UNCHANGED gamepads PROVE PadsInv'
    BY DEF ChoicesNext
  <2>1. CASE UNCHANGED gamepads
    BY <2>1 DEF gamepads, PadsInv, Hats
  <2>2. QED
    BY <2>1, NextPads
<1>3. Inv => MappingFits
  BY PadsFit, HalvesPress DEF MappingFits
<1>4. QED
  BY <1>1, <1>2, <1>3, PTL DEF ChoicesSpec

--------------------------------------------------------------------------------
(* Joysticks *)

(***************************************************************************)
(* The calls st in progress.  The nodes are opened one by one before a     *)
(* joystick is polled, and notices are handled between polls, never below  *)
(* one: when a joystick is opened no call has another one in hand.         *)
(***************************************************************************)
Shape(st, ini) ==
    /\ \A i \in 1..Len(st) : st[i].fn = "init" => Len(st) = 1 /\ ~ini
    /\ ~ini => \A i \in 1..Len(st) : st[i].fn = "init"
    /\ \A i, k \in 1..Len(st) : st[i].fn = "detect" /\ k < i => st[k].fn = "pollAll"

\* A slot that is allocated and not connected is in the hands of one call that
\* opens or closes it, and a call that polls a joystick finds it connected when
\* it goes on, or freed.
Owner(f) == f.fn \in {"connect", "close"}

OwnersHold(st, slots) ==
    \A i \in 1..Len(st) : Owner(st[i]) =>
        slots[st[i].slot].allocated /\ ~slots[st[i].slot].connected
HeldHaveOwner(st, slots) ==
    \A s \in J!Slot : slots[s].allocated /\ ~slots[s].connected =>
        \E i \in 1..Len(st) : Owner(st[i]) /\ st[i].slot = s
OneOwner(st) ==
    \A i, k \in 1..Len(st) :
        Owner(st[i]) /\ Owner(st[k]) /\ st[i].slot = st[k].slot => i = k
PollsFind(st, slots) ==
    \A i \in 1..Len(st) :
        st[i].fn = "poll" /\ slots[st[i].slot].allocated /\ ~slots[st[i].slot].connected =>
            \E k \in 1..Len(st) : i < k /\ st[k].fn = "close" /\ st[k].slot = st[i].slot

Fit(st, slots) ==
    /\ OwnersHold(st, slots) /\ HeldHaveOwner(st, slots)
    /\ OneOwner(st) /\ PollsFind(st, slots)

Front(st) == SubSeq(st, 1, Len(st) - 1)

LEMMA FrontIs ==
    ASSUME NEW S, NEW st \in Seq(S), st # <<>>
    PROVE  /\ Front(st) \in Seq(S) /\ Len(st) \in Nat \ {0} /\ Len(Front(st)) = Len(st) - 1
           /\ \A i \in 1..Len(st) - 1 : Front(st)[i] = st[i]
<1>1. Len(st) \in Nat \ {0} /\ \A i \in 1..Len(st) - 1 : st[i] \in S
  BY EmptySeq, ElementOfSeq
<1> DEFINE n == Len(st) - 1
<1>2. n \in Int /\ \A i \in 1..n : st[i] \in S
  BY <1>1
<1>3. /\ SubSeq(st, 1, n) \in Seq(S)
      /\ Len(SubSeq(st, 1, n)) = IF 1 <= n THEN n - 1 + 1 ELSE 0
      /\ \A i \in 1..n - 1 + 1 : SubSeq(st, 1, n)[i] = st[1 + i - 1]
  <2> HIDE DEF n
  <2>1. QED
    BY <1>2, SubSeqProperties
<1>4. /\ SubSeq(st, 1, n) \in Seq(S) /\ Len(SubSeq(st, 1, n)) = n
      /\ \A i \in 1..n : SubSeq(st, 1, n)[i] = st[i]
  <2>1. n \in Nat
    BY <1>1
  <2> HIDE DEF n
  <2>2. \A i \in 1..n : i \in 1..n - 1 + 1 /\ 1 + i - 1 = i
    BY <2>1
  <2>3. QED
    BY <1>3, <2>1, <2>2
<1>5. QED
  BY <1>1, <1>4 DEF Front

LEMMA AppendIs ==
    ASSUME NEW S, NEW st \in Seq(S), NEW f \in S
    PROVE  /\ Append(st, f) \in Seq(S) /\ Len(st) \in Nat /\ Len(Append(st, f)) = Len(st) + 1
           /\ \A i \in 1..Len(st) : Append(st, f)[i] = st[i]
           /\ Append(st, f)[Len(st) + 1] = f
OBVIOUS

LEMMA PushShape ==
    ASSUME NEW st \in Seq(J!Call), NEW ini, Shape(st, ini), ini, NEW f \in J!Call,
           f.fn \in {"app", "poll", "connect", "close"}
    PROVE  Shape(Append(st, f), ini)
BY AppendIs DEF Shape

LEMMA PopShape ==
    ASSUME NEW st \in Seq(J!Call), NEW ini, Shape(st, ini), st # <<>>
    PROVE  Shape(Front(st), ini)
BY FrontIs DEF Shape

LEMMA ReplaceShape ==
    ASSUME NEW st \in Seq(J!Call), NEW ini, Shape(st, ini), st # <<>>,
           NEW f \in J!Call, f.fn = st[Len(st)].fn
    PROVE  Shape(Append(Front(st), f), ini)
<1> DEFINE t == Append(Front(st), f)
<1>1. /\ Len(t) = Len(st) /\ Len(st) \in Nat \ {0} /\ t[Len(st)] = f
      /\ \A i \in 1..Len(st) - 1 : t[i] = st[i]
  BY FrontIs, AppendIs
<1>2. \A i \in 1..Len(st) : t[i].fn = st[i].fn
  BY <1>1
<1> HIDE DEF t
<1>3. Shape(t, ini)
  BY <1>1, <1>2 DEF Shape
<1>4. QED
  BY <1>3 DEF t

LEMMA PushFit ==
    ASSUME NEW st \in Seq(J!Call), NEW k, Fit(st, k), NEW f \in J!Call, ~Owner(f),
           f.fn = "poll" => k[f.slot].connected
    PROVE  Fit(Append(st, f), k)
<1> DEFINE b == Append(st, f)
<1>1. /\ Len(st) \in Nat /\ Len(b) = Len(st) + 1 /\ b[Len(st) + 1] = f
      /\ \A i \in 1..Len(st) : b[i] = st[i]
  BY AppendIs
<1> HIDE DEF b
<1>5. OwnersHold(b, k)
  BY <1>1 DEF Fit, OwnersHold, OneOwner, Owner
<1>6. HeldHaveOwner(b, k)
  BY <1>1 DEF Fit, HeldHaveOwner, OwnersHold, Owner
<1>7. OneOwner(b)
  BY <1>1 DEF Fit, OneOwner, OwnersHold, Owner
<1>8. PollsFind(b, k)
  BY <1>1 DEF Fit, PollsFind, OwnersHold, OneOwner, Owner
<1>9. QED
  BY <1>5, <1>6, <1>7, <1>8 DEF Fit, b

LEMMA PopFit ==
    ASSUME NEW st \in Seq(J!Call), NEW k, Fit(st, k), st # <<>>, ~Owner(st[Len(st)])
    PROVE  Fit(Front(st), k)
<1> DEFINE b == Front(st)
<1>1. /\ Len(st) \in Nat \ {0} /\ Len(b) = Len(st) - 1
      /\ \A i \in 1..Len(st) - 1 : b[i] = st[i]
  BY FrontIs
<1> HIDE DEF b
<1>5. OwnersHold(b, k)
  BY <1>1 DEF Fit, OwnersHold, OneOwner, Owner
<1>6. HeldHaveOwner(b, k)
  BY <1>1 DEF Fit, HeldHaveOwner, OwnersHold, Owner
<1>7. OneOwner(b)
  BY <1>1 DEF Fit, OneOwner, OwnersHold, Owner
<1>8. PollsFind(b, k)
  BY <1>1 DEF Fit, PollsFind, OwnersHold, OneOwner, Owner
<1>9. QED
  BY <1>5, <1>6, <1>7, <1>8 DEF Fit, b

LEMMA FrameType ==
    ASSUME NEW st \in Seq(J!Call), NEW i \in 1..Len(st)
    PROVE  st[i] \in J!Call /\ st[i].slot \in J!Slot
<1>1. st[i] \in J!Call
  BY ElementOfSeq
<1>2. QED
  BY <1>1 DEF J!Call

\* A joystick is opened, connected, disconnected and freed.
LEMMA OpenFit ==
    ASSUME NEW st \in Seq(J!Call), NEW j \in [J!Slot -> J!Joystick], Fit(st, j),
           NEW s \in J!Slot, ~j[s].allocated, NEW o \in J!Joystick,
           o.allocated, ~o.connected, \A i \in 1..Len(st) : st[i].fn # "poll"
    PROVE  Fit(Append(st, J!CallOf("connect", s)), [j EXCEPT ![s] = o])
<1> DEFINE f == J!CallOf("connect", s)
           k == [j EXCEPT ![s] = o]
<1>1. f \in J!Call /\ f.fn = "connect" /\ f.slot = s
  BY DEF J!CallOf, J!Call
<1>2. \A t \in J!Slot : k[t] = IF t = s THEN o ELSE j[t]
  OBVIOUS
<1>3. \A i \in 1..Len(st) : st[i].slot \in J!Slot
  BY FrameType
<1> DEFINE b == Append(st, f)
<1>4. /\ Len(st) \in Nat /\ Len(b) = Len(st) + 1 /\ b[Len(st) + 1] = f
      /\ \A i \in 1..Len(st) : b[i] = st[i]
  BY <1>1, AppendIs
<1> HIDE DEF f, k, b
<1>5. OwnersHold(b, k)
  BY <1>1, <1>2, <1>3, <1>4 DEF Fit, OwnersHold, OneOwner, Owner
<1>6. HeldHaveOwner(b, k)
  BY <1>1, <1>2, <1>3, <1>4 DEF Fit, HeldHaveOwner, OwnersHold, Owner
<1>7. OneOwner(b)
  BY <1>1, <1>2, <1>3, <1>4 DEF Fit, OneOwner, OwnersHold, Owner
<1>8. PollsFind(b, k)
  BY <1>1, <1>2, <1>3, <1>4 DEF Fit, PollsFind, OwnersHold, OneOwner, Owner
<1>9. QED
  BY <1>5, <1>6, <1>7, <1>8 DEF Fit, b, f, k

LEMMA ConnectFit ==
    ASSUME NEW st \in Seq(J!Call), NEW j \in [J!Slot -> J!Joystick], Fit(st, j),
           st # <<>>, st[Len(st)].fn = "connect"
    PROVE  Fit(Front(st), [j EXCEPT ![st[Len(st)].slot].connected = TRUE])
<1> DEFINE s == st[Len(st)].slot
           k == [j EXCEPT ![s].connected = TRUE]
<1>1. \A i \in 1..Len(st) : st[i].slot \in J!Slot
  BY FrameType
<1>2. \A t \in J!Slot : /\ k[t].allocated <=> j[t].allocated
                        /\ k[t].connected <=> (t = s \/ j[t].connected)
  BY DEF J!Joystick
<1> DEFINE b == Front(st)
<1> DEFINE n == Len(st)
<1>0. n \in 1..Len(st) /\ st[n].slot = s /\ s \in J!Slot /\ Owner(st[n])
  BY <1>1, FrontIs DEF Owner
<1>4. /\ Len(st) \in Nat \ {0} /\ Len(b) = Len(st) - 1 /\ n = Len(st)
      /\ \A i \in 1..Len(st) - 1 : b[i] = st[i]
  BY FrontIs
<1> HIDE DEF k, b, s, n
<1>5. OwnersHold(b, k)
  BY <1>0, <1>1, <1>2, <1>4 DEF Fit, OwnersHold, OneOwner, Owner
<1>6. HeldHaveOwner(b, k)
  BY <1>0, <1>1, <1>2, <1>4 DEF Fit, HeldHaveOwner, OwnersHold, Owner
<1>7. OneOwner(b)
  BY <1>0, <1>1, <1>2, <1>4 DEF Fit, OneOwner, OwnersHold, Owner
<1>8. PollsFind(b, k)
  BY <1>0, <1>1, <1>2, <1>4 DEF Fit, PollsFind, OwnersHold, OneOwner, Owner
<1>9. QED
  BY <1>5, <1>6, <1>7, <1>8 DEF Fit, b, k, s

LEMMA CloseFit ==
    ASSUME NEW st \in Seq(J!Call), NEW j \in [J!Slot -> J!Joystick], Fit(st, j),
           NEW s \in J!Slot, j[s].allocated, j[s].connected
    PROVE  Fit(Append(st, J!CallOf("close", s)), [j EXCEPT ![s].connected = FALSE])
<1> DEFINE f == J!CallOf("close", s)
           k == [j EXCEPT ![s].connected = FALSE]
<1>1. f \in J!Call /\ f.fn = "close" /\ f.slot = s
  BY DEF J!CallOf, J!Call
<1>2. \A t \in J!Slot : /\ k[t].allocated <=> j[t].allocated
                        /\ k[t].connected <=> (t # s /\ j[t].connected)
  BY DEF J!Joystick
<1>3. \A i \in 1..Len(st) : st[i].slot \in J!Slot
  BY FrameType
<1> DEFINE b == Append(st, f)
<1>4. /\ Len(st) \in Nat /\ Len(b) = Len(st) + 1 /\ b[Len(st) + 1] = f
      /\ \A i \in 1..Len(st) : b[i] = st[i]
  BY <1>1, AppendIs
<1> HIDE DEF f, k, b
<1>5. OwnersHold(b, k)
  BY <1>1, <1>2, <1>3, <1>4 DEF Fit, OwnersHold, OneOwner, Owner
<1>6. HeldHaveOwner(b, k)
  BY <1>1, <1>2, <1>3, <1>4 DEF Fit, HeldHaveOwner, OwnersHold, Owner
<1>7. OneOwner(b)
  BY <1>1, <1>2, <1>3, <1>4 DEF Fit, OneOwner, OwnersHold, Owner
<1>8. PollsFind(b, k)
  BY <1>1, <1>2, <1>3, <1>4 DEF Fit, PollsFind, OwnersHold, OneOwner, Owner
<1>9. QED
  BY <1>5, <1>6, <1>7, <1>8 DEF Fit, b, f, k

LEMMA FreeFit ==
    ASSUME NEW st \in Seq(J!Call), NEW j \in [J!Slot -> J!Joystick], Fit(st, j),
           st # <<>>, st[Len(st)].fn = "close"
    PROVE  Fit(Front(st), [j EXCEPT ![st[Len(st)].slot] = J!Freed])
<1> DEFINE s == st[Len(st)].slot
           k == [j EXCEPT ![s] = J!Freed]
<1>1. \A i \in 1..Len(st) : st[i].slot \in J!Slot
  BY FrameType
<1>2. \A t \in J!Slot : k[t] = IF t = s THEN J!Freed ELSE j[t]
  OBVIOUS
<1>3. ~J!Freed.allocated
  BY DEF J!Freed
<1> DEFINE b == Front(st)
<1> DEFINE n == Len(st)
<1>0. n \in 1..Len(st) /\ st[n].slot = s /\ s \in J!Slot /\ Owner(st[n])
  BY <1>1, FrontIs DEF Owner
<1>4. /\ Len(st) \in Nat \ {0} /\ Len(b) = Len(st) - 1 /\ n = Len(st)
      /\ \A i \in 1..Len(st) - 1 : b[i] = st[i]
  BY FrontIs
<1> HIDE DEF k, b, s, n
<1>5. OwnersHold(b, k)
  BY <1>0, <1>1, <1>2, <1>3, <1>4 DEF Fit, OwnersHold, OneOwner, Owner
<1>6. HeldHaveOwner(b, k)
  BY <1>0, <1>1, <1>2, <1>3, <1>4 DEF Fit, HeldHaveOwner, OwnersHold, Owner
<1>7. OneOwner(b)
  BY <1>0, <1>1, <1>2, <1>3, <1>4 DEF Fit, OneOwner, OwnersHold, Owner
<1>8. PollsFind(b, k)
  BY <1>0, <1>1, <1>2, <1>3, <1>4 DEF Fit, PollsFind, OwnersHold, OneOwner, Owner
<1>9. QED
  BY <1>5, <1>6, <1>7, <1>8 DEF Fit, b, k, s

LEMMA FitSame ==
    ASSUME NEW st \in Seq(J!Call), NEW j, NEW k, Fit(st, j),
           \A s \in J!Slot : /\ k[s].allocated <=> j[s].allocated
                             /\ k[s].connected <=> j[s].connected
    PROVE  Fit(st, k)
<1>1. \A i \in 1..Len(st) : st[i].slot \in J!Slot
  BY FrameType
<1>2. OwnersHold(st, k)
  BY <1>1 DEF Fit, OwnersHold
<1>3. HeldHaveOwner(st, k)
  BY <1>1 DEF Fit, HeldHaveOwner
<1>4. PollsFind(st, k)
  BY <1>1 DEF Fit, PollsFind
<1>5. QED
  BY <1>2, <1>3, <1>4 DEF Fit

(***************************************************************************)
(* The slots: one for a device at most, and while they are filled for the  *)
(* first time, the first ones.                                             *)
(***************************************************************************)
OneSlotEach(slots) ==
    /\ \A s \in J!Slot : slots[s].allocated => slots[s].path \in J!Device
    /\ \A s, t \in J!Slot : slots[s].allocated /\ slots[t].allocated
                            /\ slots[s].path = slots[t].path => s = t

Filled(slots, m) == \A s \in J!Slot : slots[s].allocated <=> s < m

Slots(slots) ==
    /\ slots \in [J!Slot -> J!Joystick]
    /\ \A s \in J!Slot : slots[s].allocated \/ slots[s] = J!Freed
    /\ OneSlotEach(slots)

\* A call that handles notices finds as many as it has counted.
Pending(st, n) == \A i \in 1..Len(st) : st[i].fn = "detect" => st[i].left <= n

Calls(st, slots, ini, n) ==
    /\ st \in Seq(J!Call) /\ ini \in BOOLEAN
    /\ Slots(slots)
    /\ Shape(st, ini)
    /\ Fit(st, slots)
    /\ Pending(st, n)
    /\ ~ini => \E m \in 0..LastSlot + 1 : Filled(slots, m)
    /\ ~ini /\ st = <<>> => Filled(slots, 0)

LEMMA ConnectedAllocated ==
    ASSUME NEW k, Slots(k), NEW s \in J!Slot, k[s].connected \/ k[s].alive
    PROVE  k[s].allocated
BY DEF Slots, J!Freed

LEMMA SameCalls ==
    ASSUME NEW st, NEW j, NEW ini, NEW n, Calls(st, j, ini, n), NEW k \in [J!Slot -> J!Joystick],
           \A s \in J!Slot : /\ k[s].allocated <=> j[s].allocated
                             /\ k[s].connected <=> j[s].connected
                             /\ k[s].path = j[s].path
                             /\ j[s].allocated \/ k[s] = j[s]
    PROVE  Calls(st, k, ini, n)
<1>1. Fit(st, k)
  BY FitSame DEF Calls
<1>2. Slots(k)
  BY DEF Calls, Slots, OneSlotEach
<1>3. \A m : Filled(j, m) => Filled(k, m)
  BY DEF Filled
<1>4. QED
  BY <1>1, <1>2, <1>3 DEF Calls

LEMMA PushPending ==
    ASSUME NEW st \in Seq(J!Call), NEW n, Pending(st, n), NEW f \in J!Call,
           f.fn = "detect" => f.left <= n
    PROVE  Pending(Append(st, f), n)
BY AppendIs DEF Pending

LEMMA PopPending ==
    ASSUME NEW st \in Seq(J!Call), NEW n, Pending(st, n), st # <<>>
    PROVE  Pending(Front(st), n)
BY FrontIs DEF Pending

LEMMA MoreNotices ==
    ASSUME NEW st, NEW k, NEW ini, NEW n \in Nat, NEW m \in Nat, n <= m,
           Calls(st, k, ini, n)
    PROVE  Calls(st, k, ini, m)
<1>1. Pending(st, m)
  <2> SUFFICES ASSUME NEW i \in 1..Len(st), st[i].fn = "detect" PROVE st[i].left <= m
    BY DEF Pending
  <2>1. st[i].left \in Nat /\ st[i].left <= n
    BY FrameType DEF Calls, Pending, J!Call
  <2>2. QED
    BY <2>1
<1>2. QED
  BY <1>1 DEF Calls

LEMMA PushCalls ==
    ASSUME NEW st, NEW k, NEW ini, NEW n, Calls(st, k, ini, n), ini, NEW f \in J!Call,
           f.fn = "app" \/ (f.fn = "poll" /\ k[f.slot].connected)
    PROVE  Calls(Append(st, f), k, ini, n)
<1>1. Shape(Append(st, f), ini) /\ Fit(Append(st, f), k) /\ Append(st, f) \in Seq(J!Call)
  BY PushShape, PushFit, AppendIs DEF Calls, Owner
<1>2. Pending(Append(st, f), n)
  BY PushPending DEF Calls
<1>3. QED
  BY <1>1, <1>2 DEF Calls

LEMMA PopCalls ==
    ASSUME NEW st, NEW k, NEW ini, NEW n, Calls(st, k, ini, n), ini, st # <<>>, ~Owner(st[Len(st)])
    PROVE  Calls(Front(st), k, ini, n)
<1>1. Shape(Front(st), ini) /\ Fit(Front(st), k) /\ Front(st) \in Seq(J!Call)
  BY PopShape, PopFit, FrontIs DEF Calls
<1>2. Pending(Front(st), n)
  BY PopPending DEF Calls
<1>3. QED
  BY <1>1, <1>2 DEF Calls

LEMMA ReplaceCalls ==
    ASSUME NEW st, NEW k, NEW ini, NEW n, Calls(st, k, ini, n), st # <<>>,
           NEW f \in J!Call, f.fn = st[Len(st)].fn, f.fn \in {"init", "pollAll"}
    PROVE  Calls(Append(Front(st), f), k, ini, n)
<1>1. /\ Front(st) \in Seq(J!Call) /\ Append(Front(st), f) \in Seq(J!Call)
      /\ Append(Front(st), f) # <<>>
  BY FrontIs, AppendIs, EmptySeq DEF Calls
<1>2. Shape(Append(Front(st), f), ini)
  BY ReplaceShape DEF Calls
<1>3. ~Owner(f) /\ ~Owner(st[Len(st)]) /\ f.fn # "poll"
  BY DEF Owner
<1>4. Fit(Front(st), k)
  BY <1>3, PopFit DEF Calls
<1>5. Fit(Append(Front(st), f), k)
  BY <1>1, <1>3, <1>4, PushFit
<1>6. Pending(Append(Front(st), f), n)
  BY PopPending, PushPending, FrontIs DEF Calls
<1>7. QED
  BY <1>1, <1>2, <1>5, <1>6 DEF Calls

\* What opens or closes nothing has every slot connected or free.
LEMMA NothingHeld ==
    ASSUME NEW st, NEW k, NEW ini, NEW n, Calls(st, k, ini, n),
           st = <<>> \/ st[Len(st)].fn \in {"detect", "init"}
    PROVE  /\ \A i \in 1..Len(st) : ~Owner(st[i]) /\ st[i].fn # "poll"
           /\ \A s \in J!Slot : k[s].allocated => k[s].connected
<1>1. \A i \in 1..Len(st) : ~Owner(st[i]) /\ st[i].fn # "poll"
  <2>1. CASE st = <<>>
    BY <2>1
  <2>2. CASE st # <<>> /\ st[Len(st)].fn \in {"detect", "init"}
    <3>1. Len(st) \in Nat \ {0} /\ Len(st) \in 1..Len(st)
      BY <2>2, EmptySeq DEF Calls
    <3>2. QED
      BY <2>2, <3>1 DEF Calls, Shape, Owner
  <2>3. QED
    BY <2>1, <2>2
<1>2. QED
  BY <1>1 DEF Calls, Fit, HeldHaveOwner

LEMMA CallOfType ==
    ASSUME NEW s \in J!Slot,
           NEW n \in {"init", "detect", "connect", "poll", "pollAll", "close", "app"}
    PROVE  /\ J!CallOf(n, s) \in J!Call
           /\ J!CallOf(n, s).fn = n /\ J!CallOf(n, s).slot = s
           /\ J!CallOf(n, s).left = 0 /\ J!CallOf(n, s).tried = {}
BY DEF J!CallOf, J!Call

LEMMA OpenSlots ==
    ASSUME NEW k, Slots(k), NEW s \in J!Slot, ~k[s].allocated,
           NEW o \in J!Joystick, o.allocated, o.path \in J!Device,
           \A t \in J!Slot : k[t].allocated => k[t].path # o.path
    PROVE  Slots([k EXCEPT ![s] = o])
BY DEF Slots, OneSlotEach

LEMMA OpenCalls ==
    ASSUME NEW st, NEW k, NEW ini, NEW n, Calls(st, k, ini, n), ini,
           st # <<>>, st[Len(st)].fn = "detect",
           NEW s \in J!Slot, ~k[s].allocated,
           NEW o \in J!Joystick, o.allocated, ~o.connected, o.path \in J!Device,
           \A t \in J!Slot : k[t].allocated => k[t].path # o.path
    PROVE  Calls(Append(st, J!CallOf("connect", s)), [k EXCEPT ![s] = o], ini, n)
<1> DEFINE f == J!CallOf("connect", s)
           q == [k EXCEPT ![s] = o]
<1>1. f \in J!Call /\ f.fn = "connect"
  BY CallOfType
<1>2. \A i \in 1..Len(st) : st[i].fn # "poll"
  BY NothingHeld
<1>3. Fit(Append(st, f), q)
  BY <1>2, OpenFit DEF Calls, Slots
<1>4. Slots(q)
  BY OpenSlots DEF Calls
<1> HIDE DEF f, q
<1>5. Shape(Append(st, f), ini) /\ Append(st, f) \in Seq(J!Call)
  BY <1>1, PushShape, AppendIs DEF Calls
<1>6. Calls(Append(st, f), q, ini, n)
  BY <1>1, <1>3, <1>4, <1>5, PushPending DEF Calls
<1>7. QED
  BY <1>6 DEF f, q

LEMMA ConnectedType ==
    ASSUME NEW k \in [J!Slot -> J!Joystick], NEW s \in J!Slot, NEW b \in BOOLEAN
    PROVE  [k EXCEPT ![s].connected = b] \in [J!Slot -> J!Joystick]
<1>1. \A r \in J!Joystick : [r EXCEPT !.connected = b] \in J!Joystick
  BY DEF J!Joystick
<1>2. QED
  BY <1>1

LEMMA ConnectCalls ==
    ASSUME NEW st, NEW k, NEW ini, NEW n, Calls(st, k, ini, n), ini,
           st # <<>>, st[Len(st)].fn = "connect"
    PROVE  Calls(Front(st), [k EXCEPT ![st[Len(st)].slot].connected = TRUE], ini, n)
<1> DEFINE s == st[Len(st)].slot
           q == [k EXCEPT ![s].connected = TRUE]
<1>1. s \in J!Slot /\ k[s].allocated
  <2>1. Len(st) \in 1..Len(st)
    BY EmptySeq DEF Calls
  <2>2. QED
    BY <2>1, FrameType DEF Calls, Fit, OwnersHold, Owner
<1>2. Fit(Front(st), q)
  BY ConnectFit DEF Calls, Slots
<1>3. Shape(Front(st), ini) /\ Front(st) \in Seq(J!Call)
  BY PopShape, FrontIs DEF Calls
<1>4. q \in [J!Slot -> J!Joystick]
  BY <1>1, ConnectedType DEF Calls, Slots
<1>5. \A t \in J!Slot : /\ q[t].allocated <=> k[t].allocated
                        /\ q[t].path = k[t].path
                        /\ t # s => q[t] = k[t]
  BY <1>1 DEF Calls, Slots, J!Joystick
<1> HIDE DEF s, q
<1>6. Slots(q)
  BY <1>1, <1>4, <1>5 DEF Calls, Slots, OneSlotEach
<1>7. Calls(Front(st), q, ini, n)
  BY <1>2, <1>3, <1>6, PopPending DEF Calls
<1>8. QED
  BY <1>7 DEF s, q

LEMMA CloseCalls ==
    ASSUME NEW st, NEW k, NEW ini, NEW n, Calls(st, k, ini, n), ini,
           NEW s \in J!Slot, k[s].connected
    PROVE  Calls(Append(st, J!CallOf("close", s)), [k EXCEPT ![s].connected = FALSE], ini, n)
<1> DEFINE f == J!CallOf("close", s)
           q == [k EXCEPT ![s].connected = FALSE]
<1>1. f \in J!Call /\ f.fn = "close"
  BY CallOfType
<1>2. k[s].allocated
  BY ConnectedAllocated DEF Calls
<1>3. Fit(Append(st, f), q)
  BY <1>2, CloseFit DEF Calls, Slots
<1>4. q \in [J!Slot -> J!Joystick]
  BY ConnectedType DEF Calls, Slots
<1>5. \A t \in J!Slot : /\ q[t].allocated <=> k[t].allocated
                        /\ q[t].path = k[t].path
                        /\ t # s => q[t] = k[t]
  BY DEF Calls, Slots, J!Joystick
<1> HIDE DEF f, q
<1>6. Slots(q)
  BY <1>2, <1>4, <1>5 DEF Calls, Slots, OneSlotEach
<1>7. Shape(Append(st, f), ini) /\ Append(st, f) \in Seq(J!Call)
  BY <1>1, PushShape, AppendIs DEF Calls
<1>8. Calls(Append(st, f), q, ini, n)
  BY <1>1, <1>3, <1>6, <1>7, PushPending DEF Calls
<1>9. QED
  BY <1>8 DEF f, q

LEMMA FreedType == J!Freed \in J!Joystick
<1>1. /\ <<>> \in Seq(J!Event) /\ 0 \in 0..MaxUpdates
  BY SticksAssumption DEF J!JoysticksAssumption
<1>2. QED
  BY <1>1 DEF J!Freed, J!Joystick, J!NoPath, J!Value

LEMMA FreeCalls ==
    ASSUME NEW st, NEW k, NEW ini, NEW n, Calls(st, k, ini, n), ini,
           st # <<>>, st[Len(st)].fn = "close"
    PROVE  Calls(Front(st), [k EXCEPT ![st[Len(st)].slot] = J!Freed], ini, n)
<1> DEFINE s == st[Len(st)].slot
           q == [k EXCEPT ![s] = J!Freed]
<1>1. Fit(Front(st), q)
  BY FreeFit DEF Calls, Slots
<1>2. Shape(Front(st), ini) /\ Front(st) \in Seq(J!Call)
  BY PopShape, FrontIs DEF Calls
<1>3. q \in [J!Slot -> J!Joystick]
  BY FreedType DEF Calls, Slots
<1>4. \A t \in J!Slot : q[t] = IF t = s THEN J!Freed ELSE k[t]
  BY DEF Calls, Slots
<1>5. ~J!Freed.allocated
  BY DEF J!Freed
<1> HIDE DEF s, q
<1>6. Slots(q)
  BY <1>3, <1>4, <1>5 DEF Calls, Slots, OneSlotEach
<1>7. Calls(Front(st), q, ini, n)
  BY <1>1, <1>2, <1>6, PopPending DEF Calls
<1>8. QED
  BY <1>7 DEF s, q

--------------------------------------------------------------------------------
(* The order in which initialization leaves the joysticks. *)

Rank(k, t) == Cardinality({u \in J!Slot : k[u].connected /\ k[u].path < k[t].path})

LEMMA SlotSet ==
    /\ J!Slot = 0..LastSlot /\ LastSlot \in Nat /\ NumDevices \in Nat \ {0}
    /\ IsFiniteSet(J!Slot) /\ Cardinality(J!Slot) = LastSlot + 1
<1>1. J!Slot = 0..LastSlot /\ LastSlot \in Nat /\ NumDevices \in Nat \ {0}
  BY SticksAssumption DEF J!JoysticksAssumption, J!Slot
<1>2. /\ IsFiniteSet(0..LastSlot)
      /\ Cardinality(0..LastSlot) = IF 0 > LastSlot THEN 0 ELSE LastSlot - 0 + 1
  <2>1. 0 \in Int /\ LastSlot \in Int
    BY <1>1
  <2>2. QED
    BY <2>1, FS_Interval
<1>3. QED
  BY <1>1, <1>2

LEMMA RankGrows ==
    ASSUME NEW k, Slots(k), NEW t \in J!Slot, NEW u \in J!Slot,
           k[t].connected, k[u].connected, k[t].path < k[u].path
    PROVE  Rank(k, t) < Rank(k, u)
<1> DEFINE A == {w \in J!Slot : k[w].connected /\ k[w].path < k[t].path}
           B == {w \in J!Slot : k[w].connected /\ k[w].path < k[u].path}
<1>1. IsFiniteSet(J!Slot)
  BY SlotSet
<1>2. IsFiniteSet(B)
  BY <1>1, FS_Subset
<1>3. \A w \in J!Slot : k[w].path \in Nat
  BY SlotSet DEF Slots, J!Joystick, J!Device, J!NoPath
<1>4. A \in SUBSET B
  BY <1>3
<1>5. t \in B /\ t \notin A
  BY <1>3
<1> HIDE DEF A, B
<1>6. /\ IsFiniteSet(A) /\ Cardinality(A) <= Cardinality(B)
      /\ Cardinality(B) = Cardinality(A) => B = A
  BY <1>2, <1>4, FS_Subset
<1>7. Cardinality(A) \in Nat /\ Cardinality(B) \in Nat
  BY <1>2, <1>6, FS_CardinalityType
<1>8. Cardinality(A) < Cardinality(B)
  BY <1>5, <1>6, <1>7
<1>9. QED
  BY <1>8 DEF Rank, A, B

LEMMA RankFits ==
    ASSUME NEW k, Slots(k), NEW m \in 0..LastSlot + 1, Filled(k, m),
           \A s \in J!Slot : k[s].allocated => k[s].connected
    PROVE  /\ \A t \in 0..m - 1 : Rank(k, t) \in 0..m - 1
           /\ \A t, u \in 0..m - 1 : Rank(k, t) = Rank(k, u) => t = u
           /\ \A s \in 0..m - 1 : \E t \in 0..m - 1 : Rank(k, t) = s
<1>1. \A s \in J!Slot : (k[s].connected <=> s < m) /\ (k[s].allocated <=> s < m)
  BY ConnectedAllocated DEF Filled
<1>2. m \in Nat /\ 0..m - 1 \subseteq J!Slot
  BY SlotSet
<1>3. \A t \in 0..m - 1 : Rank(k, t) \in 0..m - 1
  <2> SUFFICES ASSUME NEW t \in 0..m - 1 PROVE Rank(k, t) \in 0..m - 1
    OBVIOUS
  <2> DEFINE A == {u \in J!Slot : k[u].connected /\ k[u].path < k[t].path}
  <2>1. \A w \in J!Slot : k[w].path \in Nat
    BY SlotSet DEF Slots, J!Joystick, J!Device, J!NoPath
  <2>2. A \subseteq 0..m - 1 /\ t \notin A
    BY <1>1, <1>2, <2>1, SlotSet
  <2> HIDE DEF A
  <2>3. IsFiniteSet(0..m - 1) /\ Cardinality(0..m - 1) = m
    BY <1>2, FS_Interval
  <2>4. /\ IsFiniteSet(A) /\ Cardinality(A) <= Cardinality(0..m - 1)
        /\ Cardinality(0..m - 1) = Cardinality(A) => 0..m - 1 = A
    BY <2>2, <2>3, FS_Subset
  <2>5. Cardinality(A) \in Nat
    BY <2>4, FS_CardinalityType
  <2>6. Cardinality(A) \in 0..m - 1
    BY <1>2, <2>2, <2>3, <2>4, <2>5
  <2>7. QED
    BY <2>6 DEF A, Rank
<1>4. \A t, u \in 0..m - 1 : Rank(k, t) = Rank(k, u) => t = u
  <2> SUFFICES ASSUME NEW t \in 0..m - 1, NEW u \in 0..m - 1, t # u
               PROVE  Rank(k, t) # Rank(k, u)
    OBVIOUS
  <2>1. t \in J!Slot /\ u \in J!Slot /\ k[t].connected /\ k[u].connected
    BY <1>1, <1>2
  <2>2. k[t].path \in Nat /\ k[u].path \in Nat /\ k[t].path # k[u].path
    BY <1>1, <1>2, <2>1, SlotSet DEF Slots, OneSlotEach, J!Device
  <2>3. Rank(k, t) \in Nat /\ Rank(k, u) \in Nat
    BY <1>3
  <2>4. CASE k[t].path < k[u].path
    BY <2>1, <2>3, <2>4, RankGrows
  <2>5. CASE k[u].path < k[t].path
    BY <2>1, <2>3, <2>5, RankGrows
  <2>6. QED
    BY <2>2, <2>4, <2>5
<1>5. \A s \in 0..m - 1 : \E t \in 0..m - 1 : Rank(k, t) = s
  <2> SUFFICES ASSUME NEW s \in 0..m - 1, \A t \in 0..m - 1 : Rank(k, t) # s
               PROVE  FALSE
    OBVIOUS
  <2> DEFINE A == 0..m - 1
             B == (0..m - 1) \ {s}
             f == [t \in A |-> Rank(k, t)]
  <2>1. f \in [A -> B]
    BY <1>3
  <2>2. IsFiniteSet(A) /\ Cardinality(A) = m
    BY <1>2, FS_Interval
  <2>3. IsFiniteSet(B) /\ Cardinality(B) = m - 1
    BY <2>2, FS_RemoveElement
  <2>4. \A t, u \in A : f[t] = f[u] => t = u
    BY <1>4
  <2> HIDE DEF A, B, f
  <2>5. \E t, u \in A : t # u /\ f[t] = f[u]
    BY <1>2, <2>1, <2>2, <2>3, FS_PigeonHole
  <2>6. QED
    BY <2>4, <2>5
<1>6. QED
  BY <1>3, <1>4, <1>5

\* Initialization permutes the slots.
IsPermuted(q, k, p) ==
    /\ p \in [J!Slot -> J!Slot]
    /\ \A s \in J!Slot : q[s] = k[p[s]]
    /\ \A s, t \in J!Slot : p[s] = p[t] => s = t
    /\ \A t \in J!Slot : \E s \in J!Slot : p[s] = t

LEMMA SortPermutes ==
    ASSUME NEW k, Slots(k), NEW m \in 0..LastSlot + 1, Filled(k, m),
           \A s \in J!Slot : k[s].allocated => k[s].connected,
           NEW q, q = [s \in J!Slot |->
                         IF \E t \in J!Slot : k[t].connected /\ Rank(k, t) = s
                         THEN k[CHOOSE t \in J!Slot : k[t].connected /\ Rank(k, t) = s]
                         ELSE k[s]]
    PROVE  \E p : IsPermuted(q, k, p)
<1> DEFINE p == [s \in J!Slot |->
                   IF \E t \in J!Slot : k[t].connected /\ Rank(k, t) = s
                   THEN CHOOSE t \in J!Slot : k[t].connected /\ Rank(k, t) = s
                   ELSE s]
<1>1. \A s \in J!Slot : (k[s].connected <=> s < m)
  BY ConnectedAllocated DEF Filled
<1>2. m \in Nat /\ \A s \in J!Slot : s < m <=> s \in 0..m - 1
  BY SlotSet
<1>3. 0..m - 1 \subseteq J!Slot
  BY SlotSet
<1>4. \A s \in J!Slot : s < m => \E t \in J!Slot : k[t].connected /\ Rank(k, t) = s
  BY <1>1, <1>2, <1>3, RankFits
<1>5. \A s, t \in J!Slot : k[t].connected /\ Rank(k, t) = s => s < m /\ t < m
  BY <1>1, <1>2, <1>3, RankFits
<1>6. \A s \in J!Slot : s < m => p[s] \in J!Slot /\ p[s] < m /\ Rank(k, p[s]) = s
  BY <1>4, <1>5
<1>7. \A s \in J!Slot : ~(s < m) => p[s] = s
  BY <1>5
<1>8. \A s \in J!Slot : q[s] = k[p[s]]
  BY <1>4, <1>5
<1>9. p \in [J!Slot -> J!Slot]
  BY <1>6, <1>7
<1> HIDE DEF p
<1>10. \A s, t \in J!Slot : p[s] = p[t] => s = t
  BY <1>6, <1>7
<1>11. \A t \in J!Slot : \E s \in J!Slot : p[s] = t
  <2> SUFFICES ASSUME NEW t \in J!Slot PROVE \E s \in J!Slot : p[s] = t
    OBVIOUS
  <2>1. CASE ~(t < m)
    BY <1>7, <2>1
  <2>2. CASE t < m
    <3>1. t \in 0..m - 1 /\ Rank(k, t) \in 0..m - 1
      BY <1>2, <2>2, RankFits
    <3>2. Rank(k, t) \in J!Slot /\ Rank(k, t) < m
      BY <1>2, <1>3, <3>1
    <3>3. p[Rank(k, t)] \in 0..m - 1 /\ Rank(k, p[Rank(k, t)]) = Rank(k, t)
      BY <1>2, <1>6, <3>2
    <3>4. p[Rank(k, t)] = t
      BY <3>1, <3>3, RankFits
    <3>5. QED
      BY <3>2, <3>4
  <2>3. QED
    BY <2>1, <2>2
<1>12. QED
  BY <1>8, <1>9, <1>10, <1>11 DEF IsPermuted

LEMMA PermutedSlots ==
    ASSUME NEW k, Slots(k), NEW q, NEW p, IsPermuted(q, k, p), DOMAIN q = J!Slot,
           q = [s \in J!Slot |-> q[s]]
    PROVE  Slots(q)
<1>1. \A s \in J!Slot : p[s] \in J!Slot /\ q[s] = k[p[s]]
  BY DEF IsPermuted
<1>2. q \in [J!Slot -> J!Joystick]
  BY <1>1 DEF Slots
<1>3. \A s \in J!Slot : q[s].allocated \/ q[s] = J!Freed
  BY <1>1 DEF Slots
<1>4. OneSlotEach(q)
  <2>1. \A s \in J!Slot : q[s].allocated => q[s].path \in J!Device
    BY <1>1 DEF Slots, OneSlotEach
  <2>2. ASSUME NEW s \in J!Slot, NEW t \in J!Slot, q[s].allocated, q[t].allocated,
               q[s].path = q[t].path
        PROVE  s = t
    <3>1. p[s] = p[t]
      BY <1>1, <2>2 DEF Slots, OneSlotEach
    <3>2. QED
      BY <3>1 DEF IsPermuted
  <2>3. QED
    BY <2>1, <2>2 DEF OneSlotEach
<1>5. QED
  BY <1>2, <1>3, <1>4 DEF Slots

--------------------------------------------------------------------------------
(* Every step keeps the calls and the slots in order. *)

RestType ==
    /\ node \in [J!Device -> J!NodeState]
    /\ axis \in [J!Device -> J!Value] /\ button \in [J!Device -> J!Value]
    /\ initialized \in BOOLEAN /\ watching \in BOOLEAN
    /\ inotify \in Seq(J!Notice)
    /\ dropper \in J!Slot \union {J!NoSlot, J!Vanished}
    /\ moved \in 0..MaxUpdates
    /\ plugs \in 0..MaxPlugs /\ moves \in 0..MaxMoves

CallsInv == RestType /\ Calls(stack, js, initialized, Len(inotify))

LEMMA TopIs ==
    ASSUME CallsInv, stack # <<>>
    PROVE  /\ Len(stack) \in Nat \ {0} /\ Len(stack) \in 1..Len(stack)
           /\ J!Top = stack[Len(stack)] /\ J!Below = Front(stack)
           /\ J!Top \in J!Call /\ J!Top.slot \in J!Slot
           /\ J!Top.left \in Nat /\ J!Top.tried \in SUBSET J!Device
           /\ Front(stack) \in Seq(J!Call)
           /\ initialized <=> J!Top.fn # "init"
           /\ J!Top.fn = "init" => Len(stack) = 1
<1>1. stack \in Seq(J!Call) /\ Shape(stack, initialized) /\ initialized \in BOOLEAN
  BY DEF CallsInv, Calls
<1>2. Len(stack) \in Nat \ {0} /\ Len(stack) \in 1..Len(stack)
  BY <1>1, EmptySeq
<1>3. J!Top = stack[Len(stack)] /\ J!Below = Front(stack)
  BY DEF J!Top, J!Below, Front
<1>4. J!Top \in J!Call
  BY <1>1, <1>2, <1>3, ElementOfSeq
<1>5. J!Top.slot \in J!Slot /\ J!Top.left \in Nat /\ J!Top.tried \in SUBSET J!Device
  BY <1>4 DEF J!Call
<1>6. Front(stack) \in Seq(J!Call)
  BY <1>1, FrontIs
<1>7. /\ initialized <=> J!Top.fn # "init"
      /\ J!Top.fn = "init" => Len(stack) = 1
  BY <1>1, <1>2, <1>3 DEF Shape
<1>8. QED
  BY <1>2, <1>3, <1>4, <1>5, <1>6, <1>7

LEMMA CallbackType == J!Callback \in J!Call /\ J!Callback.fn = "app"
<1>1. 0 \in J!Slot
  BY SlotSet
<1>2. QED
  BY <1>1, CallOfType DEF J!Callback

LEMMA TellCalls ==
    ASSUME NEW st, NEW k, NEW ini, NEW n, Calls(st, k, ini, n), ini, NEW c, J!Tell(c, st)
    PROVE  Calls(stack', k, ini, n)
BY CallbackType, PushCalls DEF J!Tell

LEMMA NoticeType ==
    ASSUME CallsInv, NEW d \in J!Device, NEW w \in {"create", "attrib", "delete"},
           J!Notify(w, d)
    PROVE  /\ inotify' \in Seq(J!Notice)
           /\ \A k : Calls(stack, k, initialized, Len(inotify)) =>
                      Calls(stack, k, initialized, Len(inotify'))
<1>1. [what |-> w, path |-> d] \in J!Notice
  BY DEF J!Notice
<1>2. inotify \in Seq(J!Notice)
  BY DEF CallsInv, RestType
<1>3. /\ inotify' \in Seq(J!Notice) /\ Len(inotify) \in Nat /\ Len(inotify') \in Nat
      /\ Len(inotify) <= Len(inotify')
  BY <1>1, <1>2, AppendIs, LenProperties DEF J!Notify
<1>4. QED
  BY <1>3, MoreNotices

LEMMA UnplugIs ==
    ASSUME CallsInv, NEW d \in J!Device, J!Unplug(d)
    PROVE  /\ js' \in [J!Slot -> J!Joystick]
           /\ \A s \in J!Slot :
                js'[s] = IF js[s].path = d THEN [js[s] EXCEPT !.alive = FALSE] ELSE js[s]
<1>1. js \in [J!Slot -> J!Joystick]
  BY DEF CallsInv, Calls, Slots
<1>2. \A r \in J!Joystick : [r EXCEPT !.alive = FALSE] \in J!Joystick
  BY DEF J!Joystick
<1>3. js' = [s \in J!Slot |-> IF js[s].path = d THEN [js[s] EXCEPT !.alive = FALSE] ELSE js[s]]
  BY DEF J!Unplug
<1>4. QED
  BY <1>1, <1>2, <1>3

\* All but the events, and what is not heard of.
SameButEvents(q, r) ==
    /\ q.allocated <=> r.allocated
    /\ q.connected <=> r.connected
    /\ q.alive <=> r.alive
    /\ q.overtaken <=> r.overtaken
    /\ q.path = r.path /\ q.axis = r.axis /\ q.button = r.button /\ q.mapping = r.mapping

LEMMA EventTypes ==
    /\ J!Dropped \in J!Event /\ J!Report \in J!Event
    /\ \A n \in {"key", "abs"}, v \in J!Value : [type |-> n, value |-> v] \in J!Event
    /\ \A e \in J!Event : e.type \in {"key", "abs"} => e.value \in J!Value
BY DEF J!Dropped, J!Report, J!Event, J!Value

\* What the kernel makes of a queue.
Queued(q, n, v) ==
    IF Len(q) + 2 > QueueSize THEN <<J!Dropped, J!Report>>
    ELSE q \o <<[type |-> n, value |-> v], J!Report>>

LEMMA QueuedType ==
    ASSUME NEW q \in Seq(J!Event), NEW n \in {"key", "abs"}, NEW v \in J!Value
    PROVE  Queued(q, n, v) \in Seq(J!Event)
<1>1. \A a, b \in J!Event : <<a, b>> \in Seq(J!Event)
  OBVIOUS
<1>2. \A p \in Seq(J!Event) : q \o p \in Seq(J!Event)
  BY ConcatProperties
<1>3. QED
  BY <1>1, <1>2, EventTypes DEF Queued

LEMMA DeliverIs ==
    ASSUME CallsInv, NEW d \in J!Device, NEW n \in {"key", "abs"}, NEW v \in J!Value,
           J!Deliver(d, n, v)
    PROVE  /\ js' \in [J!Slot -> J!Joystick]
           /\ \A s \in J!Slot :
                /\ SameButEvents(js'[s], js[s])
                /\ js[s].path # d \/ ~js[s].alive => js'[s] = js[s]
                /\ js[s].path = d /\ js[s].alive =>
                     /\ js'[s].events = Queued(js[s].events, n, v)
                     /\ IF Len(js[s].events) + 2 > QueueSize THEN js'[s].unheard
                        ELSE js'[s].unheard <=> js[s].unheard
<1>1. js \in [J!Slot -> J!Joystick]
  BY DEF CallsInv, Calls, Slots
<1> DEFINE New(r) == IF r.path # d \/ ~r.alive THEN r
                     ELSE IF Len(r.events) + 2 > QueueSize
                       THEN [r EXCEPT !.events = <<J!Dropped, J!Report>>, !.unheard = TRUE]
                       ELSE [r EXCEPT !.events =
                               @ \o <<[type |-> n, value |-> v], J!Report>>]
<1>2. js' = [s \in J!Slot |-> New(js[s])]
  BY Zenon DEF J!Deliver
<1>3. ASSUME NEW r \in J!Joystick
      PROVE  /\ New(r) \in J!Joystick
             /\ SameButEvents(New(r), r)
             /\ r.path = d /\ r.alive =>
                     /\ New(r).events = Queued(r.events, n, v)
                     /\ IF Len(r.events) + 2 > QueueSize THEN New(r).unheard
                        ELSE New(r).unheard <=> r.unheard
  <2>1. r.events \in Seq(J!Event)
    BY DEF J!Joystick
  <2>2. Queued(r.events, n, v) \in Seq(J!Event)
    BY <2>1, QueuedType
  <2> DEFINE q == Queued(r.events, n, v)
             lost == [r EXCEPT !.events = q, !.unheard = TRUE]
             kept == [r EXCEPT !.events = q]
  <2>3. q \in Seq(J!Event)
    BY <2>2
  <2> HIDE DEF q
  <2>4. /\ lost \in J!Joystick /\ SameButEvents(lost, r)
        /\ lost.events = q /\ lost.unheard
        /\ kept \in J!Joystick /\ SameButEvents(kept, r)
        /\ kept.events = q /\ (kept.unheard <=> r.unheard)
    BY <2>3 DEF J!Joystick, SameButEvents
  <2>5. CASE r.path # d \/ ~r.alive
    BY <2>5 DEF SameButEvents
  <2>6. CASE r.path = d /\ r.alive /\ Len(r.events) + 2 > QueueSize
    <3>1. New(r) = lost
      BY <2>6 DEF Queued, q
    <3> HIDE DEF New, lost
    <3>2. QED
      BY <2>4, <2>6, <3>1 DEF q
  <2>7. CASE r.path = d /\ r.alive /\ ~(Len(r.events) + 2 > QueueSize)
    <3>1. New(r) = kept
      BY <2>7 DEF Queued, q
    <3> HIDE DEF New, kept
    <3>2. QED
      BY <2>4, <2>7, <3>1 DEF q
  <2>8. QED
    BY <2>5, <2>6, <2>7
<1>4. \A s \in J!Slot : js[s].path # d \/ ~js[s].alive => New(js[s]) = js[s]
  OBVIOUS
<1> HIDE DEF New
<1>5. QED
  BY <1>1, <1>2, <1>3, <1>4

LEMMA MoveIs ==
    ASSUME CallsInv, NEW d \in J!Device, J!Move(d)
    PROVE  /\ node[d] = "ready" /\ moves' \in 0..MaxMoves
           /\ \/ /\ axis' = [axis EXCEPT ![d] = 1 - @] /\ button' = button
                 /\ 1 - axis[d] \in J!Value
                 /\ J!Deliver(d, "abs", 1 - axis[d])
              \/ /\ button' = [button EXCEPT ![d] = 1 - @] /\ axis' = axis
                 /\ 1 - button[d] \in J!Value
                 /\ J!Deliver(d, "key", 1 - button[d])
           /\ UNCHANGED <<node, plugs, initialized, watching, inotify, dropper, moved, stack>>
<1>1. axis[d] \in J!Value /\ button[d] \in J!Value /\ moves \in 0..MaxMoves
  BY DEF CallsInv, RestType
<1>2. \A v \in J!Value : 1 - v \in J!Value
  BY DEF J!Value
<1>3. moves' \in 0..MaxMoves
  BY <1>1, SticksAssumption DEF J!Move, J!JoysticksAssumption
<1>4. QED
  BY <1>1, <1>2, <1>3 DEF J!Move, J!libraryVars

LEMMA KernelCalls == CallsInv /\ J!Kernel => CallsInv'
<1> SUFFICES ASSUME CallsInv, NEW d \in J!Device,
                    J!Plug(d) \/ J!Permit(d) \/ J!Unplug(d) \/ J!Move(d)
             PROVE  CallsInv'
  BY DEF J!Kernel
<1>1. CASE J!Plug(d)
  <2>1. inotify' \in Seq(J!Notice)
    BY <1>1, NoticeType DEF J!Plug
  <2>2. plugs' \in 0..MaxPlugs
    BY <1>1, SticksAssumption DEF J!Plug, J!JoysticksAssumption, CallsInv, RestType
  <2>3. RestType'
    BY <1>1, <2>1, <2>2 DEF J!Plug, CallsInv, RestType, J!NodeState
  <2>4. Calls(stack, js, initialized, Len(inotify'))
    BY <1>1, NoticeType DEF J!Plug, CallsInv
  <2>5. QED
    BY <1>1, <2>3, <2>4 DEF J!Plug, CallsInv
<1>2. CASE J!Permit(d)
  <2>1. inotify' \in Seq(J!Notice)
    BY <1>2, NoticeType DEF J!Permit
  <2>2. RestType'
    BY <1>2, <2>1 DEF J!Permit, CallsInv, RestType, J!NodeState
  <2>3. Calls(stack, js, initialized, Len(inotify'))
    BY <1>2, NoticeType DEF J!Permit, CallsInv
  <2>4. QED
    BY <1>2, <2>2, <2>3 DEF J!Permit, CallsInv
<1>3. CASE J!Unplug(d)
  <2>1. inotify' \in Seq(J!Notice)
    BY <1>3, NoticeType DEF J!Unplug
  <2>2. RestType'
    BY <1>3, <2>1 DEF J!Unplug, CallsInv, RestType, J!NodeState
  <2>3. \A s \in J!Slot : /\ js'[s].allocated <=> js[s].allocated
                          /\ js'[s].connected <=> js[s].connected
                          /\ js'[s].path = js[s].path
                          /\ js[s].path # d => js'[s] = js[s]
    BY <1>3, UnplugIs DEF CallsInv, Calls, Slots, J!Joystick
  <2>4. \A s \in J!Slot : js[s].path = d => js[s].allocated
    BY SlotSet DEF CallsInv, Calls, Slots, J!Freed, J!NoPath, J!Device
  <2>5. Calls(stack, js', initialized, Len(inotify))
    BY <1>3, <2>3, <2>4, UnplugIs, SameCalls DEF CallsInv
  <2>6. Calls(stack, js', initialized, Len(inotify'))
    BY <1>3, <2>5, NoticeType DEF J!Unplug
  <2>7. stack' = stack /\ initialized' = initialized
    BY <1>3 DEF J!Unplug
  <2>8. QED
    BY <2>2, <2>6, <2>7 DEF CallsInv
<1>4. CASE J!Move(d)
  <2>1. RestType'
    BY <1>4, MoveIs DEF CallsInv, RestType
  <2>2. PICK n \in {"key", "abs"}, v \in J!Value : J!Deliver(d, n, v)
    BY <1>4, MoveIs
  <2>3. \A s \in J!Slot : js[s].alive => js[s].allocated
    BY ConnectedAllocated DEF CallsInv, Calls
  <2>4. Calls(stack, js', initialized, Len(inotify))
    BY <2>2, <2>3, DeliverIs, SameCalls DEF CallsInv, SameButEvents
  <2>5. stack' = stack /\ initialized' = initialized /\ inotify' = inotify
    BY <1>4, MoveIs
  <2>6. QED
    BY <2>1, <2>4, <2>5 DEF CallsInv
<1>5. QED
  BY <1>1, <1>2, <1>3, <1>4

LEMMA OpenedIs ==
    ASSUME CallsInv, NEW d \in J!Device, NEW c \in BOOLEAN
    PROVE  /\ J!Opened(d, c) \in J!Joystick
           /\ J!Opened(d, c).allocated /\ (J!Opened(d, c).connected <=> c)
           /\ J!Opened(d, c).path = d /\ J!Opened(d, c).alive
           /\ J!Opened(d, c).events = <<>> /\ J!Opened(d, c).axis = axis[d]
           /\ J!Opened(d, c).button = 0 /\ (J!Opened(d, c).unheard <=> button[d] # 0)
           /\ J!Opened(d, c).mapping = moved
<1>1. axis[d] \in J!Value /\ moved \in 0..MaxUpdates /\ <<>> \in Seq(J!Event) /\ 0 \in J!Value
  BY DEF CallsInv, RestType, J!Value
<1>2. J!Opened(d, c) \in J!Joystick
  BY <1>1 DEF J!Opened, J!Joystick
<1>3. QED
  BY <1>2 DEF J!Opened

\* No slot that is in use has the path of a device that can be opened, if
\* nothing is held.
LEMMA CanOpenIs ==
    ASSUME CallsInv, NEW d \in J!Device, J!CanOpen(d),
           \A s \in J!Slot : js[s].allocated => js[s].connected
    PROVE  /\ node[d] = "ready"
           /\ \A t \in J!Slot : js[t].allocated => js[t].path # d
BY DEF J!CanOpen

LEMMA InitFrame ==
    ASSUME NEW k, NEW n, Slots(k), \A s \in J!Slot : k[s].allocated => k[s].connected,
           NEW m \in 0..LastSlot + 1, Filled(k, m),
           NEW f \in J!Call, f.fn = "init"
    PROVE  Calls(<<f>>, k, FALSE, n)
<1>1. <<f>> \in Seq(J!Call) /\ Len(<<f>>) = 1 /\ <<f>>[1] = f /\ <<f>> # <<>>
  OBVIOUS
<1> DEFINE st == <<f>>
<1> HIDE DEF st
<1>2. Shape(st, FALSE)
  BY <1>1 DEF Shape, st
<1>3. OwnersHold(st, k) /\ OneOwner(st) /\ PollsFind(st, k)
  BY <1>1 DEF OwnersHold, OneOwner, PollsFind, Owner, st
<1>3a. Pending(st, n)
  BY <1>1 DEF Pending, st
<1>4. HeldHaveOwner(st, k)
  BY DEF HeldHaveOwner
<1>5. QED
  BY <1>1, <1>2, <1>3, <1>3a, <1>4 DEF Calls, Fit, st

LEMMA NoFrame ==
    ASSUME NEW k, NEW n, Slots(k), \A s \in J!Slot : k[s].allocated => k[s].connected,
           NEW ini \in BOOLEAN, ini \/ Filled(k, 0)
    PROVE  Calls(<<>>, k, ini, n)
<1>1. <<>> \in Seq(J!Call) /\ Len(<<>>) = 0
  OBVIOUS
<1>2. /\ Shape(<<>>, ini) /\ OwnersHold(<<>>, k) /\ OneOwner(<<>>) /\ PollsFind(<<>>, k)
      /\ Pending(<<>>, n)
  BY <1>1 DEF Shape, OwnersHold, OneOwner, PollsFind, Pending
<1>3. HeldHaveOwner(<<>>, k)
  BY DEF HeldHaveOwner
<1>4. 0 \in 0..LastSlot + 1
  BY SlotSet
<1>5. QED
  BY <1>1, <1>2, <1>3, <1>4 DEF Calls, Fit

LEMMA NoneSlots ==
    LET k == [s \in J!Slot |-> J!Freed]
    IN  Slots(k) /\ Filled(k, 0) /\ \A s \in J!Slot : k[s].allocated => k[s].connected
<1> DEFINE k == [s \in J!Slot |-> J!Freed]
<1>1. k \in [J!Slot -> J!Joystick]
  BY FreedType
<1>2. \A s \in J!Slot : k[s] = J!Freed /\ ~k[s].allocated
  BY DEF J!Freed
<1>3. \A s \in J!Slot : ~(s < 0)
  BY SlotSet
<1> HIDE DEF k
<1>4. Slots(k) /\ Filled(k, 0) /\ \A s \in J!Slot : k[s].allocated => k[s].connected
  BY <1>1, <1>2, <1>3 DEF Slots, OneSlotEach, Filled
<1>5. QED
  BY <1>4 DEF k

LEMMA InitCallsInv == J!Init => CallsInv
<1> SUFFICES ASSUME J!Init PROVE CallsInv
  OBVIOUS
<1>1. Calls(stack, js, initialized, Len(inotify))
  BY NoneSlots, NoFrame DEF J!Init
<1>2. <<>> \in Seq(J!Notice) /\ 0 \in 0..MaxUpdates /\ 0 \in 0..MaxPlugs /\ 0 \in 0..MaxMoves
  BY SticksAssumption DEF J!JoysticksAssumption
<1>3. /\ node \in [J!Device -> J!NodeState]
      /\ axis \in [J!Device -> J!Value] /\ button \in [J!Device -> J!Value]
  BY DEF J!Init, J!NodeState, J!Value
<1>4. RestType
  BY <1>2, <1>3 DEF J!Init, RestType
<1>5. QED
  BY <1>1, <1>4 DEF CallsInv

LEMMA InitOpenIs ==
    ASSUME CallsInv, NEW d \in J!Device, J!InitOpen(d)
    PROVE  /\ stack # <<>> /\ J!Top.fn = "init" /\ ~initialized
           /\ \A s \in J!Slot : js[s].allocated => js[s].connected
           /\ \/ ~J!CanOpen(d) /\ js' = js
              \/ /\ J!CanOpen(d)
                 /\ \E s \in J!Slot : /\ J!IsFreeSlot(s)
                                      /\ js' = [js EXCEPT ![s] = J!Opened(d, TRUE)]
           /\ \E f \in J!Call : /\ stack' = <<f>> /\ f.fn = "init"
                                /\ f.tried = J!Top.tried \union {d}
<1>1. stack # <<>> /\ J!Top.fn = "init"
  BY DEF J!InitOpen, J!Running
<1>2. \A s \in J!Slot : js[s].allocated => js[s].connected
  BY <1>1, TopIs, NothingHeld DEF CallsInv
<1> DEFINE f == [J!Top EXCEPT !.tried = @ \union {d}]
<1>3. J!Top \in J!Call
  BY <1>1, TopIs
<1>4. f \in J!Call /\ f.fn = J!Top.fn /\ f.tried = J!Top.tried \union {d}
  BY <1>3 DEF J!Call
<1>5. stack' = <<f>>
  BY DEF J!InitOpen
<1> HIDE DEF f
<1>6. QED
  BY <1>1, <1>2, <1>4, <1>5, TopIs DEF J!InitOpen

LEMMA InitDoneIs ==
    ASSUME CallsInv, J!InitDone
    PROVE  /\ stack # <<>> /\ J!Top.fn = "init" /\ ~initialized
           /\ \A s \in J!Slot : js[s].allocated => js[s].connected
           /\ DOMAIN js' = J!Slot /\ js' = [s \in J!Slot |-> js'[s]]
           /\ \E p : IsPermuted(js', js, p)
<1>1. stack # <<>> /\ J!Top.fn = "init"
  BY DEF J!InitDone, J!Running
<1>2. ~initialized
  BY <1>1, TopIs
<1>3. \A s \in J!Slot : js[s].allocated => js[s].connected
  BY <1>1, TopIs, NothingHeld DEF CallsInv
<1>4. js' = [s \in J!Slot |->
               IF \E t \in J!Slot : js[t].connected /\ Rank(js, t) = s
               THEN js[CHOOSE t \in J!Slot : js[t].connected /\ Rank(js, t) = s]
               ELSE js[s]]
  <2>1. \A S : J!Cardinality(S) = Cardinality(S)
    BY DEF J!Cardinality, Cardinality
  <2>2. \A t : J!Earlier(t) = Rank(js, t)
    BY <2>1 DEF J!Earlier, Rank
  <2>3. js' = [s \in J!Slot |->
                 IF \E t \in J!Slot : js[t].connected /\ J!Earlier(t) = s
                 THEN js[CHOOSE t \in J!Slot : js[t].connected /\ J!Earlier(t) = s]
                 ELSE js[s]]
    BY Zenon DEF J!InitDone
  <2>4. QED
    BY Zenon, <2>2, <2>3
<1>5. DOMAIN js' = J!Slot /\ js' = [s \in J!Slot |-> js'[s]]
  BY <1>4
<1>6. PICK m \in 0..LastSlot + 1 : Filled(js, m)
  BY <1>2 DEF CallsInv, Calls
<1>7. \E p : IsPermuted(js', js, p)
  BY <1>3, <1>4, <1>6, SortPermutes DEF CallsInv, Calls
<1>8. QED
  BY <1>1, <1>2, <1>3, <1>5, <1>7

LEMMA SetupCalls == CallsInv /\ J!Setup => CallsInv'
<1> SUFFICES ASSUME CallsInv, J!Setup PROVE CallsInv'
  OBVIOUS
<1>1. CASE J!BeginInit
  <2>1. 0 \in J!Slot
    BY SlotSet
  <2>2. J!CallOf("init", 0) \in J!Call /\ J!CallOf("init", 0).fn = "init"
    BY <2>1, CallOfType
  <2>3. stack = <<>> /\ ~initialized /\ Filled(js, 0) /\ Slots(js)
    BY <1>1 DEF J!BeginInit, CallsInv, Calls
  <2>4. \A s \in J!Slot : js[s].allocated => js[s].connected
    BY <2>3, NothingHeld DEF CallsInv
  <2>5. 0 \in 0..LastSlot + 1
    BY SlotSet
  <2>6. Calls(<<J!CallOf("init", 0)>>, js, FALSE, Len(inotify))
    BY <2>2, <2>3, <2>4, <2>5, InitFrame
  <2>7. /\ stack' = <<J!CallOf("init", 0)>> /\ js' = js
        /\ initialized' = FALSE /\ inotify' = inotify
    BY <1>1, <2>3 DEF J!BeginInit, CallsInv, Calls
  <2>8. RestType'
    BY <1>1 DEF J!BeginInit, J!deviceVars, CallsInv, RestType
  <2>9. QED
    BY <2>6, <2>7, <2>8 DEF CallsInv
<1>2. ASSUME NEW d \in J!Device, J!InitOpen(d)
      PROVE  CallsInv'
  <2>1. initialized' = FALSE /\ ~initialized
    BY <1>2, InitOpenIs DEF J!InitOpen, J!libraryVars, CallsInv, RestType
  <2>2. PICK f \in J!Call : stack' = <<f>> /\ f.fn = "init"
    BY <1>2, InitOpenIs
  <2>3. PICK m \in 0..LastSlot + 1 : Filled(js, m)
    BY <2>1 DEF CallsInv, Calls
  <2>4. \A s \in J!Slot : js[s].allocated => js[s].connected
    BY <1>2, InitOpenIs
  <2>5. Slots(js)
    BY DEF CallsInv, Calls
  <2>6. CASE js' = js
    <3>1. Calls(<<f>>, js, FALSE, Len(inotify))
      BY <2>2, <2>3, <2>4, <2>5, InitFrame
    <3>2. QED
      BY <1>2, <2>1, <2>2, <2>6, <3>1
         DEF CallsInv, RestType, J!InitOpen, J!deviceVars, J!libraryVars
  <2>7. ASSUME NEW s \in J!Slot, J!CanOpen(d), J!IsFreeSlot(s),
               js' = [js EXCEPT ![s] = J!Opened(d, TRUE)]
        PROVE  CallsInv'
    <3> DEFINE o == J!Opened(d, TRUE)
    <3>1. /\ o \in J!Joystick /\ o.allocated /\ o.connected /\ o.path = d
      BY OpenedIs
    <3>2. ~js[s].allocated /\ \A t \in J!Slot : t < s => js[t].allocated
      BY <2>7 DEF J!IsFreeSlot
    <3>3. \A t \in J!Slot : js[t].allocated => js[t].path # d
      BY <2>4, <2>7, CanOpenIs
    <3> HIDE DEF o
    <3>4. Slots([js EXCEPT ![s] = o])
      BY <2>5, <3>1, <3>2, <3>3, OpenSlots
    <3>5. js' = [js EXCEPT ![s] = o]
      BY <2>7 DEF o
    <3>6. \A t \in J!Slot : js'[t] = IF t = s THEN o ELSE js[t]
      BY <2>5, <3>5 DEF Slots
    <3>7. m = s
      BY <2>3, <3>2, SlotSet DEF Filled
    <3>8. m + 1 \in 0..LastSlot + 1 /\ Filled(js', m + 1)
      BY <2>3, <3>1, <3>6, <3>7, SlotSet DEF Filled
    <3>9. \A t \in J!Slot : js'[t].allocated => js'[t].connected
      BY <2>4, <3>1, <3>6
    <3>10. Calls(<<f>>, js', FALSE, Len(inotify))
      BY <2>2, <3>4, <3>5, <3>8, <3>9, InitFrame
    <3>11. QED
      BY <1>2, <2>1, <2>2, <3>10
         DEF CallsInv, RestType, J!InitOpen, J!deviceVars, J!libraryVars
  <2>8. QED
    BY <1>2, <2>6, <2>7, InitOpenIs
<1>3. CASE J!Terminate
  <2>1. stack' = <<>> /\ initialized' = FALSE /\ js' = [s \in J!Slot |-> J!Freed]
    BY <1>3 DEF J!Terminate
  <2>2. Calls(stack', js', initialized', Len(inotify'))
    BY <2>1, NoneSlots, NoFrame
  <2>3. <<>> \in Seq(J!Notice)
    OBVIOUS
  <2>4. RestType'
    BY <1>3, <2>3 DEF CallsInv, RestType, J!Terminate, J!deviceVars
  <2>5. QED
    BY <2>2, <2>4 DEF CallsInv
<1>4. CASE J!InitDone
  <2>1. stack' = <<>> /\ initialized' = TRUE /\ inotify' = inotify
    BY <1>4 DEF J!InitDone
  <2>2. PICK p : IsPermuted(js', js, p)
    BY <1>4, InitDoneIs
  <2>3. Slots(js')
    BY <1>4, <2>2, InitDoneIs, PermutedSlots DEF CallsInv, Calls
  <2>4. \A s \in J!Slot : js'[s].allocated => js'[s].connected
    BY <1>4, <2>2, InitDoneIs DEF IsPermuted
  <2>5. Calls(<<>>, js', TRUE, Len(inotify))
    BY <2>3, <2>4, NoFrame
  <2>6. RestType'
    BY <1>4 DEF CallsInv, RestType, J!InitDone, J!deviceVars
  <2>7. QED
    BY <2>1, <2>5, <2>6 DEF CallsInv
<1>5. QED
  BY <1>1, <1>2, <1>3, <1>4 DEF J!Setup

LEMMA DetectFrame ==
    ASSUME NEW st, NEW k, NEW ini, NEW n, Calls(st, k, ini, n),
           st # <<>>, st[Len(st)].fn = "detect",
           NEW f \in J!Call, f.fn = "detect", NEW m, f.left <= m
    PROVE  /\ Calls(Append(Front(st), f), k, ini, m)
           /\ Append(Front(st), f) # <<>>
           /\ Append(Front(st), f)[Len(Append(Front(st), f))] = f
<1> DEFINE t == Append(Front(st), f)
<1>1. /\ Len(t) = Len(st) /\ Len(st) \in Nat \ {0} /\ t[Len(st)] = f
      /\ \A i \in 1..Len(st) - 1 : t[i] = st[i]
      /\ Front(st) \in Seq(J!Call) /\ t \in Seq(J!Call)
  BY FrontIs, AppendIs DEF Calls
<1>2. t # <<>>
  BY <1>1, EmptySeq
<1>3. Shape(t, ini)
  BY ReplaceShape DEF Calls
<1>4. \A i \in 1..Len(st) - 1 : st[i].fn = "pollAll"
  BY <1>1 DEF Calls, Shape
<1>5. ~Owner(f) /\ ~Owner(st[Len(st)]) /\ f.fn # "poll"
  BY DEF Owner
<1>6. Fit(t, k)
  BY <1>1, <1>5, PopFit, PushFit DEF Calls
<1> HIDE DEF t
<1>7. Pending(t, m)
  BY <1>1, <1>4 DEF Pending
<1>8. Calls(t, k, ini, m)
  BY <1>1, <1>2, <1>3, <1>6, <1>7 DEF Calls
<1>9. QED
  BY <1>1, <1>2, <1>8 DEF t

LEMMA PathAllocated ==
    ASSUME NEW k, Slots(k), NEW s \in J!Slot, k[s].path \in J!Device
    PROVE  k[s].allocated
BY SlotSet DEF Slots, J!Freed, J!NoPath, J!Device

LEMMA PollFinds ==
    ASSUME NEW st, NEW k, NEW ini, NEW n, Calls(st, k, ini, n),
           st # <<>>, st[Len(st)].fn = "poll", k[st[Len(st)].slot].allocated
    PROVE  k[st[Len(st)].slot].connected
<1>1. Len(st) \in Nat /\ Len(st) \in 1..Len(st) /\ \A i \in 1..Len(st) : ~(Len(st) < i)
  BY EmptySeq DEF Calls
<1>2. QED
  BY <1>1 DEF Calls, Fit, PollsFind

\* What handles the next notice.
Handler == Append(Front(stack), [J!Top EXCEPT !.left = @ - 1])

LEMMA DetectIs ==
    ASSUME CallsInv, J!DetectNext
    PROVE  /\ initialized /\ stack # <<>> /\ J!Top.fn = "detect"
           /\ \A s \in J!Slot : js[s].allocated => js[s].connected
           /\ inotify # <<>> /\ Head(inotify) \in J!Notice /\ inotify' = Tail(inotify)
           /\ inotify' \in Seq(J!Notice)
           /\ Calls(Handler, js, initialized, Len(inotify'))
           /\ Handler # <<>> /\ Handler[Len(Handler)].fn = "detect"
           /\ \/ /\ Head(inotify).what \in {"create", "attrib"} /\ J!CanOpen(Head(inotify).path)
                 /\ J!BeginOpen(Head(inotify).path, Handler)
              \/ /\ Head(inotify).what \in {"create", "attrib"} /\ ~J!CanOpen(Head(inotify).path)
                 /\ stack' = Handler /\ js' = js
              \/ /\ Head(inotify).what = "delete"
                 /\ \A s \in J!Slot : js[s].path # Head(inotify).path
                 /\ stack' = Handler /\ js' = js
              \/ /\ Head(inotify).what = "delete"
                 /\ \E s \in J!Slot : /\ js[s].path = Head(inotify).path
                                      /\ J!BeginClose(s, Handler)
<1>1. stack # <<>> /\ J!Top.fn = "detect" /\ J!Top.left > 0
  BY DEF J!DetectNext, J!Running
<1>2. /\ initialized /\ J!Top.left \in Nat /\ J!Top \in J!Call
      /\ J!Top = stack[Len(stack)] /\ Len(stack) \in 1..Len(stack) /\ J!Below = Front(stack)
  BY <1>1, TopIs
<1>3. \A s \in J!Slot : js[s].allocated => js[s].connected
  BY <1>1, <1>2, NothingHeld DEF CallsInv
<1>4. J!Top.left <= Len(inotify)
  BY <1>1, <1>2 DEF CallsInv, Calls, Pending
<1>5. inotify \in Seq(J!Notice) /\ Len(inotify) \in Nat
  BY LenProperties DEF CallsInv, RestType
<1>6. inotify # <<>>
  BY <1>1, <1>2, <1>4, <1>5
<1>7. /\ Head(inotify) \in J!Notice /\ Tail(inotify) \in Seq(J!Notice)
      /\ Len(Tail(inotify)) = Len(inotify) - 1
  BY <1>5, <1>6, HeadTailProperties
<1>8. inotify' = Tail(inotify)
  BY DEF J!DetectNext
<1> DEFINE f == [J!Top EXCEPT !.left = @ - 1]
<1>9. f \in J!Call /\ f.fn = "detect" /\ f.left = J!Top.left - 1
  BY <1>1, <1>2 DEF J!Call
<1>10. f.left <= Len(inotify')
  BY <1>2, <1>4, <1>5, <1>7, <1>8, <1>9
<1>11. Handler = Append(Front(stack), f)
  BY DEF Handler
<1> HIDE DEF f
<1>12. /\ Calls(Handler, js, initialized, Len(inotify'))
       /\ Handler # <<>> /\ Handler[Len(Handler)].fn = "detect"
  BY <1>1, <1>2, <1>9, <1>10, <1>11, DetectFrame DEF CallsInv
<1>13. Handler = Append(J!Below, [J!Top EXCEPT !.left = @ - 1])
  BY <1>2 DEF Handler
<1>14. \/ /\ Head(inotify).what \in {"create", "attrib"} /\ J!CanOpen(Head(inotify).path)
          /\ J!BeginOpen(Head(inotify).path, Handler)
       \/ /\ Head(inotify).what \in {"create", "attrib"} /\ ~J!CanOpen(Head(inotify).path)
          /\ stack' = Handler /\ js' = js
       \/ /\ Head(inotify).what = "delete"
          /\ {s \in J!Slot : js[s].path = Head(inotify).path} = {}
          /\ stack' = Handler /\ js' = js
       \/ /\ Head(inotify).what = "delete"
          /\ \E s \in {s \in J!Slot : js[s].path = Head(inotify).path} :
               J!BeginClose(s, Handler)
  BY <1>13, Zenon DEF J!DetectNext
<1>15. QED
  BY <1>1, <1>2, <1>3, <1>6, <1>7, <1>8, <1>12, <1>14

LEMMA BeginOpenIs ==
    ASSUME CallsInv, NEW d \in J!Device, J!CanOpen(d),
           NEW st, NEW n, Calls(st, js, initialized, n), initialized,
           st # <<>>, st[Len(st)].fn = "detect", J!BeginOpen(d, st)
    PROVE  \E s \in J!Slot :
             /\ ~js[s].allocated /\ \A t \in J!Slot : js[t].allocated => js[t].path # d
             /\ js' = [js EXCEPT ![s] = J!Opened(d, FALSE)]
             /\ J!Tell(axis[d] # 0, Append(st, J!CallOf("connect", s)))
             /\ Calls(Append(st, J!CallOf("connect", s)), js', initialized, n)
             /\ Calls(stack', js', initialized, n)
<1>1. PICK s \in J!Slot :
        /\ J!IsFreeSlot(s)
        /\ js' = [js EXCEPT ![s] = J!Opened(d, FALSE)]
        /\ J!Tell(axis[d] # 0, Append(st, J!CallOf("connect", s)))
  BY DEF J!BeginOpen
<1>2. \A t \in J!Slot : js[t].allocated => js[t].path # d
  BY NothingHeld, CanOpenIs
<1>3. ~js[s].allocated
  BY <1>1 DEF J!IsFreeSlot
<1> DEFINE o == J!Opened(d, FALSE)
<1>4. o \in J!Joystick /\ o.allocated /\ ~o.connected /\ o.path = d
  BY OpenedIs
<1> HIDE DEF o
<1>5. Calls(Append(st, J!CallOf("connect", s)), [js EXCEPT ![s] = o], initialized, n)
  BY <1>2, <1>3, <1>4, OpenCalls
<1>6. Calls(Append(st, J!CallOf("connect", s)), js', initialized, n)
  BY <1>1, <1>5 DEF o
<1>7. Calls(stack', js', initialized, n)
  BY <1>1, <1>6, TellCalls
<1>8. QED
  BY <1>1, <1>2, <1>3, <1>6, <1>7

LEMMA BeginCloseIs ==
    ASSUME NEW st, NEW n, Calls(st, js, initialized, n), initialized,
           NEW s \in J!Slot, js[s].connected, J!BeginClose(s, st)
    PROVE  /\ js' = [js EXCEPT ![s].connected = FALSE]
           /\ Calls(Append(st, J!CallOf("close", s)), js', initialized, n)
           /\ Calls(stack', js', initialized, n)
<1>1. /\ js' = [js EXCEPT ![s].connected = FALSE]
      /\ J!Tell(TRUE, Append(st, J!CallOf("close", s)))
  BY DEF J!BeginClose
<1>2. Calls(Append(st, J!CallOf("close", s)), js', initialized, n)
  BY <1>1, CloseCalls
<1>3. QED
  BY <1>1, <1>2, TellCalls

LEMMA FirstFrame ==
    ASSUME NEW k, NEW n, Calls(<<>>, k, TRUE, n),
           NEW f \in J!Call, f.fn \in {"detect", "pollAll"}, f.fn = "detect" => f.left <= n
    PROVE  Calls(<<f>>, k, TRUE, n)
<1>1. <<f>> \in Seq(J!Call) /\ Len(<<f>>) = 1 /\ <<f>>[1] = f
  OBVIOUS
<1>2. \A s \in J!Slot : k[s].allocated => k[s].connected
  BY NothingHeld
<1> DEFINE st == <<f>>
<1> HIDE DEF st
<1>3. Shape(st, TRUE) /\ Pending(st, n)
  BY <1>1 DEF Shape, Pending, st
<1>4. OwnersHold(st, k) /\ OneOwner(st) /\ PollsFind(st, k)
  BY <1>1 DEF OwnersHold, OneOwner, PollsFind, Owner, st
<1>5. HeldHaveOwner(st, k)
  BY <1>2 DEF HeldHaveOwner
<1>6. QED
  BY <1>1, <1>3, <1>4, <1>5 DEF Calls, Fit, st

LEMMA SecondFrame ==
    ASSUME NEW k, NEW n, NEW g, Calls(<<g>>, k, TRUE, n), g.fn = "pollAll", g \in J!Call,
           NEW f \in J!Call, f.fn = "detect", f.left <= n
    PROVE  Calls(<<g, f>>, k, TRUE, n)
<1>1. /\ <<g, f>> \in Seq(J!Call) /\ Len(<<g, f>>) = 2 /\ <<g, f>>[1] = g /\ <<g, f>>[2] = f
      /\ Len(<<g>>) = 1 /\ <<g>>[1] = g
  OBVIOUS
<1> DEFINE st == <<g, f>>
<1>2. /\ st \in Seq(J!Call) /\ Len(st) = 2 /\ st[1] = g /\ st[2] = f
  BY <1>1
<1>3. \A s \in J!Slot : ~(k[s].allocated /\ ~k[s].connected)
  BY <1>1 DEF Calls, Fit, HeldHaveOwner, Owner
<1>4. Slots(k)
  BY DEF Calls
<1> HIDE DEF st
<1>5. 1..Len(st) = {1, 2}
  BY <1>2
<1>6. Shape(st, TRUE) /\ Pending(st, n)
  BY <1>2, <1>5 DEF Shape, Pending
<1>7. OwnersHold(st, k) /\ OneOwner(st) /\ PollsFind(st, k) /\ HeldHaveOwner(st, k)
  BY <1>2, <1>3, <1>5 DEF OwnersHold, OneOwner, PollsFind, HeldHaveOwner, Owner
<1>8. QED
  BY <1>2, <1>4, <1>6, <1>7 DEF Calls, Fit, st

LEMMA ConnectionsCalls == CallsInv /\ J!Connections => CallsInv'
<1> SUFFICES ASSUME CallsInv, J!Connections PROVE CallsInv'
  OBVIOUS
<1> USE DEF CallsInv
<1>1. CASE J!Connect
  <2>1. /\ stack # <<>> /\ J!Top.fn = "connect"
        /\ js' = [js EXCEPT ![J!Top.slot].connected = TRUE]
        /\ J!Tell(TRUE, J!Below)
        /\ initialized' = initialized /\ inotify' = inotify
    BY <1>1 DEF J!Connect, J!Running, J!libraryVars
  <2>2. initialized
    BY <2>1, TopIs
  <2>3. Calls(J!Below, js', initialized, Len(inotify))
    <3>1. J!Top = stack[Len(stack)] /\ J!Below = Front(stack)
      BY <2>1, TopIs
    <3>2. js' = [js EXCEPT ![stack[Len(stack)].slot].connected = TRUE]
      BY <2>1, <3>1
    <3>3. Calls(Front(stack), [js EXCEPT ![stack[Len(stack)].slot].connected = TRUE],
                initialized, Len(inotify))
      BY <2>1, <2>2, <3>1, ConnectCalls
    <3>4. QED
      BY <3>1, <3>2, <3>3
  <2>4. Calls(stack', js', initialized, Len(inotify))
    BY <2>1, <2>2, <2>3, TellCalls
  <2>5. RestType'
    BY <1>1 DEF J!Connect, J!libraryVars, J!deviceVars, RestType
  <2>6. QED
    BY <2>1, <2>4, <2>5
<1>2. CASE J!FreeJoystick
  <2>1. /\ stack # <<>> /\ J!Top.fn = "close"
        /\ js' = [js EXCEPT ![J!Top.slot] = J!Freed]
        /\ stack' = J!Below
        /\ initialized' = initialized /\ inotify' = inotify
    BY <1>2 DEF J!FreeJoystick, J!Running, J!libraryVars
  <2>2. Calls(stack', js', initialized, Len(inotify))
    BY <2>1, TopIs, FreeCalls
  <2>3. RestType'
    BY <1>2 DEF J!FreeJoystick, J!libraryVars, J!deviceVars, RestType
  <2>4. QED
    BY <2>1, <2>2, <2>3
<1>3. J!Detect \in J!Call /\ J!Detect.fn = "detect" /\ J!Detect.left = Len(inotify)
  <2>1. 0 \in J!Slot /\ Len(inotify) \in Nat
    BY SlotSet, LenProperties DEF RestType
  <2>2. J!CallOf("detect", 0) \in J!Call /\ J!CallOf("detect", 0).fn = "detect"
    BY <2>1, CallOfType
  <2>3. J!Detect = [J!CallOf("detect", 0) EXCEPT !.left = Len(inotify)]
    BY DEF J!Detect
  <2> HIDE DEF CallsInv
  <2>4. QED
    BY <2>1, <2>2, <2>3 DEF J!Call
<1>4. J!CallOf("pollAll", 0) \in J!Call /\ J!CallOf("pollAll", 0).fn = "pollAll"
  BY CallOfType, SlotSet
<1>5. Len(inotify) <= Len(inotify)
  BY LenProperties DEF RestType
<1>6. CASE J!PollEvents
  <2>1. /\ stack = <<>> /\ initialized /\ initialized = TRUE /\ stack' = <<J!Detect>> /\ js' = js
        /\ initialized' = initialized /\ inotify' = inotify
    BY <1>6 DEF J!PollEvents, J!libraryVars, RestType
  <2>2. Calls(stack', js', TRUE, Len(inotify))
    BY <1>3, <1>5, <2>1, FirstFrame
  <2>3. RestType'
    BY <1>6 DEF J!PollEvents, J!libraryVars, J!deviceVars, RestType
  <2>4. QED
    BY <2>1, <2>2, <2>3
<1>7. CASE J!WaitEvents
  <2>1. /\ stack = <<>> /\ initialized /\ initialized = TRUE /\ js' = js
        /\ initialized' = initialized /\ inotify' = inotify
        /\ stack' \in {<<J!CallOf("pollAll", 0)>>, <<J!CallOf("pollAll", 0), J!Detect>>}
    BY <1>7 DEF J!WaitEvents, J!libraryVars, RestType
  <2>2. Calls(<<J!CallOf("pollAll", 0)>>, js, TRUE, Len(inotify))
    BY <1>4, <1>5, <2>1, FirstFrame
  <2>3. Calls(<<J!CallOf("pollAll", 0), J!Detect>>, js, TRUE, Len(inotify))
    BY <1>3, <1>4, <1>5, <2>2, SecondFrame
  <2>4. RestType'
    BY <1>7 DEF J!WaitEvents, J!libraryVars, J!deviceVars, RestType
  <2>5. QED
    BY <2>1, <2>2, <2>3, <2>4
<1>8. CASE J!DetectNext
  <2>1. RestType'
    BY <1>8, DetectIs DEF J!DetectNext, J!deviceVars, RestType
  <2>2. initialized' = initialized
    BY <1>8 DEF J!DetectNext
  <2> DEFINE d == Head(inotify).path
             n == Len(inotify')
  <2>3. d \in J!Device
    BY <1>8, DetectIs DEF J!Notice
  <2>4. CASE J!CanOpen(d) /\ J!BeginOpen(d, Handler)
    BY <1>8, <2>1, <2>2, <2>3, <2>4, DetectIs, BeginOpenIs
  <2>5. CASE stack' = Handler /\ js' = js
    BY <1>8, <2>1, <2>2, <2>5, DetectIs
  <2>6. ASSUME NEW s \in J!Slot, js[s].path = d, J!BeginClose(s, Handler)
        PROVE  CallsInv'
    <3>1. js[s].connected
      BY <1>8, <2>3, <2>6, DetectIs, PathAllocated DEF Calls
    <3>2. QED
      BY <1>8, <2>1, <2>2, <2>6, <3>1, DetectIs, BeginCloseIs
  <2>7. QED
    BY <1>8, <2>4, <2>5, <2>6, DetectIs
<1>9. CASE J!DetectDone
  <2>1. /\ stack # <<>> /\ J!Top.fn = "detect" /\ stack' = J!Below
        /\ js' = js /\ initialized' = initialized /\ inotify' = inotify
    BY <1>9 DEF J!DetectDone, J!Running, J!libraryVars
  <2>2. Calls(stack', js', initialized, Len(inotify))
    BY <2>1, TopIs, PopCalls DEF Owner
  <2>3. RestType'
    BY <1>9 DEF J!DetectDone, J!libraryVars, J!deviceVars, RestType
  <2>4. QED
    BY <2>1, <2>2, <2>3
<1>10. QED
  BY <1>1, <1>2, <1>6, <1>7, <1>8, <1>9 DEF J!Connections

LEMMA PollAllCalls == CallsInv /\ J!PollAll => CallsInv'
<1> SUFFICES ASSUME CallsInv, J!PollAll PROVE CallsInv'
  OBVIOUS
<1>1. /\ stack # <<>> /\ J!Top.fn = "pollAll" /\ js' = js
      /\ initialized' = initialized /\ inotify' = inotify
  BY DEF J!PollAll, J!Running, J!libraryVars
<1> DEFINE f == [J!Top EXCEPT !.left = @ + 1]
           st == Append(Front(stack), f)
           s == J!Top.left
<1>2. s \in Nat /\ initialized /\ J!Top \in J!Call
  BY <1>1, TopIs
<1>3. f \in J!Call /\ f.fn = "pollAll"
  BY <1>1, <1>2 DEF J!Call
<1>4. Calls(st, js, initialized, Len(inotify))
  BY <1>1, <1>3, TopIs, ReplaceCalls DEF CallsInv
<1>5. J!Below = Front(stack)
  BY <1>1, TopIs
<1>6. /\ s > LastSlot => stack' = Front(stack)
      /\ ~(s > LastSlot) /\ js[s].connected => stack' = Append(st, J!CallOf("poll", s))
      /\ ~(s > LastSlot) /\ ~js[s].connected => stack' = st
  BY <1>5 DEF J!PollAll
<1>7. RestType'
  BY DEF J!PollAll, J!libraryVars, J!deviceVars, RestType, CallsInv
<1>8. CASE s > LastSlot
  <2>1. Calls(Front(stack), js, initialized, Len(inotify))
    BY <1>1, <1>2, TopIs, PopCalls DEF CallsInv, Owner
  <2>2. QED
    BY <1>1, <1>6, <1>7, <1>8, <2>1 DEF CallsInv
<1>9. CASE ~(s > LastSlot) /\ js[s].connected
  <2>1. s \in J!Slot
    BY <1>2, <1>9, SlotSet
  <2>2. /\ J!CallOf("poll", s) \in J!Call /\ J!CallOf("poll", s).fn = "poll"
        /\ J!CallOf("poll", s).slot = s
    BY <2>1, CallOfType
  <2> HIDE DEF st, s
  <2>3. Calls(Append(st, J!CallOf("poll", s)), js, initialized, Len(inotify))
    BY <1>2, <1>4, <1>9, <2>2, PushCalls
  <2>4. QED
    BY <1>1, <1>6, <1>7, <1>9, <2>3 DEF CallsInv
<1>10. CASE ~(s > LastSlot) /\ ~js[s].connected
  BY <1>1, <1>4, <1>6, <1>7, <1>10 DEF CallsInv
<1>11. QED
  BY <1>8, <1>9, <1>10

\* Reading takes the first event away; what the slot is, and whose, stays.
LEMMA ReadIs ==
    ASSUME CallsInv, NEW s \in J!Slot,
           J!ReadDropped(s) \/ J!ReadReport(s) \/ J!SkipEvent(s) \/ J!ReadKey(s) \/ J!ReadAbs(s)
    PROVE  /\ J!Polling(s) /\ initialized /\ js[s].alive /\ js[s].connected
           /\ js[s].events # <<>> /\ js[s].events \in Seq(J!Event)
           /\ js' \in [J!Slot -> J!Joystick]
           /\ \A t \in J!Slot : t # s => js'[t] = js[t]
           /\ js'[s].allocated <=> js[s].allocated
           /\ js'[s].connected <=> js[s].connected
           /\ js'[s].alive <=> js[s].alive
           /\ js'[s].overtaken <=> js[s].overtaken
           /\ js'[s].path = js[s].path /\ js'[s].mapping = js[s].mapping
           /\ js'[s].events = Tail(js[s].events)
<1> DEFINE r == js[s]
           e == Head(r.events)
<1>1. /\ J!Polling(s) /\ r.alive /\ r.events # <<>>
  BY DEF J!ReadDropped, J!ReadReport, J!SkipEvent, J!ReadKey, J!ReadAbs, J!Reads
<1>2. r \in J!Joystick /\ js \in [J!Slot -> J!Joystick]
  BY DEF CallsInv, Calls, Slots
<1>3. r.events \in Seq(J!Event) /\ r.path \in J!Device \union {J!NoPath}
  BY <1>2 DEF J!Joystick
<1>4. Tail(r.events) \in Seq(J!Event) /\ e \in J!Event
  BY <1>1, <1>3, HeadTailProperties
<1>5. r.allocated /\ r.path \in J!Device
  BY <1>1, ConnectedAllocated DEF CallsInv, Calls, Slots, OneSlotEach
<1>6. stack # <<>> /\ J!Top.fn = "poll" /\ J!Top.slot = s
  BY <1>1 DEF J!Polling, J!Running
<1>7. r.connected
  BY <1>5, <1>6, TopIs, PollFinds DEF CallsInv
<1>8. initialized
  BY <1>6, TopIs
<1>9. axis[r.path] \in J!Value
  BY <1>5 DEF CallsInv, RestType
<1> DEFINE New(a, b, u) == [r EXCEPT !.events = Tail(r.events), !.axis = a,
                                     !.button = b, !.unheard = u]
<1>12. ASSUME NEW a \in J!Value, NEW b \in J!Value, NEW u \in BOOLEAN
       PROVE  /\ New(a, b, u) \in J!Joystick
              /\ New(a, b, u).allocated <=> r.allocated
              /\ New(a, b, u).connected <=> r.connected
              /\ New(a, b, u).alive <=> r.alive
              /\ New(a, b, u).overtaken <=> r.overtaken
              /\ New(a, b, u).path = r.path /\ New(a, b, u).mapping = r.mapping
              /\ New(a, b, u).events = Tail(r.events)
  BY <1>2, <1>4 DEF J!Joystick
<1>10. \E a \in J!Value, b \in J!Value, u \in BOOLEAN :
         js' = [js EXCEPT ![s] = New(a, b, u)]
  <2>1. r.axis \in J!Value /\ r.button \in J!Value /\ r.unheard \in BOOLEAN
    BY <1>2 DEF J!Joystick
  <2>2. CASE J!ReadDropped(s)
    <3>1. js' = [js EXCEPT ![s] = New(r.axis, r.button, r.unheard)]
      BY <1>2, <2>2 DEF J!ReadDropped, J!Joystick
    <3> HIDE DEF New
    <3>2. QED
      BY <2>1, <3>1
  <2>3. CASE J!ReadReport(s)
    <3>1. js' = [js EXCEPT ![s] = New(axis[r.path], r.button, r.unheard)]
      BY <1>2, <2>3 DEF J!ReadReport, J!Joystick
    <3> HIDE DEF New
    <3>2. QED
      BY <1>9, <2>1, <3>1
  <2>4. CASE J!SkipEvent(s)
    <3> DEFINE u == r.unheard \/ J!DropperGone \/ dropper = s
    <3>1. js' = [js EXCEPT ![s] = New(r.axis, r.button, u)]
      BY <1>2, <2>4 DEF J!SkipEvent, J!Joystick
    <3>2. u \in BOOLEAN
      OBVIOUS
    <3> HIDE DEF u
    <3> HIDE DEF New
    <3>3. QED
      BY <2>1, <3>1, <3>2
  <2>5. CASE J!ReadKey(s)
    <3>1. js' = [js EXCEPT ![s] = New(r.axis, e.value, FALSE)]
      BY <1>2, <2>5 DEF J!ReadKey, J!Joystick
    <3>2. e.value \in J!Value
      BY <1>4, <2>5, EventTypes DEF J!ReadKey, J!Reads
    <3> HIDE DEF New
    <3>3. QED
      BY <2>1, <3>1, <3>2
  <2>6. CASE J!ReadAbs(s)
    <3>1. js' = [js EXCEPT ![s] = New(e.value, r.button, r.unheard)]
      BY <1>2, <2>6 DEF J!ReadAbs, J!Joystick
    <3>2. e.value \in J!Value
      BY <1>4, <2>6, EventTypes DEF J!ReadAbs, J!Reads
    <3> HIDE DEF New
    <3>3. QED
      BY <2>1, <3>1, <3>2
  <2> HIDE DEF New
  <2>7. QED
    BY <2>2, <2>3, <2>4, <2>5, <2>6
<1> HIDE DEF New
<1>11. PICK a \in J!Value, b \in J!Value, u \in BOOLEAN :
         js' = [js EXCEPT ![s] = New(a, b, u)]
  BY <1>10
<1> DEFINE o == New(a, b, u)
<1>13. js'[s] = o /\ js' \in [J!Slot -> J!Joystick] /\ \A t \in J!Slot : t # s => js'[t] = js[t]
  BY <1>2, <1>11, <1>12
<1>14. /\ (o.allocated <=> r.allocated) /\ (o.connected <=> r.connected)
       /\ (o.alive <=> r.alive) /\ (o.overtaken <=> r.overtaken)
       /\ o.path = r.path /\ o.mapping = r.mapping /\ o.events = Tail(r.events)
  BY <1>12
<1> HIDE DEF o
<1>15. QED
  BY <1>1, <1>3, <1>7, <1>8, <1>13, <1>14

\* A joystick is polled by the call on top.
LEMMA PollingIs ==
    ASSUME CallsInv, NEW s \in J!Slot, J!Polling(s)
    PROVE  /\ stack # <<>> /\ J!Top.fn = "poll" /\ J!Top.slot = s /\ initialized
           /\ J!Below = Front(stack)
           /\ js[s].allocated => js[s].connected
           /\ Calls(Front(stack), js, initialized, Len(inotify))
<1>1. stack # <<>> /\ J!Top.fn = "poll" /\ J!Top.slot = s
  BY DEF J!Polling, J!Running
<1>2. initialized /\ J!Top = stack[Len(stack)] /\ J!Below = Front(stack)
  BY <1>1, TopIs
<1>3. js[s].allocated => js[s].connected
  BY <1>1, <1>2, PollFinds DEF CallsInv
<1>4. Calls(Front(stack), js, initialized, Len(inotify))
  BY <1>1, <1>2, PopCalls DEF CallsInv, Owner
<1>5. QED
  BY <1>1, <1>2, <1>3, <1>4

LEMMA ReadingCalls == CallsInv /\ J!Reading => CallsInv'
<1> SUFFICES ASSUME CallsInv, NEW s \in J!Slot,
                    \/ J!PollFreed(s) \/ J!PollDone(s) \/ J!PollVanished(s)
                    \/ J!ReadDropped(s) \/ J!ReadReport(s)
                    \/ J!SkipEvent(s) \/ J!ReadKey(s) \/ J!ReadAbs(s)
             PROVE  CallsInv'
  BY DEF J!Reading
<1>1. CASE J!PollFreed(s) \/ J!PollDone(s)
  <2>1. /\ J!Polling(s) /\ stack' = J!Below
        /\ js' = js /\ initialized' = initialized /\ inotify' = inotify
    BY <1>1 DEF J!PollFreed, J!PollDone, J!libraryVars
  <2>2. RestType'
    BY <1>1 DEF J!PollFreed, J!PollDone, J!libraryVars, J!deviceVars, RestType, CallsInv
  <2>3. QED
    BY <2>1, <2>2, PollingIs DEF CallsInv
<1>2. CASE J!PollVanished(s)
  <2>1. /\ J!Polling(s) /\ js[s].allocated /\ J!BeginClose(s, J!Below)
        /\ initialized' = initialized /\ inotify' = inotify
    BY <1>2 DEF J!PollVanished, J!libraryVars
  <2>2. RestType'
    BY <1>2 DEF J!PollVanished, J!libraryVars, J!deviceVars, RestType, CallsInv
  <2>3. Calls(stack', js', initialized, Len(inotify))
    BY <2>1, PollingIs, BeginCloseIs
  <2>4. QED
    BY <2>1, <2>2, <2>3 DEF CallsInv
<1>3. CASE J!ReadDropped(s) \/ J!ReadReport(s) \/ J!SkipEvent(s) \/ J!ReadKey(s) \/ J!ReadAbs(s)
  <2>1. Calls(stack, js', initialized, Len(inotify))
    <3>1. /\ js[s].allocated
          /\ js' \in [J!Slot -> J!Joystick]
          /\ \A t \in J!Slot : t # s => js'[t] = js[t]
          /\ js'[s].allocated <=> js[s].allocated
          /\ js'[s].connected <=> js[s].connected
          /\ js'[s].path = js[s].path
      BY <1>3, ReadIs, ConnectedAllocated DEF CallsInv, Calls
    <3>2. QED
      BY <3>1, SameCalls DEF CallsInv
  <2>2. initialized
    BY <1>3, ReadIs
  <2>3. /\ initialized' = initialized /\ inotify' = inotify
        /\ stack' = stack \/ \E c : J!Tell(c, stack)
    BY <1>3, Zenon
       DEF J!ReadDropped, J!ReadReport, J!SkipEvent, J!ReadKey, J!ReadAbs, J!libraryVars
  <2>4. Calls(stack', js', initialized, Len(inotify))
    BY <2>1, <2>2, <2>3, TellCalls
  <2>5. UNCHANGED <<node, axis, button, plugs, moves, initialized, watching, inotify, moved>>
    BY <1>3 DEF J!ReadDropped, J!ReadReport, J!SkipEvent, J!ReadKey, J!ReadAbs,
                J!libraryVars, J!deviceVars
  <2>6. dropper' \in J!Slot \union {J!NoSlot, J!Vanished}
    BY <1>3 DEF J!ReadDropped, J!ReadReport, J!SkipEvent, J!ReadKey, J!ReadAbs,
                CallsInv, RestType
  <2>7. RestType'
    BY <2>5, <2>6 DEF RestType, CallsInv
  <2>8. QED
    BY <2>3, <2>4, <2>7 DEF CallsInv
<1>4. QED
  BY <1>1, <1>2, <1>3

\* A new table of mappings.
LEMMA UpdateIs ==
    ASSUME CallsInv, J!UpdateMappings
    PROVE  /\ moved' = moved + 1 /\ moved' \in 0..MaxUpdates
           /\ js' \in [J!Slot -> J!Joystick]
           /\ \A s \in J!Slot :
                /\ js'[s].allocated <=> js[s].allocated
                /\ js'[s].connected <=> js[s].connected
                /\ js'[s].alive <=> js[s].alive
                /\ js'[s].unheard <=> js[s].unheard
                /\ js'[s].path = js[s].path /\ js'[s].events = js[s].events
                /\ js'[s].axis = js[s].axis /\ js'[s].button = js[s].button
                /\ js[s].allocated => js'[s].mapping = moved' \/ js'[s].overtaken
                /\ ~js[s].allocated => js'[s] = js[s]
<1>1. moved' = moved + 1 /\ moved' \in 0..MaxUpdates
  BY SticksAssumption DEF J!UpdateMappings, CallsInv, RestType, J!JoysticksAssumption
<1>2. js \in [J!Slot -> J!Joystick] /\ \A s \in J!Slot : js[s].connected => js[s].allocated
  BY ConnectedAllocated DEF CallsInv, Calls, Slots
<1> DEFINE m == moved + 1
           New(r) == IF r.connected THEN [r EXCEPT !.mapping = m]
                     ELSE IF r.allocated THEN [r EXCEPT !.overtaken = TRUE] ELSE r
<1>3. js' = [s \in J!Slot |-> New(js[s])]
  BY Zenon DEF J!UpdateMappings
<1>4. m \in 0..MaxUpdates
  BY <1>1
<1> HIDE DEF m
<1>5. ASSUME NEW r \in J!Joystick
      PROVE  /\ New(r) \in J!Joystick
             /\ New(r).allocated <=> r.allocated
             /\ New(r).connected <=> r.connected
             /\ New(r).alive <=> r.alive
             /\ New(r).unheard <=> r.unheard
             /\ New(r).path = r.path /\ New(r).events = r.events
             /\ New(r).axis = r.axis /\ New(r).button = r.button
             /\ r.allocated => New(r).mapping = m \/ New(r).overtaken
             /\ ~r.allocated /\ ~r.connected => New(r) = r
  <2>1. CASE r.connected
    <3>1. New(r) = [r EXCEPT !.mapping = m]
      BY <2>1
    <3> HIDE DEF New
    <3>2. QED
      BY <1>4, <2>1, <3>1 DEF J!Joystick
  <2>2. CASE ~r.connected /\ r.allocated
    <3>1. New(r) = [r EXCEPT !.overtaken = TRUE]
      BY <2>2
    <3> HIDE DEF New
    <3>2. QED
      BY <2>2, <3>1 DEF J!Joystick
  <2>3. CASE ~r.connected /\ ~r.allocated
    <3>1. New(r) = r
      BY <2>3
    <3> HIDE DEF New
    <3>2. QED
      BY <2>3, <3>1
  <2>4. QED
    BY <2>1, <2>2, <2>3
<1> HIDE DEF New
<1>6. QED
  BY <1>1, <1>2, <1>3, <1>5 DEF m

LEMMA ApplicationCalls == CallsInv /\ J!Application => CallsInv'
<1> SUFFICES ASSUME CallsInv, J!Application PROVE CallsInv'
  OBVIOUS
<1>1. ASSUME NEW s \in J!Slot, J!PollJoystick(s)
      PROVE  CallsInv'
  <2>1. /\ initialized /\ js[s].connected /\ stack' = Append(stack, J!CallOf("poll", s))
        /\ js' = js /\ initialized' = initialized /\ inotify' = inotify
    BY <1>1 DEF J!PollJoystick, J!libraryVars
  <2>2. /\ J!CallOf("poll", s) \in J!Call /\ J!CallOf("poll", s).fn = "poll"
        /\ J!CallOf("poll", s).slot = s
    BY CallOfType
  <2>3. Calls(Append(stack, J!CallOf("poll", s)), js, initialized, Len(inotify))
    BY <2>1, <2>2, PushCalls DEF CallsInv
  <2>4. RestType'
    BY <1>1 DEF J!PollJoystick, J!libraryVars, J!deviceVars, RestType, CallsInv
  <2>5. QED
    BY <2>1, <2>3, <2>4 DEF CallsInv
<1>2. CASE J!UpdateMappings
  <2>1. UNCHANGED <<node, axis, button, plugs, moves, initialized, watching, inotify,
                    dropper, stack>>
    BY <1>2 DEF J!UpdateMappings, J!libraryVars, J!deviceVars
  <2>2. RestType'
    BY <1>2, <2>1, UpdateIs DEF RestType, CallsInv
  <2>3. Calls(stack, js', initialized, Len(inotify))
    BY <1>2, UpdateIs, SameCalls DEF CallsInv
  <2>4. QED
    BY <2>1, <2>2, <2>3 DEF CallsInv
<1>3. CASE J!CallbackReturns
  <2>1. /\ stack # <<>> /\ J!Top.fn = "app" /\ stack' = J!Below
        /\ js' = js /\ initialized' = initialized /\ inotify' = inotify
    BY <1>3 DEF J!CallbackReturns, J!Running, J!libraryVars
  <2>2. Calls(stack', js', initialized, Len(inotify))
    BY <2>1, TopIs, PopCalls DEF Owner, CallsInv
  <2>3. RestType'
    BY <1>3 DEF J!CallbackReturns, J!libraryVars, J!deviceVars, RestType, CallsInv
  <2>4. QED
    BY <2>1, <2>2, <2>3 DEF CallsInv
<1>4. QED
  BY <1>1, <1>2, <1>3 DEF J!Application

LEMMA NextCallsInv == CallsInv /\ J!Next => CallsInv'
BY KernelCalls, SetupCalls, ConnectionsCalls, PollAllCalls, ReadingCalls, ApplicationCalls
   DEF J!Next

--------------------------------------------------------------------------------
(* The mapping of a joystick. *)

Mapped == \A s \in J!Slot : js[s].allocated => js[s].mapping = moved \/ js[s].overtaken

\* What a step leaves of a slot that it neither opens nor frees.
Kept(q, r) ==
    /\ q.allocated <=> r.allocated
    /\ q.alive <=> r.alive
    /\ q.overtaken <=> r.overtaken
    /\ q.unheard <=> r.unheard
    /\ q.path = r.path /\ q.mapping = r.mapping /\ q.events = r.events
    /\ q.axis = r.axis /\ q.button = r.button

LEMMA ConnectedKept ==
    ASSUME CallsInv, NEW s \in J!Slot, NEW b \in BOOLEAN,
           js' = [js EXCEPT ![s].connected = b]
    PROVE  \A t \in J!Slot : /\ Kept(js'[t], js[t]) /\ js'[t] \in J!Joystick
                             /\ t # s => js'[t] = js[t]
                             /\ js'[t].connected <=> IF t = s THEN b ELSE js[t].connected
<1>1. js \in [J!Slot -> J!Joystick]
  BY DEF CallsInv, Calls, Slots
<1>2. \A r \in J!Joystick : /\ Kept([r EXCEPT !.connected = b], r)
                            /\ [r EXCEPT !.connected = b] \in J!Joystick
                            /\ [r EXCEPT !.connected = b].connected <=> b
  BY DEF J!Joystick, Kept
<1>3. \A r \in J!Joystick : Kept(r, r)
  BY DEF Kept
<1>4. \A t \in J!Slot : js'[t] = IF t = s THEN [js[t] EXCEPT !.connected = b] ELSE js[t]
  BY <1>1
<1>5. QED
  BY <1>1, <1>2, <1>3, <1>4

\* A step of DetectNext opens a slot that was free, or disconnects one, or
\* leaves them alone.
LEMMA DetectSlots ==
    ASSUME CallsInv, J!DetectNext
    PROVE  \/ js' = js /\ stack' = Handler
           \/ \E s \in J!Slot :
                /\ Head(inotify).what \in {"create", "attrib"} /\ J!CanOpen(Head(inotify).path)
                /\ ~js[s].allocated /\ js' = [js EXCEPT ![s] = J!Opened(Head(inotify).path, FALSE)]
                /\ J!Tell(axis[Head(inotify).path] # 0, Append(Handler, J!CallOf("connect", s)))
           \/ \E s \in J!Slot :
                /\ Head(inotify).what = "delete" /\ js[s].path = Head(inotify).path
                /\ js' = [js EXCEPT ![s].connected = FALSE]
                /\ J!Tell(TRUE, Append(Handler, J!CallOf("close", s)))
BY DetectIs DEF J!BeginOpen, J!BeginClose, J!IsFreeSlot

LEMMA OpenMapped ==
    ASSUME CallsInv, Mapped, NEW d \in J!Device, NEW c \in BOOLEAN, NEW s \in J!Slot,
           js' = [js EXCEPT ![s] = J!Opened(d, c)], moved' = moved
    PROVE  Mapped'
<1> DEFINE o == J!Opened(d, c)
<1>1. o.mapping = moved
  BY OpenedIs
<1> HIDE DEF o
<1>2. \A t \in J!Slot : js'[t] = IF t = s THEN o ELSE js[t]
  BY DEF CallsInv, Calls, Slots, o
<1>3. QED
  BY <1>1, <1>2 DEF Mapped

LEMMA KeptMapped ==
    ASSUME Mapped, moved' = moved,
           \A t \in J!Slot : \/ js'[t] = js[t] \/ Kept(js'[t], js[t])
                             \/ ~js'[t].allocated
    PROVE  Mapped'
BY DEF Mapped, Kept

LEMMA MappedNext == CallsInv /\ Mapped /\ J!Next => Mapped'
<1> SUFFICES ASSUME CallsInv, Mapped, J!Next PROVE Mapped'
  OBVIOUS
<1>0. js \in [J!Slot -> J!Joystick] /\ ~J!Freed.allocated
  BY DEF CallsInv, Calls, Slots, J!Freed
<1>1. CASE J!Kernel
  <2>1. PICK d \in J!Device : J!Plug(d) \/ J!Permit(d) \/ J!Unplug(d) \/ J!Move(d)
    BY <1>1 DEF J!Kernel
  <2>2. CASE J!Plug(d) \/ J!Permit(d)
    BY <2>2 DEF J!Plug, J!Permit, Mapped
  <2>3. CASE J!Unplug(d)
    <3>1. moved' = moved
      BY <2>3 DEF J!Unplug
    <3>3. \A s \in J!Slot : /\ js'[s].allocated <=> js[s].allocated
                            /\ js'[s].overtaken <=> js[s].overtaken
                            /\ js'[s].mapping = js[s].mapping
      BY <1>0, <2>3, UnplugIs DEF J!Joystick
    <3>4. QED
      BY <3>1, <3>3 DEF Mapped
  <2>4. CASE J!Move(d)
    <3>1. PICK n \in {"key", "abs"}, v \in J!Value : J!Deliver(d, n, v)
      BY <2>4, MoveIs
    <3>2. moved' = moved
      BY <2>4, MoveIs
    <3>3. QED
      BY <3>1, <3>2, DeliverIs DEF Mapped, SameButEvents
  <2>5. QED
    BY <2>1, <2>2, <2>3, <2>4
<1>2. CASE J!Setup
  <2>1. CASE J!BeginInit
    BY <2>1 DEF J!BeginInit, Mapped
  <2>2. ASSUME NEW d \in J!Device, J!InitOpen(d)
        PROVE  Mapped'
    <3>1. moved' = moved
      BY <2>2 DEF J!InitOpen
    <3>2. QED
      BY <2>2, <3>1, InitOpenIs, OpenMapped DEF Mapped
  <2>3. CASE J!InitDone
    <3>1. moved' = moved
      BY <2>3 DEF J!InitDone
    <3>2. QED
      BY <2>3, <3>1, InitDoneIs DEF Mapped, IsPermuted
  <2>4. CASE J!Terminate
    BY <1>0, <2>4 DEF J!Terminate, Mapped
  <2>5. QED
    BY <1>2, <2>1, <2>2, <2>3, <2>4 DEF J!Setup
<1>3. CASE J!Connections
  <2>1. moved' = moved
    BY <1>3 DEF J!Connections, J!Connect, J!FreeJoystick, J!PollEvents, J!WaitEvents,
                J!DetectNext, J!DetectDone
  <2>2. CASE J!Connect
    <3>1. J!Top.slot \in J!Slot /\ js' = [js EXCEPT ![J!Top.slot].connected = TRUE]
      BY <2>2, TopIs DEF J!Connect, J!Running
    <3>2. QED
      BY <2>1, <3>1, ConnectedKept, KeptMapped
  <2>3. CASE J!FreeJoystick
    <3>1. \A t \in J!Slot : js'[t] = IF t = J!Top.slot THEN J!Freed ELSE js[t]
      BY <1>0, <2>3 DEF J!FreeJoystick
    <3>2. QED
      BY <1>0, <2>1, <3>1, KeptMapped
  <2>4. CASE J!PollEvents \/ J!WaitEvents \/ J!DetectDone
    BY <2>4 DEF J!PollEvents, J!WaitEvents, J!DetectDone, Mapped
  <2>5. CASE J!DetectNext
    <3>1. Head(inotify).path \in J!Device
      BY <2>5, DetectIs DEF J!Notice
    <3>2. CASE js' = js
      BY <2>1, <3>2 DEF Mapped
    <3>3. ASSUME NEW s \in J!Slot, js' = [js EXCEPT ![s] = J!Opened(Head(inotify).path, FALSE)]
          PROVE  Mapped'
      BY <2>1, <3>1, <3>3, OpenMapped
    <3>4. ASSUME NEW s \in J!Slot, js' = [js EXCEPT ![s].connected = FALSE]
          PROVE  Mapped'
      BY <2>1, <3>4, ConnectedKept, KeptMapped
    <3>5. QED
      BY <2>5, <3>2, <3>3, <3>4, DetectSlots
  <2>6. QED
    BY <1>3, <2>2, <2>3, <2>4, <2>5 DEF J!Connections
<1>4. CASE J!PollAll
  BY <1>4 DEF J!PollAll, Mapped
<1>5. CASE J!Reading
  <2>1. PICK s \in J!Slot :
          \/ J!PollFreed(s) \/ J!PollDone(s) \/ J!PollVanished(s)
          \/ J!ReadDropped(s) \/ J!ReadReport(s)
          \/ J!SkipEvent(s) \/ J!ReadKey(s) \/ J!ReadAbs(s)
    BY <1>5 DEF J!Reading
  <2>2. moved' = moved
    BY <2>1 DEF J!PollFreed, J!PollDone, J!PollVanished, J!ReadDropped, J!ReadReport,
                J!SkipEvent, J!ReadKey, J!ReadAbs
  <2>3. CASE J!PollFreed(s) \/ J!PollDone(s)
    BY <2>2, <2>3 DEF J!PollFreed, J!PollDone, Mapped
  <2>4. CASE J!PollVanished(s)
    <3>1. js' = [js EXCEPT ![s].connected = FALSE]
      BY <2>4 DEF J!PollVanished, J!BeginClose
    <3>2. QED
      BY <2>2, <3>1, ConnectedKept, KeptMapped
  <2>5. CASE J!ReadDropped(s) \/ J!ReadReport(s) \/ J!SkipEvent(s) \/ J!ReadKey(s) \/ J!ReadAbs(s)
    BY <2>2, <2>5, ReadIs DEF Mapped
  <2>6. QED
    BY <2>1, <2>3, <2>4, <2>5
<1>6. CASE J!Application
  <2>1. CASE J!UpdateMappings
    BY <2>1, UpdateIs DEF Mapped
  <2>2. CASE (\E s \in J!Slot : J!PollJoystick(s)) \/ J!CallbackReturns
    BY <2>2 DEF J!PollJoystick, J!CallbackReturns, Mapped
  <2>3. QED
    BY <1>6, <2>1, <2>2 DEF J!Application
<1>7. QED
  BY <1>1, <1>2, <1>3, <1>4, <1>5, <1>6 DEF J!Next

\* A joystick that is connected uses the mapping that the table holds, however
\* callbacks, notices, closed devices and new tables come in between, unless a
\* new table came while it was being opened or closed.
THEOREM MappingLivesAlways == ChoicesSpec => []MappingLives
<1> DEFINE Inv == subject = "joysticks" => CallsInv /\ Mapped
<1>1. ChoicesInit => Inv
  BY InitCallsInv DEF ChoicesInit, J!Init, Mapped, J!Freed
<1>2. Inv /\ [ChoicesNext]_<<subject, vars, video, gamepads, joysticks>> => Inv'
  <2> SUFFICES ASSUME CallsInv, Mapped, subject' = "joysticks",
                      \/ J!Next
                      \/ UNCHANGED joysticks
               PROVE  CallsInv' /\ Mapped'
    BY DEF ChoicesNext
  <2>1. CASE J!Next
    BY <2>1, NextCallsInv, MappedNext
  <2>2. CASE UNCHANGED joysticks
    BY <2>2 DEF joysticks, CallsInv, RestType, Mapped
  <2>3. QED
    BY <2>1, <2>2
<1>3. Inv => MappingLives
  BY ConnectedAllocated DEF CallsInv, Calls, Mapped, MappingLives, J!MappingLives
<1>4. QED
  BY <1>1, <1>2, <1>3, PTL DEF ChoicesSpec

--------------------------------------------------------------------------------
(* What a joystick has heard of its device. *)

\* q: the events that are still to be read; b: the button of the device.
Ends(q) == q # <<>> => q[Len(q)] = J!Report
IsKey(e) == e.type = "key"
NoKey(q) == \A i \in 1..Len(q) : ~IsKey(q[i])
LastKeyIs(q, b) ==
    \A i \in 1..Len(q) : IsKey(q[i]) /\ (\A k \in i + 1..Len(q) : ~IsKey(q[k])) => q[i].value = b

\* The slot r, when the device has its axis at a and its button at b.
Hears(r, a, b) ==
    r.alive =>
        /\ Ends(r.events)
        /\ r.events = <<>> => r.axis = a
        /\ LastKeyIs(r.events, b)
        /\ NoKey(r.events) => r.unheard \/ r.button = b

LEMMA TailIs ==
    ASSUME NEW q \in Seq(J!Event), q # <<>>
    PROVE  /\ Tail(q) \in Seq(J!Event) /\ Len(q) \in Nat \ {0} /\ Len(Tail(q)) = Len(q) - 1
           /\ \A i \in 1..Len(q) - 1 : Tail(q)[i] = q[i + 1]
           /\ Head(q) = q[1] /\ Head(q) \in J!Event
           /\ Tail(q) = <<>> <=> Len(q) = 1
<1>1. /\ Tail(q) \in Seq(J!Event) /\ Len(q) \in Nat \ {0} /\ Len(Tail(q)) = Len(q) - 1
      /\ Head(q) = q[1] /\ Head(q) \in J!Event
  BY HeadTailProperties, EmptySeq
<1>2. \A i \in 1..Len(q) - 1 : Tail(q)[i] = q[i + 1]
  BY <1>1, HeadTailProperties
<1>3. Tail(q) = <<>> <=> Len(q) = 1
  BY <1>1, EmptySeq
<1>4. QED
  BY <1>1, <1>2, <1>3

LEMMA TailHears ==
    ASSUME NEW q \in Seq(J!Event), NEW b, q # <<>>, Ends(q), LastKeyIs(q, b)
    PROVE  /\ Ends(Tail(q)) /\ LastKeyIs(Tail(q), b)
           /\ ~IsKey(Head(q)) /\ NoKey(Tail(q)) => NoKey(q)
           /\ IsKey(Head(q)) /\ NoKey(Tail(q)) => Head(q).value = b
           /\ Head(q).type # "report" => Tail(q) # <<>>
<1> DEFINE p == Tail(q)
           n == Len(q)
<1>1. /\ n \in Nat \ {0} /\ Len(p) = n - 1 /\ \A i \in 1..n - 1 : p[i] = q[i + 1]
      /\ Head(q) = q[1] /\ (p = <<>> <=> n = 1)
  BY TailIs
<1>2. q[n] = J!Report
  BY DEF Ends
<1>3. \A i \in 1..n : IsKey(q[i]) /\ (\A k \in i + 1..n : ~IsKey(q[k])) => q[i].value = b
  BY DEF LastKeyIs
<1> HIDE DEF p, n
<1>4. Ends(p)
  BY <1>1, <1>2 DEF Ends
<1>5. LastKeyIs(p, b)
  <2> SUFFICES ASSUME NEW i \in 1..n - 1, IsKey(p[i]), \A k \in i + 1..n - 1 : ~IsKey(p[k])
               PROVE  p[i].value = b
    BY <1>1 DEF LastKeyIs
  <2>1. i + 1 \in 1..n /\ p[i] = q[i + 1]
    BY <1>1
  <2>2. \A k \in i + 1 + 1..n : k - 1 \in i + 1..n - 1 /\ k - 1 \in 1..n - 1 /\ (k - 1) + 1 = k
    BY <1>1
  <2>3. \A k \in i + 1 + 1..n : q[k] = p[k - 1]
    BY <1>1, <2>2
  <2>4. \A k \in i + 1 + 1..n : ~IsKey(q[k])
    BY <2>2, <2>3
  <2>5. QED
    BY <1>3, <2>1, <2>4
<1>6. NoKey(p) => \A k \in 1 + 1..n : ~IsKey(q[k])
  <2> SUFFICES ASSUME NoKey(p), NEW k \in 1 + 1..n PROVE ~IsKey(q[k])
    OBVIOUS
  <2>1. k - 1 \in 1..n - 1 /\ (k - 1) + 1 = k
    BY <1>1
  <2>2. q[k] = p[k - 1]
    BY <1>1, <2>1
  <2>3. QED
    BY <1>1, <2>1, <2>2 DEF NoKey
<1>7. 1 \in 1..n /\ \A k \in 1..n : k = 1 \/ k \in 1 + 1..n
  BY <1>1
<1>8. ~IsKey(Head(q)) /\ NoKey(p) => NoKey(q)
  BY <1>1, <1>6, <1>7 DEF NoKey, n
<1>9. IsKey(Head(q)) /\ NoKey(p) => Head(q).value = b
  BY <1>1, <1>3, <1>6, <1>7
<1>10. Head(q).type # "report" => p # <<>>
  BY <1>1, <1>2 DEF J!Report
<1>11. QED
  BY <1>4, <1>5, <1>8, <1>9, <1>10 DEF p

\* The queue that the kernel makes, when the button is then at b.
LEMMA QueuedHears ==
    ASSUME NEW q \in Seq(J!Event), NEW n \in {"key", "abs"}, NEW v \in J!Value,
           NEW a, LastKeyIs(q, a), NEW b, n = "key" => v = b, n = "abs" => b = a
    PROVE  /\ Ends(Queued(q, n, v)) /\ Queued(q, n, v) # <<>>
           /\ LastKeyIs(Queued(q, n, v), b)
           /\ ~(Len(q) + 2 > QueueSize) /\ NoKey(Queued(q, n, v)) => n = "abs" /\ NoKey(q)
<1> DEFINE e == [type |-> n, value |-> v]
           m == Len(q)
<1>1. m \in Nat /\ e.type = n /\ e.value = v /\ e \in J!Event
      /\ J!Report \in J!Event /\ J!Dropped \in J!Event
      /\ ~IsKey(J!Report) /\ ~IsKey(J!Dropped) /\ (IsKey(e) <=> n = "key")
  BY LenProperties, EventTypes DEF J!Report, J!Dropped, IsKey
<1> HIDE DEF e
<1>2. CASE m + 2 > QueueSize
  <2> DEFINE p == <<J!Dropped, J!Report>>
  <2>1. p \in Seq(J!Event) /\ Len(p) = 2 /\ p[1] = J!Dropped /\ p[2] = J!Report
    BY <1>1
  <2>2. Queued(q, n, v) = p
    BY <1>2 DEF Queued
  <2> HIDE DEF p
  <2>3. 1..Len(p) = {1, 2} /\ p # <<>>
    <3>1. 1..2 = {1, 2}
      OBVIOUS
    <3>2. 1..Len(p) = {1, 2}
      BY ONLY <2>1, <3>1
    <3>3. p # <<>>
      BY <2>1 DEF p
    <3>4. QED
      BY <3>2, <3>3
  <2>4. Ends(p) /\ LastKeyIs(p, b)
    BY <1>1, <2>1, <2>3 DEF Ends, LastKeyIs
  <2>5. QED
    BY <1>2, <2>2, <2>3, <2>4
<1>3. CASE ~(m + 2 > QueueSize)
  <2> DEFINE p == q \o <<e, J!Report>>
  <2>1. <<e, J!Report>> \in Seq(J!Event) /\ Len(<<e, J!Report>>) = 2
        /\ <<e, J!Report>>[1] = e /\ <<e, J!Report>>[2] = J!Report
    BY <1>1
  <2>2. /\ Len(p) = m + 2 /\ \A i \in 1..m + 2 : p[i] = IF i <= m THEN q[i] ELSE <<e, J!Report>>[i - m]
    BY <2>1, ConcatProperties
  <2>3. p[m + 1] = e /\ p[m + 2] = J!Report /\ \A i \in 1..m : p[i] = q[i]
    <3>1. m + 1 \in 1..m + 2 /\ m + 2 \in 1..m + 2 /\ ~(m + 1 <= m) /\ ~(m + 2 <= m)
          /\ (m + 1) - m = 1 /\ (m + 2) - m = 2 /\ \A i \in 1..m : i \in 1..m + 2 /\ i <= m
      BY <1>1
    <3>2. QED
      BY <2>1, <2>2, <3>1
  <2>4. Queued(q, n, v) = p
    BY <1>3 DEF Queued, e
  <2>5. p # <<>>
    BY <1>1, <2>2
  <2> HIDE DEF p
  <2>6. Ends(p)
    BY <1>1, <2>2, <2>3 DEF Ends
  <2>7. \A i \in 1..Len(p) : i \in 1..m \/ i = m + 1 \/ i = m + 2
    BY <1>1, <2>2
  <2>8. NoKey(p) => ~IsKey(e) /\ NoKey(q)
    <3>1. m + 1 \in 1..Len(p) /\ \A i \in 1..m : i \in 1..Len(p)
      BY <1>1, <2>2
    <3>2. QED
      BY <2>3, <3>1 DEF NoKey
  <2>9. LastKeyIs(p, b)
    <3> SUFFICES ASSUME NEW i \in 1..Len(p), IsKey(p[i]), \A k \in i + 1..Len(p) : ~IsKey(p[k])
                 PROVE  p[i].value = b
      BY DEF LastKeyIs
    <3>1. CASE i = m + 1
      BY <1>1, <2>3, <3>1
    <3>2. CASE i = m + 2
      BY <1>1, <2>3, <3>2
    <3>3. CASE i \in 1..m
      <4>1. m + 1 \in i + 1..Len(p) /\ \A k \in i + 1..m : k \in i + 1..Len(p) /\ k \in 1..m
        BY <1>1, <2>2, <3>3
      <4>2. ~IsKey(e) /\ \A k \in i + 1..m : ~IsKey(q[k])
        BY <2>3, <4>1
      <4>3. a = b
        BY <1>1, <4>2
      <4>4. IsKey(q[i]) /\ p[i] = q[i]
        BY <2>3, <3>3
      <4>5. QED
        BY <3>3, <4>2, <4>3, <4>4 DEF LastKeyIs
    <3>4. QED
      BY <2>7, <3>1, <3>2, <3>3
  <2>10. QED
    BY <1>1, <2>4, <2>5, <2>6, <2>8, <2>9
<1>4. QED
  BY <1>2, <1>3

Heard == \A s \in J!Slot : Hears(js[s], axis[js[s].path], button[js[s].path])

\* The slot whose lost events are awaited is in use; while it is connected it is
\* being polled, and has its report still to read.
NotOpened(st, s) == \A i \in 1..Len(st) : ~(st[i].fn = "connect" /\ st[i].slot = s)
DropFits(st, slots, s) ==
    s \in J!Slot =>
        /\ slots[s].allocated /\ NotOpened(st, s)
        /\ slots[s].connected =>
             /\ st # <<>> /\ st[Len(st)].fn = "poll" /\ st[Len(st)].slot = s
             /\ slots[s].alive => slots[s].events # <<>>

DropInv ==
    /\ ~initialized => dropper = J!NoSlot
    /\ DropFits(stack, js, dropper)

SameHearing(q, r) ==
    /\ q.alive <=> r.alive
    /\ q.unheard <=> r.unheard
    /\ q.path = r.path /\ q.events = r.events
    /\ q.axis = r.axis /\ q.button = r.button

LEMMA KeptHeard ==
    ASSUME Heard, axis' = axis, button' = button,
           \A t \in J!Slot : \/ js'[t] = js[t] \/ SameHearing(js'[t], js[t])
                             \/ ~js'[t].alive
    PROVE  Heard'
<1> SUFFICES ASSUME NEW t \in J!Slot
             PROVE  Hears(js'[t], axis[js'[t].path], button[js'[t].path])
  BY DEF Heard
<1>1. Hears(js[t], axis[js[t].path], button[js[t].path])
  BY DEF Heard
<1>2. CASE js'[t] = js[t]
  BY <1>1, <1>2
<1>3. CASE SameHearing(js'[t], js[t])
  BY <1>1, <1>3 DEF SameHearing, Hears
<1>4. CASE ~js'[t].alive
  BY <1>4 DEF Hears
<1>5. QED
  BY <1>2, <1>3, <1>4

LEMMA OpenHeard ==
    ASSUME CallsInv, Heard, NEW d \in J!Device, NEW c \in BOOLEAN, NEW s \in J!Slot,
           js' = [js EXCEPT ![s] = J!Opened(d, c)], axis' = axis, button' = button
    PROVE  Heard'
<1> DEFINE o == J!Opened(d, c)
<1>1. /\ o.path = d /\ o.alive /\ o.events = <<>> /\ o.axis = axis[d] /\ o.button = 0
      /\ o.unheard <=> button[d] # 0
  BY OpenedIs
<1> HIDE DEF o
<1>2. Ends(<<>>) /\ NoKey(<<>>) /\ \A b : LastKeyIs(<<>>, b)
  BY DEF Ends, NoKey, LastKeyIs
<1>3. Hears(o, axis[o.path], button[o.path])
  BY <1>1, <1>2 DEF Hears
<1>4. \A t \in J!Slot : js'[t] = IF t = s THEN o ELSE js[t]
  BY DEF CallsInv, Calls, Slots, o
<1>5. QED
  BY <1>3, <1>4 DEF Heard

LEMMA MoveHeard ==
    ASSUME CallsInv, Heard, NEW d \in J!Device, J!Move(d)
    PROVE  Heard'
<1>1. PICK n \in {"key", "abs"}, v \in J!Value :
        /\ J!Deliver(d, n, v)
        /\ \A e : e # d => axis'[e] = axis[e] /\ button'[e] = button[e]
        /\ n = "key" => v = button'[d] /\ axis' = axis
        /\ n = "abs" => button' = button
  <2>1. axis \in [J!Device -> J!Value] /\ button \in [J!Device -> J!Value]
    BY DEF CallsInv, RestType
  <2>2. CASE /\ axis' = [axis EXCEPT ![d] = 1 - @] /\ button' = button
             /\ 1 - axis[d] \in J!Value
             /\ J!Deliver(d, "abs", 1 - axis[d])
    BY <2>1, <2>2
  <2>3. CASE /\ button' = [button EXCEPT ![d] = 1 - @] /\ axis' = axis
             /\ 1 - button[d] \in J!Value
             /\ J!Deliver(d, "key", 1 - button[d])
    BY <2>1, <2>3
  <2>4. QED
    BY <2>2, <2>3, MoveIs
<1> SUFFICES ASSUME NEW t \in J!Slot
             PROVE  Hears(js'[t], axis'[js'[t].path], button'[js'[t].path])
  BY DEF Heard
<1>2. Hears(js[t], axis[js[t].path], button[js[t].path]) /\ js'[t].path = js[t].path
  BY <1>1, DeliverIs DEF Heard, SameButEvents
<1>3. CASE js[t].path # d
  BY <1>1, <1>2, <1>3, DeliverIs
<1>4. CASE ~js[t].alive
  BY <1>1, <1>4, DeliverIs DEF Hears, SameButEvents
<1>5. CASE js[t].path = d /\ js[t].alive
  <2> DEFINE q == js[t].events
             p == Queued(q, n, v)
  <2>1. q \in Seq(J!Event)
    BY DEF CallsInv, Calls, Slots, J!Joystick
  <2>2. LastKeyIs(q, button[d]) /\ (NoKey(q) => js[t].unheard \/ js[t].button = button[d])
    BY <1>2, <1>5 DEF Hears
  <2>3. /\ js'[t].events = p /\ js'[t].button = js[t].button
        /\ IF Len(q) + 2 > QueueSize THEN js'[t].unheard
           ELSE js'[t].unheard <=> js[t].unheard
    BY <1>1, <1>5, DeliverIs DEF SameButEvents
  <2> HIDE DEF q, p
  <2>4. /\ Ends(p) /\ p # <<>> /\ LastKeyIs(p, button'[d])
        /\ ~(Len(q) + 2 > QueueSize) /\ NoKey(p) => n = "abs" /\ NoKey(q)
    BY <1>1, <2>1, <2>2, QueuedHears DEF p
  <2>5. NoKey(p) => js'[t].unheard \/ js'[t].button = button'[d]
    BY <1>1, <2>2, <2>3, <2>4
  <2>6. QED
    BY <1>2, <1>5, <2>3, <2>4, <2>5 DEF Hears
<1>6. QED
  BY <1>3, <1>4, <1>5

\* Reading an event: a button that changes unseen is known to be unheard of.
LEMMA ReadHeard ==
    ASSUME CallsInv, DropInv, Heard, NEW s \in J!Slot,
           J!ReadDropped(s) \/ J!ReadReport(s) \/ J!SkipEvent(s) \/ J!ReadKey(s) \/ J!ReadAbs(s)
    PROVE  Heard' /\ (Head(js[s].events).type # "report" => js'[s].events # <<>>)
<1> DEFINE r == js[s]
           q == r.events
           o == js'[s]
           a == axis[r.path]
           b == button[r.path]
<1>1. axis' = axis /\ button' = button
  BY DEF J!ReadDropped, J!ReadReport, J!SkipEvent, J!ReadKey, J!ReadAbs, J!deviceVars
<1>2. /\ r.alive /\ q # <<>> /\ q \in Seq(J!Event) /\ o.events = Tail(q) /\ o.path = r.path
      /\ \A t \in J!Slot : t # s => js'[t] = js[t]
  BY ReadIs
<1>3. /\ Ends(q) /\ LastKeyIs(q, b)
      /\ NoKey(q) => r.unheard \/ r.button = b
  BY <1>2 DEF Heard, Hears
<1>4. /\ Ends(Tail(q)) /\ LastKeyIs(Tail(q), b)
      /\ ~IsKey(Head(q)) /\ NoKey(Tail(q)) => NoKey(q)
      /\ IsKey(Head(q)) /\ NoKey(Tail(q)) => Head(q).value = b
      /\ Head(q).type # "report" => Tail(q) # <<>>
  BY <1>2, <1>3, TailHears
<1>5. js \in [J!Slot -> J!Joystick]
  BY DEF CallsInv, Calls, Slots
<1>6. \/ /\ Head(q).type \in {"dropped", "abs"}
         /\ o.button = r.button /\ (o.unheard <=> r.unheard)
      \/ /\ Head(q).type = "report" /\ o.axis = a
         /\ o.button = r.button /\ (o.unheard <=> r.unheard)
      \/ /\ Head(q).type \in {"key", "abs"} /\ o.unheard
      \/ /\ Head(q).type = "key" /\ o.button = Head(q).value
  <2>1. CASE J!ReadDropped(s)
    BY <1>5, <2>1 DEF J!ReadDropped, J!Reads, J!Joystick
  <2>2. CASE J!ReadReport(s)
    BY <1>5, <2>2 DEF J!ReadReport, J!Reads, J!Joystick
  <2>3. CASE J!SkipEvent(s)
    <3>1. Head(q).type \in {"key", "abs"} /\ dropper # J!NoSlot
      BY <2>3 DEF J!SkipEvent, J!Reads
    <3>2. J!DropperGone \/ dropper = s
      <4>1. stack # <<>> /\ stack[Len(stack)].slot = s
        BY ReadIs, TopIs DEF J!Polling, J!Running
      <4>2. dropper \in J!Slot => ~js[dropper].connected \/ dropper = s
        BY <4>1 DEF DropInv, DropFits
      <4>3. dropper \in J!Slot \union {J!NoSlot, J!Vanished}
        BY DEF CallsInv, RestType
      <4>4. QED
        BY <3>1, <4>2, <4>3 DEF J!DropperGone
    <3>3. o.unheard
      <4> DEFINE u == J!DropperGone \/ dropper = s
      <4>1. js' = [js EXCEPT ![s].events = Tail(@), ![s].unheard = @ \/ J!DropperGone \/ dropper = s]
        BY <2>3 DEF J!SkipEvent
      <4>2. QED
        BY <1>5, <3>2, <4>1 DEF J!Joystick
    <3>4. QED
      BY <3>1, <3>3
  <2>4. CASE J!ReadKey(s)
    BY <1>5, <2>4 DEF J!ReadKey, J!Reads, J!Joystick
  <2>5. CASE J!ReadAbs(s)
    BY <1>5, <2>5 DEF J!ReadAbs, J!Reads, J!Joystick
  <2>6. QED
    BY <2>1, <2>2, <2>3, <2>4, <2>5
<1> HIDE DEF o, q, a, b
<1>7. Tail(q) = <<>> => o.axis = a
  BY <1>4, <1>6
<1>8. NoKey(Tail(q)) => o.unheard \/ o.button = b
  BY <1>3, <1>4, <1>6 DEF IsKey
<1>9. Hears(o, a, b)
  BY <1>2, <1>4, <1>7, <1>8 DEF Hears
<1>10. Heard'
  BY <1>1, <1>2, <1>9 DEF Heard, o, a, b
<1>11. QED
  BY <1>2, <1>4, <1>10 DEF o, q

LEMMA HeardNext == CallsInv /\ DropInv /\ Heard /\ J!Next => Heard'
<1> SUFFICES ASSUME CallsInv, DropInv, Heard, J!Next PROVE Heard'
  OBVIOUS
<1>0. js \in [J!Slot -> J!Joystick] /\ ~J!Freed.alive
  BY DEF CallsInv, Calls, Slots, J!Freed
<1>1. CASE J!Kernel
  <2>1. PICK d \in J!Device : J!Plug(d) \/ J!Permit(d) \/ J!Unplug(d) \/ J!Move(d)
    BY <1>1 DEF J!Kernel
  <2>2. CASE J!Plug(d) \/ J!Permit(d)
    BY <2>2, KeptHeard DEF J!Plug, J!Permit
  <2>3. CASE J!Unplug(d)
    <3>1. axis' = axis /\ button' = button
      BY <2>3 DEF J!Unplug
    <3>2. \A t \in J!Slot : js'[t] = js[t] \/ ~js'[t].alive
      BY <1>0, <2>3, UnplugIs DEF J!Joystick
    <3>3. QED
      BY <3>1, <3>2, KeptHeard
  <2>4. CASE J!Move(d)
    BY <2>4, MoveHeard
  <2>5. QED
    BY <2>1, <2>2, <2>3, <2>4
<1>2. CASE J!Setup
  <2>0. axis' = axis /\ button' = button
    BY <1>2 DEF J!Setup, J!BeginInit, J!InitOpen, J!InitDone, J!Terminate, J!deviceVars
  <2>1. CASE J!BeginInit
    BY <2>0, <2>1, KeptHeard DEF J!BeginInit
  <2>2. ASSUME NEW d \in J!Device, J!InitOpen(d)
        PROVE  Heard'
    BY <2>0, <2>2, InitOpenIs, OpenHeard, KeptHeard
  <2>3. CASE J!InitDone
    BY <2>0, <2>3, InitDoneIs DEF Heard, IsPermuted
  <2>4. CASE J!Terminate
    BY <1>0, <2>0, <2>4, KeptHeard DEF J!Terminate
  <2>5. QED
    BY <1>2, <2>1, <2>2, <2>3, <2>4 DEF J!Setup
<1>3. CASE J!Connections
  <2>1. axis' = axis /\ button' = button
    BY <1>3 DEF J!Connections, J!Connect, J!FreeJoystick, J!PollEvents, J!WaitEvents,
                J!DetectNext, J!DetectDone, J!deviceVars
  <2>2. CASE J!Connect
    <3>1. J!Top.slot \in J!Slot /\ js' = [js EXCEPT ![J!Top.slot].connected = TRUE]
      BY <2>2, TopIs DEF J!Connect, J!Running
    <3>2. QED
      BY <2>1, <3>1, ConnectedKept, KeptHeard DEF Kept, SameHearing
  <2>3. CASE J!FreeJoystick
    <3>1. \A t \in J!Slot : js'[t] = IF t = J!Top.slot THEN J!Freed ELSE js[t]
      BY <1>0, <2>3 DEF J!FreeJoystick
    <3>2. QED
      BY <1>0, <2>1, <3>1, KeptHeard
  <2>4. CASE J!PollEvents \/ J!WaitEvents \/ J!DetectDone
    BY <2>1, <2>4, KeptHeard DEF J!PollEvents, J!WaitEvents, J!DetectDone
  <2>5. CASE J!DetectNext
    <3>1. Head(inotify).path \in J!Device
      BY <2>5, DetectIs DEF J!Notice
    <3>2. CASE js' = js
      BY <2>1, <3>2, KeptHeard
    <3>3. ASSUME NEW s \in J!Slot, js' = [js EXCEPT ![s] = J!Opened(Head(inotify).path, FALSE)]
          PROVE  Heard'
      BY <2>1, <3>1, <3>3, OpenHeard
    <3>4. ASSUME NEW s \in J!Slot, js' = [js EXCEPT ![s].connected = FALSE]
          PROVE  Heard'
      BY <2>1, <3>4, ConnectedKept, KeptHeard DEF Kept, SameHearing
    <3>5. QED
      BY <2>5, <3>2, <3>3, <3>4, DetectSlots
  <2>6. QED
    BY <1>3, <2>2, <2>3, <2>4, <2>5 DEF J!Connections
<1>4. CASE J!PollAll
  BY <1>4, KeptHeard DEF J!PollAll, J!deviceVars
<1>5. CASE J!Reading
  <2>1. PICK s \in J!Slot :
          \/ J!PollFreed(s) \/ J!PollDone(s) \/ J!PollVanished(s)
          \/ J!ReadDropped(s) \/ J!ReadReport(s)
          \/ J!SkipEvent(s) \/ J!ReadKey(s) \/ J!ReadAbs(s)
    BY <1>5 DEF J!Reading
  <2>2. CASE J!PollFreed(s) \/ J!PollDone(s)
    BY <2>2, KeptHeard DEF J!PollFreed, J!PollDone, J!deviceVars
  <2>3. CASE J!PollVanished(s)
    <3>1. js' = [js EXCEPT ![s].connected = FALSE] /\ axis' = axis /\ button' = button
      BY <2>3 DEF J!PollVanished, J!BeginClose, J!deviceVars
    <3>2. QED
      BY <3>1, ConnectedKept, KeptHeard DEF Kept, SameHearing
  <2>4. CASE J!ReadDropped(s) \/ J!ReadReport(s) \/ J!SkipEvent(s) \/ J!ReadKey(s) \/ J!ReadAbs(s)
    BY <2>4, ReadHeard
  <2>5. QED
    BY <2>1, <2>2, <2>3, <2>4
<1>6. CASE J!Application
  <2>1. CASE J!UpdateMappings
    <3>1. axis' = axis /\ button' = button
      BY <2>1 DEF J!UpdateMappings, J!deviceVars
    <3>2. \A t \in J!Slot : SameHearing(js'[t], js[t])
      BY <2>1, UpdateIs DEF SameHearing
    <3>3. QED
      BY <3>1, <3>2, KeptHeard
  <2>2. CASE (\E s \in J!Slot : J!PollJoystick(s)) \/ J!CallbackReturns
    BY <2>2, KeptHeard DEF J!PollJoystick, J!CallbackReturns, J!deviceVars
  <2>3. QED
    BY <1>6, <2>1, <2>2 DEF J!Application
<1>7. QED
  BY <1>1, <1>2, <1>3, <1>4, <1>5, <1>6 DEF J!Next

LEMMA PushNotOpened ==
    ASSUME NEW st \in Seq(J!Call), NEW s, NotOpened(st, s), NEW f \in J!Call,
           f.fn # "connect"
    PROVE  NotOpened(Append(st, f), s)
BY AppendIs DEF NotOpened

LEMMA PopNotOpened ==
    ASSUME NEW st \in Seq(J!Call), NEW s, NotOpened(st, s), st # <<>>
    PROVE  NotOpened(Front(st), s)
BY FrontIs DEF NotOpened

LEMMA TellNotOpened ==
    ASSUME NEW st \in Seq(J!Call), NEW s, NotOpened(st, s), NEW c, J!Tell(c, st)
    PROVE  NotOpened(stack', s)
BY CallbackType, PushNotOpened DEF J!Tell

LEMMA NoDrop == ASSUME dropper' \notin J!Slot, initialized' \/ dropper' = J!NoSlot PROVE DropInv'
BY DEF DropInv, DropFits

LEMMA NoSlots == J!NoSlot \notin J!Slot /\ J!Vanished \notin J!Slot
BY SlotSet DEF J!NoSlot, J!Vanished

\* The slot is connected only when it is polled by the last call.
LEMMA Disconnected ==
    ASSUME CallsInv, DropInv, dropper \in J!Slot, stack = <<>> \/ J!Top.fn # "poll"
    PROVE  ~js[dropper].connected /\ js[dropper].allocated /\ NotOpened(stack, dropper)
BY DEF DropInv, DropFits, J!Top

LEMMA NoDropper ==
    ASSUME CallsInv, DropInv, stack = <<>> \/ J!Top.fn \in {"detect", "init"}
    PROVE  dropper \notin J!Slot
<1>1. \A s \in J!Slot : js[s].allocated => js[s].connected
  BY NothingHeld DEF CallsInv, J!Top
<1>2. QED
  BY <1>1, Disconnected

LEMMA QueuedSome ==
    ASSUME NEW q \in Seq(J!Event), NEW n \in {"key", "abs"}, NEW v \in J!Value
    PROVE  Queued(q, n, v) # <<>>
<1> DEFINE e == [type |-> n, value |-> v]
<1>1. e \in J!Event /\ J!Report \in J!Event /\ J!Dropped \in J!Event
  BY EventTypes
<1> HIDE DEF e
<1>2. <<e, J!Report>> \in Seq(J!Event) /\ Len(<<e, J!Report>>) = 2 /\ Len(q) \in Nat
  BY <1>1, LenProperties
<1>3. Len(q \o <<e, J!Report>>) = Len(q) + 2
  BY <1>2, ConcatProperties
<1>4. q \o <<e, J!Report>> # <<>>
  BY <1>2, <1>3
<1>5. <<J!Dropped, J!Report>> # <<>>
  OBVIOUS
<1>6. QED
  BY <1>4, <1>5 DEF Queued, e

\* The same calls, over slots of which none is disconnected or emptied.
LEMMA KeptDrop ==
    ASSUME DropInv, dropper' = dropper, stack' = stack, initialized' = initialized,
           \A s \in J!Slot : /\ js'[s].allocated <=> js[s].allocated
                             /\ js'[s].connected <=> js[s].connected
                             /\ js'[s].alive => js[s].alive
                             /\ js'[s].alive /\ js[s].events # <<>> => js'[s].events # <<>>
    PROVE  DropInv'
BY DEF DropInv, DropFits

\* The slot is disconnected, and no call opens it.
LEMMA ClosingDrop ==
    ASSUME CallsInv, DropInv, dropper' = dropper, initialized' = initialized,
           dropper \in J!Slot => /\ ~js'[dropper].connected /\ js'[dropper].allocated
                                 /\ NotOpened(stack', dropper)
    PROVE  DropInv'
BY DEF DropInv, DropFits

LEMMA DropNext == CallsInv /\ DropInv /\ Heard /\ J!Next => DropInv'
<1> SUFFICES ASSUME CallsInv, DropInv, Heard, J!Next PROVE DropInv'
  OBVIOUS
<1>0. js \in [J!Slot -> J!Joystick] /\ stack \in Seq(J!Call)
  BY DEF CallsInv, Calls, Slots
<1>1. CASE J!Kernel
  <2>1. PICK d \in J!Device : J!Plug(d) \/ J!Permit(d) \/ J!Unplug(d) \/ J!Move(d)
    BY <1>1 DEF J!Kernel
  <2>2. CASE J!Plug(d) \/ J!Permit(d)
    BY <2>2, KeptDrop DEF J!Plug, J!Permit
  <2>3. CASE J!Unplug(d)
    <3>1. dropper' = dropper /\ stack' = stack /\ initialized' = initialized
      BY <2>3 DEF J!Unplug
    <3>2. \A s \in J!Slot : /\ js'[s].allocated <=> js[s].allocated
                            /\ js'[s].connected <=> js[s].connected
                            /\ js'[s].alive => js[s].alive
                            /\ js'[s].events = js[s].events
      BY <1>0, <2>3, UnplugIs DEF J!Joystick
    <3>3. QED
      BY <3>1, <3>2, KeptDrop
  <2>4. CASE J!Move(d)
    <3>1. PICK n \in {"key", "abs"}, v \in J!Value : J!Deliver(d, n, v)
      BY <2>4, MoveIs
    <3>2. \A s \in J!Slot : js'[s].events = js[s].events \/ js'[s].events # <<>>
      <4> SUFFICES ASSUME NEW s \in J!Slot
                   PROVE  js'[s].events = js[s].events \/ js'[s].events # <<>>
        OBVIOUS
      <4>1. js[s].events \in Seq(J!Event)
        BY <1>0 DEF J!Joystick
      <4>2. Queued(js[s].events, n, v) # <<>>
        BY <4>1, QueuedSome
      <4>3. QED
        BY <3>1, <4>2, DeliverIs
    <3>3. dropper' = dropper /\ stack' = stack /\ initialized' = initialized
      BY <2>4, MoveIs
    <3>4. QED
      BY <3>1, <3>2, <3>3, DeliverIs, KeptDrop DEF SameButEvents
  <2>5. QED
    BY <2>1, <2>2, <2>3, <2>4
<1>2. CASE J!Setup
  <2>1. dropper' = J!NoSlot
    <3>1. CASE J!Terminate
      BY <3>1 DEF J!Terminate
    <3>2. CASE J!BeginInit
      BY <3>2 DEF J!BeginInit, DropInv
    <3>3. ASSUME NEW d \in J!Device, J!InitOpen(d)
          PROVE  dropper' = J!NoSlot
      BY <3>3, InitOpenIs DEF J!InitOpen, DropInv
    <3>4. CASE J!InitDone
      BY <3>4, InitDoneIs DEF J!InitDone, DropInv
    <3>5. QED
      BY <1>2, <3>1, <3>2, <3>3, <3>4 DEF J!Setup
  <2>2. QED
    BY <2>1, NoDrop, NoSlots
<1>3. CASE J!Connections
  <2>1. initialized' = initialized
    BY <1>3 DEF J!Connections, J!Connect, J!FreeJoystick, J!PollEvents, J!WaitEvents,
                J!DetectNext, J!DetectDone, J!libraryVars
  <2>2. CASE J!Connect
    <3>1. /\ stack # <<>> /\ J!Top.fn = "connect" /\ dropper' = dropper
          /\ js' = [js EXCEPT ![J!Top.slot].connected = TRUE] /\ J!Tell(TRUE, J!Below)
      BY <2>2 DEF J!Connect, J!Running
    <3>2. dropper \in J!Slot =>
            ~js[dropper].connected /\ js[dropper].allocated /\ NotOpened(stack, dropper)
      BY <3>1, Disconnected
    <3>3. dropper \in J!Slot => dropper # J!Top.slot
      BY <3>1, <3>2, TopIs DEF NotOpened
    <3>4. dropper \in J!Slot => js'[dropper] = js[dropper]
      BY <1>0, <3>1, <3>3
    <3>5. dropper \in J!Slot => NotOpened(stack', dropper)
      BY <1>0, <3>1, <3>2, TopIs, PopNotOpened, TellNotOpened
    <3>6. QED
      BY <2>1, <3>1, <3>2, <3>4, <3>5, ClosingDrop
  <2>3. CASE J!FreeJoystick
    <3>1. /\ stack # <<>> /\ J!Top.fn = "close"
          /\ js' = [js EXCEPT ![J!Top.slot] = J!Freed] /\ stack' = J!Below
          /\ dropper' = IF dropper = J!Top.slot THEN J!Vanished ELSE dropper
      BY <2>3 DEF J!FreeJoystick, J!Running
    <3>2. initialized'
      BY <2>1, <3>1, TopIs
    <3>3. CASE dropper = J!Top.slot
      BY <3>1, <3>2, <3>3, NoDrop, NoSlots
    <3>4. CASE dropper # J!Top.slot
      <4>1. dropper \in J!Slot =>
              ~js[dropper].connected /\ js[dropper].allocated /\ NotOpened(stack, dropper)
        BY <3>1, Disconnected
      <4>2. dropper \in J!Slot => js'[dropper] = js[dropper]
        BY <1>0, <3>1, <3>4
      <4>3. dropper \in J!Slot => NotOpened(stack', dropper)
        BY <1>0, <3>1, <4>1, TopIs, PopNotOpened
      <4>4. QED
        BY <2>1, <3>1, <3>4, <4>1, <4>2, <4>3, ClosingDrop
    <3>5. QED
      BY <3>3, <3>4
  <2>4. CASE J!PollEvents \/ J!WaitEvents \/ J!DetectNext \/ J!DetectDone
    <3>1. dropper' = dropper /\ (stack = <<>> \/ J!Top.fn = "detect")
      BY <2>4 DEF J!PollEvents, J!WaitEvents, J!DetectNext, J!DetectDone, J!Running
    <3>2. QED
      BY <2>1, <3>1, NoDropper, ClosingDrop
  <2>5. QED
    BY <1>3, <2>2, <2>3, <2>4 DEF J!Connections
<1>4. CASE J!PollAll
  <2>1. /\ stack # <<>> /\ J!Top.fn = "pollAll" /\ dropper' = dropper /\ js' = js
        /\ initialized' = initialized
    BY <1>4 DEF J!PollAll, J!Running, J!libraryVars
  <2>2. dropper \in J!Slot =>
          ~js[dropper].connected /\ js[dropper].allocated /\ NotOpened(stack, dropper)
    BY <2>1, Disconnected
  <2> DEFINE f == [J!Top EXCEPT !.left = @ + 1]
             s == J!Top.left
  <2>3. f \in J!Call /\ f.fn # "connect"
    BY <2>1, TopIs DEF J!Call
  <2>4. J!Below = Front(stack) /\ s \in Nat
    BY <2>1, TopIs
  <2>5. \/ stack' = Front(stack) \/ stack' = Append(Front(stack), f)
        \/ s \in J!Slot /\ stack' = Append(Append(Front(stack), f), J!CallOf("poll", s))
    BY <1>4, <2>4, SlotSet DEF J!PollAll
  <2> HIDE DEF f
  <2>6. \A t : NotOpened(stack, t) =>
          NotOpened(Front(stack), t) /\ NotOpened(Append(Front(stack), f), t)
    BY <1>0, <2>1, <2>3, TopIs, PopNotOpened, PushNotOpened
  <2>7. Append(Front(stack), f) \in Seq(J!Call)
    BY <2>1, <2>3, TopIs, AppendIs
  <2>8. s \in J!Slot => J!CallOf("poll", s) \in J!Call /\ J!CallOf("poll", s).fn = "poll"
    BY CallOfType
  <2>9. \A t : NotOpened(stack, t) => NotOpened(stack', t)
    BY <2>5, <2>6, <2>7, <2>8, PushNotOpened
  <2>10. QED
    BY <2>1, <2>2, <2>9, ClosingDrop
<1>5. CASE J!Reading
  <2>1. PICK s \in J!Slot :
          \/ J!PollFreed(s) \/ J!PollDone(s) \/ J!PollVanished(s)
          \/ J!ReadDropped(s) \/ J!ReadReport(s)
          \/ J!SkipEvent(s) \/ J!ReadKey(s) \/ J!ReadAbs(s)
    BY <1>5 DEF J!Reading
  <2>2. /\ J!Polling(s) /\ initialized' = initialized
    BY <2>1 DEF J!PollFreed, J!PollDone, J!PollVanished, J!ReadDropped, J!ReadReport,
                J!SkipEvent, J!ReadKey, J!ReadAbs, J!Reads, J!libraryVars
  <2>3. stack # <<>> /\ stack[Len(stack)].slot = s /\ initialized /\ J!Below = Front(stack)
    BY <2>2, PollingIs, TopIs
  <2>4. dropper \in J!Slot =>
          /\ js[dropper].allocated /\ NotOpened(stack, dropper)
          /\ js[dropper].connected =>
               dropper = s /\ (js[s].alive => js[s].events # <<>>)
    BY <2>3 DEF DropInv, DropFits
  <2>5. dropper \in J!Slot => NotOpened(Front(stack), dropper)
    BY <1>0, <2>3, <2>4, PopNotOpened
  <2>6. CASE J!PollFreed(s) \/ J!PollDone(s)
    <3>1. /\ stack' = J!Below /\ js' = js /\ dropper' = dropper
          /\ ~js[s].allocated \/ (js[s].alive /\ js[s].events = <<>>)
      BY <2>6 DEF J!PollFreed, J!PollDone
    <3>2. QED
      BY <2>2, <2>3, <2>4, <2>5, <3>1, ClosingDrop
  <2>7. CASE J!PollVanished(s)
    <3>1. /\ js' = [js EXCEPT ![s].connected = FALSE] /\ dropper' = dropper
          /\ J!Tell(TRUE, Append(J!Below, J!CallOf("close", s)))
      BY <2>7 DEF J!PollVanished, J!BeginClose
    <3>2. \A t \in J!Slot : (js'[t].allocated <=> js[t].allocated) /\ (t # s => js'[t] = js[t])
                            /\ ~js'[s].connected
      BY <3>1, ConnectedKept DEF Kept
    <3>3. J!CallOf("close", s) \in J!Call /\ J!CallOf("close", s).fn = "close"
      BY CallOfType
    <3>4. Front(stack) \in Seq(J!Call)
      BY <2>3, TopIs
    <3>5. Append(Front(stack), J!CallOf("close", s)) \in Seq(J!Call)
      BY <3>3, <3>4, AppendIs
    <3>6. dropper \in J!Slot => NotOpened(stack', dropper)
      BY <2>3, <2>5, <3>1, <3>3, <3>4, <3>5, PushNotOpened, TellNotOpened
    <3>7. QED
      BY <2>2, <2>4, <3>1, <3>2, <3>6, ClosingDrop
  <2>8. CASE J!ReadDropped(s)
    <3>1. dropper' = s /\ stack' = stack /\ Head(js[s].events).type = "dropped"
      BY <2>8 DEF J!ReadDropped, J!Reads
    <3>2. js'[s].events # <<>>
      BY <2>8, <3>1, ReadHeard
    <3>3. js[s].connected /\ js[s].allocated /\ js'[s].allocated
      BY <2>8, ReadIs, ConnectedAllocated DEF CallsInv, Calls
    <3>4. NotOpened(stack, s)
      BY <3>3 DEF CallsInv, Calls, Fit, OwnersHold, Owner, NotOpened
    <3>5. stack[Len(stack)].fn = "poll"
      BY <2>2, PollingIs, TopIs
    <3>6. QED
      BY <2>2, <2>3, <3>1, <3>2, <3>3, <3>4, <3>5 DEF DropInv, DropFits
  <2>9. CASE J!ReadReport(s) \/ J!ReadKey(s) \/ J!ReadAbs(s)
    <3>1. dropper' = J!NoSlot
      BY <2>9 DEF J!ReadReport, J!ReadKey, J!ReadAbs
    <3>2. QED
      BY <3>1, NoDrop, NoSlots
  <2>10. CASE J!SkipEvent(s)
    <3>1. /\ dropper' = dropper /\ stack' = stack
          /\ Head(js[s].events).type \in {"key", "abs"}
      BY <2>10 DEF J!SkipEvent, J!Reads
    <3>2. js'[s].events # <<>>
      BY <2>10, <3>1, ReadHeard
    <3>3. QED
      BY <2>2, <2>10, <3>1, <3>2, ReadIs, KeptDrop
  <2>11. QED
    BY <2>1, <2>6, <2>7, <2>8, <2>9, <2>10
<1>6. CASE J!Application
  <2>1. dropper' = dropper /\ initialized' = initialized
    BY <1>6 DEF J!Application, J!PollJoystick, J!UpdateMappings, J!CallbackReturns, J!libraryVars
  <2>2. stack = <<>> \/ J!Top.fn = "app"
    BY <1>6 DEF J!Application, J!PollJoystick, J!UpdateMappings, J!CallbackReturns,
                J!AppRuns, J!Running
  <2>3. dropper \in J!Slot =>
          ~js[dropper].connected /\ js[dropper].allocated /\ NotOpened(stack, dropper)
    BY <2>2, Disconnected
  <2>4. ASSUME NEW s \in J!Slot, J!PollJoystick(s)
        PROVE  DropInv'
    <3>1. stack' = Append(stack, J!CallOf("poll", s)) /\ js' = js
      BY <2>4 DEF J!PollJoystick
    <3>2. J!CallOf("poll", s) \in J!Call /\ J!CallOf("poll", s).fn = "poll"
      BY CallOfType
    <3>3. \A t : NotOpened(stack, t) => NotOpened(stack', t)
      BY <1>0, <3>1, <3>2, PushNotOpened
    <3>4. QED
      BY <2>1, <2>3, <3>1, <3>3, ClosingDrop
  <2>5. CASE J!UpdateMappings
    <3>1. stack' = stack
      BY <2>5 DEF J!UpdateMappings
    <3>2. QED
      BY <2>1, <2>5, <3>1, UpdateIs, KeptDrop
  <2>6. CASE J!CallbackReturns
    <3>1. stack # <<>> /\ stack' = Front(stack) /\ js' = js
      BY <2>6, TopIs DEF J!CallbackReturns, J!Running
    <3>2. \A t : NotOpened(stack, t) => NotOpened(stack', t)
      BY <1>0, <3>1, PopNotOpened
    <3>3. QED
      BY <2>1, <2>3, <3>1, <3>2, ClosingDrop
  <2>7. QED
    BY <1>6, <2>4, <2>5, <2>6 DEF J!Application
<1>7. QED
  BY <1>1, <1>2, <1>3, <1>4, <1>5, <1>6 DEF J!Next

--------------------------------------------------------------------------------
(* The notices of inotify. *)

Says(w) == CASE w = "create" -> "created" [] w = "attrib" -> "ready" [] w = "delete" -> "absent"

\* The last notice of a device says what its node is.
Told(q, nodes) ==
    \A i \in 1..Len(q) : (\A k \in i + 1..Len(q) : q[k].path # q[i].path) =>
                            nodes[q[i].path] = Says(q[i].what)
Unnoticed(q, d) == \A i \in 1..Len(q) : q[i].path # d
Gone(q, d) == \E i \in 1..Len(q) : q[i].what = "delete" /\ q[i].path = d

\* The slot is in use, and no call closes it.
Stays(st, slots, s) ==
    slots[s].allocated /\ (slots[s].connected \/ ~NotOpened(st, s))

NoticeInv ==
    /\ ~watching => inotify = <<>>
    /\ stack = <<>> /\ ~initialized => ~watching
    /\ Told(inotify, node)
    /\ \A s \in J!Slot : js[s].alive => node[js[s].path] = "ready"
    /\ watching => \A s \in J!Slot :
                     Stays(stack, js, s) /\ ~js[s].alive => Gone(inotify, js[s].path)
    /\ watching => \A d \in J!Device :
                     /\ node[d] = "ready"
                     /\ initialized \/ (stack # <<>> /\ d \in J!Top.tried)
                     /\ Unnoticed(inotify, d)
                     => \E s \in J!Slot : Stays(stack, js, s) /\ js[s].alive /\ js[s].path = d

LEMMA AppendNotices ==
    ASSUME NEW q \in Seq(J!Notice), NEW f \in J!Notice, NEW n, Told(q, n),
           NEW m, \A d \in J!Device : d # f.path => m[d] = n[d], m[f.path] = Says(f.what)
    PROVE  /\ Told(Append(q, f), m)
           /\ \A d : Unnoticed(Append(q, f), d) => d # f.path /\ Unnoticed(q, d)
           /\ \A d : Gone(q, d) => Gone(Append(q, f), d)
           /\ f.what = "delete" => Gone(Append(q, f), f.path)
<1> DEFINE p == Append(q, f)
<1>1. /\ Len(q) \in Nat /\ Len(p) = Len(q) + 1 /\ p[Len(q) + 1] = f
      /\ \A i \in 1..Len(q) : p[i] = q[i] /\ q[i].path \in J!Device
  <2>1. \A i \in 1..Len(q) : q[i] \in J!Notice
    BY ElementOfSeq
  <2>2. QED
    BY <2>1, AppendIs DEF J!Notice
<1> HIDE DEF p
<1>2. \A i \in 1..Len(p) : i \in 1..Len(q) \/ i = Len(q) + 1
  BY <1>1
<1>3. Len(q) + 1 \in 1..Len(p) /\ \A i \in 1..Len(q) : i \in 1..Len(p) /\ Len(q) + 1 \in i + 1..Len(p)
                               /\ \A k \in i + 1..Len(q) : k \in i + 1..Len(p) /\ k \in 1..Len(q)
  BY <1>1
<1>4. Told(p, m)
  <2> SUFFICES ASSUME NEW i \in 1..Len(p), \A k \in i + 1..Len(p) : p[k].path # p[i].path
               PROVE  m[p[i].path] = Says(p[i].what)
    BY DEF Told
  <2>1. CASE i = Len(q) + 1
    BY <1>1, <2>1
  <2>2. CASE i \in 1..Len(q)
    <3>1. p[i] = q[i] /\ q[i].path # f.path
      BY <1>1, <1>3, <2>2
    <3>2. \A k \in i + 1..Len(q) : q[k].path # q[i].path
      BY <1>1, <1>3, <2>2
    <3>3. QED
      BY <1>1, <2>2, <3>1, <3>2 DEF Told
  <2>3. QED
    BY <1>2, <2>1, <2>2
<1>5. \A d : Unnoticed(p, d) => d # f.path /\ Unnoticed(q, d)
  BY <1>1, <1>3 DEF Unnoticed
<1>6. \A d : Gone(q, d) => Gone(p, d)
  BY <1>1, <1>3 DEF Gone
<1>7. f.what = "delete" => Gone(p, f.path)
  BY <1>1, <1>3 DEF Gone
<1>8. QED
  BY <1>4, <1>5, <1>6, <1>7 DEF p

LEMMA TailNotices ==
    ASSUME NEW q \in Seq(J!Notice), q # <<>>, NEW n, Told(q, n)
    PROVE  /\ Told(Tail(q), n)
           /\ \A d : d # Head(q).path /\ Unnoticed(Tail(q), d) => Unnoticed(q, d)
           /\ \A d : Gone(q, d) /\ (Head(q).what # "delete" \/ Head(q).path # d) =>
                       Gone(Tail(q), d)
           /\ Unnoticed(Tail(q), Head(q).path) => n[Head(q).path] = Says(Head(q).what)
           /\ \A d : Gone(Tail(q), d) => ~Unnoticed(Tail(q), d)
<1> DEFINE p == Tail(q)
           m == Len(q)
<1>1. /\ m \in Nat \ {0} /\ Len(p) = m - 1 /\ Head(q) = q[1]
      /\ \A i \in 1..m - 1 : p[i] = q[i + 1]
  BY HeadTailProperties, EmptySeq
<1> HIDE DEF p, m
<1>2. /\ 1 \in 1..m /\ \A i \in 1..m : i = 1 \/ (i - 1 \in 1..m - 1 /\ (i - 1) + 1 = i)
      /\ \A i \in 1..m - 1 : /\ i + 1 \in 1..m
                             /\ \A k \in i + 1 + 1..m : k - 1 \in i + 1..m - 1
                                                        /\ k - 1 \in 1..m - 1 /\ (k - 1) + 1 = k
      /\ \A k \in 1 + 1..m : k - 1 \in 1..m - 1 /\ (k - 1) + 1 = k
  BY <1>1
<1>3. Told(p, n)
  <2> SUFFICES ASSUME NEW i \in 1..m - 1, \A k \in i + 1..m - 1 : p[k].path # p[i].path
               PROVE  n[p[i].path] = Says(p[i].what)
    BY <1>1 DEF Told
  <2>1. i + 1 \in 1..m /\ p[i] = q[i + 1]
    BY <1>1, <1>2
  <2>2. \A k \in i + 1 + 1..m : q[k] = p[k - 1]
    BY <1>1, <1>2
  <2>3. \A k \in i + 1 + 1..m : q[k].path # q[i + 1].path
    BY <1>2, <2>1, <2>2
  <2>4. QED
    BY <2>1, <2>3 DEF Told, m
<1>4. \A d : d # Head(q).path /\ Unnoticed(p, d) => Unnoticed(q, d)
  <2> SUFFICES ASSUME NEW d, d # Head(q).path, Unnoticed(p, d), NEW i \in 1..m
               PROVE  q[i].path # d
    BY DEF Unnoticed, m
  <2>1. i = 1 \/ q[i] = p[i - 1]
    BY <1>1, <1>2
  <2>2. QED
    BY <1>1, <1>2, <2>1 DEF Unnoticed
<1>5. \A d : Gone(q, d) /\ (Head(q).what # "delete" \/ Head(q).path # d) => Gone(p, d)
  <2> SUFFICES ASSUME NEW d, NEW i \in 1..m, q[i].what = "delete", q[i].path = d,
                      Head(q).what # "delete" \/ Head(q).path # d
               PROVE  Gone(p, d)
    BY DEF Gone, m
  <2>1. i - 1 \in 1..m - 1 /\ q[i] = p[i - 1]
    BY <1>1, <1>2
  <2>2. QED
    BY <1>1, <2>1 DEF Gone
<1>6. Unnoticed(p, Head(q).path) => n[Head(q).path] = Says(Head(q).what)
  <2> SUFFICES ASSUME Unnoticed(p, Head(q).path) PROVE n[q[1].path] = Says(q[1].what)
    BY <1>1
  <2>1. \A k \in 1 + 1..m : q[k] = p[k - 1]
    BY <1>1, <1>2
  <2>2. \A k \in 1 + 1..m : q[k].path # q[1].path
    BY <1>1, <1>2, <2>1 DEF Unnoticed
  <2>3. QED
    BY <1>2, <2>2 DEF Told, m
<1>7. \A d : Gone(p, d) => ~Unnoticed(p, d)
  BY DEF Gone, Unnoticed
<1>8. QED
  BY <1>3, <1>4, <1>5, <1>6, <1>7 DEF p

\* A node changes.
LEMMA NodeNotices ==
    ASSUME CallsInv, NoticeInv, NEW d \in J!Device, NEW w \in {"create", "attrib", "delete"},
           J!Notify(w, d), node' = [node EXCEPT ![d] = Says(w)],
           UNCHANGED <<watching, initialized, stack>>,
           \A s \in J!Slot : /\ js'[s].allocated <=> js[s].allocated
                             /\ js'[s].connected <=> js[s].connected
                             /\ js'[s].path = js[s].path
                             /\ js'[s].alive <=> js[s].alive /\ js[s].path # d
                             /\ js[s].alive /\ js[s].path = d => w = "delete"
    PROVE  NoticeInv'
<1> DEFINE f == [what |-> w, path |-> d]
<1>1. f \in J!Notice /\ f.what = w /\ f.path = d /\ inotify \in Seq(J!Notice)
  BY DEF J!Notice, CallsInv, RestType
<1>2. node'[d] = Says(w) /\ \A e \in J!Device : e # d => node'[e] = node[e]
  BY DEF CallsInv, RestType
<1>3. inotify' = IF watching THEN Append(inotify, f) ELSE inotify
  BY DEF J!Notify
<1> HIDE DEF f
<1>4. Told(inotify, node)
  BY DEF NoticeInv
<1>5. /\ Told(Append(inotify, f), node')
      /\ \A e : Unnoticed(Append(inotify, f), e) => e # d /\ Unnoticed(inotify, e)
      /\ \A e : Gone(inotify, e) => Gone(Append(inotify, f), e)
      /\ w = "delete" => Gone(Append(inotify, f), d)
  <2>1. node'[f.path] = Says(f.what) /\ \A e \in J!Device : e # f.path => node'[e] = node[e]
    BY <1>1, <1>2
  <2> DEFINE m == node'
  <2> HIDE DEF m
  <2>2. m[f.path] = Says(f.what) /\ \A e \in J!Device : e # f.path => m[e] = node[e]
    BY <2>1 DEF m
  <2>3. /\ Told(Append(inotify, f), m)
        /\ \A e : Unnoticed(Append(inotify, f), e) => e # f.path /\ Unnoticed(inotify, e)
        /\ \A e : Gone(inotify, e) => Gone(Append(inotify, f), e)
        /\ f.what = "delete" => Gone(Append(inotify, f), f.path)
    BY <1>1, <1>4, <2>2, AppendNotices
  <2>4. QED
    BY <1>1, <2>3 DEF m
<1>6. \A s \in J!Slot : Stays(stack', js', s) <=> Stays(stack, js, s)
  BY DEF Stays
<1>7. ~watching' => inotify' = <<>>
  BY <1>3 DEF NoticeInv
<1>8. stack' = <<>> /\ ~initialized' => ~watching'
  BY DEF NoticeInv
<1>9. Told(inotify', node')
  <2>1. CASE watching
    BY <1>3, <1>5, <2>1
  <2>2. CASE ~watching
    <3>1. inotify' = <<>>
      BY <1>7, <2>2
    <3>2. QED
      BY <3>1 DEF Told
  <2>3. QED
    BY <2>1, <2>2
<1>10. \A s \in J!Slot : js'[s].alive => node'[js'[s].path] = "ready"
  BY <1>2, ConnectedAllocated DEF NoticeInv, CallsInv, Calls, Slots, OneSlotEach
<1>11. ASSUME watching', NEW s \in J!Slot, Stays(stack', js', s), ~js'[s].alive
       PROVE  Gone(inotify', js'[s].path)
  <2>1. inotify' = Append(inotify, f) /\ watching
    BY <1>3, <1>11
  <2>2. CASE js[s].alive
    BY <1>5, <1>11, <2>1, <2>2
  <2>3. CASE ~js[s].alive
    <3>1. Gone(inotify, js[s].path)
      BY <1>6, <1>11, <2>1, <2>3 DEF NoticeInv
    <3>2. QED
      BY <1>5, <2>1, <3>1
  <2>4. QED
    BY <2>2, <2>3
<1>12. ASSUME watching', NEW e \in J!Device, node'[e] = "ready",
              initialized' \/ (stack' # <<>> /\ e \in J!Top'.tried), Unnoticed(inotify', e)
       PROVE  \E s \in J!Slot : Stays(stack', js', s) /\ js'[s].alive /\ js'[s].path = e
  <2>1. inotify' = Append(inotify, f) /\ watching
    BY <1>3, <1>12
  <2>2. e # d /\ Unnoticed(inotify, e) /\ node[e] = "ready"
    BY <1>2, <1>5, <1>12, <2>1
  <2>3. initialized \/ (stack # <<>> /\ e \in J!Top.tried)
    BY <1>12 DEF J!Top
  <2>4. PICK s \in J!Slot : Stays(stack, js, s) /\ js[s].alive /\ js[s].path = e
    BY <2>1, <2>2, <2>3 DEF NoticeInv
  <2>5. QED
    BY <1>6, <2>2, <2>4
<1>13. QED
  BY <1>7, <1>8, <1>9, <1>10, <1>11, <1>12 DEF NoticeInv

\* A step that neither the nodes nor the notices see, and that opens, closes and
\* vanishes nothing.
LEMMA SameNotices ==
    ASSUME NoticeInv, UNCHANGED <<node, watching, inotify, initialized>>, initialized,
           \A s \in J!Slot :
             /\ Stays(stack', js', s) <=> Stays(stack, js, s)
             /\ Stays(stack, js, s) => (js'[s].alive <=> js[s].alive)
             /\ js'[s].alive => js[s].alive
             /\ js'[s].alive \/ Stays(stack, js, s) => js'[s].path = js[s].path
    PROVE  NoticeInv'
BY DEF NoticeInv

LEMMA PushOpening ==
    ASSUME NEW st \in Seq(J!Call), NEW f \in J!Call, f.fn # "connect"
    PROVE  \A s : NotOpened(Append(st, f), s) <=> NotOpened(st, s)
<1>1. /\ Len(st) \in Nat /\ Len(Append(st, f)) = Len(st) + 1 /\ Append(st, f)[Len(st) + 1] = f
      /\ \A i \in 1..Len(st) : Append(st, f)[i] = st[i]
  BY AppendIs
<1>2. QED
  BY <1>1 DEF NotOpened

LEMMA PopOpening ==
    ASSUME NEW st \in Seq(J!Call), st # <<>>, st[Len(st)].fn # "connect"
    PROVE  \A s : NotOpened(Front(st), s) <=> NotOpened(st, s)
<1>1. /\ Len(st) \in Nat \ {0} /\ Len(Front(st)) = Len(st) - 1
      /\ \A i \in 1..Len(st) - 1 : Front(st)[i] = st[i]
  BY FrontIs
<1>2. QED
  BY <1>1 DEF NotOpened

LEMMA TellOpening ==
    ASSUME NEW st \in Seq(J!Call), NEW c, J!Tell(c, st)
    PROVE  \A s : NotOpened(stack', s) <=> NotOpened(st, s)
BY CallbackType, PushOpening DEF J!Tell

\* There is a free slot for each device that has none.
LEMMA FreeSlot ==
    ASSUME NumDevices <= LastSlot + 1, NEW k, Slots(k), NEW d \in J!Device,
           \A s \in J!Slot : k[s].allocated => k[s].path # d
    PROVE  \E s \in J!Slot : ~k[s].allocated
<1> SUFFICES ASSUME \A s \in J!Slot : k[s].allocated PROVE FALSE
  OBVIOUS
<1> DEFINE A == J!Slot
           B == J!Device \ {d}
           f == [s \in A |-> k[s].path]
<1>1. IsFiniteSet(A) /\ Cardinality(A) = LastSlot + 1 /\ LastSlot \in Nat /\ NumDevices \in Nat \ {0}
  BY SlotSet
<1>2. IsFiniteSet(J!Device) /\ Cardinality(J!Device) = NumDevices
  <2>1. 1 \in Int /\ NumDevices \in Int
    BY <1>1
  <2>2. IsFiniteSet(1..NumDevices)
        /\ Cardinality(1..NumDevices) = IF 1 > NumDevices THEN 0 ELSE NumDevices - 1 + 1
    BY <2>1, FS_Interval
  <2>3. QED
    BY <1>1, <2>2 DEF J!Device
<1>3. IsFiniteSet(B) /\ Cardinality(B) = NumDevices - 1
  BY <1>2, FS_RemoveElement
<1>4. f \in [A -> B]
  BY DEF Slots, OneSlotEach
<1>5. \A s, t \in A : f[s] = f[t] => s = t
  BY DEF Slots, OneSlotEach
<1> HIDE DEF A, B, f
<1>6. Cardinality(A) > Cardinality(B)
  BY <1>1, <1>3
<1>7. \E s, t \in A : s # t /\ f[s] = f[t]
  BY <1>1, <1>3, <1>4, <1>6, FS_PigeonHole
<1>8. QED
  BY <1>5, <1>7

\* A device that cannot be opened although its node is ready is open.
LEMMA CannotOpen ==
    ASSUME NumDevices <= LastSlot + 1, CallsInv, NEW d \in J!Device, node[d] = "ready", ~J!CanOpen(d)
    PROVE  \E t \in J!Slot : js[t].allocated /\ js[t].path = d
<1>1. Slots(js)
  BY DEF CallsInv, Calls
<1>2. QED
  BY <1>1, FreeSlot, ConnectedAllocated DEF J!CanOpen

LEMMA SetupNotices ==
    NumDevices <= LastSlot + 1 /\ CallsInv /\ NoticeInv /\ J!Setup => NoticeInv'
<1> SUFFICES ASSUME NumDevices <= LastSlot + 1, CallsInv, NoticeInv, J!Setup PROVE NoticeInv'
  OBVIOUS
<1>0. Slots(js) /\ js \in [J!Slot -> J!Joystick] /\ ~J!Freed.alive /\ ~J!Freed.allocated
  BY DEF CallsInv, Calls, Slots, J!Freed
<1>1. CASE J!BeginInit
  <2>1. /\ stack = <<>> /\ ~initialized /\ stack' = <<J!CallOf("init", 0)>>
        /\ UNCHANGED <<node, initialized, inotify, js>>
    BY <1>1 DEF J!BeginInit, J!deviceVars
  <2>2. inotify = <<>>
    BY <2>1 DEF NoticeInv
  <2>3. \A s \in J!Slot : ~js[s].allocated
    BY <2>1, SlotSet DEF CallsInv, Calls, Filled
  <2>4. /\ stack' # <<>> /\ J!Top' = J!CallOf("init", 0)
    BY <2>1 DEF J!Top
  <2>5. J!Top'.tried = {}
    BY <2>4, CallOfType, SlotSet
  <2>6. Told(inotify, node)
    BY DEF NoticeInv
  <2>7. QED
    BY <1>0, <2>1, <2>2, <2>3, <2>4, <2>5, <2>6, ConnectedAllocated DEF NoticeInv, Stays
<1>2. ASSUME NEW d \in J!Device, J!InitOpen(d)
      PROVE  NoticeInv'
  <2>1. /\ UNCHANGED <<node, initialized, inotify, watching>> /\ ~initialized
        /\ \A s \in J!Slot : js[s].allocated => js[s].connected
        /\ stack # <<>>
    BY <1>2, InitOpenIs DEF J!InitOpen, J!deviceVars, J!libraryVars
  <2>2. PICK f \in J!Call : stack' = <<f>> /\ f.fn = "init" /\ f.tried = J!Top.tried \union {d}
    BY <1>2, InitOpenIs
  <2>3. stack' # <<>> /\ J!Top' = f
    BY <2>2 DEF J!Top
  <2>4. \A t \in J!Slot : Stays(stack, js, t) <=> js[t].allocated
    BY <2>1 DEF Stays
  <2>5. ASSUME NEW e \in J!Device, watching, node[e] = "ready", e \in J!Top.tried,
               Unnoticed(inotify, e)
        PROVE  \E t \in J!Slot : js[t].allocated /\ js[t].alive /\ js[t].path = e
    BY <2>1, <2>4, <2>5 DEF NoticeInv
  <2>6. ASSUME watching, NEW t \in J!Slot, js[t].allocated, ~js[t].alive
        PROVE  Gone(inotify, js[t].path)
    BY <2>4, <2>6 DEF NoticeInv
  <2>7. CASE ~J!CanOpen(d) /\ js' = js
    <3>1. \A t \in J!Slot : Stays(stack', js', t) <=> js[t].allocated
      BY <2>1, <2>7 DEF Stays
    <3>2. ASSUME NEW e \in J!Device, watching, node[e] = "ready", e \in J!Top.tried \union {d},
                 Unnoticed(inotify, e)
          PROVE  \E t \in J!Slot : js[t].allocated /\ js[t].alive /\ js[t].path = e
      <4>1. CASE e \in J!Top.tried
        BY <2>5, <3>2, <4>1
      <4>2. CASE e = d
        <5>1. PICK t \in J!Slot : js[t].allocated /\ js[t].path = d
          BY <2>7, <3>2, <4>2, CannotOpen
        <5>2. js[t].alive
          BY <2>6, <3>2, <4>2, <5>1 DEF Gone, Unnoticed
        <5>3. QED
          BY <4>2, <5>1, <5>2
      <4>3. QED
        BY <3>2, <4>1, <4>2
    <3>3. QED
      BY <2>1, <2>2, <2>3, <2>6, <2>7, <3>1, <3>2 DEF NoticeInv
  <2>8. ASSUME NEW s \in J!Slot, J!CanOpen(d), J!IsFreeSlot(s),
               js' = [js EXCEPT ![s] = J!Opened(d, TRUE)]
        PROVE  NoticeInv'
    <3> DEFINE o == J!Opened(d, TRUE)
    <3>1. o.allocated /\ o.connected /\ o.path = d /\ o.alive
      BY OpenedIs
    <3> HIDE DEF o
    <3>2. \A t \in J!Slot : js'[t] = IF t = s THEN o ELSE js[t]
      BY <1>0, <2>8 DEF o
    <3>3. ~js[s].allocated /\ node[d] = "ready"
      BY <2>8 DEF J!IsFreeSlot, J!CanOpen
    <3>4. \A t \in J!Slot : Stays(stack', js', t) <=> t = s \/ js[t].allocated
      BY <2>1, <3>1, <3>2 DEF Stays
    <3>5. \A t \in J!Slot : js'[t].alive => node[js'[t].path] = "ready"
      BY <3>1, <3>2, <3>3 DEF NoticeInv
    <3>6. ASSUME watching, NEW t \in J!Slot, Stays(stack', js', t), ~js'[t].alive
          PROVE  Gone(inotify, js'[t].path)
      BY <2>6, <3>1, <3>2, <3>4, <3>6
    <3>7. ASSUME NEW e \in J!Device, watching, node[e] = "ready", e \in J!Top.tried \union {d},
                 Unnoticed(inotify, e)
          PROVE  \E t \in J!Slot : Stays(stack', js', t) /\ js'[t].alive /\ js'[t].path = e
      <4>1. CASE e = d
        BY <3>1, <3>2, <3>4, <4>1
      <4>2. CASE e # d
        <5>1. PICK t \in J!Slot : js[t].allocated /\ js[t].alive /\ js[t].path = e
          BY <2>5, <3>7, <4>2
        <5>2. t # s
          BY <3>3, <5>1
        <5>3. QED
          BY <3>2, <3>4, <5>1, <5>2
      <4>3. QED
        BY <4>1, <4>2
    <3>8. QED
      BY <2>1, <2>2, <2>3, <3>5, <3>6, <3>7 DEF NoticeInv
  <2>9. QED
    BY <1>2, <2>7, <2>8, InitOpenIs
<1>3. CASE J!InitDone
  <2>1. /\ stack' = <<>> /\ initialized' = TRUE /\ UNCHANGED <<node, inotify, watching>>
        /\ J!Top.tried = J!Device
    BY <1>3 DEF J!InitDone, J!deviceVars
  <2>2. PICK p : IsPermuted(js', js, p)
    BY <1>3, InitDoneIs
  <2>3. \A s \in J!Slot : js[s].allocated => js[s].connected
    BY <1>3, InitDoneIs
  <2>4. \A s \in J!Slot : p[s] \in J!Slot /\ js'[s] = js[p[s]]
    BY <2>2 DEF IsPermuted
  <2>5. \A s \in J!Slot : Stays(stack', js', s) <=> Stays(stack, js, p[s])
    BY <2>3, <2>4 DEF Stays
  <2>6. \A s \in J!Slot : js'[s].alive => node[js'[s].path] = "ready"
    BY <2>4 DEF NoticeInv
  <2>7. ASSUME watching, NEW s \in J!Slot, Stays(stack', js', s), ~js'[s].alive
        PROVE  Gone(inotify, js'[s].path)
    BY <2>4, <2>5, <2>7 DEF NoticeInv
  <2>8. ASSUME watching, NEW d \in J!Device, node[d] = "ready", Unnoticed(inotify, d)
        PROVE  \E s \in J!Slot : Stays(stack', js', s) /\ js'[s].alive /\ js'[s].path = d
    <3>1. stack # <<>>
      BY <1>3, InitDoneIs
    <3>2. PICK t \in J!Slot : Stays(stack, js, t) /\ js[t].alive /\ js[t].path = d
      BY <2>1, <2>8, <3>1 DEF NoticeInv
    <3>3. PICK s \in J!Slot : p[s] = t
      BY <2>2 DEF IsPermuted
    <3>4. QED
      BY <2>4, <2>5, <3>2, <3>3
  <2>9. QED
    BY <2>1, <2>6, <2>7, <2>8 DEF NoticeInv
<1>4. CASE J!Terminate
  <2>1. /\ watching' = FALSE /\ inotify' = <<>> /\ \A s \in J!Slot : js'[s] = J!Freed
    BY <1>4 DEF J!Terminate
  <2>2. Told(inotify', node')
    BY <2>1 DEF Told
  <2>3. QED
    BY <1>0, <2>1, <2>2 DEF NoticeInv
<1>5. QED
  BY <1>1, <1>2, <1>3, <1>4 DEF J!Setup

\* Handling one notice.
LEMMA DetectNotices ==
    NumDevices <= LastSlot + 1 /\ CallsInv /\ NoticeInv /\ J!DetectNext => NoticeInv'
<1> SUFFICES ASSUME NumDevices <= LastSlot + 1, CallsInv, NoticeInv, J!DetectNext
             PROVE  NoticeInv'
  OBVIOUS
<1> DEFINE h == Head(inotify)
           d == h.path
           q == Tail(inotify)
<1>1. /\ initialized /\ UNCHANGED <<node, watching, initialized>> /\ inotify' = q
      /\ \A s \in J!Slot : js[s].allocated => js[s].connected
      /\ inotify # <<>> /\ inotify \in Seq(J!Notice)
      /\ h.what \in {"create", "attrib", "delete"} /\ d \in J!Device
  BY DetectIs DEF J!DetectNext, J!deviceVars, CallsInv, RestType, J!Notice
<1>2. Handler \in Seq(J!Call) /\ stack \in Seq(J!Call) /\ Slots(js)
      /\ js \in [J!Slot -> J!Joystick]
  BY DetectIs DEF Calls, CallsInv, Slots
<1>3. \A t \in J!Slot : NotOpened(Handler, t)
  <2>1. \A i \in 1..Len(Handler) : ~Owner(Handler[i])
    BY DetectIs, NothingHeld
  <2>2. QED
    BY <2>1 DEF NotOpened, Owner
<1>4. \A t \in J!Slot : Stays(stack, js, t) <=> js[t].allocated
  BY <1>1 DEF Stays
<1>5. watching /\ Told(inotify, node)
  BY <1>1 DEF NoticeInv
<1>6. /\ Told(q, node)
      /\ \A e : e # d /\ Unnoticed(q, e) => Unnoticed(inotify, e)
      /\ \A e : Gone(inotify, e) /\ (h.what # "delete" \/ d # e) => Gone(q, e)
      /\ Unnoticed(q, d) => node[d] = Says(h.what)
      /\ \A e : Gone(q, e) => ~Unnoticed(q, e)
  BY <1>1, <1>5, TailNotices
<1>7. h.what = "delete" => (Unnoticed(q, d) => node[d] # "ready")
  BY <1>6 DEF Says
<1> HIDE DEF h, d, q
<1>8. \A t \in J!Slot : js[t].alive => js[t].allocated /\ node[js[t].path] = "ready"
  BY <1>2, ConnectedAllocated DEF NoticeInv
<1>9. \A t \in J!Slot : js[t].allocated /\ ~js[t].alive => Gone(inotify, js[t].path)
  BY <1>4, <1>5 DEF NoticeInv
<1>10. \A e \in J!Device : node[e] = "ready" /\ Unnoticed(inotify, e) =>
          \E t \in J!Slot : js[t].allocated /\ js[t].alive /\ js[t].path = e
  BY <1>1, <1>4, <1>5 DEF NoticeInv
\* What remains to be shown, of the slots as they are then.
<1>11. ASSUME \A t \in J!Slot : js'[t].alive => node[js'[t].path] = "ready",
              \A t \in J!Slot : Stays(stack', js', t) /\ ~js'[t].alive => Gone(q, js'[t].path),
              \A e \in J!Device : node[e] = "ready" /\ Unnoticed(q, e) =>
                 \E t \in J!Slot : Stays(stack', js', t) /\ js'[t].alive /\ js'[t].path = e
       PROVE  NoticeInv'
  BY <1>1, <1>5, <1>6, <1>11 DEF NoticeInv
<1>12. CASE /\ h.what \in {"create", "attrib"} /\ ~J!CanOpen(d) /\ js' = js
  <2>1. \A t \in J!Slot : Stays(stack', js', t) <=> js[t].allocated
    BY <1>1, <1>12 DEF Stays
  <2>2. \A t \in J!Slot : js[t].allocated /\ ~js[t].alive => Gone(q, js[t].path)
    BY <1>6, <1>9, <1>12
  <2>3. ASSUME NEW e \in J!Device, node[e] = "ready", Unnoticed(q, e)
        PROVE  \E t \in J!Slot : js[t].allocated /\ js[t].alive /\ js[t].path = e
    <3>1. CASE e # d
      BY <1>6, <1>10, <2>3, <3>1
    <3>2. CASE e = d
      <4>1. PICK t \in J!Slot : js[t].allocated /\ js[t].path = d
        BY <1>1, <1>12, <2>3, <3>2, CannotOpen
      <4>2. js[t].alive
        BY <1>6, <2>2, <2>3, <3>2, <4>1
      <4>3. QED
        BY <3>2, <4>1, <4>2
    <3>3. QED
      BY <3>1, <3>2
  <2>4. QED
    BY <1>8, <1>11, <1>12, <2>1, <2>2, <2>3
<1>13. CASE /\ h.what = "delete" /\ \A s \in J!Slot : js[s].path # d
            /\ js' = js
  <2>1. \A t \in J!Slot : Stays(stack', js', t) <=> js[t].allocated
    BY <1>1, <1>13 DEF Stays
  <2>2. \A t \in J!Slot : js[t].allocated /\ ~js[t].alive => Gone(q, js[t].path)
    BY <1>6, <1>9, <1>13
  <2>3. \A e \in J!Device : node[e] = "ready" /\ Unnoticed(q, e) =>
          \E t \in J!Slot : js[t].allocated /\ js[t].alive /\ js[t].path = e
    BY <1>6, <1>7, <1>10, <1>13
  <2>4. QED
    BY <1>8, <1>11, <1>13, <2>1, <2>2, <2>3
<1>14. ASSUME NEW s \in J!Slot, h.what \in {"create", "attrib"}, J!CanOpen(d),
              ~js[s].allocated, js' = [js EXCEPT ![s] = J!Opened(d, FALSE)],
              J!Tell(axis[d] # 0, Append(Handler, J!CallOf("connect", s)))
       PROVE  NoticeInv'
  <2> DEFINE o == J!Opened(d, FALSE)
             f == J!CallOf("connect", s)
  <2>1. o.allocated /\ ~o.connected /\ o.path = d /\ o.alive
    BY <1>1, OpenedIs
  <2>2. f \in J!Call /\ f.fn = "connect" /\ f.slot = s
    BY CallOfType
  <2> HIDE DEF o
  <2>3. \A t \in J!Slot : js'[t] = IF t = s THEN o ELSE js[t]
    BY <1>2, <1>14 DEF o
  <2> HIDE DEF f
  <2>4. /\ Append(Handler, f) \in Seq(J!Call) /\ Len(Handler) \in Nat
        /\ Len(Append(Handler, f)) = Len(Handler) + 1 /\ Append(Handler, f)[Len(Handler) + 1] = f
    BY <1>2, <2>2, AppendIs
  <2>5. ~NotOpened(Append(Handler, f), s)
    BY <2>2, <2>4 DEF NotOpened
  <2>6. ~NotOpened(stack', s)
    BY <1>14, <2>4, <2>5, TellOpening DEF f
  <2>7. Stays(stack', js', s)
    BY <2>1, <2>3, <2>6 DEF Stays
  <2>8. \A t \in J!Slot : t # s => (Stays(stack', js', t) <=> js[t].allocated)
    BY <1>1, <2>3 DEF Stays
  <2>9. \A t \in J!Slot : js'[t].alive => node[js'[t].path] = "ready"
    <3>1. node[d] = "ready"
      BY <1>14 DEF J!CanOpen
    <3>2. QED
      BY <1>8, <2>1, <2>3, <3>1
  <2>10. ASSUME NEW t \in J!Slot, Stays(stack', js', t), ~js'[t].alive
         PROVE  Gone(q, js'[t].path)
    <3>1. t # s /\ js'[t] = js[t] /\ js[t].allocated
      BY <2>1, <2>3, <2>8, <2>10
    <3>2. QED
      BY <1>6, <1>9, <1>14, <2>10, <3>1
  <2>11. ASSUME NEW e \in J!Device, node[e] = "ready", Unnoticed(q, e)
         PROVE  \E t \in J!Slot : Stays(stack', js', t) /\ js'[t].alive /\ js'[t].path = e
    <3>1. CASE e = d
      BY <2>1, <2>3, <2>7, <3>1
    <3>2. CASE e # d
      <4>1. PICK t \in J!Slot : js[t].allocated /\ js[t].alive /\ js[t].path = e
        BY <1>6, <1>10, <2>11, <3>2
      <4>2. t # s
        BY <1>14, <4>1
      <4>3. QED
        BY <2>3, <2>8, <4>1, <4>2
    <3>3. QED
      BY <3>1, <3>2
  <2>12. QED
    BY <1>11, <2>9, <2>10, <2>11
<1>15. ASSUME NEW s \in J!Slot, h.what = "delete", js[s].path = d,
              js' = [js EXCEPT ![s].connected = FALSE],
              J!Tell(TRUE, Append(Handler, J!CallOf("close", s)))
       PROVE  NoticeInv'
  <2> DEFINE f == J!CallOf("close", s)
  <2>1. f \in J!Call /\ f.fn = "close"
    BY CallOfType
  <2>2. \A t \in J!Slot : Kept(js'[t], js[t]) /\ (js'[t].connected <=> t # s /\ js[t].connected)
    BY <1>15, ConnectedKept
  <2> HIDE DEF f
  <2>3. Append(Handler, f) \in Seq(J!Call)
    BY <1>2, <2>1, AppendIs
  <2>4. NotOpened(stack', s)
    BY <1>2, <1>3, <1>15, <2>1, <2>3, PushOpening, TellOpening DEF f
  <2>5. ~Stays(stack', js', s)
    BY <2>2, <2>4 DEF Stays
  <2>6. \A t \in J!Slot : t # s => (Stays(stack', js', t) <=> js[t].allocated)
    BY <1>1, <2>2 DEF Stays, Kept
  <2>7. js[s].allocated
    BY <1>1, <1>2, <1>15, PathAllocated
  <2>8. \A t \in J!Slot : t # s /\ js[t].allocated => js[t].path # d
    BY <1>2, <1>15, <2>7 DEF Slots, OneSlotEach
  <2>9. \A t \in J!Slot : js'[t].alive => node[js'[t].path] = "ready"
    BY <1>8, <2>2 DEF Kept
  <2>10. ASSUME NEW t \in J!Slot, Stays(stack', js', t), ~js'[t].alive
         PROVE  Gone(q, js'[t].path)
    <3>1. t # s /\ js[t].allocated /\ ~js[t].alive /\ js'[t].path = js[t].path
      BY <2>2, <2>5, <2>6, <2>10 DEF Kept
    <3>2. QED
      BY <1>6, <1>9, <2>8, <3>1
  <2>11. ASSUME NEW e \in J!Device, node[e] = "ready", Unnoticed(q, e)
         PROVE  \E t \in J!Slot : Stays(stack', js', t) /\ js'[t].alive /\ js'[t].path = e
    <3>1. e # d
      BY <1>7, <1>15, <2>11
    <3>2. PICK t \in J!Slot : js[t].allocated /\ js[t].alive /\ js[t].path = e
      BY <1>6, <1>10, <2>11, <3>1
    <3>3. t # s
      BY <1>15, <3>1, <3>2
    <3>4. QED
      BY <2>2, <2>6, <3>2, <3>3 DEF Kept
  <2>12. QED
    BY <1>11, <2>9, <2>10, <2>11
<1>16. \/ /\ h.what \in {"create", "attrib"} /\ ~J!CanOpen(d) /\ js' = js
       \/ /\ h.what = "delete" /\ \A s \in J!Slot : js[s].path # d
          /\ js' = js
       \/ \E s \in J!Slot :
            /\ h.what \in {"create", "attrib"} /\ J!CanOpen(d)
            /\ ~js[s].allocated /\ js' = [js EXCEPT ![s] = J!Opened(d, FALSE)]
            /\ J!Tell(axis[d] # 0, Append(Handler, J!CallOf("connect", s)))
       \/ \E s \in J!Slot :
            /\ h.what = "delete" /\ js[s].path = d
            /\ js' = [js EXCEPT ![s].connected = FALSE]
            /\ J!Tell(TRUE, Append(Handler, J!CallOf("close", s)))
  BY DetectIs DEF J!BeginOpen, J!BeginClose, J!IsFreeSlot, h, d
<1>17. QED
  BY <1>12, <1>13, <1>14, <1>15, <1>16

LEMMA ConnectionsNotices ==
    NumDevices <= LastSlot + 1 /\ CallsInv /\ NoticeInv /\ J!Connections => NoticeInv'
<1> SUFFICES ASSUME NumDevices <= LastSlot + 1, CallsInv, NoticeInv, J!Connections
             PROVE  NoticeInv'
  OBVIOUS
<1>0. js \in [J!Slot -> J!Joystick] /\ stack \in Seq(J!Call) /\ ~J!Freed.alive /\ ~J!Freed.allocated
  BY DEF CallsInv, Calls, Slots, J!Freed
<1>1. CASE J!Connect
  <2>1. /\ stack # <<>> /\ J!Top.fn = "connect" /\ J!Top.slot \in J!Slot
        /\ js' = [js EXCEPT ![J!Top.slot].connected = TRUE] /\ J!Tell(TRUE, Front(stack))
        /\ UNCHANGED <<node, watching, inotify, initialized>> /\ initialized
    BY <1>1, TopIs DEF J!Connect, J!Running, J!deviceVars, J!libraryVars
  <2>2. \A t \in J!Slot : Kept(js'[t], js[t])
                          /\ (js'[t].connected <=> t = J!Top.slot \/ js[t].connected)
    BY <2>1, ConnectedKept
  <2>3. \A t \in J!Slot : NotOpened(stack', t) <=> NotOpened(Front(stack), t)
    BY <2>1, TopIs, TellOpening
  <2>4. /\ Len(stack) \in Nat \ {0} /\ Len(Front(stack)) = Len(stack) - 1
        /\ \A i \in 1..Len(stack) - 1 : Front(stack)[i] = stack[i]
        /\ stack[Len(stack)] = J!Top
    BY <1>0, <2>1, FrontIs, TopIs
  <2>5. \A t \in J!Slot : t # J!Top.slot => (NotOpened(Front(stack), t) <=> NotOpened(stack, t))
    BY <2>4 DEF NotOpened
  <2>6. ~NotOpened(stack, J!Top.slot)
    BY <2>1, <2>4 DEF NotOpened
  <2>7. \A t \in J!Slot : Stays(stack', js', t) <=> Stays(stack, js, t)
    BY <2>2, <2>3, <2>5, <2>6 DEF Stays, Kept
  <2>8. QED
    BY <2>1, <2>2, <2>7, SameNotices DEF Kept
<1>2. CASE J!FreeJoystick
  <2>1. /\ stack # <<>> /\ J!Top.fn = "close" /\ J!Top.slot \in J!Slot
        /\ js' = [js EXCEPT ![J!Top.slot] = J!Freed] /\ stack' = Front(stack)
        /\ UNCHANGED <<node, watching, inotify, initialized>> /\ initialized
        /\ stack[Len(stack)] = J!Top /\ Len(stack) \in 1..Len(stack)
    BY <1>2, TopIs DEF J!FreeJoystick, J!Running, J!deviceVars, J!libraryVars
  <2>2. \A t \in J!Slot : js'[t] = IF t = J!Top.slot THEN J!Freed ELSE js[t]
    BY <1>0, <2>1
  <2>3. \A t \in J!Slot : NotOpened(stack', t) <=> NotOpened(stack, t)
    BY <1>0, <2>1, PopOpening
  <2>4. ~Stays(stack, js, J!Top.slot)
    <3>1. ~js[J!Top.slot].connected
      BY <2>1 DEF CallsInv, Calls, Fit, OwnersHold, Owner
    <3>2. NotOpened(stack, J!Top.slot)
      BY <2>1 DEF CallsInv, Calls, Fit, OneOwner, Owner, NotOpened
    <3>3. QED
      BY <3>1, <3>2 DEF Stays
  <2>5. \A t \in J!Slot : Stays(stack', js', t) <=> Stays(stack, js, t)
    BY <1>0, <2>2, <2>3, <2>4 DEF Stays
  <2>6. QED
    BY <1>0, <2>1, <2>2, <2>4, <2>5, SameNotices
<1>3. CASE J!PollEvents \/ J!WaitEvents
  <2>1. /\ stack = <<>> /\ initialized /\ js' = js
        /\ UNCHANGED <<node, watching, inotify, initialized>>
    BY <1>3 DEF J!PollEvents, J!WaitEvents, J!deviceVars, J!libraryVars
  <2>2. \A t \in J!Slot : js[t].allocated => js[t].connected
    BY <2>1, NothingHeld DEF CallsInv
  <2>3. \A t \in J!Slot : Stays(stack', js', t) <=> Stays(stack, js, t)
    BY <2>1, <2>2 DEF Stays
  <2>4. QED
    BY <2>1, <2>3, SameNotices
<1>4. CASE J!DetectDone
  <2>1. /\ stack # <<>> /\ J!Top.fn = "detect" /\ js' = js
        /\ UNCHANGED <<node, watching, inotify, initialized>> /\ initialized
    BY <1>4, TopIs DEF J!DetectDone, J!Running, J!deviceVars, J!libraryVars
  <2>2. \A t \in J!Slot : js[t].allocated => js[t].connected
    BY <2>1, TopIs, NothingHeld DEF CallsInv
  <2>3. \A t \in J!Slot : Stays(stack', js', t) <=> Stays(stack, js, t)
    BY <2>1, <2>2 DEF Stays
  <2>4. QED
    BY <2>1, <2>3, SameNotices
<1>5. CASE J!DetectNext
  BY <1>5, DetectNotices
<1>6. QED
  BY <1>1, <1>2, <1>3, <1>4, <1>5 DEF J!Connections

LEMMA ReadingNotices == CallsInv /\ NoticeInv /\ J!Reading => NoticeInv'
<1> SUFFICES ASSUME CallsInv, NoticeInv, NEW s \in J!Slot,
                    \/ J!PollFreed(s) \/ J!PollDone(s) \/ J!PollVanished(s)
                    \/ J!ReadDropped(s) \/ J!ReadReport(s)
                    \/ J!SkipEvent(s) \/ J!ReadKey(s) \/ J!ReadAbs(s)
             PROVE  NoticeInv'
  BY DEF J!Reading
<1>1. /\ J!Polling(s) /\ UNCHANGED <<node, watching, inotify, initialized>>
  BY DEF J!PollFreed, J!PollDone, J!PollVanished, J!ReadDropped, J!ReadReport,
         J!SkipEvent, J!ReadKey, J!ReadAbs, J!Reads, J!deviceVars, J!libraryVars
<1>2. /\ stack # <<>> /\ stack[Len(stack)].fn = "poll" /\ initialized
      /\ J!Below = Front(stack) /\ stack \in Seq(J!Call) /\ Front(stack) \in Seq(J!Call)
      /\ js[s].allocated => js[s].connected
  BY <1>1, PollingIs, TopIs DEF CallsInv, Calls
<1>3. \A t \in J!Slot : NotOpened(Front(stack), t) <=> NotOpened(stack, t)
  BY <1>2, PopOpening
<1>4. CASE J!PollFreed(s) \/ J!PollDone(s)
  <2>1. stack' = Front(stack) /\ js' = js
    BY <1>2, <1>4 DEF J!PollFreed, J!PollDone
  <2>2. \A t \in J!Slot : Stays(stack', js', t) <=> Stays(stack, js, t)
    BY <1>3, <2>1 DEF Stays
  <2>3. QED
    BY <1>1, <1>2, <2>1, <2>2, SameNotices
<1>5. CASE J!PollVanished(s)
  <2> DEFINE f == J!CallOf("close", s)
  <2>1. /\ js[s].allocated /\ ~js[s].alive /\ js' = [js EXCEPT ![s].connected = FALSE]
        /\ J!Tell(TRUE, Append(Front(stack), f))
    BY <1>2, <1>5 DEF J!PollVanished, J!BeginClose
  <2>2. f \in J!Call /\ f.fn = "close"
    BY CallOfType
  <2> HIDE DEF f
  <2>3. Append(Front(stack), f) \in Seq(J!Call)
    BY <1>2, <2>2, AppendIs
  <2>4. \A t \in J!Slot : NotOpened(stack', t) <=> NotOpened(stack, t)
    BY <1>2, <1>3, <2>1, <2>2, <2>3, PushOpening, TellOpening
  <2>5. \A t \in J!Slot : Kept(js'[t], js[t]) /\ (js'[t].connected <=> t # s /\ js[t].connected)
    BY <2>1, ConnectedKept
  <2>6. NotOpened(stack, s)
    BY <1>2, <2>1 DEF CallsInv, Calls, Fit, OwnersHold, Owner, NotOpened
  <2>7. ~Stays(stack', js', s)
    BY <2>4, <2>5, <2>6 DEF Stays
  <2>8. \A t \in J!Slot : t # s => (Stays(stack', js', t) <=> Stays(stack, js, t))
    BY <2>4, <2>5 DEF Stays, Kept
  <2>9. \A t \in J!Slot : (js'[t].alive <=> js[t].alive) /\ js'[t].path = js[t].path
    BY <2>5 DEF Kept
  <2>10. ASSUME watching, NEW t \in J!Slot, Stays(stack', js', t), ~js'[t].alive
         PROVE  Gone(inotify, js'[t].path)
    BY <2>7, <2>8, <2>9, <2>10 DEF NoticeInv
  <2>11. ASSUME watching, NEW d \in J!Device, node[d] = "ready", Unnoticed(inotify, d)
         PROVE  \E t \in J!Slot : Stays(stack', js', t) /\ js'[t].alive /\ js'[t].path = d
    <3>1. PICK t \in J!Slot : Stays(stack, js, t) /\ js[t].alive /\ js[t].path = d
      BY <1>2, <2>11 DEF NoticeInv
    <3>2. QED
      BY <2>1, <2>8, <2>9, <3>1
  <2>12. QED
    BY <1>1, <1>2, <2>9, <2>10, <2>11 DEF NoticeInv
<1>6. CASE J!ReadDropped(s) \/ J!ReadReport(s) \/ J!SkipEvent(s) \/ J!ReadKey(s) \/ J!ReadAbs(s)
  <2>1. stack' = stack \/ \E c : J!Tell(c, stack)
    BY <1>6, Zenon DEF J!ReadDropped, J!ReadReport, J!SkipEvent, J!ReadKey, J!ReadAbs
  <2>2. \A t \in J!Slot : NotOpened(stack', t) <=> NotOpened(stack, t)
    BY <1>2, <2>1, TellOpening
  <2>3. \A t \in J!Slot : /\ js'[t].allocated <=> js[t].allocated
                          /\ js'[t].connected <=> js[t].connected
                          /\ js'[t].alive <=> js[t].alive
                          /\ js'[t].path = js[t].path
    BY <1>6, ReadIs
  <2>4. \A t \in J!Slot : Stays(stack', js', t) <=> Stays(stack, js, t)
    BY <2>2, <2>3 DEF Stays
  <2>5. QED
    BY <1>1, <1>2, <2>3, <2>4, SameNotices
<1>7. QED
  BY <1>4, <1>5, <1>6

LEMMA KernelNotices == CallsInv /\ NoticeInv /\ J!Kernel => NoticeInv'
<1> SUFFICES ASSUME CallsInv, NoticeInv, NEW d \in J!Device,
                    J!Plug(d) \/ J!Permit(d) \/ J!Unplug(d) \/ J!Move(d)
             PROVE  NoticeInv'
  BY DEF J!Kernel
<1>0. js \in [J!Slot -> J!Joystick]
  BY DEF CallsInv, Calls, Slots
<1>1. node[d] # "ready" => \A s \in J!Slot : js[s].alive => js[s].path # d
  BY DEF NoticeInv
<1>2. CASE J!Plug(d)
  <2>1. /\ node[d] # "ready" /\ J!Notify("create", d) /\ node' = [node EXCEPT ![d] = Says("create")]
        /\ UNCHANGED <<watching, initialized, stack>> /\ js' = js
    BY <1>2 DEF J!Plug, Says
  <2>2. QED
    BY <1>1, <2>1, NodeNotices
<1>3. CASE J!Permit(d)
  <2>1. /\ node[d] # "ready" /\ J!Notify("attrib", d) /\ node' = [node EXCEPT ![d] = Says("attrib")]
        /\ UNCHANGED <<watching, initialized, stack>> /\ js' = js
    BY <1>3 DEF J!Permit, Says
  <2>2. QED
    BY <1>1, <2>1, NodeNotices
<1>4. CASE J!Unplug(d)
  <2>1. /\ J!Notify("delete", d) /\ node' = [node EXCEPT ![d] = Says("delete")]
        /\ UNCHANGED <<watching, initialized, stack>>
    BY <1>4 DEF J!Unplug, Says
  <2>2. \A s \in J!Slot : /\ js'[s].allocated <=> js[s].allocated
                          /\ js'[s].connected <=> js[s].connected
                          /\ js'[s].path = js[s].path
    BY <1>0, <1>4, UnplugIs DEF J!Joystick
  <2>3. \A s \in J!Slot : IF js[s].path = d THEN ~js'[s].alive ELSE js'[s] = js[s]
    BY <1>0, <1>4, UnplugIs DEF J!Joystick
  <2>4. QED
    BY <2>1, <2>2, <2>3, NodeNotices
<1>5. CASE J!Move(d)
  <2>1. PICK n \in {"key", "abs"}, v \in J!Value : J!Deliver(d, n, v)
    BY <1>5, MoveIs
  <2>2. UNCHANGED <<node, watching, inotify, initialized, stack>>
    BY <1>5, MoveIs
  <2>3. \A t \in J!Slot : /\ js'[t].allocated <=> js[t].allocated
                          /\ js'[t].connected <=> js[t].connected
                          /\ js'[t].alive <=> js[t].alive
                          /\ js'[t].path = js[t].path
    BY <2>1, DeliverIs DEF SameButEvents
  <2>4. \A t \in J!Slot : Stays(stack', js', t) <=> Stays(stack, js, t)
    BY <2>2, <2>3 DEF Stays
  <2>5. QED
    BY <2>2, <2>3, <2>4 DEF NoticeInv, J!Top
<1>6. QED
  BY <1>2, <1>3, <1>4, <1>5

LEMMA RestNotices == CallsInv /\ NoticeInv /\ (J!PollAll \/ J!Application) => NoticeInv'
<1> SUFFICES ASSUME CallsInv, NoticeInv, J!PollAll \/ J!Application PROVE NoticeInv'
  OBVIOUS
<1>0. js \in [J!Slot -> J!Joystick] /\ stack \in Seq(J!Call)
  BY DEF CallsInv, Calls, Slots
<1>1. UNCHANGED <<node, watching, inotify, initialized>>
  BY DEF J!PollAll, J!Application, J!PollJoystick, J!UpdateMappings, J!CallbackReturns,
         J!deviceVars, J!libraryVars
<1>2. CASE J!PollAll
  <2>1. stack # <<>> /\ J!Top.fn = "pollAll" /\ js' = js
    BY <1>2 DEF J!PollAll, J!Running
  <2> DEFINE f == [J!Top EXCEPT !.left = @ + 1]
             s == J!Top.left
  <2>2. f \in J!Call /\ f.fn # "connect" /\ initialized
    BY <2>1, TopIs DEF J!Call
  <2>3. J!Below = Front(stack) /\ s \in Nat
    BY <2>1, TopIs
  <2>4. \/ stack' = Front(stack) \/ stack' = Append(Front(stack), f)
        \/ s \in J!Slot /\ stack' = Append(Append(Front(stack), f), J!CallOf("poll", s))
    BY <1>2, <2>3, SlotSet DEF J!PollAll
  <2> HIDE DEF f
  <2>5. \A t : (NotOpened(Front(stack), t) <=> NotOpened(stack, t))
               /\ (NotOpened(Append(Front(stack), f), t) <=> NotOpened(stack, t))
    <3>1. stack[Len(stack)].fn # "connect" /\ Front(stack) \in Seq(J!Call)
      BY <2>1, TopIs
    <3>2. QED
      BY <1>0, <2>1, <2>2, <3>1, PopOpening, PushOpening
  <2>6. Append(Front(stack), f) \in Seq(J!Call)
    BY <2>1, <2>2, TopIs, AppendIs
  <2>7. s \in J!Slot => J!CallOf("poll", s) \in J!Call /\ J!CallOf("poll", s).fn = "poll"
    BY CallOfType
  <2>8. \A t : NotOpened(stack', t) <=> NotOpened(stack, t)
    BY <2>4, <2>5, <2>6, <2>7, PushOpening
  <2>9. \A t \in J!Slot : Stays(stack', js', t) <=> Stays(stack, js, t)
    BY <2>1, <2>8 DEF Stays
  <2>10. QED
    BY <1>1, <2>1, <2>2, <2>9, SameNotices
<1>3. ASSUME NEW s \in J!Slot, J!PollJoystick(s)
      PROVE  NoticeInv'
  <2>1. stack' = Append(stack, J!CallOf("poll", s)) /\ js' = js /\ initialized
    BY <1>3 DEF J!PollJoystick
  <2>2. J!CallOf("poll", s) \in J!Call /\ J!CallOf("poll", s).fn = "poll"
    BY CallOfType
  <2>3. \A t : NotOpened(stack', t) <=> NotOpened(stack, t)
    BY <1>0, <2>1, <2>2, PushOpening
  <2>4. \A t \in J!Slot : Stays(stack', js', t) <=> Stays(stack, js, t)
    BY <2>1, <2>3 DEF Stays
  <2>5. QED
    BY <1>1, <2>1, <2>4, SameNotices
<1>4. CASE J!UpdateMappings
  <2>1. stack' = stack
    BY <1>4 DEF J!UpdateMappings
  <2>2. \A t \in J!Slot : /\ js'[t].allocated <=> js[t].allocated
                          /\ js'[t].connected <=> js[t].connected
                          /\ js'[t].alive <=> js[t].alive
                          /\ js'[t].path = js[t].path
    BY <1>4, UpdateIs
  <2>3. \A t \in J!Slot : Stays(stack', js', t) <=> Stays(stack, js, t)
    BY <2>1, <2>2 DEF Stays
  <2>4. QED
    BY <1>1, <2>1, <2>2, <2>3 DEF NoticeInv, J!Top
<1>5. CASE J!CallbackReturns
  <2>1. stack # <<>> /\ J!Top.fn = "app" /\ stack' = Front(stack) /\ js' = js
        /\ stack[Len(stack)] = J!Top /\ initialized
    BY <1>5, TopIs DEF J!CallbackReturns, J!Running
  <2>2. \A t : NotOpened(stack', t) <=> NotOpened(stack, t)
    BY <1>0, <2>1, PopOpening
  <2>3. \A t \in J!Slot : Stays(stack', js', t) <=> Stays(stack, js, t)
    BY <2>1, <2>2 DEF Stays
  <2>4. QED
    BY <1>1, <2>1, <2>3, SameNotices
<1>6. QED
  BY <1>2, <1>3, <1>4, <1>5 DEF J!Application

LEMMA NoticesNext ==
    NumDevices <= LastSlot + 1 /\ CallsInv /\ NoticeInv /\ J!Next => NoticeInv'
BY KernelNotices, SetupNotices, ConnectionsNotices, ReadingNotices, RestNotices DEF J!Next

LEMMA InitInSync == J!Init => DropInv /\ Heard /\ NoticeInv
<1> SUFFICES ASSUME J!Init PROVE DropInv /\ Heard /\ NoticeInv
  OBVIOUS
<1>1. /\ \A s \in J!Slot : ~js[s].alive /\ ~js[s].allocated
      /\ stack = <<>> /\ ~initialized /\ ~watching /\ inotify = <<>> /\ dropper = J!NoSlot
  BY DEF J!Init, J!Freed
<1>2. Told(<<>>, node)
  BY DEF Told
<1>3. QED
  BY <1>1, <1>2, NoSlots DEF DropInv, DropFits, Heard, Hears, NoticeInv, Stays

\* With no call in progress and no notice left, slots and devices match.
LEMMA NoticesMatch == CallsInv /\ NoticeInv => J!SlotsMatchDevices
<1> SUFFICES ASSUME CallsInv, NoticeInv, stack = <<>>, initialized, watching, inotify = <<>>,
                    NEW d \in J!Device
             PROVE  /\ J!Cardinality(J!SlotsOf(d)) = (IF node[d] = "ready" THEN 1 ELSE 0)
                    /\ \A s \in J!SlotsOf(d) : js[s].alive
  BY DEF J!SlotsMatchDevices
<1>1. Slots(js) /\ \A s \in J!Slot : js[s].allocated <=> js[s].connected
  BY NothingHeld, ConnectedAllocated DEF CallsInv, Calls
<1>2. \A s \in J!Slot : Stays(stack, js, s) <=> js[s].connected
  BY <1>1 DEF Stays
<1>3. \A e : Unnoticed(inotify, e) /\ ~Gone(inotify, e)
  BY DEF Unnoticed, Gone
<1>4. \A s \in J!Slot : js[s].connected => js[s].alive
  BY <1>2, <1>3 DEF NoticeInv
<1>5. \A s \in J!SlotsOf(d) : js[s].alive /\ node[d] = "ready"
  BY <1>4 DEF J!SlotsOf, NoticeInv
<1>6. \A S : J!Cardinality(S) = Cardinality(S)
  BY DEF J!Cardinality, Cardinality
<1>7. CASE node[d] = "ready"
  <2>1. PICK s \in J!Slot : js[s].connected /\ js[s].path = d
    BY <1>2, <1>3, <1>7 DEF NoticeInv
  <2>2. J!SlotsOf(d) = {s}
    BY <1>1, <2>1 DEF J!SlotsOf, Slots, OneSlotEach
  <2>3. QED
    BY <1>5, <1>6, <1>7, <2>2, FS_Singleton
<1>8. CASE node[d] # "ready"
  <2>1. J!SlotsOf(d) = {}
    BY <1>5, <1>8
  <2>2. QED
    BY <1>6, <1>8, <2>1, FS_EmptySet
<1>9. QED
  BY <1>7, <1>8

LEMMA HeardInSync == Heard => J!InputInSync
<1> SUFFICES ASSUME Heard, NEW s \in J!Slot, js[s].alive, js[s].events = <<>>
             PROVE  /\ js[s].axis = axis[js[s].path]
                    /\ js[s].unheard \/ js[s].button = button[js[s].path]
  BY DEF J!InputInSync
<1>1. NoKey(js[s].events)
  BY DEF NoKey
<1>2. QED
  BY <1>1 DEF Heard, Hears

\* If there are slots enough, then whenever no call is in progress and no notice
\* is left, each device whose node is ready is in one slot, with a live file, and
\* no other device is in any; and a joystick whose events are all read reports
\* the axis and the button as the device has them, or its change was unheard of.
THEOREM JoysticksInSyncAlways ==
    ASSUME NumDevices <= LastSlot + 1
    PROVE  ChoicesSpec => []JoysticksInSync
<1> DEFINE Inv == subject = "joysticks" => CallsInv /\ DropInv /\ Heard /\ NoticeInv
<1>1. ChoicesInit => Inv
  BY InitCallsInv, InitInSync DEF ChoicesInit
<1>2. Inv /\ [ChoicesNext]_<<subject, vars, video, gamepads, joysticks>> => Inv'
  <2> SUFFICES ASSUME CallsInv, DropInv, Heard, NoticeInv, subject' = "joysticks",
                      \/ J!Next
                      \/ UNCHANGED joysticks
               PROVE  CallsInv' /\ DropInv' /\ Heard' /\ NoticeInv'
    BY DEF ChoicesNext
  <2>1. CASE J!Next
    BY <2>1, NextCallsInv, DropNext, HeardNext, NoticesNext
  <2>2. CASE UNCHANGED joysticks
    <3>1. UNCHANGED <<node, axis, button, initialized, watching, inotify, js, dropper, moved,
                      stack, plugs, moves>>
      BY <2>2 DEF joysticks
    <3>2. CallsInv'
      BY <3>1 DEF CallsInv, RestType
    <3>3. DropInv' /\ Heard'
      BY <3>1 DEF DropInv, Heard
    <3>4. NoticeInv'
      BY <3>1 DEF NoticeInv, J!Top
    <3>5. QED
      BY <3>2, <3>3, <3>4
  <2>3. QED
    BY <2>1, <2>2
<1>3. Inv => JoysticksInSync
  BY NoticesMatch, HeardInSync DEF JoysticksInSync
<1>4. QED
  BY <1>1, <1>2, <1>3, PTL DEF ChoicesSpec

=============================================================================
