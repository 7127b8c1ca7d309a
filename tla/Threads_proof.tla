---------------------------- MODULE Threads_proof ----------------------------
(* Errors and empty events, for any number of threads, error records and      *)
(* events, any timeout and any size of the pipe.                               *)
EXTENDS MC_Threads, SequenceTheorems, TLAPS

--------------------------------------------------------------------------------
(* The records of errors *)

\* Between the allocation of a thread's record and its publication.
Unlisted == {"lock", "link", "publish"}
Critical == {"link", "publish", "unlock"}

Shape(t) ==
    /\ pc[t] = "alloc" => slot[t] = NoRecord
    /\ pc[t] \in Unlisted => slot[t] \in Record \ list
    /\ slot[t] \in Record => slot[t] \in allocated
    /\ slot[t] \in Record /\ pc[t] \notin Unlisted => slot[t] \in list
    /\ pc[t] \in Critical <=> lock = t
    /\ pc[t] = "publish" => head[t] = list
    /\ pc[t] \notin {"idle", "store"} \/ slot[t] # NoRecord => initialized
    /\ pc[t] \in {"unlock", "store"} /\ initialized => slot[t] # NoRecord
    /\ pc[t] # "idle" /\ ~initialized => t \in EarlyCallers
    /\ slot[t] = MainRecord => t = Main
    /\ initialized /\ ~crashed /\ t = Main => slot[t] = MainRecord

\* No record serves two threads.
Distinct ==
    \A t, o \in Thread : t # o /\ slot[t] = slot[o] => slot[t] = NoRecord

\* A record that is not in the list is on its way there.
Owned ==
    /\ list \subseteq allocated
    /\ \A r \in allocated \ list :
         \E t \in Thread : slot[t] = r /\ pc[t] \in Unlisted
    /\ ~initialized => allocated = {}

ErrorsInv ==
    /\ TypeOK
    /\ \A t \in Thread : Shape(t)
    /\ Distinct
    /\ Owned

LEMMA InitErrorsInv == Init => ErrorsInv
<1> SUFFICES ASSUME Init PROVE ErrorsInv
  OBVIOUS
<1>1. TypeOK
  BY DEF Init, TypeOK, Where
<1>2. \A t \in Thread : Shape(t)
  BY ThreadAssumption, RecordAssumption DEF Init, Shape, Unlisted, Critical
<1>3. QED
  BY <1>1, <1>2 DEF Init, ErrorsInv, Distinct, Owned

-----------------------------------------------------------------------------
LEMMA RaiseStep ==
    ASSUME ErrorsInv, NEW t \in Thread, NEW c \in Code, Raise(t, c)
    PROVE  ErrorsInv'
<1>1. TypeOK'
  BY DEF ErrorsInv, TypeOK, Raise, Go, Where
<1>2. /\ pc[t] = "idle" /\ pc'[t] \in {"alloc", "store"}
      /\ pc'[t] = "alloc" <=> RecordOf(t) = NoRecord
      /\ \A o \in Thread \ {t} : pc'[o] = pc[o]
      /\ initialized \/ t \in EarlyCallers
      /\ UNCHANGED <<initialized, allocated, list, lock, slot, code, head,
                     failures, crashed, last>>
  BY DEF Raise, MayCall, Go, ErrorsInv, TypeOK
<1>3. Shape(t)'
  BY <1>2, RecordAssumption DEF ErrorsInv, Shape, RecordOf, Unlisted, Critical
<1>4. \A o \in Thread \ {t} : Shape(o)'
  BY <1>2 DEF ErrorsInv, Shape
<1>5. Distinct' /\ Owned'
  BY <1>2 DEF ErrorsInv, Distinct, Owned, Unlisted
<1>6. QED
  BY <1>1, <1>3, <1>4, <1>5 DEF ErrorsInv

LEMMA AllocateStep ==
    ASSUME ErrorsInv, NEW t \in Thread, NEW r \in Record, Allocate(t, r)
    PROVE  ErrorsInv'
<1>1. TypeOK'
  BY CodeAssumption DEF ErrorsInv, TypeOK, Allocate, Go, Where
<1>2. /\ pc[t] = "alloc" /\ pc'[t] = "lock" /\ slot'[t] = r
      /\ \A o \in Thread \ {t} : pc'[o] = pc[o] /\ slot'[o] = slot[o]
      /\ r \notin allocated
      /\ allocated' = allocated \union {r}
      /\ UNCHANGED <<initialized, list, lock, raising, head, failures, crashed,
                     last>>
  BY DEF Allocate, Go, ErrorsInv, TypeOK
<1>3. r # NoRecord /\ r # MainRecord /\ r \notin list
  BY <1>2, RecordAssumption DEF ErrorsInv, Owned
<1>4. Shape(t)'
  BY <1>2, <1>3, RecordAssumption DEF ErrorsInv, Shape, Unlisted, Critical
<1>5. \A o \in Thread \ {t} : Shape(o)' /\ slot[o] # r
  BY <1>2 DEF ErrorsInv, Shape
<1>6. Distinct'
  BY <1>2, <1>5 DEF ErrorsInv, Distinct
<1>7. Owned'
  BY <1>2 DEF ErrorsInv, Owned, Unlisted, Shape
<1>8. QED
  BY <1>1, <1>4, <1>5, <1>6, <1>7 DEF ErrorsInv

LEMMA AllocateFailsStep ==
    ASSUME ErrorsInv, NEW t \in Thread, AllocateFails(t)
    PROVE  ErrorsInv'
BY CodeAssumption DEF ErrorsInv, TypeOK, AllocateFails, Shape, Distinct, Owned

LEMMA LockStep ==
    ASSUME ErrorsInv, NEW t \in Thread, Lock(t)
    PROVE  ErrorsInv'
<1>1. TypeOK'
  BY DEF ErrorsInv, TypeOK, Lock, Go, Where
<1>2. /\ pc[t] = "lock" /\ pc'[t] = "link"
      /\ \A o \in Thread \ {t} : pc'[o] = pc[o]
      /\ lock = NoThread /\ lock' = t
      /\ UNCHANGED <<initialized, allocated, list, slot, code, raising, head,
                     failures, crashed, last>>
  BY DEF Lock, Go, ErrorsInv, TypeOK
<1>3. \A o \in Thread : Shape(o)'
  BY <1>2, ThreadAssumption DEF ErrorsInv, Shape, Unlisted, Critical
<1>4. Distinct' /\ Owned'
  BY <1>2 DEF ErrorsInv, Distinct, Owned, Unlisted
<1>5. QED
  BY <1>1, <1>3, <1>4 DEF ErrorsInv

LEMMA LinkStep ==
    ASSUME ErrorsInv, NEW t \in Thread, Link(t)
    PROVE  ErrorsInv'
<1>1. TypeOK'
  BY DEF ErrorsInv, TypeOK, Link, Go, Where
<1>2. /\ pc[t] = "link" /\ pc'[t] = "publish" /\ head'[t] = list
      /\ \A o \in Thread \ {t} : pc'[o] = pc[o] /\ head'[o] = head[o]
      /\ UNCHANGED <<initialized, allocated, list, lock, slot, code, raising,
                     failures, crashed, last>>
  BY DEF Link, Go, ErrorsInv, TypeOK
<1>3. \A o \in Thread : Shape(o)'
  BY <1>2 DEF ErrorsInv, Shape, Unlisted, Critical
<1>4. Distinct' /\ Owned'
  BY <1>2 DEF ErrorsInv, Distinct, Owned, Unlisted
<1>5. QED
  BY <1>1, <1>3, <1>4 DEF ErrorsInv

LEMMA PublishStep ==
    ASSUME ErrorsInv, NEW t \in Thread, Publish(t)
    PROVE  ErrorsInv'
<1>1. /\ pc[t] = "publish" /\ pc'[t] = "unlock"
      /\ \A o \in Thread \ {t} : pc'[o] = pc[o]
      /\ list' = head[t] \union {slot[t]}
      /\ UNCHANGED <<initialized, allocated, lock, slot, code, raising, head,
                     failures, crashed, last>>
  BY DEF Publish, Go, ErrorsInv, TypeOK
<1>2. /\ slot[t] \in Record /\ slot[t] \in allocated
      /\ list' = list \union {slot[t]}
      /\ lock = t
  BY <1>1 DEF ErrorsInv, Shape, Unlisted, Critical
<1>3. TypeOK'
  BY <1>2 DEF ErrorsInv, TypeOK, Publish, Go, Where
<1>4. Shape(t)'
  BY <1>1, <1>2, RecordAssumption DEF ErrorsInv, Shape, Unlisted, Critical
<1>5. ASSUME NEW o \in Thread \ {t} PROVE Shape(o)'
  <2>1. slot[o] # slot[t]
    BY <1>2, RecordAssumption DEF ErrorsInv, Distinct
  <2>2. pc[o] # "publish"
    BY <1>2 DEF ErrorsInv, Shape, Critical
  <2>3. QED
    BY <1>1, <1>2, <2>1, <2>2 DEF ErrorsInv, Shape
<1>6. Distinct' /\ Owned'
  BY <1>1, <1>2 DEF ErrorsInv, Distinct, Owned
<1>7. QED
  BY <1>3, <1>4, <1>5, <1>6 DEF ErrorsInv

LEMMA UnlockStep ==
    ASSUME ErrorsInv, NEW t \in Thread, Unlock(t)
    PROVE  ErrorsInv'
<1>1. TypeOK'
  BY DEF ErrorsInv, TypeOK, Unlock, Go, Where
<1>2. /\ pc[t] = "unlock" /\ pc'[t] = "store"
      /\ \A o \in Thread \ {t} : pc'[o] = pc[o]
      /\ lock' = NoThread
      /\ UNCHANGED <<initialized, allocated, list, slot, code, raising, head,
                     failures, crashed, last>>
  BY DEF Unlock, Go, ErrorsInv, TypeOK
<1>3. lock = t
  BY <1>2 DEF ErrorsInv, Shape, Critical
<1>4. slot[t] # NoRecord
  BY <1>2, <1>3 DEF ErrorsInv, Shape
<1>5. \A o \in Thread : Shape(o)'
  BY <1>2, <1>3, <1>4, ThreadAssumption DEF ErrorsInv, Shape, Unlisted, Critical
<1>6. Distinct' /\ Owned'
  BY <1>2 DEF ErrorsInv, Distinct, Owned, Unlisted
<1>7. QED
  BY <1>1, <1>5, <1>6 DEF ErrorsInv

LEMMA StoreStep ==
    ASSUME ErrorsInv, NEW t \in Thread, Store(t)
    PROVE  ErrorsInv'
<1>1. TypeOK'
  BY DEF ErrorsInv, TypeOK, Store, Go, Where
<1>2. /\ pc[t] = "store" /\ pc'[t] = "idle"
      /\ \A o \in Thread \ {t} : pc'[o] = pc[o] /\ slot'[o] = slot[o]
      /\ slot'[t] = slot[t] \/ (slot'[t] = NoRecord /\ crashed')
      /\ crashed => crashed'
      /\ UNCHANGED <<initialized, allocated, list, lock, raising, head, failures>>
  BY DEF Store, Go, ErrorsInv, TypeOK
<1>3. Shape(t)'
  BY <1>2, RecordAssumption DEF ErrorsInv, Shape, Unlisted, Critical
<1>4. \A o \in Thread \ {t} : Shape(o)'
  BY <1>2 DEF ErrorsInv, Shape
<1>5. Distinct'
  BY <1>2 DEF ErrorsInv, Distinct
<1>6. Owned'
  BY <1>2 DEF ErrorsInv, Owned, Unlisted
<1>7. QED
  BY <1>1, <1>3, <1>4, <1>5, <1>6 DEF ErrorsInv

LEMMA GetErrorStep ==
    ASSUME ErrorsInv, NEW t \in Thread, GetError(t)
    PROVE  ErrorsInv'
<1>1. TypeOK'
  BY DEF ErrorsInv, TypeOK, GetError, threadVars
<1>2. UNCHANGED <<initialized, allocated, list, lock, threadVars, crashed>>
  BY DEF GetError
<1>3. QED
  BY <1>1, <1>2 DEF ErrorsInv, Shape, Distinct, Owned, threadVars

LEMMA GrwlInitStep ==
    ASSUME ErrorsInv, GrwlInit
    PROVE  ErrorsInv'
<1>1. TypeOK'
  BY DEF ErrorsInv, TypeOK, GrwlInit
<1>2. \A t \in Thread : pc[t] = "idle"
  BY DEF GrwlInit, Quiescent
<1>3. /\ initialized' /\ ~initialized
      /\ \A t \in Thread : slot'[t] = IF t = Main THEN MainRecord ELSE NoRecord
      /\ UNCHANGED <<allocated, list, lock, code, pc, raising, head, failures,
                     crashed>>
  BY DEF GrwlInit
<1>4. \A t \in Thread : Shape(t)'
  BY <1>2, <1>3, RecordAssumption DEF ErrorsInv, Shape, Unlisted, Critical
<1>5. Distinct'
  BY <1>3 DEF Distinct
<1>6. Owned'
  BY <1>3 DEF ErrorsInv, Owned
<1>7. QED
  BY <1>1, <1>4, <1>5, <1>6 DEF ErrorsInv

LEMMA GrwlTerminateStep ==
    ASSUME ErrorsInv, GrwlTerminate
    PROVE  ErrorsInv'
<1>1. TypeOK'
  BY DEF ErrorsInv, TypeOK, GrwlTerminate
<1>2. \A t \in Thread : pc[t] = "idle"
  BY DEF GrwlTerminate, Quiescent
<1>3. /\ ~initialized'
      /\ allocated' = allocated \ list
      /\ list' = {}
      /\ \A t \in Thread : slot'[t] = NoRecord
      /\ UNCHANGED <<lock, code, pc, raising, head, failures, crashed>>
  BY DEF GrwlTerminate
<1>4. allocated' = {}
  BY <1>2, <1>3 DEF ErrorsInv, Owned, Unlisted
<1>5. \A t \in Thread : Shape(t)'
  BY <1>2, <1>3, RecordAssumption DEF ErrorsInv, Shape, Unlisted, Critical
<1>6. Distinct' /\ Owned'
  BY <1>3, <1>4 DEF Distinct, Owned
<1>7. QED
  BY <1>1, <1>5, <1>6 DEF ErrorsInv

LEMMA NextErrorsInv == ErrorsInv /\ [Next]_vars => ErrorsInv'
<1> SUFFICES ASSUME ErrorsInv, [Next]_vars PROVE ErrorsInv'
  OBVIOUS
<1>1. ASSUME NEW t \in Thread, Continue(t) PROVE ErrorsInv'
  BY <1>1, AllocateStep, AllocateFailsStep, LockStep, LinkStep, PublishStep,
     UnlockStep, StoreStep DEF Continue
<1>2. CASE UNCHANGED vars
  BY <1>2 DEF vars, threadVars, ErrorsInv, TypeOK, Shape, Distinct, Owned
<1>3. QED
  BY <1>1, <1>2, GrwlInitStep, GrwlTerminateStep, RaiseStep, GetErrorStep DEF Next

LEMMA ErrorsInvHolds == Spec => []ErrorsInv
BY InitErrorsInv, NextErrorsInv, PTL DEF Spec

\* The records, the list and the steps of every thread keep their types.
THEOREM ErrorsTypeCorrect == Spec => []TypeOK
<1>1. ErrorsInv => TypeOK
  BY DEF ErrorsInv
<1>2. QED
  BY <1>1, ErrorsInvHolds, PTL

\* Whatever the threads do and whenever allocations fail, a record whose
\* thread is done with it is in the list, and grwlTerminate leaves none.
THEOREM NoLeak == Spec => []NoRecordLost
<1>1. ErrorsInv => NoRecordLost
  BY DEF ErrorsInv, Shape, Owned, NoRecordLost, Unlisted
<1>2. QED
  BY <1>1, ErrorsInvHolds, PTL

-----------------------------------------------------------------------------
(* What a thread is told *)

\* The records hold what was raised last.
Truth ==
    ~crashed =>
        /\ last[Main] = code[MainRecord]
        /\ initialized =>
             \A t \in Thread :
                 last[t] = IF slot[t] = NoRecord THEN NoCode ELSE code[slot[t]]

\* Before grwlInit and after grwlTerminate all threads share one record, so
\* that only the main thread may use it.
MainCallsEarly == EarlyCallers \subseteq {Main}

LEMMA NextTruth ==
    ASSUME MainCallsEarly, ErrorsInv, Truth, [Next]_vars
    PROVE  Truth'
<1>1. CASE crashed
  <2>1. crashed'
    BY <1>1 DEF Next, Continue, vars, threadVars, GrwlInit, GrwlTerminate,
       Quiescent, Raise, GetError, MayCall, Allocate, AllocateFails, Lock, Link,
       Publish, Unlock, Store
  <2>2. QED
    BY <2>1 DEF Truth
<1>2. CASE ~crashed
  <2> USE <1>2
  <2>1. ASSUME UNCHANGED <<initialized, slot, code, last, crashed>>
        PROVE  Truth'
    BY <2>1 DEF Truth
  <2>2. ASSUME NEW t \in Thread, NEW r \in Record, Allocate(t, r)
        PROVE  Truth'
    <3>1. /\ pc[t] = "alloc" /\ slot[t] = NoRecord /\ initialized
          /\ \A o \in Thread : slot[o] # r
          /\ r \in Record \union {MainRecord} /\ r # MainRecord /\ r # NoRecord
      BY <2>2, RecordAssumption DEF ErrorsInv, Shape, Allocate
    <3>2. /\ code' = [code EXCEPT ![r] = NoCode]
          /\ slot' = [slot EXCEPT ![t] = r]
          /\ UNCHANGED <<initialized, crashed, last>>
      BY <2>2 DEF Allocate
    <3>3. last[t] = NoCode
      BY <3>1 DEF Truth
    <3>4. last'[Main] = code'[MainRecord]
      BY <3>1, <3>2 DEF Truth, ErrorsInv, TypeOK
    <3>5. ASSUME NEW o \in Thread
          PROVE  last'[o] = IF slot'[o] = NoRecord THEN NoCode ELSE code'[slot'[o]]
      <4>1. CASE o = t
        BY <3>1, <3>2, <3>3, <4>1 DEF ErrorsInv, TypeOK
      <4>2. CASE o # t
        BY <3>1, <3>2, <4>2 DEF ErrorsInv, TypeOK, Truth
      <4>3. QED
        BY <4>1, <4>2
    <3>6. QED
      BY <3>4, <3>5 DEF Truth
  \* A thread writes its record and no other thread has that record.
  <2>3. ASSUME NEW t \in Thread, NEW c, RecordOf(t) # NoRecord,
               initialized \/ t = Main,
               code' = [code EXCEPT ![RecordOf(t)] = c],
               last' = [last EXCEPT ![t] = c],
               UNCHANGED <<initialized, slot>>
        PROVE  Truth'
    <3>1. /\ RecordOf(t) \in Record \union {MainRecord}
          /\ RecordOf(t) = MainRecord <=> t = Main
      BY <2>3, RecordAssumption DEF ErrorsInv, TypeOK, Shape, RecordOf
    <3>2. last'[Main] = code'[MainRecord]
      BY <2>3, <3>1, ThreadAssumption DEF Truth, ErrorsInv, TypeOK
    <3>3. ASSUME initialized, NEW o \in Thread
          PROVE  last'[o] = IF slot[o] = NoRecord THEN NoCode ELSE code'[slot[o]]
      <4>1. CASE o = t
        BY <2>3, <3>1, <3>3, <4>1 DEF ErrorsInv, TypeOK, RecordOf
      <4>2. CASE o # t
        <5>1. slot[o] # NoRecord => slot[o] # slot[t]
          BY <4>2 DEF ErrorsInv, Distinct
        <5>2. QED
          BY <2>3, <3>1, <3>3, <4>2, <5>1 DEF ErrorsInv, TypeOK, RecordOf, Truth
      <4>3. QED
        BY <4>1, <4>2
    <3>4. QED
      BY <2>3, <3>2, <3>3 DEF Truth
  <2>4. ASSUME NEW t \in Thread, Store(t) PROVE Truth'
    <3>1. CASE failures[t] # 0
      BY <2>4, <3>1 DEF Store, Truth
    <3>2. CASE failures[t] = 0
      <4>1. initialized \/ t = Main
        BY <2>4 DEF Store, ErrorsInv, Shape, MainCallsEarly
      <4>2. RecordOf(t) # NoRecord
        BY <2>4, RecordAssumption DEF Store, ErrorsInv, Shape, RecordOf
      <4>3. QED
        BY <2>3, <2>4, <3>2, <4>1, <4>2 DEF Store
    <3>3. QED
      BY <3>1, <3>2
  <2>5. ASSUME NEW t \in Thread, GetError(t) PROVE Truth'
    <3>1. initialized \/ t = Main
      BY <2>5 DEF GetError, MayCall, MainCallsEarly
    <3>2. CASE RecordOf(t) # NoRecord
      BY <2>3, <2>5, <3>1, <3>2 DEF GetError, threadVars
    <3>3. CASE RecordOf(t) = NoRecord
      <4>1. /\ initialized /\ slot[t] = NoRecord
            /\ t # Main
        BY <3>3, RecordAssumption DEF RecordOf, ErrorsInv, Shape
      <4>2. /\ UNCHANGED <<initialized, slot, code>>
            /\ last' = [last EXCEPT ![t] = NoCode]
        BY <2>5, <3>3 DEF GetError, threadVars
      <4>3. QED
        BY <4>1, <4>2 DEF Truth, ErrorsInv, TypeOK
    <3>4. QED
      BY <3>2, <3>3
  <2>6. CASE GrwlInit
    BY <2>6, ThreadAssumption, RecordAssumption DEF GrwlInit, Truth
  <2>7. CASE GrwlTerminate
    BY <2>7, ThreadAssumption DEF GrwlTerminate, Truth
  <2>8. QED
    BY <2>1, <2>2, <2>4, <2>5, <2>6, <2>7
       DEF Next, Continue, vars, threadVars, Raise, AllocateFails, Lock, Link,
           Publish, Unlock
<1>3. QED
  BY <1>1, <1>2

\* A thread is told the last error it raised itself, provided that only the
\* main thread calls GRWL while it is not initialized.
THEOREM LastError ==
    ASSUME MainCallsEarly
    PROVE  Spec => []LastErrorOfThread
<1>1. Init => Truth
  BY ThreadAssumption DEF Init, Truth
<1>2. ErrorsInv /\ Truth => LastErrorOfThread
  BY ThreadAssumption, RecordAssumption
     DEF ErrorsInv, Truth, LastErrorOfThread, RecordOf, MainCallsEarly
<1>3. ErrorsInv /\ Truth /\ [Next]_vars => Truth'
  BY NextTruth
<1>4. QED
  BY <1>1, <1>2, <1>3, ErrorsInvHolds, PTL DEF Spec

--------------------------------------------------------------------------------
(* The waits of the main thread *)

LoopInv == L!TypeOK /\ L!TimeoutKept /\ L!SleepsOnlyWhenIdle

-----------------------------------------------------------------------------
(* poll() *)

\* Whatever poll() does, the time it takes is deducted.
LEMMA PollDeducts ==
    ASSUME L!TypeOK, L!TimeoutKept, NEW e, L!PollTakes(e)
    PROVE  limit' \in L!Timeout /\ remaining' \in L!Timeout /\ waited' \in Nat /\ L!TimeoutKept'
<1> USE LoopAssumption DEF L!EventLoopAssumption
<1>1. /\ e \in Nat /\ e \in 0..MaxTimeout /\ waited \in Nat /\ limit' = limit
      /\ limit \in L!Timeout /\ remaining \in L!Timeout
  BY DEF L!PollTakes, L!TypeOK
<1>2. CASE remaining = NoTimeout
  BY <1>1, <1>2 DEF L!PollTakes, L!TimeLeft, L!TimeoutKept
<1>3. CASE remaining # NoTimeout
  <2>1. /\ remaining \in 0..MaxTimeout /\ e <= remaining
        /\ remaining' = remaining - e /\ waited' = waited + e
    BY <1>1, <1>3 DEF L!PollTakes, L!TimeLeft, L!Timeout
  <2>2. remaining' \in 0..MaxTimeout /\ waited' \in Nat
    BY <1>1, <2>1
  <2>3. limit # NoTimeout => waited' + remaining' = limit
    BY <1>1, <1>3, <2>1 DEF L!TimeoutKept
  <2>4. remaining' # NoTimeout
    BY <2>2
  <2>5. QED
    BY <1>1, <2>2, <2>3, <2>4 DEF L!TimeoutKept, L!Timeout
<1>4. QED
  BY <1>2, <1>3

\* The steps out of poll()
LEMMA PollStep ==
    ASSUME LoopInv, NEW e, L!PollTakes(e),
           UNCHANGED <<caller, awaited, L!xlibVars, L!wakeVars>>,
           signals' \in 0..MaxSignals, main' \in L!Place,
           main' \in {"anyPoll", "poll"} => main \in {"anyPoll", "poll"}
    PROVE  LoopInv'
<1>1. L!TypeOK'
  BY PollDeducts DEF LoopInv, L!TypeOK, L!xlibVars, L!wakeVars
<1>2. L!TimeoutKept' /\ L!SleepsOnlyWhenIdle'
  BY PollDeducts DEF LoopInv, L!SleepsOnlyWhenIdle, L!xlibVars
<1>3. QED
  BY <1>1, <1>2 DEF LoopInv

LEMMA WaitFailsPlace ==
    ASSUME L!TypeOK, L!WaitFails
    PROVE  main' \in L!Place /\ main' \notin {"anyPoll", "poll"}
BY DEF L!TypeOK, L!WaitFails, L!Place, L!WaitingForAny, L!WaitingForOne

-----------------------------------------------------------------------------
(* Steps outside poll() *)

\* Steps that have no part in a wait
LEMMA QuietStep ==
    ASSUME LoopInv, L!TypeOK', UNCHANGED L!waitVars,
           main' \in {"anyPoll", "poll"} => (queue' # <<>> => stolen')
    PROVE  LoopInv'
BY DEF LoopInv, L!TimeoutKept, L!SleepsOnlyWhenIdle, L!waitVars

LEMMA ReadsConnection ==
    ASSUME L!TypeOK, L!ReadConnection
    PROVE  queue' \in Seq(L!Event) /\ connection' \in Seq(L!Event) /\ stolen' = FALSE
BY DEF L!TypeOK, L!ReadConnection

LEMMA BeginWaitStep ==
    ASSUME LoopInv, NEW t \in L!Timeout, L!BeginWait(t),
           UNCHANGED <<L!xlibVars, L!wakeVars, signals>>,
           main' \in L!Place \ {"anyPoll", "poll"}, caller' \in {"app", "process"},
           awaited' \in L!Event
    PROVE  LoopInv'
<1>1. limit' = t /\ remaining' = t /\ waited' = 0
  BY DEF L!BeginWait
<1>2. L!TypeOK'
  BY <1>1 DEF LoopInv, L!TypeOK, L!xlibVars, L!wakeVars
<1>3. L!TimeoutKept'
  BY <1>1, LoopAssumption DEF L!EventLoopAssumption, L!TimeoutKept, L!Timeout
<1>4. L!SleepsOnlyWhenIdle'
  BY DEF L!SleepsOnlyWhenIdle
<1>5. QED
  BY <1>2, <1>3, <1>4 DEF LoopInv

LEMMA CheckEventStep ==
    ASSUME LoopInv, L!CheckEvent
    PROVE  LoopInv'
<1> DEFINE all == queue \o connection
<1>1. L!TypeOK /\ all \in Seq(L!Event)
  BY DEF LoopInv, L!TypeOK
<1>2. queue' \in Seq(L!Event) /\ main' \in {"pending", caller}
  <2>1. CASE queue' = all /\ main' = "pending"
    BY <1>1, <2>1
  <2>2. ASSUME NEW i \in 1..Len(all), queue' = L!RemoveAt(all, i), main' = caller
        PROVE  queue' \in Seq(L!Event) /\ main' \in {"pending", caller}
    <3> HIDE DEF all
    <3>1. SubSeq(all, 1, i - 1) \in Seq(L!Event) /\ SubSeq(all, i + 1, Len(all)) \in Seq(L!Event)
      BY <1>1, <2>2
    <3>2. QED
      BY <2>2, <3>1 DEF L!RemoveAt
  <2>3. QED
    BY <2>1, <2>2 DEF L!CheckEvent
<1>3. /\ connection' = <<>> /\ stolen' = FALSE
      /\ UNCHANGED <<caller, awaited, L!waitVars, L!wakeVars, signals>>
  BY DEF L!CheckEvent
<1>4. main' \in L!Place /\ main' \notin {"anyPoll", "poll"}
  BY <1>1, <1>2 DEF L!TypeOK, L!Place, L!WaitingForOne
<1>5. connection' \in Seq(L!Event)
  BY <1>3
<1>6. L!TypeOK'
  BY <1>1, <1>2, <1>3, <1>4, <1>5 DEF L!TypeOK, L!waitVars, L!wakeVars
<1>7. QED
  BY <1>3, <1>4, <1>6, QuietStep

-----------------------------------------------------------------------------
(* The theorems *)

LEMMA InitLoopInv == L!Init => LoopInv
<1> SUFFICES ASSUME L!Init
             PROVE  LoopInv
  OBVIOUS
<1>1. queue \in Seq(L!Event) /\ connection \in Seq(L!Event)
  BY DEF L!Init
<1>2. pipe \in 0..PipeSize /\ signals \in 0..MaxSignals /\ waited \in Nat
  BY LoopAssumption DEF L!EventLoopAssumption, L!Init
<1>3. main \in L!Place /\ limit \in L!Timeout /\ remaining \in L!Timeout /\ awaited \in L!Event
  BY DEF L!Init, L!Place, L!Timeout, L!Event
<1>4. L!TypeOK
  BY <1>1, <1>2, <1>3 DEF L!Init, L!TypeOK
<1>5. QED
  BY <1>4 DEF L!Init, LoopInv, L!TimeoutKept, L!SleepsOnlyWhenIdle

LEMMA NextLoopInv == LoopInv /\ [L!Next]_(L!vars) => LoopInv'
<1> SUFFICES ASSUME LoopInv, [L!Next]_(L!vars)
             PROVE  LoopInv'
  OBVIOUS
<1> USE LoopAssumption DEF L!EventLoopAssumption
<1>0. L!TypeOK
  BY DEF LoopInv
<1>1. CASE L!MainStep
  <2>1. CASE L!WaitPending
    <3>1. L!TypeOK'
      BY <1>0, <2>1, ReadsConnection
         DEF L!TypeOK, L!WaitPending, L!Place, L!WaitingForAny, L!waitVars, L!wakeVars
    <3>2. QED
      BY <2>1, <3>1, QuietStep DEF L!WaitPending
  <2>2. CASE L!CheckEvent
    BY <2>2, CheckEventStep
  <2>3. CASE L!X11Pending
    <3>1. L!TypeOK'
      BY <1>0, <2>3, ReadsConnection
         DEF L!TypeOK, L!X11Pending, L!Place, L!WaitingForOne, L!waitVars, L!wakeVars
    <3>2. QED
      BY <2>3, <3>1, QuietStep DEF L!X11Pending
  <2>4. CASE L!DrainEmptyEvents
    <3>1. (inotify /\ ~joysticks) \in BOOLEAN
      OBVIOUS
    <3>2. inotify' \in BOOLEAN
      BY <2>4, <3>1, Zenon DEF L!DrainEmptyEvents
    <3>3. /\ main' \in L!Place /\ pipe' \in 0..PipeSize
          /\ UNCHANGED <<caller, awaited, limit, remaining, waited, joysticks, signals>>
      BY <2>4 DEF L!DrainEmptyEvents, L!Place, L!waitVars
    <3>4. queue' \in Seq(L!Event) /\ connection' \in Seq(L!Event) /\ stolen' = FALSE
      BY <1>0, <2>4, ReadsConnection DEF L!DrainEmptyEvents
    <3>5. L!TypeOK'
      BY <1>0, <3>2, <3>3, <3>4 DEF L!TypeOK
    <3>6. QED
      BY <2>4, <3>5, QuietStep DEF L!DrainEmptyEvents
  <2>5. CASE L!ProcessEvent
    <3>1. L!TypeOK'
      BY <1>0, <2>5 DEF L!TypeOK, L!ProcessEvent, L!Place, L!waitVars, L!wakeVars
    <3>2. main' \notin {"anyPoll", "poll"}
      BY <2>5 DEF L!ProcessEvent
    <3>3. QED
      BY <2>5, <3>1, <3>2, QuietStep DEF L!ProcessEvent
  <2>6. CASE L!PollTimesOut
    BY <1>0, <2>6, PollStep, WaitFailsPlace DEF L!PollTimesOut, L!TypeOK
  <2>7. ASSUME NEW e \in 0..MaxTimeout, L!PollReady(e)
        PROVE  LoopInv'
    <3>1. main' \in {"pending", "drain", "anyPending"}
      BY <2>7, Zenon DEF L!PollReady
    <3>2. QED
      BY <1>0, <2>7, <3>1, PollStep
         DEF L!PollReady, L!TypeOK, L!Place, L!WaitingForAny, L!WaitingForOne
  <2>8. QED
    BY <1>1, <2>1, <2>2, <2>3, <2>4, <2>5, <2>6, <2>7 DEF L!MainStep
<1>2. CASE L!Environment
  <2>1. ASSUME NEW k \in L!Event, L!ServerSends(k)
        PROVE  LoopInv'
    <3>1. L!TypeOK'
      BY <1>0, <2>1 DEF L!TypeOK, L!ServerSends, L!waitVars, L!wakeVars
    <3>2. QED
      BY <2>1, <3>1, QuietStep DEF L!ServerSends, LoopInv, L!SleepsOnlyWhenIdle
  <2>2. CASE L!OtherThreadReads
    <3>1. L!TypeOK'
      BY <1>0, <2>2 DEF L!TypeOK, L!OtherThreadReads, L!waitVars, L!wakeVars
    <3>2. QED
      BY <2>2, <3>1, QuietStep DEF L!OtherThreadReads
  <2>3. CASE L!PostEmptyEvent
    <3>1. pipe' \in 0..PipeSize
      BY <1>0, <2>3 DEF L!TypeOK, L!PostEmptyEvent, L!OneByteMore
    <3>2. L!TypeOK'
      BY <1>0, <2>3, <3>1 DEF L!TypeOK, L!PostEmptyEvent, L!waitVars, L!xlibVars
    <3>3. QED
      BY <2>3, <3>2, QuietStep DEF L!PostEmptyEvent, LoopInv, L!SleepsOnlyWhenIdle, L!xlibVars
  <2>4. CASE L!DeviceChanges
    <3>1. L!TypeOK'
      BY <1>0, <2>4 DEF L!TypeOK, L!DeviceChanges, L!waitVars, L!xlibVars
    <3>2. QED
      BY <2>4, <3>1, QuietStep DEF L!DeviceChanges, LoopInv, L!SleepsOnlyWhenIdle, L!xlibVars
  <2>5. ASSUME NEW e \in 0..MaxTimeout, L!PollInterrupted(e)
        PROVE  LoopInv'
    <3>1. signals' \in 0..MaxSignals
      BY <1>0, <2>5 DEF L!PollInterrupted, L!TypeOK
    <3>2. main' \in L!Place
      BY <1>0, <2>5, WaitFailsPlace DEF L!PollInterrupted, L!TypeOK
    <3>3. QED
      BY <2>5, <3>1, <3>2, PollStep DEF L!PollInterrupted
  <2>6. ASSUME NEW e \in 0..MaxTimeout, L!PollError(e)
        PROVE  LoopInv'
    BY <1>0, <2>6, PollStep, WaitFailsPlace DEF L!PollError, L!TypeOK
  <2>7. QED
    BY <1>2, <2>1, <2>2, <2>3, <2>4, <2>5, <2>6 DEF L!Environment
<1>3. CASE L!Application
  <2>1. CASE L!PollEvents
    <3>1. L!TypeOK'
      BY <1>0, <2>1 DEF L!TypeOK, L!PollEvents, L!Place, L!waitVars, L!xlibVars, L!wakeVars
    <3>2. QED
      BY <2>1, <3>1, QuietStep DEF L!PollEvents
  <2>2. CASE L!InitJoysticks
    <3>1. L!TypeOK'
      BY <1>0, <2>2 DEF L!TypeOK, L!InitJoysticks, L!waitVars, L!xlibVars
    <3>2. QED
      BY <2>2, <3>1, QuietStep DEF L!InitJoysticks, LoopInv, L!SleepsOnlyWhenIdle, L!xlibVars
  <2>3. ASSUME NEW t \in L!Timeout, L!WaitEvents(t)
        PROVE  LoopInv'
    BY <1>0, <2>3, BeginWaitStep DEF L!WaitEvents, L!TypeOK, L!Place, L!WaitingForAny
  <2>4. ASSUME NEW k \in Awaited, NEW t \in 0..MaxTimeout, L!AwaitEvent(k, t)
        PROVE  LoopInv'
    BY <1>0, <2>4, BeginWaitStep
       DEF L!AwaitEvent, L!TypeOK, L!Place, L!WaitingForOne, L!Timeout, L!Event
  <2>5. QED
    BY <1>3, <2>1, <2>2, <2>3, <2>4 DEF L!Application
<1>4. CASE UNCHANGED L!vars
  BY <1>4 DEF LoopInv, L!TypeOK, L!TimeoutKept, L!SleepsOnlyWhenIdle, L!vars, L!waitVars,
              L!xlibVars, L!wakeVars
<1>5. QED
  BY <1>1, <1>2, <1>3, <1>4 DEF L!Next

\* The invariant holds in every state of every behaviour.
LEMMA LoopInvHolds == L!Spec => []LoopInv
BY InitLoopInv, NextLoopInv, PTL DEF L!Spec

\* The main thread only sleeps beside events that another thread has read
\* (waitForAnyEvent, waitForX11Event).
THEOREM SleepsIdle == L!Spec => []L!SleepsOnlyWhenIdle
<1>1. LoopInv => L!SleepsOnlyWhenIdle
  BY DEF LoopInv
<1>2. QED
  BY <1>1, LoopInvHolds, PTL

--------------------------------------------------------------------------------
(* The program *)

\* What is not the subject does not change.
LEMMA ProgramSteps == ThreadsSpec => Spec /\ L!Spec
<1>1. ThreadsInit => Init /\ L!Init
  BY DEF ThreadsInit
<1>2. [ThreadsNext]_<<subject, vars, loopVars>> => [Next]_vars /\ [L!Next]_(L!vars)
  BY DEF ThreadsNext, loopVars, L!vars, L!waitVars, L!xlibVars, L!wakeVars
<1>3. QED
  BY <1>1, <1>2, PTL DEF ThreadsSpec, Spec, L!Spec

\* A wait spends no more than its timeout in poll(); the time that is left is
\* never negative, and the pipe never holds more than it can (_grwlPollPOSIX).
THEOREM WaitsKeepTimeoutAlways == ThreadsSpec => []WaitsKeepTimeout
<1>1. LoopInv => WaitsKeepTimeout
  BY DEF LoopInv, WaitsKeepTimeout
<1>2. QED
  BY <1>1, ProgramSteps, LoopInvHolds, PTL
================================================================================
