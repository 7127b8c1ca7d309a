------------------------------- MODULE Errors -------------------------------
(***************************************************************************)
(* Error reporting across threads: _grwlInputError and grwlGetError of     *)
(* src/src/init.cpp, with the thread-local slot and the mutex of           *)
(* src/src/posix_thread.cpp.                                               *)
(*                                                                         *)
(* Any thread may raise an error.  The first error on a thread other than  *)
(* the one that called grwlInit allocates a record for it and links the    *)
(* record into a list that grwlTerminate frees.                            *)
(***************************************************************************)
EXTENDS Naturals

CONSTANTS
    Thread,
    Main,           \* the thread that calls grwlInit and grwlTerminate
    NoThread,       \* holds the mutex when nobody does
    Record,         \* addresses of heap-allocated _GRWLerror records
    MainRecord,     \* the address of _grwlMainThreadError
    NoRecord,       \* nullptr
    Code, NoCode,   \* error codes and GRWL_NO_ERROR
    OutOfMemory,    \* GRWL_OUT_OF_MEMORY
    EarlyCallers,   \* threads that call GRWL while it is not initialized
    AllocMayFail,   \* whether the allocator may return nullptr
    MaxFailures     \* bound on nested allocation failures

ASSUME ThreadAssumption ==
    /\ Main \in Thread
    /\ NoThread \notin Thread
    /\ EarlyCallers \subseteq Thread
ASSUME RecordAssumption ==
    /\ MainRecord \notin Record
    /\ NoRecord \notin Record \union {MainRecord}
ASSUME CodeAssumption == OutOfMemory \in Code /\ NoCode \notin Code
ASSUME AllocAssumption == AllocMayFail \in BOOLEAN /\ MaxFailures \in Nat

VARIABLES
    initialized,  \* _grwl.initialized
    allocated,    \* records taken from the allocator and not given back
    list,         \* the records linked from _grwl.errorListHead
    lock,         \* the holder of _grwl.errorLock
    slot,         \* _grwl.errorSlot, per thread
    code,         \* error->code of a record
    pc,           \* where in _grwlInputError a thread is
    raising,      \* its argument `code'
    head,         \* the list a thread read errorListHead as
    failures,     \* nested _grwlInputError calls whose allocation failed
    crashed,      \* a null record was dereferenced
    last          \* history: the error last raised on a thread, until it is read

threadVars == <<slot, pc, raising, head, failures>>
vars == <<initialized, allocated, list, lock, code, threadVars, crashed, last>>

Where == {"idle", "alloc", "lock", "link", "publish", "unlock", "store"}

TypeOK ==
    /\ initialized \in BOOLEAN
    /\ allocated \in SUBSET Record
    /\ list \in SUBSET Record
    /\ lock \in Thread \union {NoThread}
    /\ slot \in [Thread -> Record \union {MainRecord, NoRecord}]
    /\ code \in [Record \union {MainRecord} -> Code \union {NoCode}]
    /\ pc \in [Thread -> Where]
    /\ raising \in [Thread -> Code \union {NoCode}]
    /\ head \in [Thread -> SUBSET Record]
    /\ failures \in [Thread -> Nat]
    /\ crashed \in BOOLEAN
    /\ last \in [Thread -> Code \union {NoCode}]

Init ==
    /\ initialized = FALSE
    /\ allocated = {}
    /\ list = {}
    /\ lock = NoThread
    /\ slot = [t \in Thread |-> NoRecord]
    /\ code = [r \in Record \union {MainRecord} |-> NoCode]
    /\ pc = [t \in Thread |-> "idle"]
    /\ raising = [t \in Thread |-> NoCode]
    /\ head = [t \in Thread |-> {}]
    /\ failures = [t \in Thread |-> 0]
    /\ crashed = FALSE
    /\ last = [t \in Thread |-> NoCode]

Go(t, where) == pc' = [pc EXCEPT ![t] = where]

\* Fault: one record for all threads.
SharedRecordOf(t) == MainRecord

\* The record a thread reads and writes.
RecordOf(t) == IF initialized THEN slot[t] ELSE MainRecord

MayCall(t) ==
    /\ ~crashed
    /\ pc[t] = "idle"
    /\ initialized \/ t \in EarlyCallers

-----------------------------------------------------------------------------
(* _grwlInputError *)

Raise(t, c) ==
    /\ MayCall(t)
    /\ raising' = [raising EXCEPT ![t] = c]
    /\ Go(t, IF RecordOf(t) = NoRecord THEN "alloc" ELSE "store")
    /\ UNCHANGED <<initialized, allocated, list, lock, slot, code, head,
                   failures, crashed, last>>

\* Fault: the thread-local slot is set to the error code.
AllocateMisplaced(t, r) ==
    /\ ~crashed
    /\ pc[t] = "alloc"
    /\ r \notin allocated
    /\ allocated' = allocated \union {r}
    /\ code' = [code EXCEPT ![r] = NoCode]
    /\ slot' = [slot EXCEPT ![t] = raising[t]]
    /\ Go(t, "lock")
    /\ UNCHANGED <<initialized, list, lock, raising, head, failures, crashed,
                   last>>

\* _grwl_calloc and _grwlPlatformSetTls
Allocate(t, r) ==
    /\ ~crashed
    /\ pc[t] = "alloc"
    /\ r \notin allocated
    /\ allocated' = allocated \union {r}
    /\ code' = [code EXCEPT ![r] = NoCode]
    /\ slot' = [slot EXCEPT ![t] = r]
    /\ Go(t, "lock")
    /\ UNCHANGED <<initialized, list, lock, raising, head, failures, crashed,
                   last>>

\* _grwl_calloc reports its failure with _grwlInputError(GRWL_OUT_OF_MEMORY),
\* which finds no record either and allocates one.
AllocateFails(t) ==
    /\ ~crashed
    /\ pc[t] = "alloc"
    /\ AllocMayFail
    /\ failures[t] < MaxFailures
    /\ failures' = [failures EXCEPT ![t] = @ + 1]
    /\ raising' = [raising EXCEPT ![t] = OutOfMemory]
    /\ UNCHANGED <<initialized, allocated, list, lock, slot, code, pc, head,
                   crashed, last>>

\* Fault: the list is pushed to without its mutex.
LockNothing(t) ==
    /\ ~crashed
    /\ pc[t] = "lock"
    /\ lock' = t
    /\ Go(t, "link")
    /\ UNCHANGED <<initialized, allocated, list, slot, code, raising, head,
                   failures, crashed, last>>

Lock(t) ==
    /\ ~crashed
    /\ pc[t] = "lock"
    /\ lock = NoThread
    /\ lock' = t
    /\ Go(t, "link")
    /\ UNCHANGED <<initialized, allocated, list, slot, code, raising, head,
                   failures, crashed, last>>

\* error->next = _grwl.errorListHead
Link(t) ==
    /\ ~crashed
    /\ pc[t] = "link"
    /\ head' = [head EXCEPT ![t] = list]
    /\ Go(t, "publish")
    /\ UNCHANGED <<initialized, allocated, list, lock, slot, code, raising,
                   failures, crashed, last>>

\* _grwl.errorListHead = error
Publish(t) ==
    /\ ~crashed
    /\ pc[t] = "publish"
    /\ list' = head[t] \union {slot[t]}
    /\ Go(t, "unlock")
    /\ UNCHANGED <<initialized, allocated, lock, slot, code, raising, head,
                   failures, crashed, last>>

\* Fault: the mutex stays locked.
UnlockNothing(t) ==
    /\ ~crashed
    /\ pc[t] = "unlock"
    /\ Go(t, "store")
    /\ UNCHANGED <<initialized, allocated, list, lock, slot, code, raising,
                   head, failures, crashed, last>>

Unlock(t) ==
    /\ ~crashed
    /\ pc[t] = "unlock"
    /\ lock' = NoThread
    /\ Go(t, "store")
    /\ UNCHANGED <<initialized, allocated, list, slot, code, raising, head,
                   failures, crashed, last>>

\* error->code = code.  When this was the call that reports an allocation
\* failure, the caller goes on with the null record it was given.
Store(t) ==
    /\ ~crashed
    /\ pc[t] = "store"
    /\ code' = [code EXCEPT ![RecordOf(t)] = raising[t]]
    /\ last' = [last EXCEPT ![t] = raising[t]]
    /\ Go(t, "idle")
    /\ IF failures[t] = 0
         THEN UNCHANGED <<slot, crashed>>
         ELSE /\ slot' = [slot EXCEPT ![t] = NoRecord]
              /\ crashed' = TRUE
    /\ UNCHANGED <<initialized, allocated, list, lock, raising, head, failures>>

-----------------------------------------------------------------------------
(* The other entry points *)

GetError(t) ==
    /\ MayCall(t)
    /\ last' = [last EXCEPT ![t] = NoCode]
    /\ IF RecordOf(t) = NoRecord
         THEN UNCHANGED code
         ELSE code' = [code EXCEPT ![RecordOf(t)] = NoCode]
    /\ UNCHANGED <<initialized, allocated, list, lock, threadVars, crashed>>

\* No other thread may be inside GRWL during grwlInit and grwlTerminate.
Quiescent == ~crashed /\ \A t \in Thread : pc[t] = "idle"

\* The slot is created empty and set for the calling thread.
GrwlInit ==
    /\ Quiescent
    /\ ~initialized
    /\ initialized' = TRUE
    /\ slot' = [t \in Thread |-> IF t = Main THEN MainRecord ELSE NoRecord]
    /\ last' = [t \in Thread |-> IF t = Main THEN last[t] ELSE NoCode]
    /\ UNCHANGED <<allocated, list, lock, code, pc, raising, head, failures,
                   crashed>>

\* Every linked record is freed, the slot is deleted.
GrwlTerminate ==
    /\ Quiescent
    /\ initialized
    /\ initialized' = FALSE
    /\ allocated' = allocated \ list
    /\ list' = {}
    /\ slot' = [t \in Thread |-> NoRecord]
    /\ last' = [t \in Thread |-> IF t = Main THEN last[t] ELSE NoCode]
    /\ UNCHANGED <<lock, code, pc, raising, head, failures, crashed>>

-----------------------------------------------------------------------------
\* What a thread does inside _grwlInputError.
Continue(t) ==
    \/ \E r \in Record : Allocate(t, r)
    \/ AllocateFails(t)
    \/ Lock(t)
    \/ Link(t)
    \/ Publish(t)
    \/ Unlock(t)
    \/ Store(t)

Next ==
    \/ GrwlInit
    \/ GrwlTerminate
    \/ \E t \in Thread :
         \/ \E c \in Code : Raise(t, c)
         \/ Continue(t)
         \/ GetError(t)

Spec == Init /\ [][Next]_vars

\* A thread inside a GRWL function keeps running.
FairSpec == Spec /\ \A t \in Thread : WF_vars(Continue(t))

-----------------------------------------------------------------------------
(* Properties *)

(***************************************************************************)
(* grwlGetError "returns and clears the last error for the calling thread" *)
(* (GRWL/grwl.h): what a thread would be told is the last error it raised  *)
(* and has not read, whatever other threads do meanwhile.                  *)
(***************************************************************************)
LastErrorOfThread ==
    ~crashed =>
        \A t \in Thread :
            (initialized \/ t \in EarlyCallers) =>
                LET r == RecordOf(t)
                IN  last[t] = IF r = NoRecord THEN NoCode ELSE code[r]

(***************************************************************************)
(* The push under errorLock loses no record: once a thread has left the    *)
(* critical section its record is in the list that grwlTerminate frees, so *)
(* nothing is left allocated after it.                                     *)
(***************************************************************************)
NoRecordLost ==
    /\ \A t \in Thread :
         slot[t] \in Record /\ pc[t] \in {"idle", "unlock", "store"} =>
            slot[t] \in list
    /\ ~initialized => allocated = {}

(***************************************************************************)
(* An error being raised is eventually stored and reported, unless the     *)
(* process has crashed: no thread waits forever for errorLock.             *)
(***************************************************************************)
ErrorsDelivered ==
    \A t \in Thread : pc[t] # "idle" ~> pc[t] = "idle" \/ crashed
=============================================================================
