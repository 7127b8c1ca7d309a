------------------------------ MODULE MC_Threads ------------------------------
(* What the library leaves to any thread: errors (Errors), with a main thread, *)
(* two workers and two records for them; and empty events, which wake the main *)
(* thread (EventLoop), with one kind of awaited event and two other events in  *)
(* flight.  They share no state: a behaviour is a behaviour of one of them;    *)
(* subject says which.                                                         *)
EXTENDS Errors, TLC

CONSTANTS
    Subject,                                                     \* what to check
    Awaited, OtherEvent, NoTimeout, PipeSize,                    \* EventLoop
    MaxTimeout, MaxEvents, MaxSignals

VARIABLES
    subject,
    main, caller, awaited, limit, remaining, waited, queue, connection, stolen,
    pipe, joysticks, inotify, signals

L == INSTANCE EventLoop

ASSUME LoopAssumption == L!EventLoopAssumption

loopVars == <<main, caller, awaited, limit, remaining, waited, queue, connection, stolen,
              pipe, joysticks, inotify, signals>>

ThreadsInit == subject \in Subject /\ Init /\ L!Init

\* What is not the subject stays in its initial state.
ThreadsNext ==
    \/ subject = "errors" /\ Next /\ UNCHANGED <<subject, loopVars>>
    \/ subject = "waiting" /\ L!Next /\ UNCHANGED <<subject, vars>>

\* A thread inside a GRWL function keeps running, and time passes.
ThreadsSpec ==
    /\ ThreadsInit /\ [][ThreadsNext]_<<subject, vars, loopVars>>
    /\ \A t \in Thread : WF_vars(Continue(t))
    /\ WF_loopVars(L!MainStep)

--------------------------------------------------------------------------------
(* The properties of EventLoop.  Those of Errors have their own names. *)

\* However often poll() is interrupted or woken in vain, a wait spends no more
\* than its timeout in it and knows what is left; with the types of the
\* variables (_grwlPollPOSIX).
WaitsKeepTimeout == L!TypeOK /\ L!TimeoutKept

\* An empty event that any thread has posted ends grwlWaitEvents, whether it
\* comes before poll() or during it, and also when the pipe is full (grwl.h:4518).
PostWakes == L!PostWakes

\* grwlWaitEventsTimeout returns, whatever signals arrive and whatever other
\* threads do to the queue of Xlib.
TimedWaitEnds == L!TimedWaitEnds
================================================================================
