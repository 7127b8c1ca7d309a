----------------------------- MODULE EventLoop -----------------------------
(***************************************************************************)
(* Waiting for events on X11: grwlPollEvents, grwlWaitEvents,              *)
(* grwlWaitEventsTimeout and grwlPostEmptyEvent, and the waits for one     *)
(* particular event inside other calls (waitForVisibilityNotify and the    *)
(* frame extents of a hidden window).                                      *)
(*                                                                         *)
(* Code: src/src/linux/x11_window.cpp, src/src/linux/posix_poll.cpp.       *)
(*                                                                         *)
(* The main thread waits.  The X server sends events to the connection;    *)
(* any Xlib call of another thread that needs a reply moves them to the    *)
(* queue inside Xlib, where poll() does not see them; any thread posts     *)
(* empty events; joysticks come and go; signals interrupt poll().          *)
(***************************************************************************)
EXTENDS Naturals, Sequences, SequencesExt

CONSTANTS
    Awaited,      \* kinds of events some call waits for
    OtherEvent,   \* all other events
    NoTimeout,    \* the null pointer passed as timeout
    PipeSize,     \* what the pipe of empty events holds
    MaxTimeout, MaxEvents, MaxSignals   \* bounds of the model

Event == Awaited \union {OtherEvent}

EventLoopAssumption ==
    /\ PipeSize \in Nat \ {0}
    /\ MaxTimeout \in Nat /\ MaxEvents \in Nat /\ MaxSignals \in Nat
    /\ NoTimeout \notin Nat

VARIABLES
    main,       \* where the main thread is, see Place
    caller,     \* where it returns to from a wait for one event
    awaited,    \* the event that wait is for
    limit,      \* the timeout of the wait in progress
    remaining,  \* the variable behind the pointer `timeout'
    waited,     \* history: time this wait has spent in poll()
    queue,      \* events inside Xlib
    connection, \* events the server has sent and Xlib has not read
    stolen,     \* history: Xlib read events since the main thread last looked
    pipe,       \* bytes in the pipe of empty events
    joysticks,  \* _grwl.joysticksInitialized
    inotify,    \* a device node was created or removed
    signals     \* interruptions so far

waitVars == <<limit, remaining, waited>>
xlibVars == <<queue, connection, stolen>>
wakeVars == <<pipe, joysticks, inotify>>
vars == <<main, caller, awaited, waitVars, xlibVars, wakeVars, signals>>

\* anyPending, anyPoll: waitForAnyEvent.  drain, process: _grwlPollEventsX11.
\* check, pending, poll: a wait for one event and its waitForX11Event.
WaitingForAny == {"anyPending", "anyPoll"}
WaitingForOne == {"check", "pending", "poll"}
Place == {"app", "drain", "process"} \union WaitingForAny \union WaitingForOne
Timeout == 0..MaxTimeout \union {NoTimeout}

TypeOK ==
    /\ main \in Place
    /\ caller \in {"app", "process"}
    /\ awaited \in Event
    /\ limit \in Timeout
    /\ remaining \in Timeout
    /\ waited \in Nat
    /\ queue \in Seq(Event)
    /\ connection \in Seq(Event)
    /\ stolen \in BOOLEAN
    /\ pipe \in 0..PipeSize
    /\ joysticks \in BOOLEAN
    /\ inotify \in BOOLEAN
    /\ signals \in 0..MaxSignals

Init ==
    /\ main = "app"
    /\ caller = "app"
    /\ awaited = OtherEvent
    /\ limit = NoTimeout
    /\ remaining = NoTimeout
    /\ waited = 0
    /\ queue = <<>>
    /\ connection = <<>>
    /\ stolen = FALSE
    /\ pipe = 0
    /\ joysticks = FALSE
    /\ inotify = FALSE
    /\ signals = 0

-----------------------------------------------------------------------------
(* What happens around the main thread *)

ServerSends(e) ==
    /\ Len(queue) + Len(connection) < MaxEvents
    /\ connection' = Append(connection, e)
    /\ UNCHANGED <<main, caller, awaited, waitVars, queue, stolen, wakeVars,
                   signals>>

\* A call like glXSwapBuffers, which the documentation allows on any thread.
OtherThreadReads ==
    /\ connection # <<>>
    /\ queue' = queue \o connection
    /\ connection' = <<>>
    /\ stolen' = TRUE
    /\ UNCHANGED <<main, caller, awaited, waitVars, wakeVars, signals>>

\* Fault: the pipe is taken to have no limit.
OneByteMoreAlways(n) == n + 1

\* write() to a full pipe fails with EAGAIN, which ends the loop.
OneByteMore(n) == IF n < PipeSize THEN n + 1 ELSE n

PostEmptyEvent ==
    /\ pipe' = OneByteMore(pipe)
    /\ UNCHANGED <<main, caller, awaited, waitVars, xlibVars, joysticks,
                   inotify, signals>>

DeviceChanges ==
    /\ joysticks
    /\ inotify' = TRUE
    /\ UNCHANGED <<main, caller, awaited, waitVars, xlibVars, pipe, joysticks,
                   signals>>

-----------------------------------------------------------------------------
(* Xlib calls of the main thread *)

\* XPending reads the connection when the queue is empty.
ReadConnection ==
    /\ queue' = IF queue = <<>> THEN connection ELSE queue
    /\ connection' = IF queue = <<>> THEN <<>> ELSE connection
    /\ stolen' = FALSE

-----------------------------------------------------------------------------
(* _grwlPollPOSIX *)

\* Fault: the time already waited is not deducted.
TimeLeftUnchanged(e) == remaining

\* `*timeout -= ...' after poll() took e
TimeLeft(e) == IF remaining = NoTimeout THEN NoTimeout ELSE remaining - e

PollTakes(e) ==
    /\ e \in 0..MaxTimeout
    /\ remaining = NoTimeout => e = 0
    /\ remaining # NoTimeout => e <= remaining
    /\ remaining' = TimeLeft(e)
    /\ waited' = waited + e
    /\ UNCHANGED limit

\* Fault: the pipe is not among the file descriptors.
WakeFdsWithoutPipe == joysticks /\ inotify

\* The file descriptors waitForAnyEvent polls next to the connection.
WakeFds == pipe > 0 \/ (joysticks /\ inotify)

Readable == connection # <<>> \/ (main = "anyPoll" /\ WakeFds)

\* waitForAnyEvent or waitForX11Event returns false.
WaitFails == main' = IF main = "anyPoll" THEN "drain" ELSE caller

\* poll() returns because a file descriptor is readable.
PollReady(e) ==
    /\ main \in {"anyPoll", "poll"}
    /\ Readable
    /\ PollTakes(e)
    /\ main' = CASE main = "poll"               -> "pending"
                 [] main = "anyPoll" /\ WakeFds  -> "drain"
                 [] main = "anyPoll" /\ ~WakeFds -> "anyPending"
    /\ UNCHANGED <<caller, awaited, xlibVars, wakeVars, signals>>

\* Fault: a timeout of poll() is not told from an interruption.
PollTimesOutAgain ==
    /\ main \in {"anyPoll", "poll"}
    /\ remaining # NoTimeout
    /\ ~Readable
    /\ PollTakes(remaining)
    /\ UNCHANGED <<main, caller, awaited, xlibVars, wakeVars, signals>>

PollTimesOut ==
    /\ main \in {"anyPoll", "poll"}
    /\ remaining # NoTimeout
    /\ ~Readable
    /\ PollTakes(remaining)
    /\ WaitFails
    /\ UNCHANGED <<caller, awaited, xlibVars, wakeVars, signals>>

\* EINTR or EAGAIN: poll() is called again with the time that is left.
PollInterrupted(e) ==
    /\ main \in {"anyPoll", "poll"}
    /\ signals < MaxSignals
    /\ signals' = signals + 1
    /\ PollTakes(e)
    /\ IF remaining' = 0 THEN WaitFails ELSE UNCHANGED main
    /\ UNCHANGED <<caller, awaited, xlibVars, wakeVars>>

\* Any other error
PollError(e) ==
    /\ main \in {"anyPoll", "poll"}
    /\ PollTakes(e)
    /\ WaitFails
    /\ UNCHANGED <<caller, awaited, xlibVars, wakeVars, signals>>

-----------------------------------------------------------------------------
(* The calls of the application *)

PollEvents ==
    /\ main = "app"
    /\ main' = "drain"
    /\ UNCHANGED <<caller, awaited, waitVars, xlibVars, wakeVars, signals>>

BeginWait(t) ==
    /\ limit' = t
    /\ remaining' = t
    /\ waited' = 0

\* grwlWaitEvents (NoTimeout) and grwlWaitEventsTimeout
WaitEvents(t) ==
    /\ main = "app"
    /\ main' = "anyPending"
    /\ BeginWait(t)
    /\ UNCHANGED <<caller, awaited, xlibVars, wakeVars, signals>>

\* grwlShowWindow and others wait for VisibilityNotify,
\* grwlGetWindowFrameSize for the frame extents; also from a callback.
AwaitEvent(k, t) ==
    /\ main \in {"app", "process"}
    /\ main' = "check"
    /\ caller' = main
    /\ awaited' = k
    /\ BeginWait(t)
    /\ UNCHANGED <<xlibVars, wakeVars, signals>>

InitJoysticks ==
    /\ main \in {"app", "process"}
    /\ ~joysticks
    /\ joysticks' = TRUE
    /\ UNCHANGED <<main, caller, awaited, waitVars, xlibVars, pipe, inotify,
                   signals>>

-----------------------------------------------------------------------------
(* waitForAnyEvent and waitForX11Event *)

\* Fault: the number of events is that from before the connection was read.
WaitPendingLate ==
    /\ main = "anyPending"
    /\ ReadConnection
    /\ main' = IF queue = <<>> THEN "anyPoll" ELSE "drain"
    /\ UNCHANGED <<caller, awaited, waitVars, wakeVars, signals>>

WaitPending ==
    /\ main = "anyPending"
    /\ ReadConnection
    /\ main' = IF queue' = <<>> THEN "anyPoll" ELSE "drain"
    /\ UNCHANGED <<caller, awaited, waitVars, wakeVars, signals>>

\* XCheckTypedWindowEvent and XCheckIfEvent look at the queue, then at the
\* connection, and take the first event of the kind.
CheckEvent ==
    /\ main = "check"
    /\ LET all == queue \o connection
       IN  \/ /\ ~Contains(all, awaited)
              /\ main' = "pending"
              /\ queue' = all
           \/ \E i \in 1..Len(all) :
                 /\ all[i] = awaited
                 /\ ~\E j \in 1..(i - 1) : all[j] = awaited
                 /\ main' = caller
                 /\ queue' = RemoveAt(all, i)
    /\ connection' = <<>>
    /\ stolen' = FALSE
    /\ UNCHANGED <<caller, awaited, waitVars, wakeVars, signals>>

\* Any event in the queue ends waitForX11Event, with or without timeout.
X11Pending ==
    /\ main = "pending"
    /\ ReadConnection
    /\ main' = IF queue' = <<>> THEN "poll" ELSE "check"
    /\ UNCHANGED <<caller, awaited, waitVars, wakeVars, signals>>

-----------------------------------------------------------------------------
(* _grwlPollEventsX11 *)

\* The pipe is drained and inotify read, then XPending.
DrainEmptyEvents ==
    /\ main = "drain"
    /\ main' = "process"
    /\ pipe' = 0
    /\ inotify' = (inotify /\ ~joysticks)
    /\ ReadConnection
    /\ UNCHANGED <<caller, awaited, waitVars, joysticks, signals>>

\* XNextEvent and processEvent, while QLength says there are more.
ProcessEvent ==
    /\ main = "process"
    /\ IF queue = <<>>
         THEN main' = "app" /\ UNCHANGED queue
         ELSE queue' = Tail(queue) /\ UNCHANGED main
    /\ UNCHANGED <<caller, awaited, waitVars, connection, stolen, wakeVars,
                   signals>>

-----------------------------------------------------------------------------
\* What the main thread does inside GRWL, by itself
MainStep ==
    \/ WaitPending
    \/ CheckEvent
    \/ X11Pending
    \/ DrainEmptyEvents
    \/ ProcessEvent
    \/ PollTimesOut
    \/ \E e \in 0..MaxTimeout : PollReady(e)

Environment ==
    \/ \E e \in Event : ServerSends(e)
    \/ OtherThreadReads
    \/ PostEmptyEvent
    \/ DeviceChanges
    \/ \E e \in 0..MaxTimeout : PollInterrupted(e) \/ PollError(e)

Application ==
    \/ PollEvents
    \/ InitJoysticks
    \/ \E t \in Timeout : WaitEvents(t)
    \/ \E k \in Awaited, t \in 0..MaxTimeout : AwaitEvent(k, t)

Next == MainStep \/ Environment \/ Application

Spec == Init /\ [][Next]_vars

\* The operating system runs the main thread, and time passes.
FairSpec == Spec /\ WF_vars(MainStep)

-----------------------------------------------------------------------------
(* Properties *)

(***************************************************************************)
(* However often poll() is interrupted or woken in vain, a wait with a     *)
(* timeout spends no more than that in poll(), and what is left is what    *)
(* has not been spent (_grwlPollPOSIX).                                    *)
(***************************************************************************)
TimeoutKept ==
    limit # NoTimeout =>
        /\ remaining # NoTimeout
        /\ waited + remaining = limit

(***************************************************************************)
(* The main thread sleeps beside events that are already in Xlib's queue   *)
(* only when another thread's call put them there after the main thread    *)
(* looked (waitForAnyEvent, waitForX11Event).                              *)
(***************************************************************************)
SleepsOnlyWhenIdle ==
    main \in {"anyPoll", "poll"} /\ queue # <<>> => stolen

(***************************************************************************)
(* "This function posts an empty event from the current thread to the      *)
(* event queue, causing grwlWaitEvents or grwlWaitEventsTimeout to return" *)
(* (grwl.h:4518): a post is not lost, whether it comes before poll() or    *)
(* during it, and also when the pipe is full.                              *)
(***************************************************************************)
PostWakes == pipe > 0 /\ main \in WaitingForAny ~> main \notin WaitingForAny

(***************************************************************************)
(* grwlWaitEventsTimeout returns, whatever signals arrive and whatever     *)
(* other threads do to Xlib's queue.                                       *)
(***************************************************************************)
TimedWaitEnds ==
    main \in WaitingForAny /\ remaining # NoTimeout ~> main \notin WaitingForAny

=============================================================================
