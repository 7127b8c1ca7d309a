----------------------------- MODULE Joysticks -----------------------------
(***************************************************************************)
(* Joysticks on Linux: how device nodes come and go, how their events are  *)
(* read into the joystick slots, and the callbacks of the application in   *)
(* the middle of it.                                                       *)
(*                                                                         *)
(* Code: src/src/linux/linux_joystick.cpp, src/src/input.cpp.              *)
(*                                                                         *)
(* All of it runs on the main thread; what interleaves with it is the      *)
(* kernel (devices, their events, inotify) and the application's           *)
(* callbacks, which may call joystick functions again.  The call stack is  *)
(* therefore part of the state.  A device has one axis and one button; a   *)
(* device is named by its node, and nodes are numbered in path order.      *)
(***************************************************************************)
EXTENDS Naturals, Sequences, FiniteSets

CONSTANTS
    NumDevices,   \* device nodes that ever exist
    LastSlot,     \* GRWL_JOYSTICK_LAST
    QueueSize,    \* events the kernel holds for one reader
    MaxPlugs, MaxMoves, MaxUpdates, MaxNested   \* bounds of the model

JoysticksAssumption ==
    /\ NumDevices \in Nat \ {0} /\ LastSlot \in Nat
    /\ QueueSize \in Nat \ {0, 1}
    /\ MaxPlugs \in Nat /\ MaxMoves \in Nat
    /\ MaxUpdates \in Nat /\ MaxNested \in Nat

Device == 1..NumDevices
NoPath == 0                      \* the path of a zeroed slot
Slot == 0..LastSlot
Value == {0, 1}                  \* of an axis and of a button

NoSlot == LastSlot + 1           \* no joystick is resynchronizing
Vanished == LastSlot + 2         \* the one that was has been freed

VARIABLES
    node,         \* [Device -> NodeState]: the nodes under /dev/input
    axis, button, \* [Device -> Value]: what the devices are at
    initialized,  \* _grwl.joysticksInitialized
    watching,     \* _grwl.linjs.inotify > 0
    inotify,      \* events of /dev/input not yet read
    js,           \* _grwl.joysticks, with the open file of each slot
    dropper,      \* slot whose SYN_DROPPED set _grwl.linjs.dropped
    table,        \* how often _grwl.mappings has moved
    stack,        \* calls in progress, the last one on top
    plugs, moves  \* bounds

deviceVars == <<node, axis, button, plugs, moves>>
libraryVars == <<initialized, watching, inotify>>
vars == <<deviceVars, libraryVars, js, dropper, table, stack>>

NodeState == {"absent", "created", "ready"}     \* ready: permissions set
Notice == [what : {"create", "attrib", "delete"}, path : Device]

Event == [type : {"key", "abs"}, value : Value]
           \union [type : {"dropped", "report"}, value : {0}]
Dropped == [type |-> "dropped", value |-> 0]
Report == [type |-> "report", value |-> 0]

\* alive, events: the open file; the device behind it is still there.
\* unheard: history, button changes this slot cannot know of (see Deliver).
\* overtaken: history, the mappings moved while the slot was not connected.
Joystick == [allocated : BOOLEAN, connected : BOOLEAN,
             path : Device \union {NoPath}, alive : BOOLEAN,
             events : Seq(Event), axis : Value, button : Value,
             mapping : 0..MaxUpdates, unheard : BOOLEAN, overtaken : BOOLEAN]

Freed == [allocated |-> FALSE, connected |-> FALSE, path |-> NoPath,
          alive |-> FALSE, events |-> <<>>, axis |-> 0, button |-> 0,
          mapping |-> 0, unheard |-> FALSE, overtaken |-> FALSE]

\* A call in progress; "app" is a callback.  slot: its joystick; left: events
\* to process, or the next slot to poll; tried: nodes already looked at.
Call == [fn : {"init", "detect", "connect", "poll", "pollAll", "close", "app"},
         slot : Slot, left : Nat, tried : SUBSET Device]

CallOf(fn, s) == [fn |-> fn, slot |-> s, left |-> 0, tried |-> {}]
Callback == CallOf("app", 0)

TypeOK ==
    /\ node \in [Device -> NodeState]
    /\ axis \in [Device -> Value]
    /\ button \in [Device -> Value]
    /\ initialized \in BOOLEAN
    /\ watching \in BOOLEAN
    /\ inotify \in Seq(Notice)
    /\ js \in [Slot -> Joystick]
    /\ \A s \in Slot : js[s].allocated \/ js[s] = Freed
    /\ dropper \in Slot \union {NoSlot, Vanished}
    /\ table \in 0..MaxUpdates
    /\ stack \in Seq(Call)
    /\ plugs \in 0..MaxPlugs
    /\ moves \in 0..MaxMoves

Init ==
    /\ node \in [Device -> {"absent", "ready"}]
    /\ axis = [d \in Device |-> 0]
    /\ button = [d \in Device |-> 0]
    /\ initialized = FALSE
    /\ watching = FALSE
    /\ inotify = <<>>
    /\ js = [s \in Slot |-> Freed]
    /\ dropper = NoSlot
    /\ table = 0
    /\ stack = <<>>
    /\ plugs = 0
    /\ moves = 0

-----------------------------------------------------------------------------
(* The call stack.                                                         *)

Top == stack[Len(stack)]
Running(fn) == stack # <<>> /\ Top.fn = fn
Below == SubSeq(stack, 1, Len(stack) - 1)

\* The application runs: no call is in progress, or a callback is.
AppRuns == stack = <<>> \/ Running("app")

\* Returning to `frames' by way of the callback, when there is something to tell.
Tell(something, frames) ==
    stack' = IF something THEN Append(frames, Callback) ELSE frames

-----------------------------------------------------------------------------
(* The kernel.                                                             *)

Notify(what, d) ==
    inotify' = IF watching THEN Append(inotify, [what |-> what, path |-> d])
               ELSE inotify

\* A node appears and gets its permissions later.
Plug(d) ==
    /\ node[d] = "absent" /\ plugs < MaxPlugs
    /\ plugs' = plugs + 1
    /\ node' = [node EXCEPT ![d] = "created"]
    /\ Notify("create", d)
    /\ UNCHANGED <<axis, button, moves, initialized, watching, js, dropper, table, stack>>

Permit(d) ==
    /\ node[d] = "created"
    /\ node' = [node EXCEPT ![d] = "ready"]
    /\ Notify("attrib", d)
    /\ UNCHANGED <<axis, button, plugs, moves, initialized, watching, js, dropper, table, stack>>

\* Reading the file of a device that is gone fails with ENODEV.
Unplug(d) ==
    /\ node[d] # "absent"
    /\ node' = [node EXCEPT ![d] = "absent"]
    /\ js' = [s \in Slot |-> IF js[s].path = d THEN [js[s] EXCEPT !.alive = FALSE] ELSE js[s]]
    /\ Notify("delete", d)
    /\ UNCHANGED <<axis, button, plugs, moves, initialized, watching, dropper, table, stack>>

\* A report of two events; one that does not fit drops what is queued.
Deliver(d, type, value) ==
    js' = [s \in Slot |->
        IF js[s].path # d \/ ~js[s].alive THEN js[s]
        ELSE IF Len(js[s].events) + 2 > QueueSize
             THEN [js[s] EXCEPT !.events = <<Dropped, Report>>, !.unheard = TRUE]
             ELSE [js[s] EXCEPT !.events =
                      @ \o <<[type |-> type, value |-> value], Report>>]]

Move(d) ==
    /\ node[d] = "ready" /\ moves < MaxMoves
    /\ moves' = moves + 1
    /\ \/ /\ axis' = [axis EXCEPT ![d] = 1 - @]
          /\ Deliver(d, "abs", 1 - axis[d])
          /\ UNCHANGED button
       \/ /\ button' = [button EXCEPT ![d] = 1 - @]
          /\ Deliver(d, "key", 1 - button[d])
          /\ UNCHANGED axis
    /\ UNCHANGED <<node, plugs, libraryVars, dropper, table, stack>>

-----------------------------------------------------------------------------
(* Opening and closing a joystick.                                         *)

\* The slot _grwlAllocJoystick takes.
IsFreeSlot(s) ==
    /\ ~js[s].allocated
    /\ \A t \in Slot : t < s => js[t].allocated

\* Fault: the nodes that are open already are not looked for.
CanOpenTwice(d) ==
    /\ node[d] = "ready"
    /\ \E s \in Slot : ~js[s].allocated

CanOpen(d) ==
    /\ \A s \in Slot : js[s].connected => js[s].path # d
    /\ node[d] = "ready"
    /\ \E s \in Slot : ~js[s].allocated

\* The slot starts with its buttons released and its axes polled.
Opened(d, isConnected) ==
    [allocated |-> TRUE, connected |-> isConnected, path |-> d, alive |-> TRUE,
     events |-> <<>>, axis |-> axis[d], button |-> 0, mapping |-> table,
     unheard |-> button[d] # 0, overtaken |-> FALSE]

\* openJoystickDevice up to its last call: polling the axes may call back.
BeginOpen(d, caller) ==
    \E s \in Slot :
        /\ IsFreeSlot(s)
        /\ js' = [js EXCEPT ![s] = Opened(d, FALSE)]
        /\ Tell(axis[d] # 0, Append(caller, CallOf("connect", s)))

\* _grwlInputJoystick with GRWL_CONNECTED.
Connect ==
    /\ Running("connect")
    /\ js' = [js EXCEPT ![Top.slot].connected = TRUE]
    /\ Tell(TRUE, Below)
    /\ UNCHANGED <<deviceVars, libraryVars, dropper, table>>

\* closeJoystick: disconnect, tell the application, free the slot.
BeginClose(s, caller) ==
    /\ js' = [js EXCEPT ![s].connected = FALSE]
    /\ Tell(TRUE, Append(caller, CallOf("close", s)))

\* Fault: the slot is flagged as unused and not zeroed.
FreeJoystickFlagOnly ==
    /\ Running("close")
    /\ js' = [js EXCEPT ![Top.slot].allocated = FALSE]
    /\ dropper' = IF dropper = Top.slot THEN Vanished ELSE dropper
    /\ stack' = Below
    /\ UNCHANGED <<deviceVars, libraryVars, table>>

FreeJoystick ==
    /\ Running("close")
    /\ js' = [js EXCEPT ![Top.slot] = Freed]
    /\ dropper' = IF dropper = Top.slot THEN Vanished ELSE dropper
    /\ stack' = Below
    /\ UNCHANGED <<deviceVars, libraryVars, table>>

-----------------------------------------------------------------------------
(* Initialization and termination.                                         *)

\* The first joystick function; it goes on without inotify if that fails.
BeginInit ==
    /\ stack = <<>> /\ ~initialized
    /\ watching' \in BOOLEAN
    /\ stack' = <<CallOf("init", 0)>>
    /\ UNCHANGED <<deviceVars, initialized, inotify, js, dropper, table>>

\* The nodes come in the order of the directory.
InitOpen(d) ==
    /\ Running("init") /\ d \notin Top.tried
    /\ stack' = <<[Top EXCEPT !.tried = @ \union {d}]>>
    /\ \/ /\ ~CanOpen(d)
          /\ UNCHANGED js
       \/ /\ CanOpen(d)
          /\ \E s \in Slot :
                IsFreeSlot(s) /\ js' = [js EXCEPT ![s] = Opened(d, TRUE)]
    /\ UNCHANGED <<deviceVars, libraryVars, dropper, table>>

\* How many of the slots have a path before that of t.
Earlier(t) == Cardinality({u \in Slot : js[u].connected /\ js[u].path < js[t].path})

InitDone ==
    /\ Running("init") /\ Top.tried = Device
    /\ initialized' = TRUE
    /\ js' = [s \in Slot |->
                 IF \E t \in Slot : js[t].connected /\ Earlier(t) = s
                 THEN js[CHOOSE t \in Slot : js[t].connected /\ Earlier(t) = s]
                 ELSE js[s]]
    /\ stack' = <<>>
    /\ UNCHANGED <<deviceVars, watching, inotify, dropper, table>>

\* No callbacks are left when grwlTerminate closes the joysticks.
Terminate ==
    /\ stack = <<>> /\ initialized
    /\ initialized' = FALSE
    /\ watching' = FALSE
    /\ inotify' = <<>>
    /\ js' = [s \in Slot |-> Freed]
    /\ dropper' = NoSlot
    /\ UNCHANGED <<deviceVars, table, stack>>

-----------------------------------------------------------------------------
(* Connections: _grwlDetectJoystickConnectionLinux reads the notices there *)
(* are and handles them one by one.                                        *)

Detect == [CallOf("detect", 0) EXCEPT !.left = Len(inotify)]

PollEvents ==
    /\ stack = <<>> /\ initialized /\ watching
    /\ stack' = <<Detect>>
    /\ UNCHANGED <<deviceVars, libraryVars, js, dropper, table>>

\* grwlWaitEvents, which polls the joysticks after the events.
WaitEvents ==
    /\ stack = <<>> /\ initialized
    /\ stack' = IF watching THEN <<CallOf("pollAll", 0), Detect>>
                ELSE <<CallOf("pollAll", 0)>>
    /\ UNCHANGED <<deviceVars, libraryVars, js, dropper, table>>

DetectNext ==
    /\ Running("detect") /\ Top.left > 0
    /\ inotify' = Tail(inotify)
    /\ LET d == Head(inotify).path
           caller == Append(Below, [Top EXCEPT !.left = @ - 1])
           slots == {s \in Slot : js[s].path = d}
       IN \/ /\ Head(inotify).what \in {"create", "attrib"} /\ CanOpen(d)
             /\ BeginOpen(d, caller)
          \/ /\ Head(inotify).what \in {"create", "attrib"} /\ ~CanOpen(d)
             /\ stack' = caller /\ UNCHANGED js
          \/ /\ Head(inotify).what = "delete" /\ slots = {}
             /\ stack' = caller /\ UNCHANGED js
          \/ /\ Head(inotify).what = "delete"
             /\ \E s \in slots : (\A t \in slots : s <= t) /\ BeginClose(s, caller)
    /\ UNCHANGED <<deviceVars, initialized, watching, dropper, table>>

DetectDone ==
    /\ Running("detect") /\ Top.left = 0
    /\ stack' = Below
    /\ UNCHANGED <<deviceVars, libraryVars, js, dropper, table>>

-----------------------------------------------------------------------------
(* Polling: _grwlPollJoystickLinux reads one event after the other.        *)

PollAll ==
    /\ Running("pollAll")
    /\ LET s == Top.left
           caller == Append(Below, [Top EXCEPT !.left = @ + 1])
       IN stack' = IF s > LastSlot THEN Below
                   ELSE IF js[s].connected THEN Append(caller, CallOf("poll", s))
                   ELSE caller
    /\ UNCHANGED <<deviceVars, libraryVars, js, dropper, table>>

Polling(s) == Running("poll") /\ Top.slot = s
Reads(s, type) ==
    /\ Polling(s) /\ js[s].alive
    /\ js[s].events # <<>> /\ Head(js[s].events).type = type

\* A callback closed the joystick in the meantime: its descriptor is 0 now.
PollFreed(s) ==
    /\ Polling(s) /\ ~js[s].allocated
    /\ stack' = Below
    /\ UNCHANGED <<deviceVars, libraryVars, js, dropper, table>>

\* Nothing left to read (EAGAIN).
PollDone(s) ==
    /\ Polling(s) /\ js[s].alive /\ js[s].events = <<>>
    /\ stack' = Below
    /\ UNCHANGED <<deviceVars, libraryVars, js, dropper, table>>

\* ENODEV.
PollVanished(s) ==
    /\ Polling(s) /\ js[s].allocated /\ ~js[s].alive
    /\ BeginClose(s, Below)
    /\ UNCHANGED <<deviceVars, libraryVars, dropper, table>>

ReadDropped(s) ==
    /\ Reads(s, "dropped")
    /\ dropper' = s
    /\ js' = [js EXCEPT ![s].events = Tail(@)]
    /\ UNCHANGED <<deviceVars, libraryVars, table, stack>>

\* Fault: the axes are not polled.
ReadReportOnly(s) ==
    /\ Reads(s, "report")
    /\ dropper' = NoSlot
    /\ js' = [js EXCEPT ![s].events = Tail(@)]
    /\ UNCHANGED <<deviceVars, libraryVars, table, stack>>

\* Ends the resynchronization and polls the axes.
ReadReport(s) ==
    /\ Reads(s, "report")
    /\ dropper' = NoSlot
    /\ js' = [js EXCEPT ![s].events = Tail(@), ![s].axis = axis[js[s].path]]
    /\ Tell(js[s].axis # axis[js[s].path], stack)
    /\ UNCHANGED <<deviceVars, libraryVars, table>>

DropperGone == dropper = Vanished \/ (dropper \in Slot /\ ~js[dropper].connected)

\* While _grwl.linjs.dropped is set the events of every joystick are skipped.
\* After the one that set it vanished, the next report of any of them ends that.
SkipEvent(s) ==
    /\ Reads(s, "key") \/ Reads(s, "abs")
    /\ dropper # NoSlot
    /\ js' = [js EXCEPT ![s].events = Tail(@),
                        ![s].unheard = @ \/ DropperGone \/ dropper = s]
    /\ UNCHANGED <<deviceVars, libraryVars, dropper, table, stack>>

ReadKey(s) ==
    /\ Reads(s, "key") /\ dropper = NoSlot
    /\ LET v == Head(js[s].events).value
       IN /\ js' = [js EXCEPT ![s].events = Tail(@), ![s].button = v,
                              ![s].unheard = FALSE]
          /\ Tell(js[s].button # v, stack)
    /\ UNCHANGED <<deviceVars, libraryVars, dropper, table>>

ReadAbs(s) ==
    /\ Reads(s, "abs") /\ dropper = NoSlot
    /\ LET v == Head(js[s].events).value
       IN /\ js' = [js EXCEPT ![s].events = Tail(@), ![s].axis = v]
          /\ Tell(js[s].axis # v, stack)
    /\ UNCHANGED <<deviceVars, libraryVars, dropper, table>>

-----------------------------------------------------------------------------
(* The application, outside or inside a callback.                          *)

Nested == Cardinality({i \in 1..Len(stack) : stack[i].fn = "app"})

\* The functions that poll: grwlJoystickPresent, grwlGetJoystickAxes, ...
PollJoystick(s) ==
    /\ AppRuns /\ initialized /\ js[s].connected /\ Nested <= MaxNested
    /\ stack' = Append(stack, CallOf("poll", s))
    /\ UNCHANGED <<deviceVars, libraryVars, js, dropper, table>>

\* Fault: the joysticks keep the mapping they have.
UpdateTableOnly ==
    /\ AppRuns /\ table < MaxUpdates
    /\ table' = table + 1
    /\ UNCHANGED <<deviceVars, libraryVars, js, dropper, stack>>

\* A mapping is added: the table moves, connected joysticks look theirs up.
UpdateMappings ==
    /\ AppRuns /\ table < MaxUpdates
    /\ table' = table + 1
    /\ js' = [s \in Slot |->
                 IF js[s].connected THEN [js[s] EXCEPT !.mapping = table + 1]
                 ELSE IF js[s].allocated THEN [js[s] EXCEPT !.overtaken = TRUE]
                 ELSE js[s]]
    /\ UNCHANGED <<deviceVars, libraryVars, dropper, stack>>

CallbackReturns ==
    /\ Running("app")
    /\ stack' = Below
    /\ UNCHANGED <<deviceVars, libraryVars, js, dropper, table>>

-----------------------------------------------------------------------------
Kernel == \E d \in Device : Plug(d) \/ Permit(d) \/ Unplug(d) \/ Move(d)

Setup == BeginInit \/ (\E d \in Device : InitOpen(d)) \/ InitDone \/ Terminate

Connections == Connect \/ FreeJoystick \/ PollEvents \/ WaitEvents
                 \/ DetectNext \/ DetectDone

Reading ==
    \E s \in Slot :
        \/ PollFreed(s) \/ PollDone(s) \/ PollVanished(s)
        \/ ReadDropped(s) \/ ReadReport(s)
        \/ SkipEvent(s) \/ ReadKey(s) \/ ReadAbs(s)

Application ==
    \/ \E s \in Slot : PollJoystick(s)
    \/ UpdateMappings \/ CallbackReturns

Next == Kernel \/ Setup \/ Connections \/ PollAll \/ Reading \/ Application

Spec == Init /\ [][Next]_vars

-----------------------------------------------------------------------------
(* Properties.                                                             *)

SlotsOf(d) == {s \in Slot : js[s].connected /\ js[s].path = d}

\* Once all notices of inotify are handled, every device that can be opened is
\* in exactly one slot, with a live file, and no other device is in any: by
\* whatever path it was closed (IN_DELETE, ENODEV), and whatever came in between.
SlotsMatchDevices ==
    stack = <<>> /\ initialized /\ watching /\ inotify = <<>> =>
        \A d \in Device :
            /\ Cardinality(SlotsOf(d)) = (IF node[d] = "ready" THEN 1 ELSE 0)
            /\ \A s \in SlotsOf(d) : js[s].alive

\* A joystick whose events are all read reports the axis and the button as the
\* device has them: after lost events, after another joystick's lost events, and
\* after polls nested in callbacks.  A button may differ when its change was
\* never heard of: it was held at the connection, its own queue overflowed, or
\* a joystick vanished between its SYN_DROPPED and its SYN_REPORT.
InputInSync ==
    \A s \in Slot :
        js[s].connected /\ js[s].alive /\ js[s].events = <<>> =>
            /\ js[s].axis = axis[js[s].path]
            /\ js[s].unheard \/ js[s].button = button[js[s].path]

\* A connected joystick points into the mapping table where it is now, unless
\* a callback moved the table while the joystick was being opened.
MappingLives ==
    \A s \in Slot :
        js[s].connected => js[s].mapping = table \/ js[s].overtaken

=============================================================================
