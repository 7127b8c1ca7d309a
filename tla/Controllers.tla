---------------------------- MODULE Controllers ----------------------------
(***************************************************************************)
(* Joysticks on Win32 (XInput and DirectInput) and on macOS (IOHIDManager):*)
(* how devices get into the slots and out of them, and how their state is  *)
(* read, with the callbacks of the application in the middle of it.        *)
(*                                                                         *)
(* Code: src/src/win32/win32_joystick.cpp, src/src/mac/cocoa_joystick.m,   *)
(* src/src/win32/win32_init.cpp, src/src/input.cpp.                        *)
(*                                                                         *)
(* Everything runs on the main thread.  Win32 says only that some device   *)
(* came or went; macOS says which, from the run loop.  A device has one    *)
(* axis, one button and one hat.                                           *)
(***************************************************************************)
EXTENDS Naturals, Sequences, FiniteSets

CONSTANTS
    Driver,      \* subset of {"win32", "cocoa"}
    Pad, Stick,  \* devices with and without XInput
    NoDevice,
    Position,    \* what a device can be at: records axis, button, hat
    NumSlots,    \* GRWL_JOYSTICK_LAST + 1
    NumIndices,  \* XUSER_MAX_COUNT
    MaxPlugs, MaxMoves, MaxNested, MaxFailures   \* bounds of the model

Direction == {"up", "down"}      \* both are what a dance pad can say
Rest == [axis |-> 1, button |-> 0, hat |-> {}]

ControllersAssumption ==
    /\ Driver \subseteq {"win32", "cocoa"}
    /\ Pad \intersect Stick = {} /\ NoDevice \notin Pad \union Stick
    /\ Rest \in Position
    /\ Position \subseteq [axis : 0..2, button : {0, 1}, hat : SUBSET Direction]
    /\ NumSlots \in Nat \ {0} /\ NumIndices \in Nat \ {0}
    /\ {MaxPlugs, MaxMoves, MaxFailures} \subseteq Nat

Device == Pad \union Stick
Slot == 0..NumSlots - 1
Index == 0..NumIndices - 1

VARIABLES
    driver, xinput,  \* the platform; _grwl.win32.xinput.instance
    plugged,         \* devices that are there
    index,           \* what XInput numbers a pad that is there
    at,              \* [Device -> Position]: what the devices are at
    notices,         \* device notifications not yet handled
    initialized,     \* _grwl.joysticksInitialized
    js,              \* _grwl.joysticks
    stack,           \* calls in progress, the last one on top
    crash,           \* what the program has died of
    skipped,         \* history: plugged devices that could not be listed
    plugs, moves, failures   \* bounds

system == <<driver, xinput, plugged, index, at, plugs, moves>>
vars == <<system, notices, initialized, js, stack, crash, skipped, failures>>

\* What a slot holds.  axis is <<numerator, denominator>> of a value that the
\* code then takes from 0..1 to -1..1; low and high are what the axis has been
\* calibrated to.  stale: history, the device moved since the last poll that no
\* callback was waiting for began.
Free == [allocated |-> FALSE, connected |-> FALSE, xinput |-> FALSE,
         index |-> 0, device |-> NoDevice, lost |-> FALSE,
         axis |-> <<1, 2>>, button |-> 0, hat |-> {}, low |-> 0, high |-> 2,
         stale |-> TRUE]

\* next, last: an index of XInput, a slot or an element (see Element); tried:
\* devices already looked at; seen: what the driver said the device is at.
Call == [fn : {"init", "detect", "presence", "pollAll", "poll", "close", "app"},
         slot : Slot, xinput : BOOLEAN, next : Nat, last : Nat,
         tried : SUBSET Device, seen : Position]
CallOf(fn, s) == [fn |-> fn, slot |-> s, xinput |-> FALSE, next |-> 0, last |-> 0,
                  tried |-> {}, seen |-> Rest]

\* The elements of a joystick, and the values of its axis that are the same.
Element == [axis |-> 0, button |-> 1, hat |-> 2]
Same(v, w) == v[1] * w[2] = w[1] * v[2]

TypeOK ==
    /\ driver \in Driver /\ xinput \in BOOLEAN
    /\ plugged \subseteq Device
    /\ index \in [Pad -> Index]
    /\ at \in [Device -> Position]
    /\ notices \in Seq([what : {"arrival", "removal"}, device : Device])
    /\ initialized \in BOOLEAN
    /\ \A s \in Slot :
          /\ DOMAIN js[s] = DOMAIN Free
          /\ js[s].connected => js[s].allocated
          /\ ~js[s].allocated => js[s] = Free
          /\ js[s].device \in Device \union {NoDevice}
    /\ stack \in Seq(Call)
    /\ crash \in {"none", "no slot", "freed arrays", "opposite directions"}
    /\ skipped \subseteq plugged
    /\ plugs \in 0..MaxPlugs /\ moves \in 0..MaxMoves /\ failures \in 0..MaxFailures

Init ==
    /\ driver \in Driver
    /\ xinput \in BOOLEAN /\ (driver = "cocoa" => ~xinput)
    /\ plugged = {} /\ index = [p \in Pad |-> 0]
    /\ at = [d \in Device |-> Rest]
    /\ notices = <<>> /\ initialized = FALSE
    /\ js = [s \in Slot |-> Free]
    /\ stack = <<>> /\ crash = "none" /\ skipped = {}
    /\ plugs = 0 /\ moves = 0 /\ failures = 0

-----------------------------------------------------------------------------
(* The call stack.                                                         *)

Alive == crash = "none"
Top == stack[Len(stack)]
Running(fn) == Alive /\ stack # <<>> /\ Top.fn = fn
Below == SubSeq(stack, 1, Len(stack) - 1)
Idle == Alive /\ stack = <<>>
AppRuns == Idle \/ Running("app")
Nested == Cardinality({i \in 1..Len(stack) : stack[i].fn = "app"})

\* No joystick callback can be set before the joysticks are initialized.
Quiet == stack # <<>> /\ stack[1].fn = "init"

\* Return to `frames', by way of a callback if there is something to tell.
Tell(something, frames) ==
    stack' = IF something /\ ~Quiet THEN Append(frames, CallOf("app", 0)) ELSE frames

-----------------------------------------------------------------------------
(* The devices.                                                            *)

\* Only a run loop that the manager is scheduled with has notices of macOS.
Notify(what, d) ==
    notices' = IF driver = "cocoa" /\ ~initialized /\ stack = <<>> THEN notices
               ELSE Append(notices, [what |-> what, device |-> d])

Plug(d) ==
    /\ Alive /\ d \notin plugged /\ plugs < MaxPlugs
    /\ plugs' = plugs + 1
    /\ plugged' = plugged \union {d}
    /\ \/ d \in Stick /\ UNCHANGED index
       \/ /\ d \in Pad
          /\ \E i \in Index : /\ \A p \in plugged \intersect Pad : index[p] # i
                              /\ index' = [index EXCEPT ![d] = i]
    /\ at' = [at EXCEPT ![d] = Rest]
    /\ js' = [s \in Slot |-> IF d \in Pad /\ js[s].xinput /\ js[s].index = index'[d]
                             THEN [js[s] EXCEPT !.stale = TRUE] ELSE js[s]]
    /\ Notify("arrival", d)
    /\ UNCHANGED <<driver, xinput, moves, initialized, stack, crash, skipped, failures>>

Unplug(d) ==
    /\ Alive /\ d \in plugged
    /\ plugged' = plugged \ {d}
    /\ skipped' = skipped \ {d}
    /\ js' = [s \in Slot |-> IF js[s].device = d
                             THEN [js[s] EXCEPT !.lost = TRUE, !.stale = TRUE] ELSE js[s]]
    /\ Notify("removal", d)
    /\ UNCHANGED <<driver, xinput, index, at, plugs, moves, initialized, stack, crash,
                   failures>>

\* The slot that a pad is read through is that with its index.
Reads(s, d) ==
    /\ js[s].connected
    /\ IF js[s].xinput THEN d \in plugged \intersect Pad /\ js[s].index = index[d]
       ELSE js[s].device = d

Move(d) ==
    /\ Alive /\ d \in plugged /\ moves < MaxMoves
    /\ moves' = moves + 1
    /\ \E p \in Position \ {at[d]} : /\ p.hat = Direction => xinput /\ d \in Pad
                                     /\ at' = [at EXCEPT ![d] = p]
    /\ js' = [s \in Slot |-> IF Reads(s, d) THEN [js[s] EXCEPT !.stale = TRUE] ELSE js[s]]
    /\ UNCHANGED <<driver, xinput, plugged, index, plugs, notices, initialized, stack,
                   crash, skipped, failures>>

-----------------------------------------------------------------------------
(* Slots.                                                                  *)

HasSlot == \E s \in Slot : ~js[s].allocated
FirstFree == CHOOSE s \in Slot : ~js[s].allocated /\ \A t \in Slot : t < s => js[t].allocated

\* _grwlAllocJoystick, what the driver stores, and _grwlInputJoystick.
List(joystick, frames) ==
    /\ js' = [js EXCEPT ![FirstFree] = joystick]
    /\ Tell(TRUE, frames)

\* closeJoystick up to its callback, and after it.
BeginClose(s, frames) ==
    /\ js' = [js EXCEPT ![s].connected = FALSE]
    /\ Tell(TRUE, Append(frames, CallOf("close", s)))

EndClose ==
    /\ Running("close")
    /\ js' = [js EXCEPT ![Top.slot] = Free]
    /\ stack' = Below
    /\ UNCHANGED <<system, notices, initialized, crash, skipped, failures>>

-----------------------------------------------------------------------------
(* Connections on Win32: everything is looked at again, XInput's indices   *)
(* and then the devices of DirectInput.                                    *)

Detecting == Running("detect") \/ (Running("init") /\ driver = "win32")
Advance == Append(Below, [Top EXCEPT !.next = @ + 1])
Tried(d) == Append(Below, [Top EXCEPT !.tried = @ \union {d}])
OnlyStack(frames) ==
    stack' = frames /\ UNCHANGED <<system, notices, initialized, js, crash, skipped, failures>>

PadAt(i) == {p \in plugged \intersect Pad : index[p] = i}
\* Fault: an index that has a slot is given another one.
IsListedNever(i) == FALSE

IsListed(i) == \E s \in Slot : js[s].connected /\ js[s].xinput /\ js[s].index = i

DetectPad ==
    /\ Detecting /\ Top.next < NumIndices
    /\ LET i == Top.next IN
       IF ~xinput \/ IsListed(i) \/ PadAt(i) = {} THEN OnlyStack(Advance)
       ELSE IF ~HasSlot
       THEN /\ skipped' = skipped \union PadAt(i)
            /\ stack' = Advance
            /\ UNCHANGED <<system, notices, initialized, js, crash, failures>>
       ELSE /\ List([Free EXCEPT !.allocated = TRUE, !.connected = TRUE, !.xinput = TRUE,
                                 !.index = i], Advance)
            /\ skipped' = skipped \ PadAt(i)
            /\ UNCHANGED <<system, notices, initialized, crash, failures>>

SlotsWith(d) == {s \in Slot : js[s].connected /\ ~js[s].xinput /\ js[s].device = d}

\* The enumeration ends early; those that have no slot wait for the next one.
StopDetecting ==
    /\ skipped' = skipped \union {e \in plugged \intersect Stick : SlotsWith(e) = {}}
    /\ stack' = Append(Below, [Top EXCEPT !.tried = Device])

\* deviceCallback, for the devices in any order.  A pad is left to XInput.
DetectStick(d) ==
    /\ Detecting /\ Top.next = NumIndices /\ d \in plugged \ Top.tried
    /\ \/ /\ SlotsWith(d) # {} \/ d \in Pad
          /\ OnlyStack(Tried(d))
       \/ /\ SlotsWith(d) = {} /\ d \in Stick /\ failures < MaxFailures
          /\ failures' = failures + 1
          /\ \/ skipped' = skipped \union {d} /\ stack' = Tried(d)
             \/ StopDetecting
          /\ UNCHANGED <<system, notices, initialized, js, crash>>
       \/ /\ SlotsWith(d) = {} /\ d \in Stick /\ HasSlot
          /\ List([Free EXCEPT !.allocated = TRUE, !.connected = TRUE, !.device = d],
                  Tried(d))
          /\ skipped' = skipped \ {d}
          /\ UNCHANGED <<system, notices, initialized, crash, failures>>
       \/ /\ SlotsWith(d) = {} /\ d \in Stick /\ ~HasSlot
          /\ StopDetecting
          /\ UNCHANGED <<system, notices, initialized, js, crash, failures>>

DetectDone ==
    /\ Detecting /\ Top.next = NumIndices /\ plugged \subseteq Top.tried
    /\ initialized' = TRUE
    /\ stack' = Below
    /\ UNCHANGED <<system, notices, js, crash, skipped, failures>>

-----------------------------------------------------------------------------
(* Connections on macOS: the run loop calls back for each device.          *)

Noticed == {notices[i] : i \in DOMAIN notices}

\* matchCallback; the device may be gone by now, and may give its axis a range
\* that is too narrow.
Match(d, frames) ==
    IF \E s \in Slot : js[s].device = d
    THEN stack' = frames /\ UNCHANGED <<js, crash>>
    ELSE IF ~HasSlot
    THEN crash' = "no slot" /\ UNCHANGED <<js, stack>>
    ELSE /\ \E range \in {<<1, 1>>, <<0, 2>>} :
               List([Free EXCEPT !.allocated = TRUE, !.connected = TRUE, !.device = d,
                                 !.lost = [what |-> "removal", device |-> d] \in Noticed,
                                 !.low = range[1], !.high = range[2]], frames)
         /\ UNCHANGED crash

\* removeCallback.
Remove(d, frames) ==
    /\ IF SlotsWith(d) = {} THEN stack' = frames /\ UNCHANGED js
       ELSE \E s \in SlotsWith(d) : BeginClose(s, frames)
    /\ UNCHANGED crash

HandleNotice ==
    /\ notices # <<>>
    /\ Idle \/ (Running("init") /\ driver = "cocoa")
    /\ notices' = Tail(notices)
    /\ LET n == Head(notices) IN
       CASE driver = "cocoa" /\ n.what = "arrival" -> Match(n.device, stack)
         [] driver = "cocoa" /\ n.what = "removal" -> Remove(n.device, stack)
         [] driver = "win32" ->
              /\ stack' = IF ~initialized THEN <<>>
                          ELSE <<CallOf(IF n.what = "arrival" THEN "detect" ELSE "presence", 0)>>
              /\ UNCHANGED <<js, crash>>
    /\ UNCHANGED <<system, initialized, skipped, failures>>

-----------------------------------------------------------------------------
(* Initialization and termination.                                         *)

\* On macOS the devices that are there are matched, in any order.
BeginInit ==
    /\ Idle /\ ~initialized
    /\ stack' = <<CallOf("init", 0)>>
    /\ IF driver = "win32" THEN UNCHANGED notices
       ELSE \E order \in [1..Cardinality(plugged) -> plugged] :
              /\ \A d \in plugged : \E i \in DOMAIN order : order[i] = d
              /\ notices' = [i \in DOMAIN order |-> [what |-> "arrival", device |-> order[i]]]
    /\ UNCHANGED <<system, initialized, js, crash, skipped, failures>>

InitDone ==
    /\ Running("init") /\ driver = "cocoa" /\ notices = <<>>
    /\ initialized' = TRUE
    /\ stack' = Below
    /\ UNCHANGED <<system, notices, js, crash, skipped, failures>>

\* grwlTerminate has cleared the callbacks before the joysticks are closed.
Terminate ==
    /\ Idle /\ initialized
    /\ initialized' = FALSE
    /\ notices' = <<>>
    /\ js' = [s \in Slot |-> Free]
    /\ skipped' = {}
    /\ UNCHANGED <<system, stack, crash, failures>>

-----------------------------------------------------------------------------
(* Polling.                                                                *)

\* A poll that found its device reads the elements from first up to last, which
\* for Win32 are always all.
Elements(s, first, last, seen) ==
    [CallOf("poll", s) EXCEPT !.xinput = js[s].xinput, !.seen = seen,
        !.next = IF driver = "win32" THEN Element.axis ELSE first,
        !.last = IF driver = "win32" THEN Element.hat ELSE last]

BeginElements(s, first, last, seen, frames) ==
    /\ stack' = Append(frames, Elements(s, first, last, seen))
    /\ js' = [js EXCEPT ![s].lost = @ /\ driver = "cocoa",
                        ![s].stale =
            IF Nested = 0 /\ first = Element.axis /\ last = Element.hat
            THEN js[s].lost /\ driver = "cocoa" ELSE @]

\* For the presence, only Win32 asks the driver.
Found(s, what, seen, frames) ==
    CASE what = "presence" -> /\ js' = [js EXCEPT ![s].lost = @ /\ driver = "cocoa"]
                              /\ stack' = frames
      [] what = "axes" -> BeginElements(s, Element.axis, Element.axis, seen, frames)
      [] what = "buttons" -> BeginElements(s, Element.button, Element.hat, seen, frames)
      [] what = "all" -> BeginElements(s, Element.axis, Element.hat, seen, frames)

\* platform.pollJoystick.  DirectInput may acquire a device that came back.
Poll(s, what, frames) ==
    IF js[s].xinput
    THEN IF PadAt(js[s].index) = {} THEN BeginClose(s, frames)
         ELSE \E p \in PadAt(js[s].index) : Found(s, what, at[p], frames)
    ELSE LET d == js[s].device IN
         \/ /\ driver = "cocoa" \/ ~js[s].lost \/ d \in plugged
            /\ Found(s, what, at[d], frames)
         \/ /\ driver = "win32" /\ js[s].lost
            /\ BeginClose(s, frames)

\* _grwlDetectJoystickDisconnectionWin32 and _grwlPollAllJoysticks.
Loop(fn, what) ==
    /\ Running(fn)
    /\ IF Top.next = NumSlots THEN stack' = Below /\ UNCHANGED js
       ELSE IF js[Top.next].connected THEN Poll(Top.next, what, Advance)
       ELSE stack' = Advance /\ UNCHANGED js
    /\ UNCHANGED <<system, notices, initialized, crash, skipped, failures>>

\* The end of grwlWaitEvents.
PollAllJoysticks ==
    /\ Idle /\ initialized
    /\ OnlyStack(<<CallOf("pollAll", 0)>>)

\* grwlJoystickPresent, grwlGetJoystickAxes, grwlGetJoystickButtons, ...
PollJoystick(s, what) ==
    /\ AppRuns /\ initialized /\ js[s].connected /\ Nested <= MaxNested
    /\ Poll(s, what, stack)
    /\ UNCHANGED <<system, notices, initialized, crash, skipped, failures>>

\* What to do when the arrays of the joystick are gone: DirectInput's loop ends,
\* since there are no objects any more, and XInput's code does not look.
AfterFree ==
    IF Top.xinput THEN crash' = "freed arrays" /\ UNCHANGED stack
    ELSE stack' = Below /\ UNCHANGED crash

\* The element that is read next, and how; a device of macOS that is gone reads as 0.
Reading(e) == Running("poll") /\ Top.next = Element[e] /\ Top.next <= Top.last
Raw == IF driver = "win32" THEN Top.seen
       ELSE IF js[Top.slot].lost THEN [axis |-> 0, button |-> 0, hat |-> {"up"}]
       ELSE at[js[Top.slot].device]

Calibrated(j, raw) == <<IF raw < j.low THEN raw ELSE j.low,
                        IF raw > j.high THEN raw ELSE j.high>>

AxisValue(range, raw) ==
    IF range[1] = range[2] THEN <<1, 2>> ELSE <<raw - range[1], range[2] - range[1]>>

ReadAxis ==
    /\ Reading("axis")
    /\ LET s == Top.slot
           range == Calibrated(js[s], Raw.axis)
           value == AxisValue(range, Raw.axis)
       IN IF ~js[s].allocated THEN AfterFree /\ UNCHANGED js ELSE
          /\ js' = [js EXCEPT ![s].low = range[1], ![s].high = range[2], ![s].axis = value]
          /\ Tell(~Same(value, js[s].axis), Advance)
          /\ UNCHANGED crash
    /\ UNCHANGED <<system, notices, initialized, skipped, failures>>

ReadButton ==
    /\ Reading("button")
    /\ LET s == Top.slot IN
       IF ~js[s].allocated THEN AfterFree /\ UNCHANGED js ELSE
       /\ js' = [js EXCEPT ![s].button = Raw.button]
       /\ Tell(js[s].button # Raw.button, Advance)
       /\ UNCHANGED crash
    /\ UNCHANGED <<system, notices, initialized, skipped, failures>>

\* _grwlInputJoystickHat asserts, in builds that have assertions, that opposite
\* directions do not come together.
ReadHat ==
    /\ Reading("hat")
    /\ LET s == Top.slot IN
       IF ~js[s].allocated THEN AfterFree /\ UNCHANGED js ELSE
       \/ /\ js' = [js EXCEPT ![s].hat = Raw.hat]
          /\ Tell(js[s].hat # Raw.hat, Advance)
          /\ UNCHANGED crash
       \/ /\ Raw.hat = Direction
          /\ crash' = "opposite directions" /\ UNCHANGED <<js, stack>>
    /\ UNCHANGED <<system, notices, initialized, skipped, failures>>

PollDone ==
    /\ Running("poll") /\ Top.next > Top.last
    /\ OnlyStack(Below)

CallbackReturns ==
    /\ Running("app")
    /\ OnlyStack(Below)

-----------------------------------------------------------------------------
Hardware == \E d \in Device : Plug(d) \/ Unplug(d) \/ Move(d)

Setup == BeginInit \/ InitDone \/ Terminate

Connections == \/ HandleNotice \/ DetectPad \/ DetectDone \/ EndClose
               \/ \E d \in Device : DetectStick(d)

Polling ==
    \/ Loop("presence", "presence") \/ Loop("pollAll", "all")
    \/ ReadAxis \/ ReadButton \/ ReadHat \/ PollDone

Application ==
    \/ PollAllJoysticks \/ CallbackReturns
    \/ \E s \in Slot, what \in {"presence", "axes", "buttons", "all"} : PollJoystick(s, what)

Next == Hardware \/ Setup \/ Connections \/ Polling \/ Application

Spec == Init /\ [][Next]_vars

-----------------------------------------------------------------------------
(* Properties.                                                             *)

\* Once every notice is handled each device that is there is in one slot and no
\* other is in any, whatever closed it, and whoever polled in between; but for
\* devices that found no slot or that the driver refused, which wait for the
\* next arrival, and pads without the library of XInput.
SlotsMatchDevices ==
    Idle /\ initialized /\ notices = <<>> =>
      /\ \A d \in Device :
            Cardinality({s \in Slot : Reads(s, d)}) =
              IF d \in plugged \ skipped /\ (driver = "win32" /\ d \in Pad => xinput)
              THEN 1 ELSE 0
      /\ \A s \in Slot : js[s].connected => \E d \in plugged : Reads(s, d)

\* When no poll is in progress, a device that has not moved since the last one
\* began is reported as it is, whatever the callbacks of that poll did; and the
\* values of an axis never leave their range, whatever range the device gives.
ReportsAreCurrent ==
    Alive =>
      \A s \in Slot :
        /\ js[s].axis[1] \in 0..js[s].axis[2]
        /\ \A d \in plugged :
              Idle /\ Reads(s, d) /\ ~js[s].stale =>
                /\ Same(js[s].axis, AxisValue(<<js[s].low, js[s].high>>, at[d].axis))
                /\ js[s].button = at[d].button
                /\ js[s].hat = at[d].hat

\* The program dies only of a pad of XInput that a callback found gone, or whose
\* directions are opposite, and of a device of macOS that finds no slot.
CrashesAreKnown == ~Alive => xinput \/ (driver = "cocoa" /\ ~HasSlot)
=============================================================================
