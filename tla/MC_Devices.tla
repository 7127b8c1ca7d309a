------------------------------ MODULE MC_Devices ------------------------------
(* What GRWL keeps of input devices: keys and buttons (KeyState), joysticks  *)
(* on Win32 and macOS (Controllers), and the keyboard and the pointer of a   *)
(* seat on Wayland (WaylandSeat).  They share no state: a behaviour is a     *)
(* behaviour of one of them; subject says which.                             *)
EXTENDS KeyState

CONSTANTS
    Subject,                                                     \* what to check
    Driver, Pad, Stick, NoDevice, NumSlots, NumIndices,
    MaxPlugs, MaxMoves, MaxNested, MaxFailures,                  \* Controllers
    Window, NoWindow, CursorWindow, SeatKey, NoKey, Cursor, NoCursor, Devices,
    MaxKeyEvents, MaxPointerEvents                               \* WaylandSeat

VARIABLES
    subject,
    driver, xinput, plugged, index, at, notices, initialized, js, stack, crash, skipped,
    plugs, moves, failures,
    keyboard, pointer, pressed, win, loop, wire, queue, seat, told, over, strayed, failed

\* A device at rest, one past the range it first gives, and one that says that it
\* points in opposite directions.
PadPosition ==
    {[axis |-> 1, button |-> 0, hat |-> {}],
     [axis |-> 2, button |-> 1, hat |-> {"up"}],
     [axis |-> 0, button |-> 1, hat |-> {"up", "down"}]}

J == INSTANCE Controllers WITH Position <- PadPosition
S == INSTANCE WaylandSeat WITH Key <- SeatKey, keys <- pressed, down <- told

ASSUME JoysticksAssumption == J!ControllersAssumption
ASSUME SeatIsASeat == S!SeatAssumption

controllers == <<driver, xinput, plugged, index, at, notices, initialized, js, stack,
                 crash, skipped, plugs, moves, failures>>
seatVars == <<keyboard, pointer, pressed, win, loop, wire, queue, seat, told, over,
              strayed, failed>>

\* What is not the subject stays in one of its initial states.
DevicesInit ==
    /\ subject \in Subject
    /\ Init /\ J!Init /\ S!Init
    /\ subject # "controllers" => driver = "win32" /\ ~xinput
    /\ subject # "seat" => seat.devices = CHOOSE d \in Devices : TRUE

DevicesNext ==
    \/ subject = "input" /\ Next /\ UNCHANGED <<subject, controllers, seatVars>>
    \/ subject = "controllers" /\ J!Next /\ UNCHANGED <<subject, vars, seatVars>>
    \/ subject = "seat" /\ S!Next /\ UNCHANGED <<subject, vars, controllers>>

DevicesSpec == DevicesInit /\ [][DevicesNext]_<<subject, vars, controllers, seatVars>>

--------------------------------------------------------------------------------
(* The properties of Controllers and of WaylandSeat, each with the types of its *)
(* variables.  Those of KeyState have their own names.                          *)

\* Controllers: each device is in one slot, its state is current when it is read,
\* and what the program can die of is known.
ControllersInSync ==
    subject = "controllers" =>
      J!TypeOK /\ J!SlotsMatchDevices /\ J!ReportsAreCurrent /\ J!CrashesAreKnown

\* WaylandSeat: a key is pressed only while it is down, and the lock and the
\* image of the pointer are those of the window it is over.
SeatAgrees ==
    subject = "seat" => S!TypeOK /\ S!PressedIsDown /\ S!LockFollowsMode /\ S!CursorShown
================================================================================
