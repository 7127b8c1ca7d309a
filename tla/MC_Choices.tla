------------------------------ MODULE MC_Choices ------------------------------
(* FBConfigs, VideoModes and Gamepads each pick from a list that they are   *)
(* given, and Joysticks keeps the list of what Gamepads maps.  They share   *)
(* no state: a behaviour is a behaviour of one of them; subject says which. *)
EXTENDS FBConfigs

CONSTANTS
    Subject,                                                       \* what to check
    ModeInfo, NoMode, NoModes, Want, Depth, Half, MaxOffered, MaxChanges, \* VideoModes
    Player, Gamepad, NoDevice, Line, Defaults, MaxLines,            \* Gamepads
    NumDevices, LastSlot, QueueSize, MaxPlugs, MaxMoves, MaxUpdates,
    MaxNested                                                      \* Joysticks

VARIABLES
    subject,
    known, offered, turned, crtc, modes, oldMode, call, failed, changes, calm,
    fresh, last,
    table, device, mapping, axes, buttons, stick, hats,
    node, axis, button, initialized, watching, inotify, js, dropper, moved, stack,
    plugs, moves

--------------------------------------------------------------------------------
(* What drivers offer and applications want. *)

Bits(red, alpha, depth, samples) ==
    [c \in Channel |-> CASE c = "red" -> red [] c \in {"green", "blue"} -> 8
                          [] c = "alpha" -> alpha [] c = "depth" -> depth
                          [] c = "samples" -> samples [] OTHER -> 0]

MCFormat ==
    {[stereo |-> s, transparent |-> t, sRGB |-> FALSE, double |-> TRUE,
      bits |-> Bits(8, 0, 24, 0), aux |-> 0] : s, t \in BOOLEAN}
    \union {[stereo |-> FALSE, transparent |-> FALSE, sRGB |-> TRUE,
             double |-> TRUE, bits |-> Bits(-1, 8, 0, 4), aux |-> 1]}

Plain == [flaw |-> "none", stereo |-> FALSE, transparent |-> FALSE, sRGB |-> FALSE,
          double |-> TRUE, bits |-> Bits(8, 0, 24, 0), aux |-> 0]
MCNative ==
    {Plain, [Plain EXCEPT !.transparent = TRUE, !.bits = Bits(8, 8, 24, 0)],
     [Plain EXCEPT !.stereo = TRUE, !.bits = Bits(5, 0, 16, 0)],
     [Plain EXCEPT !.bits = Bits(5, 8, 16, 4), !.sRGB = TRUE],
     [Plain EXCEPT !.bits = Bits(8, 8, 0, 4), !.aux = 1], [Plain EXCEPT !.double = FALSE]}
    \union {[Plain EXCEPT !.flaw = f] :
              f \in {"indexed", "unseen", "other_api", "slow", "unreadable"}}

Info(i, w, h, r, l) ==
    [id |-> i, width |-> w, height |-> h, rate |-> r, interlaced |-> l]
\* 1 and 3 look the same; 2 is 1 rotated, and has its area.
MCModeInfo == {Info(1, 4, 3, 60, FALSE), Info(2, 3, 4, 60, FALSE),
             Info(3, 4, 3, 60, FALSE), Info(4, 4, 3, 30, FALSE),
             Info(5, 6, 4, 60, TRUE)}
Wanted(w, h, r) == [width |-> w, height |-> h, rate |-> r, rgb |-> <<5, 8, -1>>]
\* The squares of the last are larger than an int can be, for Half = 128.
MCWant == {Wanted(4, 3, -1), Wanted(3, 5, 30), Wanted(20, 1, 60)}

\* The second differs from the first in digits that parseGUID does not read.
Guid(vh, v) == [vendorHigh |-> vh, vendorLow |-> v, productLow |-> 1]
MCGamepad == {[guid |-> Guid(1, 1), axes |-> 1, buttons |-> 1, hats |-> 1],
             [guid |-> Guid(2, 1), axes |-> 1, buttons |-> 0, hats |-> 2],
             [guid |-> Guid(1, 2), axes |-> 0, buttons |-> 1, hats |-> 0]}
Text(k, h, i, v) == [kind |-> k, half |-> h, index |-> i, bit |-> 4, inverted |-> v]
MapLine(g, b, a) == [guid |-> g, native |-> TRUE, button |-> b, axis |-> a]
MCLine ==
    {MapLine(Guid(1, 1), Text("axis", "upper", 0, FALSE), Text("hat", "full", 0, FALSE)),
     MapLine(Guid(2, 1), Text("axis", "lower", 0, TRUE), Text("axis", "full", 0, TRUE)),
     MapLine(Guid(1, 2), Text("button", "full", 0, FALSE), Text("junk", "full", 0, FALSE)),
     MapLine(Guid(2, 1), Text("axis", "lower", 0, FALSE), Text("axis", "full", 0, FALSE)),
     MapLine(Guid(1, 2), Text("button", "full", 1, FALSE), Text("hat", "full", 0, FALSE)),
     [MapLine(Guid(1, 2), Text("hat", "full", 1, FALSE), Text("axis", "full", 0, FALSE))
        EXCEPT !.native = FALSE]}
MCDefaults ==
    {<<>>,
     <<MapLine(Guid(1, 1), Text("axis", "upper", 0, FALSE), Text("hat", "full", 0, FALSE)),
       MapLine(Guid(2, 1), Text("axis", "lower", 0, TRUE), Text("axis", "full", 0, TRUE))>>}

--------------------------------------------------------------------------------

V == INSTANCE VideoModes
G == INSTANCE Gamepads WITH Slot <- Player, Device <- Gamepad
J == INSTANCE Joysticks WITH table <- moved

ASSUME PadsAssumption == G!GamepadsAssumption
ASSUME SticksAssumption == J!JoysticksAssumption

video == <<known, offered, turned, crtc, modes, oldMode, call, failed, changes,
           calm, fresh, last>>
gamepads == <<table, device, mapping, axes, buttons, stick, hats>>
joysticks == <<node, axis, button, initialized, watching, inotify, js, dropper, moved,
               stack, plugs, moves>>

\* A module that is not the subject stays in one of its initial states.
ConfigsRest == /\ backend = "glx" /\ natives = <<>>
               /\ want = CHOOSE w \in Format : TRUE
VideoRests == offered = <<>> /\ turned = FALSE
GamepadsRest == table = <<>>
JoysticksRest == node = [d \in 1..NumDevices |-> "absent"]

ChoicesInit ==
    /\ subject \in Subject
    /\ (subject # "configs" => ConfigsRest) /\ Init
    /\ (subject # "modes" => VideoRests) /\ V!Init
    /\ (subject # "gamepads" => GamepadsRest) /\ G!Init
    /\ (subject # "joysticks" => JoysticksRest) /\ J!Init

ChoicesNext ==
    \/ subject = "configs" /\ Next /\ UNCHANGED <<subject, video, gamepads, joysticks>>
    \/ subject = "modes" /\ V!Next /\ UNCHANGED <<subject, vars, gamepads, joysticks>>
    \/ subject = "gamepads" /\ G!Next /\ UNCHANGED <<subject, vars, video, joysticks>>
    \/ subject = "joysticks" /\ J!Next /\ UNCHANGED <<subject, vars, video, gamepads>>

ChoicesSpec ==
    ChoicesInit /\ [][ChoicesNext]_<<subject, vars, video, gamepads, joysticks>>

--------------------------------------------------------------------------------
(* The properties of the modules. *)

\* The types of all variables.
ChoicesTypeOK ==
    CASE subject = "configs" -> TypeOK
      [] subject = "modes" -> V!TypeOK
      [] subject = "gamepads" -> G!TypeOK
      [] subject = "joysticks" -> J!TypeOK

\* VideoModes: the list of modes is sorted, names nothing twice and is complete;
\* the monitor shows the mode closest to the wanted one; and a call dies only of
\* what other clients have changed.
ModesAreChosen ==
    subject = "modes" => V!ListAgrees /\ V!ClosestIsShown /\ V!DiesOnlyOfChanges

\* Gamepads: a joystick uses its own mapping, and only elements it has; half an
\* axis presses a button when it is moved half its way.
MappingFits == subject = "gamepads" => G!MappingFits /\ G!HalfAxisPresses

\* Joysticks: slots and devices match, and the reported state is the device's.
JoysticksInSync == subject = "joysticks" => J!SlotsMatchDevices /\ J!InputInSync

\* Joysticks: the mapping that a joystick points to has not moved.
MappingLives == subject = "joysticks" => J!MappingLives
===============================================================================
