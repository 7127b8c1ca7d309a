------------------------------- MODULE Gamepads -------------------------------
(***************************************************************************)
(* Gamepad mappings: the table that the application extends, the mapping   *)
(* each joystick uses, and the state of a gamepad made from the joystick's *)
(* buttons, axes and hats.                                                 *)
(*                                                                         *)
(* Code: src/src/input.cpp, src/src/linux/linux_joystick.cpp (hats).       *)
(*                                                                         *)
(* A mapping has one button and one axis here; the others are alike.  The  *)
(* elements index the joystick's arrays from 0, table and pads from 1.     *)
(***************************************************************************)
EXTENDS Integers, Sequences, SequencesExt

CONSTANTS
    Slot,        \* joystick slots
    Device,      \* kinds of devices: records guid, axes, buttons, hats
    NoDevice,
    Line,        \* mapping lines: records guid, native, button, axis
    Defaults,    \* tables that the library starts with
    MaxLines     \* bound on the lines of one update

\* What an element of a mapping is written as.  A hat's bit is one of four.
Text == [kind : {"axis", "button", "hat", "junk"}, half : {"upper", "lower", "full"},
         index : Nat, bit : 0..15, inverted : BOOLEAN]

GamepadsAssumption ==
    /\ \A d \in Device : {d.axes, d.buttons, d.hats} \subseteq Nat
    /\ NoDevice \notin Device
    /\ \A l \in Line : {l.button, l.axis} \subseteq Text /\ l.native \in BOOLEAN
    /\ Defaults \subseteq Seq(Line) /\ MaxLines \in Nat

VARIABLES
    table,    \* _grwl.mappings
    device,   \* slot -> its device, NoDevice when it is not connected
    mapping,  \* slot -> js->mapping, an index into table; 0 is null
    axes, buttons,  \* slot -> js->axes in halves, js->buttons: the first one
    stick,    \* slot -> js->linjs.hats: for each hat what its two axes show
    hats      \* slot -> js->hats: for each hat the set of its bits

vars == <<table, device, mapping, axes, buttons, stick, hats>>

--------------------------------------------------------------------------------
(* Mapping lines. *)

\* One element: a half or all of an axis, a button, a bit of a hat; junk is any
\* other text.  Indices are bytes, a hat's bit is in the lower four.
Element(t) ==
    LET low  == IF t.half = "upper" THEN 0 ELSE -1
        high == IF t.half = "lower" THEN 0 ELSE 1
        sign == IF t.inverted THEN -1 ELSE 1
    IN CASE t.kind = "junk"   -> [type |-> "none", index |-> 0, scale |-> 0, offset |-> 0]
         [] t.kind = "hat"    -> [type |-> "hat", scale |-> 0, offset |-> 0,
                                  index |-> (16 * t.index + t.bit) % 256]
         [] t.kind = "button" -> [type |-> "button", index |-> t.index % 256,
                                  scale |-> 0, offset |-> 0]
         [] t.kind = "axis"   -> [type |-> "axis", index |-> t.index % 256,
                                  scale |-> sign * (2 \div (high - low)),
                                  offset |-> sign * (-(high + low))]

Mapping(line) == [guid |-> line.guid, button |-> Element(line.button),
                  axis |-> Element(line.axis)]

\* parseGUID reads two of the four digits of the vendor and of the product.
SameVendorProduct(g, h) == g.vendorLow = h.vendorLow /\ g.productLow = h.productLow

\* The first mapping of g, else the first of its vendor and product; 0 is null.
FindMapping(tab, g) ==
    LET exact == {i \in DOMAIN tab : tab[i].guid = g}
        alike == {i \in DOMAIN tab : SameVendorProduct(tab[i].guid, g)}
        first(S) == CHOOSE i \in S : \A j \in S : i <= j
    IN IF exact # {} THEN first(exact) ELSE IF alike # {} THEN first(alike) ELSE 0

IsValidElement(e, d) ==
    CASE e.type = "hat"    -> e.index \div 16 < d.hats
      [] e.type = "button" -> e.index < d.buttons
      [] e.type = "axis"   -> e.index < d.axes
      [] OTHER             -> TRUE

FindValidMapping(tab, d) ==
    LET i == FindMapping(tab, d.guid)
    IN IF i # 0 /\ IsValidElement(tab[i].button, d) /\ IsValidElement(tab[i].axis, d)
       THEN i ELSE 0

\* One line of an update: it replaces the mapping it finds or comes last.
WithLine(tab, line) ==
    LET i == FindMapping(tab, line.guid)
    IN IF ~line.native THEN tab
       ELSE IF i # 0 THEN [tab EXCEPT ![i] = Mapping(line)]
       ELSE Append(tab, Mapping(line))

--------------------------------------------------------------------------------

Rest == [x |-> 0, y |-> 0]
Still(d) == [h \in 1..d.hats |-> Rest]

Init ==
    /\ \E lines \in Defaults :
         table = FoldLeft(LAMBDA t, l : IF l.native THEN Append(t, Mapping(l)) ELSE t,
                          <<>>, lines)
    /\ device = [s \in Slot |-> NoDevice] /\ mapping = [s \in Slot |-> 0]
    /\ axes = [s \in Slot |-> 0] /\ buttons = [s \in Slot |-> FALSE]
    /\ stick = [s \in Slot |-> <<>>] /\ hats = [s \in Slot |-> <<>>]

Connected(s) == device[s] # NoDevice

Connect(s) ==
    \E d \in Device :
        /\ ~Connected(s) /\ \A t \in Slot : t < s => Connected(t)
        /\ device' = [device EXCEPT ![s] = d]
        /\ mapping' = [mapping EXCEPT ![s] = FindValidMapping(table, d)]
        /\ stick' = [stick EXCEPT ![s] = Still(d)]
        /\ hats' = [hats EXCEPT ![s] = [h \in 1..d.hats |-> {}]]
        /\ UNCHANGED <<table, axes, buttons>>

Disconnect(s) ==
    /\ Connected(s)
    /\ device' = [device EXCEPT ![s] = NoDevice]
    /\ mapping' = [mapping EXCEPT ![s] = 0]
    /\ axes' = [axes EXCEPT ![s] = 0] /\ buttons' = [buttons EXCEPT ![s] = FALSE]
    /\ stick' = [stick EXCEPT ![s] = <<>>] /\ hats' = [hats EXCEPT ![s] = <<>>]
    /\ UNCHANGED table

\* Fault: the joysticks keep the index of the mapping they had.
UpdateTableOnly ==
    \E n \in 1..MaxLines : \E lines \in [1..n -> Line] :
        /\ table' = FoldLeft(WithLine, table, lines)
        /\ UNCHANGED <<device, mapping, axes, buttons, stick, hats>>

UpdateGamepadMappings ==
    \E n \in 1..MaxLines : \E lines \in [1..n -> Line] :
        /\ table' = FoldLeft(WithLine, table, lines)
        /\ mapping' = [s \in Slot |->
                         IF Connected(s) THEN FindValidMapping(table', device[s])
                         ELSE mapping[s]]
        /\ UNCHANGED <<device, axes, buttons, stick, hats>>

MoveAxis(s) ==
    \E v \in -2..2 :
        /\ Connected(s) /\ device[s].axes > 0
        /\ axes' = [axes EXCEPT ![s] = v]
        /\ UNCHANGED <<table, device, mapping, buttons, stick, hats>>

PressButton(s) ==
    /\ Connected(s) /\ device[s].buttons > 0
    /\ buttons' = [buttons EXCEPT ![s] = ~@]
    /\ UNCHANGED <<table, device, mapping, axes, stick, hats>>

Bits(p) ==
    (IF p.x < 0 THEN {8} ELSE IF p.x > 0 THEN {2} ELSE {})
    \union (IF p.y < 0 THEN {1} ELSE IF p.y > 0 THEN {4} ELSE {})

\* handleAbsEvent: absMap has the hat of a horizontal axis, and 0, the first
\* hat, for each vertical one, which openJoystickDevice skips.
Shown(h, axis) == IF axis = "x" THEN h ELSE 1

MoveHat(s) ==
    \E h \in DOMAIN hats[s], axis \in {"x", "y"}, v \in -1..1 :
        /\ stick' = [stick EXCEPT ![s][h] =
                       IF axis = "x" THEN [@ EXCEPT !.x = v] ELSE [@ EXCEPT !.y = v]]
        /\ hats' = [hats EXCEPT ![s][Shown(h, axis)] = Bits(stick'[s][h])]
        /\ UNCHANGED <<table, device, mapping, axes, buttons>>

Next ==
    \/ UpdateGamepadMappings
    \/ \E s \in Slot : Connect(s) \/ Disconnect(s) \/ MoveAxis(s) \/ PressButton(s)
                       \/ MoveHat(s)

Spec == Init /\ [][Next]_vars

--------------------------------------------------------------------------------
(* grwlGetGamepadState, in halves. *)

Value(s, e) == axes[s] * e.scale + 2 * e.offset
HatBit(s, e) == (e.index % 16) \in hats[s][(e.index \div 16) + 1]

\* Fault: the direction of the axis is ignored.
PressedUpwards(s, e) ==
    CASE e.type = "axis"   -> Value(s, e) >= 0
      [] e.type = "hat"    -> HatBit(s, e)
      [] e.type = "button" -> buttons[s]
      [] OTHER             -> FALSE

Pressed(s, e) ==
    CASE e.type = "axis"   -> IF e.offset < 0 \/ (e.offset = 0 /\ e.scale > 0)
                              THEN Value(s, e) >= 0 ELSE Value(s, e) <= 0
      [] e.type = "hat"    -> HatBit(s, e)
      [] e.type = "button" -> buttons[s]
      [] OTHER             -> FALSE

Clamped(v) == IF v < -2 THEN -2 ELSE IF v > 2 THEN 2 ELSE v
AxisValue(s, e) ==
    CASE e.type = "axis"   -> Clamped(Value(s, e))
      [] e.type = "hat"    -> IF HatBit(s, e) THEN 2 ELSE -2
      [] e.type = "button" -> IF buttons[s] THEN 2 ELSE -2
      [] OTHER             -> 0

--------------------------------------------------------------------------------

TypeOK ==
    /\ table \in Seq({Mapping(l) : l \in Line})
    /\ device \in [Slot -> Device \union {NoDevice}]
    /\ mapping \in [Slot -> 0..Len(table)]
    /\ axes \in [Slot -> -2..2] /\ buttons \in [Slot -> BOOLEAN]
    /\ \A s \in Slot : /\ hats[s] \in Seq(SUBSET {1, 2, 4, 8})
                       /\ stick[s] \in Seq([x : -1..1, y : -1..1])

\* A connected joystick uses the mapping of its GUID when the table has one it
\* has the buttons, axes and hats for, and reads no element it does not have.
MappingFits ==
    \A s \in Slot :
        IF ~Connected(s) THEN mapping[s] = 0
        ELSE LET exact == {i \in DOMAIN table : table[i].guid = device[s].guid}
                 has(e) == \/ e.type = "hat" /\ (e.index \div 16) + 1 \in DOMAIN hats[s]
                           \/ e.type = "button" /\ e.index \in 0..(device[s].buttons - 1)
                           \/ e.type = "axis" /\ e.index \in 0..(device[s].axes - 1)
                           \/ e.type = "none"
                 fits(i) == has(table[i].button) /\ has(table[i].axis)
             IN /\ mapping[s] # 0 => fits(mapping[s])
                /\ (\E i \in exact : fits(i) /\ \A j \in exact : i <= j)
                     => mapping[s] \in exact

\* A gamepad button bound to half an axis is down when that half is moved at
\* least half of its way, whichever half it is and inverted or not.
HalfAxisPresses ==
    \A s \in Slot : mapping[s] # 0 =>
        LET e == table[mapping[s]].button
            upper == (e.scale > 0 /\ e.offset < 0) \/ (e.scale < 0 /\ e.offset > 0)
        IN e.type = "axis" /\ e.offset # 0 =>
              Pressed(s, e) = IF upper THEN axes[s] >= 1 ELSE axes[s] <= -1

===============================================================================
