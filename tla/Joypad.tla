------------------------------- MODULE Joypad --------------------------------
(***************************************************************************)
(* A pad on its way from a page to the core.  A page keeps the pressed     *)
(* buttons as a bitmap (arcade-portal: App.jsx, inputLoop.js,              *)
(* controller.jsx), sends it as two bytes, and the worker answers the      *)
(* core's questions from them (arcade-worker/src/libretro.rs).  The two    *)
(* ends number the buttons differently.  A bitmap and a byte are the sets  *)
(* of their bits; an axis is the pair of its bytes.                        *)
(***************************************************************************)
EXTENDS Integers, Sequences

Buttons == {"A", "B", "X", "Y", "L", "R", "SELECT", "START", "UP", "DOWN",
            "LEFT", "RIGHT", "R2", "L2", "R3", "L3"}

(* The bit of a button in the page's bitmap.                               *)
PortalBit ==
    [A |-> 0, B |-> 1, X |-> 2, Y |-> 3, L |-> 4, R |-> 5, SELECT |-> 6,
     START |-> 7, UP |-> 8, DOWN |-> 9, LEFT |-> 10, RIGHT |-> 11,
     R2 |-> 12, L2 |-> 13, R3 |-> 14, L3 |-> 15]

(* RETRO_DEVICE_ID_JOYPAD_*, by which the core asks.                       *)
CoreId ==
    [A |-> 8, B |-> 0, X |-> 9, Y |-> 1, L |-> 10, R |-> 11, SELECT |-> 2,
     START |-> 3, UP |-> 4, DOWN |-> 5, LEFT |-> 6, RIGHT |-> 7,
     L2 |-> 12, R2 |-> 13, L3 |-> 14, R3 |-> 15]

MaxAxes == 4
Joystick == 1       \* RETRO_DEVICE_JOYPAD
Analog == 5         \* RETRO_DEVICE_ANALOG

-----------------------------------------------------------------------------
(* The page: low byte first.                                               *)
Packet(mask) == <<mask \cap 0..7, {b - 8 : b \in mask \cap 8..15}>>

(* update_input_state: a packet of less than two bytes changes nothing;    *)
(* axes follow the buttons, as far as the packet goes.                     *)
KeyState(raw) == raw[1] \cup {b + 8 : b \in raw[2]}

Axes(raw) ==
    [i \in 0..(MaxAxes - 1) |->
        IF 2 * (i + 1) + 1 < Len(raw) THEN <<raw[2 * i + 3], raw[2 * i + 4]>> ELSE <<{}, {}>>]

Blank == [keys |-> {}, axes |-> [i \in 0..(MaxAxes - 1) |-> <<{}, {}>>]]

Updated(pad, raw) ==
    IF Len(raw) < 2 THEN pad ELSE [keys |-> KeyState(raw), axes |-> Axes(raw)]

(* Fault: the ids of the core are taken for bits of the page.              *)
ButtonIsBit(id) == IF id \in 0..15 THEN {id} ELSE {}

(* button_bit_index, as the set of at most one bit.                        *)
ButtonBit(id) ==
    CASE id = CoreId["B"] -> {1}
      [] id = CoreId["Y"] -> {3}
      [] id = CoreId["SELECT"] -> {6}
      [] id = CoreId["START"] -> {7}
      [] id = CoreId["UP"] -> {8}
      [] id = CoreId["DOWN"] -> {9}
      [] id = CoreId["LEFT"] -> {10}
      [] id = CoreId["RIGHT"] -> {11}
      [] id = CoreId["A"] -> {0}
      [] id = CoreId["X"] -> {2}
      [] id = CoreId["L"] -> {4}
      [] id = CoreId["R"] -> {5}
      [] id = CoreId["L2"] -> {13}
      [] id = CoreId["R2"] -> {12}
      [] id = CoreId["L3"] -> {15}
      [] id = CoreId["R3"] -> {14}
      [] OTHER -> {}

(* input_state_callback, for a joypad: 1 is pressed.                       *)
ButtonState(pads, port, index, id) ==
    IF port \in DOMAIN pads /\ index = 0 /\ ButtonBit(id) \cap pads[port].keys # {} THEN 1 ELSE 0

AxisState(pads, port, index, id) ==
    IF port \in DOMAIN pads /\ index <= 1 /\ id <= 1 THEN pads[port].axes[2 * index + id] ELSE <<{}, {}>>

InputState(pads, port, device, index, id) ==
    CASE device = Joystick -> ButtonState(pads, port, index, id)
      [] device = Analog -> AxisState(pads, port, index, id)
      [] OTHER -> 0
=============================================================================
