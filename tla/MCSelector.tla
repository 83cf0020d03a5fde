----------------------------- MODULE MCSelector -----------------------------
(* Joysticks with one key, and with fire and a direction: the item HOLD,   *)
(* RESET, ABOUT or, in the middle, DISK.                                   *)
EXTENDS Selector

MCJoys == {{}, {"UP"}, {"DN"}, {"LT"}, {"RT"}, {"FIRE"},
           {"UP", "FIRE"}, {"LT", "FIRE"}, {"DN", "FIRE"}}
=============================================================================
