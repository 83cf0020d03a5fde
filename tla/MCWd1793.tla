------------------------------ MODULE MCWd1793 ------------------------------
(* Small instances of the open controller for TLC.                         *)
EXTENDS Wd1793Open

W(p, d) == [op |-> "wr", port |-> p, data |-> d]
AnyAccess == {NoAccess, [op |-> "rd", port |-> "DATA", data |-> 0], W("DATA", 1)}
             \cup {W("COMMAND", c) : c \in {8, 10, 13}}
AnyStatus == {{}, {"COMPLETE", "SUCCESS"}, {"COMPLETE", "CRC"}}
=============================================================================
