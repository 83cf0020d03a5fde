----------------------------- MODULE MCDebugger -----------------------------
(* FIFOs of two bytes; ROM banks of four and two bytes, sent two by two.   *)
EXTENDS Debugger

Header(prg, chr, f6, f7) == <<78, 69, 83, 26, prg, chr, f6, f7, 0, 0, 0, 0, 0, 0, 0, 0>>
MCRoms == {[hdr |-> Header(1, 1, 1, 0), body |-> <<21, 22, 23, 24, 31, 32>>],
           [hdr |-> Header(2, 0, 0, 0), body |-> <<21, 22, 23, 24, 25, 26, 27, 28>>],
           [hdr |-> Header(1, 0, 16, 0), body |-> <<21, 22, 23, 24>>],
           [hdr |-> Header(3, 0, 0, 0), body |-> <<21, 22, 23, 24>>]}
MCPrgs == {<<0, 1, 8, 9, 8>>}
\* "00 02 00 03 F1", "0", "01 00 01 02 00", "0G"
MCTexts == {<<0, 0, 16, 0, 2, 16, 0, 0, 16, 0, 3, 16, 15, 1>>, <<0>>,
            <<0, 1, 0, 0, 0, 1, 0, 2, 0, 0>>, <<0, 17>>, <<0, 12>>}
=============================================================================
