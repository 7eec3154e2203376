---------------------------- MODULE MCInterrupt ----------------------------
(* Processes for TLC: idle and two others.                                    *)
EXTENDS Interrupt

Three == {0, 1, 2}
=============================================================================
