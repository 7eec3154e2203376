------------------------------ MODULE MCLinks ------------------------------
(* Lists and entries for TLC.                                                 *)
EXTENDS Links

TwoLists == {"send", "receive"}
CONSTANTS c1, c2, c3
ThreeCells == {c1, c2, c3}
=============================================================================
