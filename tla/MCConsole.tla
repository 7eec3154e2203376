------------------------------ MODULE MCConsole ------------------------------
(* Strings for TLC: empty, within a row, and more than a row.                 *)
EXTENDS Console

Strings == {0, 1, 4}
=============================================================================
