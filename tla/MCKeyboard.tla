----------------------------- MODULE MCKeyboard -----------------------------
(* Scan codes for TLC: both shift keys and the letter a.                      *)
EXTENDS Keyboard

ShiftKeys == {42, 54}
LetterOnly == {30}
=============================================================================
