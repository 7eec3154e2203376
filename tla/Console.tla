------------------------------ MODULE Console ------------------------------
(* The console, kernel/printk.c: kernel output through write_char and println, *)
(* and printchar, with which the keyboard interrupt echoes a key. Both work on *)
(* the same cursor. The gates leave interrupts enabled, so printchar may run   *)
(* between any two loads and stores of kernel output; it is itself a step,     *)
(* since kernel output does not run inside an interrupt handler. The loads and *)
(* stores are those of an unoptimised build, as the makefiles ask for; only    *)
(* the loops that clear cells count as one store.                              *)
EXTENDS Integers, Sequences

CONSTANTS
  COLS, ROWS,   \* the screen, 80 by 25
  BANNER,       \* length of the text that con_init prints, 68
  Lengths,      \* lengths of the strings the kernel prints
  MaxKeys,      \* keys typed during one printk, at most
  Blank, KernelChar, KeyChar   \* what a cell shows

ASSUME ConsoleAssumption ==
  /\ COLS \in Nat \ {0} /\ ROWS \in Nat \ {0, 1}
  /\ BANNER \in 0 .. COLS - 1
  /\ Lengths \subseteq Nat /\ MaxKeys \in Nat

VARIABLES
  x, y,    \* the cursor
  pos,     \* where the character goes, as a cell of video memory
  screen,  \* the cells of video memory, with a row below the screen
  k,       \* kernel output: where it stands (at), its registers (t) and locals (ph,
           \* pe), and the characters that each printk in progress has left
  text,    \* history: the row and column in which the string printed last began, its length
  keys,    \* keys typed during the printk in progress
  disturbed \* history: a key was echoed in the middle of kernel output

cursor == <<x, y>>
video == <<pos, screen>>
echo == <<text, keys, disturbed>>
vars == <<cursor, video, k, echo>>

Cell(row, col) == COLS * row + col
OnScreenCells == 0 .. COLS * ROWS - 1
VideoCells == 0 .. Cell(ROWS, COLS)

Erase(from, to) == [c \in VideoCells |-> IF from <= c /\ c < to THEN Blank ELSE screen[c]]

\* After con_init: the banner, and the cursor on the row below.
Init ==
  /\ x = 0 /\ y = 1 /\ pos = COLS
  /\ screen = [c \in VideoCells |-> IF c < BANNER THEN KernelChar ELSE Blank]
  /\ k = [at |-> "idle", t |-> 0, ph |-> 0, pe |-> 0, left |-> <<>>]
  /\ text = <<0, 0, BANNER>> /\ keys = 0 /\ disturbed = FALSE

-----------------------------------------------------------------------------
(* Steps of kernel output: a load into a register, a store, a test *)

Goto(from, to) == k.at = from /\ k' = [k EXCEPT !.at = to]

Load(from, value, to) ==
  /\ k.at = from /\ k' = [k EXCEPT !.at = to, !.t = value]
  /\ UNCHANGED <<cursor, video, echo>>

Done(from, to) == k.at = from /\ k' = [k EXCEPT !.at = to, !.t = 0]
StoreX(from, value, to) == Done(from, to) /\ x' = value /\ UNCHANGED <<y, video, echo>>
StoreY(from, value, to) == Done(from, to) /\ y' = value /\ UNCHANGED <<x, video, echo>>

Test(from, condition, yes, no) ==
  /\ Goto(from, IF condition THEN yes ELSE no)
  /\ UNCHANGED <<cursor, video, echo>>

(* write_char *)

StorePos(from, to) == Done(from, to) /\ pos' = k.t /\ UNCHANGED <<cursor, screen, echo>>

Place ==
  \/ Load("char", y, "place")
  \/ Load("place", Cell(k.t, x), "placed")
  \/ StorePos("placed", "put")

Put ==
  \/ Load("put", pos, "poke")
  \/ Done("poke", "step") /\ screen' = [screen EXCEPT ![k.t] = KernelChar]
     /\ UNCHANGED <<cursor, pos, echo>>

Advance == Load("step", x + 1, "stepped") \/ StoreX("stepped", k.t, "edge")

Wrap ==
  \/ Test("edge", x >= COLS, "rows", "page")
  \/ Load("rows", x \div COLS, "row")
  \/ Load("row", y + k.t, "below")
  \/ StoreY("below", k.t, "col")
  \/ Load("col", x % COLS, "left")
  \/ StoreX("left", k.t, "page")

\* Faulty variant: the row is compared with the number of rows the wrong way.
PageBeyond == Test("page", y > ROWS, "con_init", "next")
Page == Test("page", y >= ROWS, "con_init", "next")

Turned == Load("turned", y % ROWS, "turn") \/ StoreY("turn", k.t, "next")

(* prints *)

NextChar ==
  /\ k.at = "next"
  /\ k' = IF Head(k.left) = 0 THEN [k EXCEPT !.at = "line"]
                              ELSE [k EXCEPT !.at = "char", !.left[1] = @ - 1]
  /\ UNCHANGED <<cursor, video, echo>>

(* println *)

NewLine ==
  \/ Load("line", y, "from")
  \/ /\ k.at = "from" /\ k' = [k EXCEPT !.at = "start", !.t = 0, !.ph = Cell(k.t, x)]
     /\ UNCHANGED <<cursor, video, echo>>
  \/ StoreX("start", 0, "down")
  \/ Load("down", y + 1, "downed")
  \/ StoreY("downed", k.t, "fits")
  \/ Test("fits", y < ROWS, "until", "top")

\* Faulty variant: the row that was just printed is cleared with the next one.
UntilEndOfNextAll ==
  /\ k.at = "until" /\ k' = [k EXCEPT !.at = "erase", !.ph = Cell(y - 1, 0), !.pe = Cell(y + 1, 0)]
  /\ UNCHANGED <<cursor, video, echo>>
UntilEndOfNext ==
  /\ k.at = "until" /\ k' = [k EXCEPT !.at = "erase", !.pe = Cell(y + 1, 0)]
  /\ UNCHANGED <<cursor, video, echo>>

\* Faulty variant: the first row is not cleared before it is used again.
TopUnerased ==
  \/ Test("top", TRUE, "end", "end")
  \/ /\ k.at = "end" /\ k' = [k EXCEPT !.at = "again", !.pe = Cell(y, 0)]
     /\ UNCHANGED <<cursor, video, echo>>
  \/ StoreY("again", 0, "erase")
Top ==
  \/ Goto("top", "end") /\ screen' = Erase(0, COLS) /\ UNCHANGED <<cursor, pos, echo>>
  \/ /\ k.at = "end" /\ k' = [k EXCEPT !.at = "again", !.pe = Cell(y, 0)]
     /\ UNCHANGED <<cursor, video, echo>>
  \/ StoreY("again", 0, "erase")

EraseLine ==
  /\ k.at = "erase" /\ k' = [k EXCEPT !.at = "return", !.ph = 0, !.pe = 0]
  /\ screen' = Erase(k.ph, k.pe)
  /\ UNCHANGED <<cursor, pos, echo>>

Return ==
  /\ k.at = "return"
  /\ k' = [k EXCEPT !.at = IF Len(k.left) = 1 THEN "idle" ELSE "cursor", !.left = Tail(@)]
  /\ UNCHANGED <<cursor, video, echo>>

(* con_init and update_cursor *)

\* Faulty variant: the cursor stays in its row while the screen is cleared.
HomeColumn == StoreX("con_init", 0, "clear")
Home == StoreX("con_init", 0, "con_y") \/ StoreY("con_y", 0, "clear")

ClearScreen ==
  /\ k.at = "clear"
  /\ k' = [k EXCEPT !.at = "next", !.left = <<BANNER>> \o @]
  /\ screen' = Erase(0, COLS * ROWS)
  /\ UNCHANGED <<cursor, pos, echo>>

\* What it tells the display is not looked at.
UpdateCursor ==
  \/ Load("cursor", y, "column")
  \/ Load("column", Cell(k.t, x), "found")
  \/ StorePos("found", "turned")

Printk(n) ==
  /\ k.at = "idle"
  /\ k' = [k EXCEPT !.at = "next", !.left = <<n>>]
  /\ text' = <<y, x, n>> /\ keys' = 0
  /\ UNCHANGED <<cursor, video, disturbed>>

Kernel ==
  \/ Place \/ Put \/ Advance \/ Wrap \/ Page \/ Turned
  \/ NextChar \/ NewLine \/ UntilEndOfNext \/ Top \/ EraseLine \/ Return
  \/ Home \/ ClearScreen \/ UpdateCursor

-----------------------------------------------------------------------------
(* printchar, from the keyboard interrupt *)

\* Faulty variant: the echo runs on below the last row.
KeyCursorUnbounded ==
  IF x + 1 < COLS THEN x' = x + 1 /\ y' = y ELSE x' = 0 /\ y' = y + 1
KeyCursor ==
  LET row == IF x + 1 >= COLS THEN y + 1 ELSE y IN
  /\ x' = IF x + 1 >= COLS \/ row >= ROWS THEN 0 ELSE x + 1
  /\ y' = IF row >= ROWS THEN 1 ELSE row

PrintChar ==
  /\ keys' = IF k.at = "idle" THEN 0 ELSE keys + 1
  /\ keys' <= MaxKeys
  /\ pos' = Cell(y, x)
  /\ screen' = [screen EXCEPT ![pos'] = KeyChar]
  /\ KeyCursor
  /\ disturbed' = (disturbed \/ k.at # "idle")
  /\ UNCHANGED <<k, text>>

Next == Kernel \/ (\E n \in Lengths : Printk(n)) \/ PrintChar

Spec == Init /\ [][Next]_vars

-----------------------------------------------------------------------------
(* Properties *)

\* printk is about to return, and no key was ever echoed in the middle of one.
Printed == k.at = "return" /\ Len(k.left) = 1 /\ ~disturbed

\* As long as kernel output and printchar do not interrupt each other, both write to
\* the screen only. Between x++ and the test that follows it the cursor is outside
\* the screen, and printchar would write there.
OnScreen == ~disturbed => pos \in OnScreenCells

\* However they interrupt each other, what is written outside the screen stays
\* within a row and a cell of it: cursor values combined from two writers never
\* add up.
OverrunBounded == x <= COLS /\ y <= ROWS /\ pos \in VideoCells

\* A page is turned once: the banner that con_init prints through write_char does
\* not fill the screen and does not call con_init again.
TurnsOnce == Len(k.left) <= 2

\* printk leaves the cursor at the start of a row that is blank, at the top of the
\* screen as well, and whatever keys were typed before.
FreshLine == Printed => /\ x = 0 /\ y < ROWS
                        /\ \A c \in Cell(y, 0) .. Cell(y, COLS - 1) : screen[c] = Blank

\* A string that fits in the rest of the row stands where it began, with nothing
\* behind it.
TextStands ==
  LET row == text[1]
      end == text[2] + text[3]
  IN  Printed /\ end < COLS =>
        /\ \A col \in text[2] .. end - 1 : screen[Cell(row, col)] = KernelChar
        /\ \A col \in end .. COLS - 1 : screen[Cell(row, col)] = Blank
=============================================================================
