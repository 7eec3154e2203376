--------------------------- MODULE ConsoleProofs ----------------------------
(***************************************************************************)
(* The console, for a screen, a banner and strings of any size: what two   *)
(* writers of one cursor may do to each other, and what one of them leaves *)
(* on the screen.                                                          *)
(***************************************************************************)
EXTENDS Console, SequenceTheorems, TLAPS

\* The banner cannot wrap the screen: that would take a key for every row of it during
\* one printk.
KeysFit == MaxKeys < ROWS

Places ==
    {"idle", "next", "char", "place", "placed", "put", "poke", "step", "stepped", "edge",
     "rows", "row", "below", "col", "left", "page", "con_init", "con_y", "clear", "line",
     "from", "start", "down", "downed", "fits", "until", "top", "end", "again", "erase",
     "return", "cursor", "column", "found", "turned", "turn"}

Registers == [at : Places, t : Nat, ph : Nat, pe : Nat, left : Seq(Nat)]

ConsoleTypeOK ==
    /\ x \in 0 .. COLS /\ y \in 0 .. ROWS /\ pos \in VideoCells
    /\ screen \in [VideoCells -> {Blank, KernelChar, KeyChar}]
    /\ k \in Registers
    /\ text \in (0 .. ROWS - 1) \X (0 .. COLS - 1) \X Nat
    /\ keys \in 0 .. MaxKeys /\ disturbed \in BOOLEAN

\* Where the cursor may be one beyond the screen, whoever interrupts whom.
Wrapping == {"edge", "rows", "row", "below", "col", "left"}
Below == {"col", "left", "page", "con_init", "con_y", "fits", "top", "end", "again"}

Bounds ==
    /\ x = COLS => k.at \in Wrapping
    /\ y = ROWS => k.at \in Below
    /\ k.at \in {"place", "column", "turn"} => k.t < ROWS
    /\ k.at \in {"placed", "poke", "found"} => k.t \in VideoCells
    /\ k.at = "stepped" => k.t <= COLS
    /\ k.at = "row" => k.t <= 1
    /\ k.at \in {"below", "downed"} => k.t <= ROWS
    /\ k.at = "left" => k.t < COLS
    /\ k.at = "idle" <=> k.left = <<>>

-----------------------------------------------------------------------------
(* Turning the page: the banner and the keys *)

\* What con_init has printed of its banner.
Shown == BANNER - k.left[1]

\* While the banner is printed, the cursor is at most a row further down for every
\* key, and a row less where keys moved it on within its row.
Behind ==
    /\ k.at \in {"next", "edge", "page", "rows"} => y <= keys /\ (x > Shown => y < keys)
    /\ k.at \in {"char", "place", "placed", "put", "poke", "step"} =>
         y <= keys /\ (x >= Shown => y < keys)
    /\ k.at \in {"stepped", "left"} => y <= keys /\ (k.t > Shown => y < keys)
    /\ k.at = "row" => y + k.t <= keys /\ (Shown < x /\ x < COLS => y + k.t < keys)
    /\ k.at = "below" => k.t <= keys /\ (Shown < x /\ x < COLS => k.t < keys)
    /\ k.at = "col" => y <= keys /\ (Shown < x /\ x < COLS => y < keys)

Turns ==
    /\ Len(k.left) <= 2
    /\ k.at = "con_y" => (x > 0 => keys > 0)
    /\ k.at = "clear" => y <= keys /\ (x > 0 => y < keys)
    /\ Len(k.left) = 2 =>
        /\ k.left[1] <= BANNER
        /\ k.at \notin {"con_init", "con_y", "clear", "cursor", "column", "found", "turned",
                       "turn"}
        /\ Behind

-----------------------------------------------------------------------------
(* Kernel output alone *)

RowBlank(row) == \A c \in Cell(row, 0) .. Cell(row, COLS - 1) : screen[c] = Blank

\* The cursor column and the part that println will erase, with the row below it at r.
Erasing(r) == x = 0 /\ Cell(r - 1, 0) <= k.ph /\ k.ph < Cell(r, 0)

Alone ==
    /\ pos \in OnScreenCells
    /\ k.at \in {"placed", "poke", "found"} => k.t \in OnScreenCells
    /\ k.at \in {"place", "from"} => k.t = y
    /\ k.at = "stepped" => k.t = x + 1
    /\ k.at = "start" => k.ph = Cell(y, x)
    /\ k.at \in {"down", "downed"} => Erasing(y + 1)
    /\ k.at = "downed" => k.t = y + 1
    /\ k.at \in {"fits", "until", "top", "end", "again"} => Erasing(y) /\ y >= 1
    /\ k.at \in {"top", "end", "again"} => y = ROWS
    /\ k.at \in {"end", "again"} => RowBlank(0)
    /\ k.at = "again" => k.pe = Cell(ROWS, 0)
    /\ k.at = "erase" =>
        /\ x = 0 /\ y < ROWS
        /\ \/ k.pe = Cell(y + 1, 0) /\ k.ph < Cell(y, 0)
           \/ y = 0 /\ RowBlank(0) /\ k.pe = Cell(ROWS, 0)
    /\ k.at = "return" => x = 0 /\ y < ROWS /\ RowBlank(y)

-----------------------------------------------------------------------------
(* A string that fits in the rest of its row *)

\* How many characters of it were taken, and that the first n are on the screen.
Taken == text[3] - k.left[1]
Shows(n) == \A c \in text[2] .. text[2] + n - 1 : screen[Cell(text[1], c)] = KernelChar
BlankBehind == \A c \in text[2] + text[3] .. COLS - 1 : screen[Cell(text[1], c)] = Blank

\* Where printk does not come, or only for another string.
Elsewhere ==
    {"rows", "row", "below", "col", "left", "con_init", "con_y", "clear", "cursor",
     "column", "found", "turned", "turn"}
InRow ==
    {"next", "char", "place", "placed", "put", "poke", "step", "stepped", "edge", "page",
     "line", "from", "start", "down", "downed"}
Feeding == {"start", "down", "downed", "fits", "until", "top", "end", "again", "erase"}

Printing ==
    /\ Len(k.left) = 1 /\ k.left[1] <= text[3]
    /\ k.at \notin Elsewhere
    /\ k.at \in InRow => y = text[1]
    /\ k.at \in {"next", "edge", "page"} => x = text[2] + Taken /\ Shows(Taken)
    /\ k.at \in {"char", "place", "placed", "put", "poke"} =>
         x = text[2] + Taken - 1 /\ Taken >= 1 /\ Shows(Taken - 1)
    /\ k.at \in {"step", "stepped"} => x = text[2] + Taken - 1 /\ Taken >= 1 /\ Shows(Taken)
    /\ k.at = "put" => pos = Cell(y, x)
    /\ k.at \in {"placed", "poke"} => k.t = Cell(y, x)
    /\ k.at \in {"line", "from", "return"} \cup Feeding => Shows(text[3])
    /\ k.at \in {"line", "from", "start"} => x = text[2] + text[3]
    /\ k.at \in Feeding => k.ph = Cell(text[1], text[2] + text[3])
    /\ k.at \in {"fits", "until", "top", "end", "again"} => y = text[1] + 1
    /\ k.at = "erase" => k.pe >= Cell(text[1] + 1, 0)
    /\ k.at = "return" => BlankBehind

Fits == text[2] + text[3] < COLS
Standing == k.at # "idle" /\ Fits => Printing

ConsoleInv ==
    /\ ConsoleTypeOK /\ Bounds
    /\ ~disturbed => Alone /\ Standing

PagesInv == KeysFit => Turns

-----------------------------------------------------------------------------
(* Lemmas on cells and on division *)

LEMMA CellNat == \A row, col \in Nat : Cell(row, col) \in Nat
BY ConsoleAssumption, SMT DEF Cell

LEMMA CellInRow == \A row, col \in Nat : Cell(row, col) = Cell(row, 0) + col
BY ConsoleAssumption, SMT DEF Cell

LEMMA CellBelow == \A row \in Nat : Cell(row + 1, 0) = Cell(row, 0) + COLS
BY ConsoleAssumption, SMT DEF Cell

LEMMA CellZero == Cell(0, 0) = 0
BY ConsoleAssumption, SMT DEF Cell

LEMMA CellOrder ==
    ASSUME NEW a \in Nat, NEW b \in Nat, a <= b
    PROVE  Cell(a, 0) <= Cell(b, 0)
<1>1. PICK d \in Nat : b = a + d
    <2>1. b - a \in Nat /\ b = a + (b - a)
        OBVIOUS
    <2> QED
        BY <2>1
<1>2. COLS * b = COLS * a + COLS * d /\ COLS * d \in Nat
    BY <1>1, ConsoleAssumption, SMT
<1> QED
    BY <1>2, ConsoleAssumption, SMT DEF Cell

LEMMA Lines == VideoCells = 0 .. Cell(ROWS, 0) + COLS /\ OnScreenCells = 0 .. Cell(ROWS, 0) - 1
BY ConsoleAssumption, CellInRow, SMT DEF VideoCells, OnScreenCells, Cell

LEMMA RowNat == \A row \in Nat : Cell(row, 0) \in Nat
BY CellNat

\* A cell of a row of the screen.
LEMMA CellOn ==
    ASSUME NEW row \in Nat, NEW col \in Nat, row < ROWS, col < COLS
    PROVE  Cell(row, col) \in OnScreenCells /\ Cell(row, col) < Cell(row + 1, 0)
<1>1. row + 1 \in Nat /\ ROWS \in Nat /\ row + 1 <= ROWS /\ COLS \in Nat
    BY ConsoleAssumption
<1>2. Cell(row + 1, 0) <= Cell(ROWS, 0)
    BY <1>1, CellOrder
<1>3. Cell(row, col) = Cell(row, 0) + col /\ Cell(row + 1, 0) = Cell(row, 0) + COLS
    BY CellInRow, CellBelow
<1>4. Cell(row, 0) \in Nat /\ Cell(ROWS, 0) \in Nat
    BY <1>1, RowNat
<1>5. Cell(row, col) \in 0 .. Cell(ROWS, 0) - 1 /\ Cell(row, col) < Cell(row + 1, 0)
    BY <1>1, <1>2, <1>3, <1>4
<1> QED
    BY <1>5, Lines

\* A cell where the cursor may be one beyond the screen.
LEMMA CellVideo ==
    ASSUME NEW row \in Nat, NEW col \in Nat, row <= ROWS, col <= COLS
    PROVE  Cell(row, col) \in VideoCells
<1>1. ROWS \in Nat /\ COLS \in Nat
    BY ConsoleAssumption
<1>2. Cell(row, 0) <= Cell(ROWS, 0)
    BY <1>1, CellOrder
<1>3. Cell(row, 0) \in Nat /\ Cell(ROWS, 0) \in Nat
    BY <1>1, RowNat
<1>4. Cell(row, col) \in 0 .. Cell(ROWS, 0) + COLS
    BY <1>1, <1>2, <1>3, CellInRow
<1> QED
    BY <1>4, Lines

LEMMA OnIsVideo == OnScreenCells \subseteq VideoCells
<1>1. Cell(ROWS, 0) \in Nat /\ COLS \in Nat
    BY RowNat, ConsoleAssumption
<1>2. 0 .. Cell(ROWS, 0) - 1 \subseteq 0 .. Cell(ROWS, 0) + COLS
    BY <1>1
<1> QED
    BY <1>2, Lines

\* A row ends before the next one begins.
LEMMA RowsApart ==
    ASSUME NEW a \in Nat, NEW b \in Nat, a < b, NEW c \in 0 .. COLS - 1
    PROVE  Cell(a, c) < Cell(b, 0)
<1>1. a + 1 \in Nat /\ a + 1 <= b /\ COLS \in Nat
    BY ConsoleAssumption
<1>2. Cell(a + 1, 0) <= Cell(b, 0) /\ Cell(a + 1, 0) = Cell(a, 0) + COLS
    BY <1>1, CellOrder, CellBelow
<1>3. Cell(a, c) = Cell(a, 0) + c /\ Cell(a, 0) \in Nat /\ Cell(b, 0) \in Nat
    BY <1>1, CellInRow, RowNat
<1> QED
    BY <1>1, <1>2, <1>3

\* x++ and y++ go one beyond the screen, no further: division and remainder there.
LEMMA Remainder ==
    ASSUME NEW n \in Nat \ {0}, NEW a \in 0 .. n
    PROVE  /\ a < n => a % n = a /\ a \div n = 0
           /\ a = n => a % n = 0 /\ a \div n = 1
OBVIOUS

-----------------------------------------------------------------------------
(* Lemmas on the strings in progress *)

LEMMA OneFewer ==
    ASSUME NEW s \in Seq(Nat), s # <<>>, s[1] # 0
    PROVE  LET r == [s EXCEPT ![1] = s[1] - 1]
           IN  /\ r \in Seq(Nat) /\ r # <<>> /\ Len(r) = Len(s)
               /\ r[1] = s[1] - 1 /\ s[1] >= 1
OBVIOUS

LEMMA Added ==
    ASSUME NEW s \in Seq(Nat), NEW n \in Nat
    PROVE  /\ <<n>> \o s \in Seq(Nat) /\ <<n>> \o s # <<>>
           /\ Len(<<n>> \o s) = Len(s) + 1 /\ (<<n>> \o s)[1] = n
OBVIOUS

LEMMA Finished ==
    ASSUME NEW s \in Seq(Nat), s # <<>>
    PROVE  /\ Tail(s) \in Seq(Nat) /\ Len(Tail(s)) = Len(s) - 1 /\ Len(s) >= 1
           /\ Tail(s) = <<>> <=> Len(s) = 1
           /\ Head(s) = s[1] /\ s[1] \in Nat
<1>1. Len(s) \in Nat /\ Len(s) >= 1 /\ Head(s) = s[1] /\ s[1] \in Nat
    OBVIOUS
<1>2. Tail(s) \in Seq(Nat) /\ Len(Tail(s)) = Len(s) - 1
    BY <1>1
<1>3. Tail(s) = <<>> <=> Len(Tail(s)) = 0
    BY <1>2, EmptySeq
<1> QED
    BY <1>1, <1>2, <1>3, SMTT(30)

-----------------------------------------------------------------------------
(* What printchar does to the cursor *)

LEMMA KeyMoves ==
    ASSUME ConsoleTypeOK, KeyCursor
    PROVE  /\ \/ x' = x + 1 /\ y' = y
              \/ x' = 0 /\ y' \in 1 .. y + 1
           /\ x' \in 0 .. COLS - 1 /\ y' \in 0 .. ROWS - 1
BY ConsoleAssumption DEF ConsoleTypeOK, KeyCursor

-----------------------------------------------------------------------------
(* What a step of kernel output does to its registers *)

Moves(from, to, t) ==
    /\ k.at = from /\ k'.at = to /\ k'.t = t
    /\ k'.ph = k.ph /\ k'.pe = k.pe /\ k'.left = k.left
    /\ k' \in Registers

Reads(from, to, t) ==
    Moves(from, to, t) /\ UNCHANGED <<x, y, pos, screen, text, keys, disturbed>>
WritesX(from, to, v) ==
    Moves(from, to, 0) /\ x' = v /\ UNCHANGED <<y, pos, screen, text, keys, disturbed>>
WritesY(from, to, v) ==
    Moves(from, to, 0) /\ y' = v /\ UNCHANGED <<x, pos, screen, text, keys, disturbed>>
WritesPos(from, to, v) ==
    Moves(from, to, 0) /\ pos' = v /\ UNCHANGED <<x, y, screen, text, keys, disturbed>>

LEMMA LoadMoves ==
    ASSUME ConsoleTypeOK, NEW from, NEW to \in Places, NEW value \in Nat, Load(from, value, to)
    PROVE  Reads(from, to, value)
BY DEF ConsoleTypeOK, Registers, Load, Reads, Moves, cursor, video, echo

LEMMA DoneMoves ==
    ASSUME ConsoleTypeOK, NEW from, NEW to \in Places, Done(from, to)
    PROVE  Moves(from, to, 0)
BY DEF ConsoleTypeOK, Registers, Done, Moves

LEMMA GotoMoves ==
    ASSUME ConsoleTypeOK, NEW from, NEW to \in Places, Goto(from, to)
    PROVE  Moves(from, to, k.t)
BY DEF ConsoleTypeOK, Registers, Goto, Moves

LEMMA TestMoves ==
    ASSUME ConsoleTypeOK, NEW from, NEW condition, NEW yes \in Places, NEW no \in Places,
           Test(from, condition, yes, no)
    PROVE  Reads(from, IF condition THEN yes ELSE no, k.t)
BY GotoMoves DEF Test, Reads, cursor, video, echo

LEMMA StoreXMoves ==
    ASSUME ConsoleTypeOK, NEW from, NEW to \in Places, NEW value, StoreX(from, value, to)
    PROVE  WritesX(from, to, value)
BY DoneMoves DEF StoreX, WritesX, video, echo

LEMMA StoreYMoves ==
    ASSUME ConsoleTypeOK, NEW from, NEW to \in Places, NEW value, StoreY(from, value, to)
    PROVE  WritesY(from, to, value)
BY DoneMoves DEF StoreY, WritesY, video, echo

LEMMA AllPlaces ==
    /\ "idle" \in Places /\ "next" \in Places /\ "char" \in Places /\ "place" \in Places
    /\ "put" \in Places /\ "step" \in Places /\ "stepped" \in Places /\ "edge" \in Places
    /\ "rows" \in Places /\ "row" \in Places /\ "below" \in Places /\ "col" \in Places
    /\ "left" \in Places /\ "page" \in Places /\ "con_init" \in Places /\ "con_y" \in Places
    /\ "clear" \in Places /\ "line" \in Places /\ "from" \in Places /\ "start" \in Places
    /\ "down" \in Places /\ "downed" \in Places /\ "fits" \in Places /\ "until" \in Places
    /\ "top" \in Places /\ "end" \in Places /\ "again" \in Places /\ "erase" \in Places
    /\ "return" \in Places /\ "cursor" \in Places /\ "turned" \in Places /\ "turn" \in Places
    /\ "placed" \in Places /\ "poke" \in Places /\ "column" \in Places /\ "found" \in Places
BY DEF Places

LEMMA StorePosMoves ==
    ASSUME ConsoleTypeOK, NEW from, NEW to \in Places, StorePos(from, to)
    PROVE  WritesPos(from, to, k.t)
BY DoneMoves DEF StorePos, WritesPos, cursor, echo

\* The cell of a row and a column is a number that fits a register.
LEMMA CellFits ==
    ASSUME ConsoleTypeOK
    PROVE  y \in Nat /\ pos \in Nat /\ Cell(k.t, x) \in Nat
<1>1. k.t \in Nat /\ x \in Nat /\ y \in Nat /\ pos \in VideoCells
    BY ConsoleAssumption DEF ConsoleTypeOK, Registers
<1>2. VideoCells \subseteq Nat
    BY DEF VideoCells
<1> QED
    BY <1>1, <1>2, CellNat

LEMMA PlaceMoves ==
    ASSUME ConsoleTypeOK, Place
    PROVE  \/ Reads("char", "place", y)
           \/ Reads("place", "placed", Cell(k.t, x))
           \/ WritesPos("placed", "put", k.t)
<1>1. CASE Load("char", y, "place")
    BY <1>1, AllPlaces, CellFits, LoadMoves
<1>2. CASE Load("place", Cell(k.t, x), "placed")
    BY <1>2, AllPlaces, CellFits, LoadMoves
<1>3. CASE StorePos("placed", "put")
    BY <1>3, AllPlaces, StorePosMoves
<1> QED
    BY <1>1, <1>2, <1>3 DEF Place

LEMMA PutMoves ==
    ASSUME ConsoleTypeOK, Put
    PROVE  \/ Reads("put", "poke", pos)
           \/ /\ Moves("poke", "step", 0) /\ UNCHANGED <<x, y, pos, text, keys, disturbed>>
              /\ screen' = [screen EXCEPT ![k.t] = KernelChar]
<1>1. CASE Load("put", pos, "poke")
    BY <1>1, AllPlaces, CellFits, LoadMoves
<1>2. CASE Done("poke", "step") /\ screen' = [screen EXCEPT ![k.t] = KernelChar]
           /\ UNCHANGED <<cursor, pos, echo>>
    BY <1>2, AllPlaces, DoneMoves DEF cursor, echo
<1> QED
    BY <1>1, <1>2 DEF Put

LEMMA AdvanceMoves ==
    ASSUME ConsoleTypeOK, Advance
    PROVE  Reads("step", "stepped", x + 1) \/ WritesX("stepped", "edge", k.t)
<1>1. CASE Load("step", x + 1, "stepped")
    BY <1>1, AllPlaces, LoadMoves, ConsoleAssumption DEF ConsoleTypeOK
<1>2. CASE StoreX("stepped", k.t, "edge")
    BY <1>2, AllPlaces, StoreXMoves
<1> QED
    BY <1>1, <1>2 DEF Advance

\* A character that fills its row moves the cursor to the row below.
LEMMA WrapMoves ==
    ASSUME ConsoleTypeOK, Wrap
    PROVE  \/ x < COLS /\ Reads("edge", "page", k.t)
           \/ x = COLS /\ Reads("edge", "rows", k.t)
           \/ Reads("rows", "row", IF x = COLS THEN 1 ELSE 0)
           \/ Reads("row", "below", y + k.t)
           \/ WritesY("below", "col", k.t)
           \/ Reads("col", "left", IF x = COLS THEN 0 ELSE x)
           \/ WritesX("left", "page", k.t)
<1>0. x \in 0 .. COLS /\ y \in Nat /\ k.t \in Nat /\ COLS \in Nat \ {0}
    BY ConsoleAssumption DEF ConsoleTypeOK, Registers
<1>1. x % COLS = (IF x = COLS THEN 0 ELSE x) /\ x \div COLS = (IF x = COLS THEN 1 ELSE 0)
    BY <1>0, Remainder
<1>2. CASE Test("edge", x >= COLS, "rows", "page")
    <2>1. Reads("edge", IF x >= COLS THEN "rows" ELSE "page", k.t)
        BY <1>2, AllPlaces, TestMoves
    <2> QED
        BY <2>1, <1>0
<1>3. CASE Load("rows", x \div COLS, "row")
    <2>1. x \div COLS \in Nat
        BY <1>0, <1>1
    <2>2. Reads("rows", "row", x \div COLS)
        BY <1>3, <2>1, AllPlaces, LoadMoves
    <2> QED
        BY <2>2, <1>1
<1>4. CASE Load("row", y + k.t, "below")
    BY <1>0, <1>4, AllPlaces, LoadMoves
<1>5. CASE StoreY("below", k.t, "col")
    BY <1>5, AllPlaces, StoreYMoves
<1>6. CASE Load("col", x % COLS, "left")
    <2>1. x % COLS \in Nat
        BY <1>0, <1>1
    <2>2. Reads("col", "left", x % COLS)
        BY <1>6, <2>1, AllPlaces, LoadMoves
    <2> QED
        BY <2>2, <1>1
<1>7. CASE StoreX("left", k.t, "page")
    BY <1>7, AllPlaces, StoreXMoves
<1> QED
    BY <1>2, <1>3, <1>4, <1>5, <1>6, <1>7 DEF Wrap

LEMMA PageMoves ==
    ASSUME ConsoleTypeOK, Page
    PROVE  \/ y = ROWS /\ Reads("page", "con_init", k.t)
           \/ y < ROWS /\ Reads("page", "next", k.t)
<1>1. Reads("page", IF y >= ROWS THEN "con_init" ELSE "next", k.t)
    BY AllPlaces, TestMoves DEF Page
<1> QED
    BY <1>1, ConsoleAssumption DEF ConsoleTypeOK

LEMMA TurnedMoves ==
    ASSUME ConsoleTypeOK, Bounds, Turned
    PROVE  Reads("turned", "turn", y) \/ WritesY("turn", "next", k.t)
<1>1. CASE Load("turned", y % ROWS, "turn")
    <2>1. y \in 0 .. ROWS /\ y < ROWS /\ ROWS \in Nat \ {0}
        BY <1>1, ConsoleAssumption DEF Load, ConsoleTypeOK, Bounds, Below
    <2>2. y % ROWS = y
        BY <2>1, Remainder
    <2> QED
        BY <1>1, <2>1, <2>2, AllPlaces, LoadMoves
<1>2. CASE StoreY("turn", k.t, "next")
    BY <1>2, AllPlaces, StoreYMoves
<1> QED
    BY <1>1, <1>2 DEF Turned

\* The next character of the string, or its end.
LEMMA NextCharMoves ==
    ASSUME ConsoleTypeOK, Bounds, NextChar
    PROVE  /\ UNCHANGED <<x, y, pos, screen, text, keys, disturbed>>
           /\ k.at = "next" /\ k.left \in Seq(Nat) /\ k.left # <<>> /\ k' \in Registers
           /\ k'.left # <<>> /\ Len(k'.left) = Len(k.left) /\ k'.t = k.t
           /\ \/ k.left[1] = 0 /\ k'.at = "line" /\ k'.left = k.left
              \/ k.left[1] >= 1 /\ k'.at = "char" /\ k'.left[1] = k.left[1] - 1
<1>1. k \in Registers /\ k.left \in Seq(Nat) /\ k.left # <<>> /\ k.at = "next"
    BY DEF ConsoleTypeOK, Registers, Bounds, NextChar
<1>2. Head(k.left) = k.left[1]
    BY <1>1, Finished
<1>3. UNCHANGED <<x, y, pos, screen, text, keys, disturbed>>
    BY DEF NextChar, cursor, video, echo
<1>4. CASE k.left[1] = 0
    <2>1. k' = [k EXCEPT !.at = "line"]
        BY <1>2, <1>4 DEF NextChar
    <2>2. k' \in Registers /\ k'.at = "line" /\ k'.left = k.left /\ k'.t = k.t
        BY <1>1, <2>1, AllPlaces DEF Registers
    <2> QED
        BY <1>1, <1>3, <1>4, <2>2
<1>5. CASE k.left[1] # 0
    <2> DEFINE rest == [k.left EXCEPT ![1] = k.left[1] - 1]
    <2>1. /\ rest \in Seq(Nat) /\ rest # <<>> /\ Len(rest) = Len(k.left)
          /\ rest[1] = k.left[1] - 1 /\ k.left[1] >= 1
        BY <1>1, <1>5, OneFewer
    <2>2. k' = [k EXCEPT !.at = "char", !.left = rest]
        BY <1>2, <1>5 DEF NextChar
    <2> HIDE DEF rest
    <2>3. k' \in Registers /\ k'.at = "char" /\ k'.left = rest /\ k'.t = k.t
        BY <1>1, <2>1, <2>2, AllPlaces DEF Registers
    <2> QED
        BY <1>1, <1>3, <2>1, <2>3
<1> QED
    BY <1>4, <1>5

LEMMA NewLineMoves ==
    ASSUME ConsoleTypeOK, NewLine
    PROVE  \/ Reads("line", "from", y)
           \/ /\ k.at = "from" /\ k'.at = "start" /\ k'.left = k.left /\ k' \in Registers
              /\ k'.ph = Cell(k.t, x) /\ UNCHANGED <<x, y, pos, screen, text, keys, disturbed>>
           \/ WritesX("start", "down", 0)
           \/ Reads("down", "downed", y + 1)
           \/ WritesY("downed", "fits", k.t)
           \/ y < ROWS /\ Reads("fits", "until", k.t)
           \/ y = ROWS /\ Reads("fits", "top", k.t)
<1>0. x \in Nat /\ y \in 0 .. ROWS /\ ROWS \in Nat /\ k.t \in Nat /\ k \in Registers
    BY ConsoleAssumption DEF ConsoleTypeOK, Registers
<1>1. CASE Load("line", y, "from")
    BY <1>0, <1>1, AllPlaces, LoadMoves
<1>2. CASE /\ k.at = "from" /\ k' = [k EXCEPT !.at = "start", !.t = 0, !.ph = Cell(k.t, x)]
           /\ UNCHANGED <<cursor, video, echo>>
    <2>1. Cell(k.t, x) \in Nat
        BY <1>0, CellNat
    <2>2. k' \in Registers /\ k'.at = "start" /\ k'.left = k.left /\ k'.ph = Cell(k.t, x)
        BY <1>0, <1>2, <2>1, AllPlaces DEF Registers
    <2> QED
        BY <1>2, <2>2 DEF cursor, video, echo
<1>3. CASE StoreX("start", 0, "down")
    BY <1>3, AllPlaces, StoreXMoves
<1>4. CASE Load("down", y + 1, "downed")
    BY <1>0, <1>4, AllPlaces, LoadMoves
<1>5. CASE StoreY("downed", k.t, "fits")
    BY <1>5, AllPlaces, StoreYMoves
<1>6. CASE Test("fits", y < ROWS, "until", "top")
    <2>1. Reads("fits", IF y < ROWS THEN "until" ELSE "top", k.t)
        BY <1>6, AllPlaces, TestMoves
    <2> QED
        BY <2>1, <1>0
<1> QED
    BY <1>1, <1>2, <1>3, <1>4, <1>5, <1>6 DEF NewLine

LEMMA UntilMoves ==
    ASSUME ConsoleTypeOK, UntilEndOfNext
    PROVE  /\ k.at = "until" /\ k'.at = "erase" /\ k' \in Registers
           /\ k'.pe = Cell(y + 1, 0) /\ k'.ph = k.ph /\ k'.left = k.left
           /\ UNCHANGED <<x, y, pos, screen, text, keys, disturbed>>
<1>1. y + 1 \in Nat /\ k \in Registers
    BY ConsoleAssumption DEF ConsoleTypeOK
<1>2. Cell(y + 1, 0) \in Nat
    BY <1>1, CellNat
<1> QED
    BY <1>1, <1>2, AllPlaces DEF UntilEndOfNext, Registers, cursor, video, echo

LEMMA TopMoves ==
    ASSUME ConsoleTypeOK, Top
    PROVE  \/ /\ Moves("top", "end", k.t) /\ UNCHANGED <<x, y, pos, text, keys, disturbed>>
              /\ screen' = Erase(0, COLS)
           \/ /\ k.at = "end" /\ k'.at = "again" /\ k' \in Registers
              /\ k'.pe = Cell(y, 0) /\ k'.ph = k.ph /\ k'.left = k.left
              /\ UNCHANGED <<x, y, pos, screen, text, keys, disturbed>>
           \/ WritesY("again", "erase", 0)
<1>0. y \in Nat /\ k \in Registers
    BY ConsoleAssumption DEF ConsoleTypeOK
<1>1. CASE Goto("top", "end") /\ screen' = Erase(0, COLS) /\ UNCHANGED <<cursor, pos, echo>>
    BY <1>1, AllPlaces, GotoMoves DEF cursor, echo
<1>2. CASE /\ k.at = "end" /\ k' = [k EXCEPT !.at = "again", !.pe = Cell(y, 0)]
           /\ UNCHANGED <<cursor, video, echo>>
    <2>1. Cell(y, 0) \in Nat /\ k \in Registers
        BY <1>0, CellNat
    <2> QED
        BY <1>2, <2>1, AllPlaces DEF Registers, cursor, video, echo
<1>3. CASE StoreY("again", 0, "erase")
    BY <1>3, AllPlaces, StoreYMoves
<1> QED
    BY <1>1, <1>2, <1>3 DEF Top

LEMMA EraseLineMoves ==
    ASSUME ConsoleTypeOK, EraseLine
    PROVE  /\ k.at = "erase" /\ k'.at = "return" /\ k' \in Registers /\ k'.left = k.left
           /\ screen' = Erase(k.ph, k.pe) /\ UNCHANGED <<x, y, pos, text, keys, disturbed>>
BY AllPlaces DEF ConsoleTypeOK, EraseLine, Registers, cursor, echo

\* A string is printed: printk returns, or con_init goes on after its banner.
LEMMA ReturnMoves ==
    ASSUME ConsoleTypeOK, Bounds, Return
    PROVE  /\ UNCHANGED <<x, y, pos, screen, text, keys, disturbed>>
           /\ k.at = "return" /\ k' \in Registers /\ Len(k.left) \in Nat \ {0}
           /\ Len(k'.left) = Len(k.left) - 1
           /\ \/ k'.at = "idle" /\ Len(k.left) = 1 /\ k'.left = <<>>
              \/ k'.at = "cursor" /\ Len(k.left) # 1 /\ k'.left # <<>>
<1>1. k \in Registers /\ k.left \in Seq(Nat) /\ k.left # <<>> /\ k.at = "return"
    BY DEF ConsoleTypeOK, Registers, Bounds, Return
<1> DEFINE rest == Tail(k.left)
<1>2. /\ rest \in Seq(Nat) /\ Len(rest) = Len(k.left) - 1 /\ (rest = <<>> <=> Len(k.left) = 1)
      /\ Len(k.left) \in Nat \ {0}
    BY <1>1, Finished, EmptySeq
<1>3. k' = [k EXCEPT !.at = IF Len(k.left) = 1 THEN "idle" ELSE "cursor", !.left = rest]
    BY DEF Return
<1> HIDE DEF rest
<1>4. /\ k' \in Registers /\ k'.left = rest
      /\ k'.at = IF Len(k.left) = 1 THEN "idle" ELSE "cursor"
    BY <1>1, <1>2, <1>3, AllPlaces DEF Registers
<1>5. UNCHANGED <<x, y, pos, screen, text, keys, disturbed>>
    BY DEF Return, cursor, video, echo
<1> QED
    BY <1>1, <1>2, <1>4, <1>5

LEMMA HomeMoves ==
    ASSUME ConsoleTypeOK, Home
    PROVE  WritesX("con_init", "con_y", 0) \/ WritesY("con_y", "clear", 0)
BY AllPlaces, StoreXMoves, StoreYMoves DEF Home

LEMMA ClearScreenMoves ==
    ASSUME ConsoleTypeOK, ClearScreen
    PROVE  /\ k.at = "clear" /\ k'.at = "next" /\ k' \in Registers /\ k'.left # <<>>
           /\ Len(k'.left) = Len(k.left) + 1 /\ k'.left[1] = BANNER
           /\ screen' = Erase(0, COLS * ROWS) /\ UNCHANGED <<x, y, pos, text, keys, disturbed>>
<1> DEFINE more == <<BANNER>> \o k.left
<1>1. k \in Registers /\ k.left \in Seq(Nat) /\ BANNER \in Nat
    BY ConsoleAssumption DEF ConsoleTypeOK, Registers
<1>2. more \in Seq(Nat) /\ more # <<>> /\ Len(more) = Len(k.left) + 1 /\ more[1] = BANNER
    BY <1>1, Added
<1>3. k' = [k EXCEPT !.at = "next", !.left = more]
    BY DEF ClearScreen
<1> HIDE DEF more
<1>4. k' \in Registers /\ k'.left = more /\ k'.at = "next"
    BY <1>1, <1>2, <1>3, AllPlaces DEF Registers
<1> QED
    BY <1>2, <1>4 DEF ClearScreen, cursor, echo

LEMMA UpdateCursorMoves ==
    ASSUME ConsoleTypeOK, UpdateCursor
    PROVE  \/ Reads("cursor", "column", y)
           \/ Reads("column", "found", Cell(k.t, x))
           \/ WritesPos("found", "turned", k.t)
<1>1. CASE Load("cursor", y, "column")
    BY <1>1, AllPlaces, CellFits, LoadMoves
<1>2. CASE Load("column", Cell(k.t, x), "found")
    BY <1>2, AllPlaces, CellFits, LoadMoves
<1>3. CASE StorePos("found", "turned")
    BY <1>3, AllPlaces, StorePosMoves
<1> QED
    BY <1>1, <1>2, <1>3 DEF UpdateCursor

LEMMA PrintkMoves ==
    ASSUME ConsoleTypeOK, NEW n \in Lengths, Printk(n)
    PROVE  /\ k.at = "idle" /\ k'.at = "next" /\ k' \in Registers /\ k'.left = <<n>>
           /\ n \in Nat /\ k'.left # <<>>
           /\ text' = <<y, x, n>> /\ keys' = 0 /\ UNCHANGED <<x, y, pos, screen, disturbed>>
<1>1. k \in Registers /\ n \in Nat /\ <<n>> \in Seq(Nat) /\ <<n>> # <<>>
    BY ConsoleAssumption DEF ConsoleTypeOK
<1> QED
    BY <1>1, AllPlaces DEF Printk, Registers, cursor, video

-----------------------------------------------------------------------------
(* Types and bounds, whoever interrupts whom *)

LEMMA EraseType ==
    ASSUME ConsoleTypeOK, NEW from, NEW to
    PROVE  Erase(from, to) \in [VideoCells -> {Blank, KernelChar, KeyChar}]
BY DEF ConsoleTypeOK, Erase

LEMMA KernelBounded == ConsoleTypeOK /\ Bounds /\ Kernel => ConsoleTypeOK' /\ Bounds'
<1> SUFFICES ASSUME ConsoleTypeOK, Bounds, Kernel PROVE ConsoleTypeOK' /\ Bounds'
    OBVIOUS
<1>0. k.t \in Nat /\ x \in Nat /\ y \in Nat /\ COLS \in Nat \ {0} /\ ROWS \in Nat \ {0, 1}
    BY ConsoleAssumption DEF ConsoleTypeOK, Registers
<1> USE <1>0
<1>2. CASE Place
    <2>1. CASE Reads("char", "place", y)
        BY <2>1 DEF ConsoleTypeOK, Bounds, Wrapping, Below, Moves, Reads
    <2>2. CASE Reads("place", "placed", Cell(k.t, x))
        <3>1. Cell(k.t, x) \in VideoCells
            BY <2>2, CellVideo DEF ConsoleTypeOK, Bounds, Moves, Reads
        <3> QED
            BY <2>2, <3>1 DEF ConsoleTypeOK, Bounds, Wrapping, Below, Moves, Reads
    <2>3. CASE WritesPos("placed", "put", k.t)
        BY <2>3 DEF ConsoleTypeOK, Bounds, Wrapping, Below, Moves, WritesPos
    <2> QED
        BY <1>2, PlaceMoves, <2>1, <2>2, <2>3
<1>3. CASE Put
    <2>1. CASE Reads("put", "poke", pos)
        BY <2>1 DEF ConsoleTypeOK, Bounds, Wrapping, Below, Moves, Reads
    <2>2. CASE k.at = "poke"
        <3>1. /\ Moves("poke", "step", 0) /\ UNCHANGED <<x, y, pos, text, keys, disturbed>>
              /\ screen' = [screen EXCEPT ![k.t] = KernelChar]
            BY <1>3, PutMoves, <2>2 DEF Moves, Reads
        <3>2. screen' \in [VideoCells -> {Blank, KernelChar, KeyChar}]
            BY <3>1 DEF ConsoleTypeOK
        <3>3. ConsoleTypeOK'
            BY <3>1, <3>2 DEF ConsoleTypeOK, Moves
        <3> QED
            BY <3>1, <3>3 DEF ConsoleTypeOK, Bounds, Wrapping, Below, Moves
    <2> QED
        BY <1>3, PutMoves, <2>1, <2>2 DEF Moves
<1>4. CASE Advance
    <2>1. CASE Reads("step", "stepped", x + 1)
        BY <2>1 DEF ConsoleTypeOK, Bounds, Wrapping, Below, Moves, Reads
    <2>2. CASE WritesX("stepped", "edge", k.t)
        BY <2>2 DEF ConsoleTypeOK, Bounds, Wrapping, Below, Moves, WritesX
    <2> QED
        BY <1>4, AdvanceMoves, <2>1, <2>2
<1>5. CASE Wrap
    <2>1. CASE x < COLS /\ Reads("edge", "page", k.t)
        BY <2>1 DEF ConsoleTypeOK, Bounds, Wrapping, Below, Moves, Reads
    <2>2. CASE x = COLS /\ Reads("edge", "rows", k.t)
        BY <2>2 DEF ConsoleTypeOK, Bounds, Wrapping, Below, Moves, Reads
    <2>3. CASE Reads("rows", "row", IF x = COLS THEN 1 ELSE 0)
        BY <2>3 DEF ConsoleTypeOK, Bounds, Wrapping, Below, Moves, Reads
    <2>4. CASE Reads("row", "below", y + k.t)
        BY <2>4 DEF ConsoleTypeOK, Bounds, Wrapping, Below, Moves, Reads
    <2>5. CASE WritesY("below", "col", k.t)
        BY <2>5 DEF ConsoleTypeOK, Bounds, Wrapping, Below, Moves, WritesY
    <2>6. CASE Reads("col", "left", IF x = COLS THEN 0 ELSE x)
        BY <2>6 DEF ConsoleTypeOK, Bounds, Wrapping, Below, Moves, Reads
    <2>7. CASE WritesX("left", "page", k.t)
        BY <2>7 DEF ConsoleTypeOK, Bounds, Wrapping, Below, Moves, WritesX
    <2> QED
        BY <1>5, WrapMoves, <2>1, <2>2, <2>3, <2>4, <2>5, <2>6, <2>7
<1>6. CASE Page
    <2>1. CASE y = ROWS /\ Reads("page", "con_init", k.t)
        BY <2>1 DEF ConsoleTypeOK, Bounds, Wrapping, Below, Moves, Reads
    <2>2. CASE y < ROWS /\ Reads("page", "next", k.t)
        BY <2>2 DEF ConsoleTypeOK, Bounds, Wrapping, Below, Moves, Reads
    <2> QED
        BY <1>6, PageMoves, <2>1, <2>2
<1>7. CASE Turned
    <2>1. CASE Reads("turned", "turn", y)
        BY <2>1 DEF ConsoleTypeOK, Bounds, Wrapping, Below, Moves, Reads
    <2>2. CASE WritesY("turn", "next", k.t)
        BY <2>2 DEF ConsoleTypeOK, Bounds, Wrapping, Below, Moves, WritesY
    <2> QED
        BY <1>7, TurnedMoves, <2>1, <2>2
<1>8. CASE NextChar
    <2>1. CASE k.left[1] = 0 /\ k'.at = "line" /\ k'.left = k.left
        BY <1>8, NextCharMoves, <2>1 DEF ConsoleTypeOK, Bounds, Wrapping, Below, Moves
    <2>2. CASE k.left[1] >= 1 /\ k'.at = "char" /\ k'.left[1] = k.left[1] - 1
        BY <1>8, NextCharMoves, <2>2 DEF ConsoleTypeOK, Bounds, Wrapping, Below, Moves
    <2> QED
        BY <1>8, NextCharMoves, <2>1, <2>2
<1>9. CASE NewLine
    <2>1. CASE Reads("line", "from", y)
        BY <2>1 DEF ConsoleTypeOK, Bounds, Wrapping, Below, Moves, Reads
    <2>2. CASE k.at = "from" /\ k'.at = "start"
        <3>1. k' \in Registers /\ k'.left = k.left /\ UNCHANGED <<x, y, pos, screen, text, keys, disturbed>>
            BY <1>9, NewLineMoves, <2>2 DEF Moves, Reads, WritesX, WritesY
        <3> QED
            BY <2>2, <3>1 DEF ConsoleTypeOK, Bounds, Wrapping, Below
    <2>3. CASE WritesX("start", "down", 0)
        BY <2>3 DEF ConsoleTypeOK, Bounds, Wrapping, Below, Moves, WritesX
    <2>4. CASE Reads("down", "downed", y + 1)
        BY <2>4 DEF ConsoleTypeOK, Bounds, Wrapping, Below, Moves, Reads
    <2>5. CASE WritesY("downed", "fits", k.t)
        BY <2>5 DEF ConsoleTypeOK, Bounds, Wrapping, Below, Moves, WritesY
    <2>6. CASE y < ROWS /\ Reads("fits", "until", k.t)
        BY <2>6 DEF ConsoleTypeOK, Bounds, Wrapping, Below, Moves, Reads
    <2>7. CASE y = ROWS /\ Reads("fits", "top", k.t)
        BY <2>7 DEF ConsoleTypeOK, Bounds, Wrapping, Below, Moves, Reads
    <2> QED
        BY <1>9, NewLineMoves, <2>1, <2>2, <2>3, <2>4, <2>5, <2>6, <2>7
<1>10. CASE UntilEndOfNext
    BY <1>10, UntilMoves DEF ConsoleTypeOK, Bounds, Wrapping, Below, Moves
<1>11. CASE Top
    <2>1. CASE k.at = "top"
        <3>1. /\ Moves("top", "end", k.t) /\ UNCHANGED <<x, y, pos, text, keys, disturbed>>
              /\ screen' = Erase(0, COLS)
            BY <1>11, TopMoves, <2>1 DEF Moves, WritesY
        <3>2. ConsoleTypeOK'
            BY <3>1, EraseType DEF ConsoleTypeOK, Moves
        <3> QED
            BY <3>1, <3>2 DEF ConsoleTypeOK, Bounds, Wrapping, Below, Moves
    <2>2. CASE k.at = "end"
        <3>1. /\ k' \in Registers /\ k'.at = "again" /\ k'.left = k.left
              /\ UNCHANGED <<x, y, pos, screen, text, keys, disturbed>>
            BY <1>11, TopMoves, <2>2 DEF Moves, WritesY
        <3> QED
            BY <2>2, <3>1 DEF ConsoleTypeOK, Bounds, Wrapping, Below
    <2>3. CASE WritesY("again", "erase", 0)
        BY <2>3 DEF ConsoleTypeOK, Bounds, Wrapping, Below, Moves, WritesY
    <2> QED
        BY <1>11, TopMoves, <2>1, <2>2, <2>3 DEF Moves
<1>12. CASE EraseLine
    <2>1. screen' \in [VideoCells -> {Blank, KernelChar, KeyChar}]
        BY <1>12, EraseLineMoves, EraseType
    <2>2. ConsoleTypeOK'
        BY <1>12, EraseLineMoves, <2>1 DEF ConsoleTypeOK, Moves
    <2> QED
        BY <1>12, EraseLineMoves, <2>1, <2>2 DEF ConsoleTypeOK, Bounds, Wrapping, Below, Moves
<1>13. CASE Return
    <2>1. CASE k'.at = "idle" /\ Len(k.left) = 1 /\ k'.left = <<>>
        BY <1>13, ReturnMoves, <2>1 DEF ConsoleTypeOK, Bounds, Wrapping, Below, Moves
    <2>2. CASE k'.at = "cursor" /\ Len(k.left) # 1 /\ k'.left # <<>>
        BY <1>13, ReturnMoves, <2>2 DEF ConsoleTypeOK, Bounds, Wrapping, Below, Moves
    <2> QED
        BY <1>13, ReturnMoves, <2>1, <2>2
<1>14. CASE Home
    <2>1. CASE WritesX("con_init", "con_y", 0)
        BY <2>1 DEF ConsoleTypeOK, Bounds, Wrapping, Below, Moves, WritesX
    <2>2. CASE WritesY("con_y", "clear", 0)
        BY <2>2 DEF ConsoleTypeOK, Bounds, Wrapping, Below, Moves, WritesY
    <2> QED
        BY <1>14, HomeMoves, <2>1, <2>2
<1>15. CASE ClearScreen
    <2>1. screen' \in [VideoCells -> {Blank, KernelChar, KeyChar}]
        BY <1>15, ClearScreenMoves, EraseType
    <2>2. ConsoleTypeOK'
        BY <1>15, ClearScreenMoves, <2>1 DEF ConsoleTypeOK, Moves
    <2> QED
        BY <1>15, ClearScreenMoves, <2>1, <2>2 DEF ConsoleTypeOK, Bounds, Wrapping, Below, Moves
<1>16. CASE UpdateCursor
    <2>1. CASE Reads("cursor", "column", y)
        BY <2>1 DEF ConsoleTypeOK, Bounds, Wrapping, Below, Moves, Reads
    <2>2. CASE Reads("column", "found", Cell(k.t, x))
        <3>1. Cell(k.t, x) \in VideoCells
            BY <2>2, CellVideo DEF ConsoleTypeOK, Bounds, Moves, Reads
        <3> QED
            BY <2>2, <3>1 DEF ConsoleTypeOK, Bounds, Wrapping, Below, Moves, Reads
    <2>3. CASE WritesPos("found", "turned", k.t)
        BY <2>3 DEF ConsoleTypeOK, Bounds, Wrapping, Below, Moves, WritesPos
    <2> QED
        BY <1>16, UpdateCursorMoves, <2>1, <2>2, <2>3
<1> QED
    BY <1>2, <1>3, <1>4, <1>5, <1>6, <1>7, <1>8, <1>9, <1>10, <1>11, <1>12, <1>13, <1>14, <1>15, <1>16 DEF Kernel

LEMMA PrintkBounded ==
    ASSUME ConsoleTypeOK, Bounds, NEW n \in Lengths, Printk(n)
    PROVE  ConsoleTypeOK' /\ Bounds'
<1>1. /\ k.at = "idle" /\ k'.at = "next" /\ k' \in Registers /\ k'.left # <<>> /\ n \in Nat
      /\ text' = <<y, x, n>> /\ keys' = 0 /\ UNCHANGED <<x, y, pos, screen, disturbed>>
    BY PrintkMoves
<1>2. x \in 0 .. COLS - 1 /\ y \in 0 .. ROWS - 1 /\ 0 \in 0 .. MaxKeys
    BY <1>1, ConsoleAssumption DEF ConsoleTypeOK, Bounds, Wrapping, Below
<1>3. text' \in (0 .. ROWS - 1) \X (0 .. COLS - 1) \X Nat
    BY <1>1, <1>2
<1>4. ConsoleTypeOK'
    BY <1>1, <1>2, <1>3 DEF ConsoleTypeOK
<1> QED
    BY <1>1, <1>2, <1>4, ConsoleAssumption DEF ConsoleTypeOK, Bounds

LEMMA PrintCharBounded == ConsoleTypeOK /\ Bounds /\ PrintChar => ConsoleTypeOK' /\ Bounds'
<1> SUFFICES ASSUME ConsoleTypeOK, Bounds, PrintChar PROVE ConsoleTypeOK' /\ Bounds'
    OBVIOUS
<1>1. x' \in 0 .. COLS - 1 /\ y' \in 0 .. ROWS - 1
    BY KeyMoves DEF PrintChar
<1>2. pos' \in VideoCells
    BY CellVideo DEF ConsoleTypeOK, PrintChar
<1>3. keys' \in 0 .. MaxKeys
    BY ConsoleAssumption DEF ConsoleTypeOK, PrintChar
<1>4. screen' \in [VideoCells -> {Blank, KernelChar, KeyChar}]
    BY DEF ConsoleTypeOK, PrintChar
<1>5. UNCHANGED <<k, text>> /\ disturbed' \in BOOLEAN
    BY DEF ConsoleTypeOK, PrintChar
<1>6. ConsoleTypeOK'
    BY <1>1, <1>2, <1>3, <1>4, <1>5, ConsoleAssumption DEF ConsoleTypeOK
<1> QED
    BY <1>1, <1>5, <1>6, ConsoleAssumption DEF Bounds

LEMMA BoundedInit == Init => ConsoleTypeOK /\ Bounds
<1> SUFFICES ASSUME Init PROVE ConsoleTypeOK /\ Bounds
    OBVIOUS
<1>1. Cell(1, 0) = COLS /\ Cell(1, 0) \in VideoCells
    BY CellVideo, CellBelow, CellZero, ConsoleAssumption
<1>2. k \in Registers /\ k.at = "idle" /\ k.left = <<>>
    BY AllPlaces, EmptySeq DEF Init, Registers
<1>3. screen \in [VideoCells -> {Blank, KernelChar, KeyChar}] /\ BANNER \in Nat
    BY ConsoleAssumption DEF Init
<1>4. text = <<0, 0, BANNER>> /\ 0 \in 0 .. ROWS - 1 /\ 0 \in 0 .. COLS - 1
    BY ConsoleAssumption DEF Init
<1>5. text \in (0 .. ROWS - 1) \X (0 .. COLS - 1) \X Nat
    BY <1>3, <1>4
<1>6. x \in 0 .. COLS /\ y \in 0 .. ROWS /\ keys \in 0 .. MaxKeys
    BY ConsoleAssumption DEF Init
<1>7. pos = COLS /\ disturbed = FALSE
    BY DEF Init
<1>8. ConsoleTypeOK
    BY <1>1, <1>2, <1>3, <1>5, <1>6, <1>7 DEF ConsoleTypeOK
<1> QED
    BY <1>2, <1>8, ConsoleAssumption DEF Init, Bounds

LEMMA BoundedNext == ConsoleTypeOK /\ Bounds /\ [Next]_vars => ConsoleTypeOK' /\ Bounds'
<1> SUFFICES ASSUME ConsoleTypeOK, Bounds, [Next]_vars PROVE ConsoleTypeOK' /\ Bounds'
    OBVIOUS
<1>1. CASE Kernel
    BY <1>1, KernelBounded
<1>2. CASE \E n \in Lengths : Printk(n)
    BY <1>2, PrintkBounded
<1>3. CASE PrintChar
    BY <1>3, PrintCharBounded
<1>4. CASE UNCHANGED vars
    BY <1>4 DEF vars, cursor, video, echo, ConsoleTypeOK, Bounds
<1> QED
    BY <1>1, <1>2, <1>3, <1>4 DEF Next

\* However kernel output and the echo of keys interrupt each other, the cursor and the
\* cell written stay within one row and one cell of the screen.
THEOREM ConsoleOverrunBounded == Spec => []OverrunBounded
<1>1. Spec => [](ConsoleTypeOK /\ Bounds)
    BY BoundedInit, BoundedNext, PTL DEF Spec
<1>2. ConsoleTypeOK => OverrunBounded
    BY ConsoleAssumption DEF ConsoleTypeOK, OverrunBounded
<1> QED
    BY <1>1, <1>2, PTL

-----------------------------------------------------------------------------
(* A page is turned once, if the keys fit *)

LEMMA ShownRange ==
    ASSUME ConsoleTypeOK, Len(k.left) = 2, k.left[1] <= BANNER
    PROVE  Shown \in Nat /\ Shown < COLS /\ k.left[1] \in Nat
<1>1. k.left \in Seq(Nat) /\ BANNER \in 0 .. COLS - 1 /\ COLS \in Nat
    BY ConsoleAssumption DEF ConsoleTypeOK, Registers
<1>2. k.left[1] \in Nat
    BY <1>1
<1> QED
    BY <1>1, <1>2 DEF Shown

LEMMA KernelTurns == KeysFit /\ ConsoleTypeOK /\ Bounds /\ Turns /\ Kernel => Turns'
<1> SUFFICES ASSUME KeysFit, ConsoleTypeOK, Bounds, Turns, Kernel PROVE Turns'
    OBVIOUS
<1>0. /\ k.t \in Nat /\ x \in Nat /\ y \in Nat /\ x <= COLS /\ y <= ROWS
      /\ COLS \in Nat \ {0} /\ ROWS \in Nat \ {0, 1}
      /\ keys \in Nat /\ keys < ROWS /\ BANNER \in Nat /\ Len(k.left) \in Nat
    BY ConsoleAssumption DEF ConsoleTypeOK, Registers, KeysFit
<1>s. Len(k.left) = 2 => Shown \in Nat /\ Shown < COLS /\ k.left[1] \in Nat
    BY ShownRange DEF Turns
<1>u. k'.left = k.left => Shown' = Shown
    BY DEF Shown
<1> USE <1>0, <1>s
<1>2. CASE Place
    <2>1. CASE Reads("char", "place", y)
        BY <1>u, <2>1 DEF Turns, Behind, Moves, Reads
    <2>2. CASE Reads("place", "placed", Cell(k.t, x))
        BY <1>u, <2>2 DEF Turns, Behind, Moves, Reads
    <2>3. CASE WritesPos("placed", "put", k.t)
        BY <1>u, <2>3 DEF Turns, Behind, Moves, WritesPos
    <2> QED
        BY <1>2, PlaceMoves, <2>1, <2>2, <2>3
<1>3. CASE Put
    <2>1. CASE Reads("put", "poke", pos)
        BY <1>u, <2>1 DEF Turns, Behind, Moves, Reads
    <2>2. CASE Moves("poke", "step", 0) /\ UNCHANGED <<x, y, keys>>
        BY <1>u, <2>2 DEF Turns, Behind, Moves
    <2> QED
        BY <1>3, PutMoves, <2>1, <2>2
<1>4. CASE Advance
    <2>1. CASE Reads("step", "stepped", x + 1)
        BY <1>u, <2>1 DEF Turns, Behind, Moves, Reads
    <2>2. CASE WritesX("stepped", "edge", k.t)
        BY <1>u, <2>2 DEF Turns, Behind, Moves, WritesX
    <2> QED
        BY <1>4, AdvanceMoves, <2>1, <2>2
<1>5. CASE Wrap
    <2>1. CASE x < COLS /\ Reads("edge", "page", k.t)
        BY <1>u, <2>1 DEF Turns, Behind, Moves, Reads
    <2>2. CASE x = COLS /\ Reads("edge", "rows", k.t)
        BY <1>u, <2>2 DEF Turns, Behind, Moves, Reads
    <2>3. CASE Reads("rows", "row", IF x = COLS THEN 1 ELSE 0)
        BY <1>u, <2>3 DEF Turns, Behind, Moves, Reads
    <2>4. CASE Reads("row", "below", y + k.t)
        BY <1>u, <2>4 DEF Turns, Behind, Moves, Reads
    <2>5. CASE WritesY("below", "col", k.t)
        BY <1>u, <2>5 DEF Turns, Behind, Moves, WritesY
    <2>6. CASE Reads("col", "left", IF x = COLS THEN 0 ELSE x)
        BY <1>u, <2>6 DEF Turns, Behind, Moves, Reads
    <2>7. CASE WritesX("left", "page", k.t)
        BY <1>u, <2>7 DEF Turns, Behind, Moves, WritesX
    <2> QED
        BY <1>5, WrapMoves, <2>1, <2>2, <2>3, <2>4, <2>5, <2>6, <2>7
<1>6. CASE Page
    <2>1. CASE y = ROWS /\ Reads("page", "con_init", k.t)
        BY <1>u, <2>1 DEF Turns, Behind, Moves, Reads
    <2>2. CASE y < ROWS /\ Reads("page", "next", k.t)
        BY <1>u, <2>2 DEF Turns, Behind, Moves, Reads
    <2> QED
        BY <1>6, PageMoves, <2>1, <2>2
<1>7. CASE Turned
    <2>1. CASE Reads("turned", "turn", y)
        BY <1>u, <2>1 DEF Turns, Behind, Moves, Reads
    <2>2. CASE WritesY("turn", "next", k.t)
        BY <1>u, <2>2 DEF Turns, Behind, Moves, WritesY
    <2> QED
        BY <1>7, TurnedMoves, <2>1, <2>2
<1>8. CASE NextChar
    <2>1. /\ UNCHANGED <<x, y, keys>> /\ k.at = "next" /\ Len(k'.left) = Len(k.left)
        BY <1>8, NextCharMoves
    <2>2. CASE k.left[1] = 0 /\ k'.at = "line" /\ k'.left = k.left
        BY <1>u, <2>1, <2>2 DEF Turns, Behind
    <2>3. CASE k.left[1] >= 1 /\ k'.at = "char" /\ k'.left[1] = k.left[1] - 1
        <3>1. Len(k.left) = 2 => Shown' = Shown + 1
            BY <2>3 DEF Shown
        <3>2. Len(k.left) = 2 => y <= keys /\ (x > Shown => y < keys) /\ k.left[1] <= BANNER
            BY <2>1 DEF Turns, Behind
        <3> QED
            BY <2>1, <2>3, <3>1, <3>2 DEF Turns, Behind
    <2> QED
        BY <1>8, NextCharMoves, <2>2, <2>3
<1>9. CASE NewLine
    <2>1. CASE Reads("line", "from", y)
        BY <1>u, <2>1 DEF Turns, Behind, Moves, Reads
    <2>2. CASE k.at = "from" /\ k'.at = "start"
        BY <1>u, <1>9, NewLineMoves, <2>2 DEF Turns, Behind, Moves, Reads, WritesX, WritesY
    <2>3. CASE WritesX("start", "down", 0)
        BY <1>u, <2>3 DEF Turns, Behind, Moves, WritesX
    <2>4. CASE Reads("down", "downed", y + 1)
        BY <1>u, <2>4 DEF Turns, Behind, Moves, Reads
    <2>5. CASE WritesY("downed", "fits", k.t)
        BY <1>u, <2>5 DEF Turns, Behind, Moves, WritesY
    <2>6. CASE y < ROWS /\ Reads("fits", "until", k.t)
        BY <1>u, <2>6 DEF Turns, Behind, Moves, Reads
    <2>7. CASE y = ROWS /\ Reads("fits", "top", k.t)
        BY <1>u, <2>7 DEF Turns, Behind, Moves, Reads
    <2> QED
        BY <1>9, NewLineMoves, <2>1, <2>2, <2>3, <2>4, <2>5, <2>6, <2>7
<1>10. CASE UntilEndOfNext
    BY <1>u, <1>10, UntilMoves DEF Turns, Behind, Moves
<1>11. CASE Top
    <2>1. CASE k.at = "top"
        BY <1>u, <1>11, TopMoves, <2>1 DEF Turns, Behind, Moves, Reads, WritesX, WritesY
    <2>2. CASE k.at = "end"
        BY <1>u, <1>11, TopMoves, <2>2 DEF Turns, Behind, Moves, Reads, WritesX, WritesY
    <2>3. CASE WritesY("again", "erase", 0)
        BY <1>u, <2>3 DEF Turns, Behind, Moves, WritesY
    <2> QED
        BY <1>11, TopMoves, <2>1, <2>2, <2>3 DEF Moves
<1>12. CASE EraseLine
    BY <1>u, <1>12, EraseLineMoves DEF Turns, Behind, Moves
<1>13. CASE Return
    <2>1. k'.at \in {"idle", "cursor"} /\ Len(k'.left) = Len(k.left) - 1
        BY <1>13, ReturnMoves
    <2>2. Len(k.left) <= 2
        BY DEF Turns
    <2>3. Len(k'.left) <= 2 /\ Len(k'.left) # 2
        <3> DEFINE n == Len(k.left)
        <3> DEFINE m == Len(k'.left)
        <3>1. n \in Nat /\ m = n - 1 /\ n <= 2
            BY <2>1, <2>2
        <3> HIDE DEF n, m
        <3>2. m <= 2 /\ m # 2
            BY <3>1
        <3> QED
            BY <3>2 DEF m
    <2> QED
        BY <2>1, <2>3 DEF Turns
<1>14. CASE Home
    <2>1. CASE WritesX("con_init", "con_y", 0)
        BY <1>u, <2>1 DEF Turns, Behind, Moves, WritesX
    <2>2. CASE WritesY("con_y", "clear", 0)
        BY <1>u, <2>2 DEF Turns, Behind, Moves, WritesY
    <2> QED
        BY <1>14, HomeMoves, <2>1, <2>2
<1>15. CASE ClearScreen
    <2>1. /\ UNCHANGED <<x, y, keys>> /\ k.at = "clear" /\ k'.at = "next"
          /\ Len(k'.left) = Len(k.left) + 1 /\ k'.left[1] = BANNER
        BY <1>15, ClearScreenMoves
    <2>2. Len(k.left) # 2 /\ y <= keys /\ (x > 0 => y < keys)
        BY <2>1 DEF Turns
    <2>3. Shown' = 0
        BY <2>1 DEF Shown
    <2>4. Len(k'.left) <= 2
        <3> DEFINE n == Len(k.left)
        <3> DEFINE m == Len(k'.left)
        <3>1. n \in Nat /\ m = n + 1 /\ n <= 2 /\ n # 2
            BY <2>1, <2>2 DEF Turns
        <3> HIDE DEF n, m
        <3>2. m <= 2
            BY <3>1
        <3> QED
            BY <3>2 DEF m
    <2>5. Behind'
        BY <2>1, <2>2, <2>3 DEF Behind
    <2> QED
        BY <2>1, <2>4, <2>5 DEF Turns
<1>16. CASE UpdateCursor
    <2>1. CASE Reads("cursor", "column", y)
        BY <1>u, <2>1 DEF Turns, Behind, Moves, Reads
    <2>2. CASE Reads("column", "found", Cell(k.t, x))
        BY <1>u, <2>2 DEF Turns, Behind, Moves, Reads
    <2>3. CASE WritesPos("found", "turned", k.t)
        BY <1>u, <2>3 DEF Turns, Behind, Moves, WritesPos
    <2> QED
        BY <1>16, UpdateCursorMoves, <2>1, <2>2, <2>3
<1> QED
    BY <1>2, <1>3, <1>4, <1>5, <1>6, <1>7, <1>8, <1>9, <1>10, <1>11, <1>12, <1>13, <1>14, <1>15, <1>16 DEF Kernel

LEMMA PrintCharTurns == KeysFit /\ ConsoleTypeOK /\ Bounds /\ Turns /\ PrintChar => Turns'
<1> SUFFICES ASSUME KeysFit, ConsoleTypeOK, Bounds, Turns, PrintChar PROVE Turns'
    OBVIOUS
<1>0. k.t \in Nat /\ x \in Nat /\ y \in Nat /\ keys \in Nat
    BY ConsoleAssumption DEF ConsoleTypeOK, Registers
<1>1. (k.at # "idle" => keys' = keys + 1) /\ k' = k
    BY DEF PrintChar
<1>2. \/ x' = x + 1 /\ y' = y
      \/ x' = 0 /\ y' \in 1 .. y + 1
    BY KeyMoves DEF PrintChar
<1>3. Shown' = Shown /\ (Len(k.left) = 2 => Shown \in Nat /\ Shown < COLS)
    BY <1>1, ShownRange DEF Shown, Turns
<1>4. ASSUME Len(k.left) = 2 PROVE Behind'
    <2>1. Behind /\ Shown \in Nat /\ keys' = keys + 1
        BY <1>1, <1>3, <1>4, EmptySeq DEF Turns, Bounds
    <2>2. CASE x' = x + 1 /\ y' = y
        BY <1>0, <1>1, <1>3, <2>1, <2>2 DEF Behind
    <2>3. CASE x' = 0 /\ y' \in 1 .. y + 1
        BY <1>0, <1>1, <1>3, <2>1, <2>3 DEF Behind
    <2> QED
        BY <1>2, <2>2, <2>3
<1>5. k.at = "con_y" => keys' > 0
    BY <1>0, <1>1
<1>6. k.at = "clear" => y' <= keys' /\ (x' > 0 => y' < keys')
    BY <1>0, <1>1, <1>2 DEF Turns
<1> QED
    BY <1>1, <1>4, <1>5, <1>6 DEF Turns

LEMMA TurnsNext == KeysFit /\ ConsoleTypeOK /\ Bounds /\ Turns /\ [Next]_vars => Turns'
<1> SUFFICES ASSUME KeysFit, ConsoleTypeOK, Bounds, Turns, [Next]_vars PROVE Turns'
    OBVIOUS
<1>1. CASE Kernel
    BY <1>1, KernelTurns
<1>2. CASE \E n \in Lengths : Printk(n)
    <2>1. PICK n \in Lengths : Printk(n)
        BY <1>2
    <2>2. k'.left = <<n>> /\ k'.at = "next"
        BY <2>1, PrintkMoves
    <2>3. Len(k'.left) = 1 /\ k'.at = "next"
        BY <2>2
    <2> QED
        BY <2>3 DEF Turns
<1>3. CASE PrintChar
    BY <1>3, PrintCharTurns
<1>4. CASE UNCHANGED vars
    BY <1>4 DEF vars, cursor, video, echo, Turns, Behind, Shown
<1> QED
    BY <1>1, <1>2, <1>3, <1>4 DEF Next

\* As long as fewer keys are typed during one printk than the screen has rows, the
\* banner that con_init prints through write_char does not fill the screen and call
\* con_init again. What is typed between two printks does not count.
THEOREM ConsoleTurnsOnce == KeysFit => (Spec => []TurnsOnce)
<1> SUFFICES ASSUME KeysFit PROVE Spec => []TurnsOnce
    OBVIOUS
<1>1. Init => ConsoleTypeOK /\ Bounds /\ Turns
    <2>1. Init => Len(k.left) = 0 /\ k.at = "idle"
        BY DEF Init
    <2> QED
        BY <2>1, BoundedInit DEF Turns
<1>2. ConsoleTypeOK /\ Bounds /\ Turns /\ [Next]_vars => (ConsoleTypeOK /\ Bounds /\ Turns)'
    BY BoundedNext, TurnsNext
<1>3. Turns => TurnsOnce
    BY DEF Turns, TurnsOnce
<1> QED
    BY <1>1, <1>2, <1>3, PTL DEF Spec

-----------------------------------------------------------------------------
(* Kernel output that no key interrupts *)

\* The cells of a row of the screen lie between the first one of it and of the next.
LEMMA RowCells ==
    ASSUME NEW row \in Nat, row < ROWS
    PROVE  \A c \in Cell(row, 0) .. Cell(row, COLS - 1) :
             c \in VideoCells /\ Cell(row, 0) <= c /\ c < Cell(row + 1, 0)
<1>1. COLS \in Nat /\ COLS - 1 \in Nat /\ ROWS \in Nat /\ row + 1 \in Nat /\ row + 1 <= ROWS
    BY ConsoleAssumption
<1>2. Cell(row, COLS - 1) = Cell(row, 0) + (COLS - 1) /\ Cell(row + 1, 0) = Cell(row, 0) + COLS
    BY <1>1, CellInRow, CellBelow
<1>3. Cell(row, 0) \in Nat /\ Cell(row + 1, 0) \in Nat /\ Cell(ROWS, 0) \in Nat
    BY <1>1, RowNat
<1>4. Cell(row + 1, 0) <= Cell(ROWS, 0)
    BY <1>1, CellOrder
<1>5. ASSUME NEW c \in Cell(row, 0) .. Cell(row, COLS - 1)
      PROVE  c \in 0 .. Cell(ROWS, 0) + COLS /\ Cell(row, 0) <= c /\ c < Cell(row + 1, 0)
    BY <1>1, <1>2, <1>3, <1>4
<1> QED
    BY <1>5, Lines

LEMMA ErasedRow ==
    ASSUME NEW row \in Nat, row < ROWS, NEW from \in Nat, NEW to \in Nat,
           screen' = Erase(from, to),
           (from <= Cell(row, 0) /\ Cell(row + 1, 0) <= to) \/ RowBlank(row)
    PROVE  RowBlank(row)'
<1> SUFFICES ASSUME NEW c \in Cell(row, 0) .. Cell(row, COLS - 1)
             PROVE  screen'[c] = Blank
    BY DEF RowBlank, Cell
<1>1. c \in VideoCells /\ Cell(row, 0) <= c /\ c < Cell(row + 1, 0)
    BY RowCells
<1>2. screen'[c] = IF from <= c /\ c < to THEN Blank ELSE screen[c]
    BY <1>1 DEF Erase
<1>3. Cell(row, 0) \in Nat /\ Cell(row + 1, 0) \in Nat /\ c \in Int
    BY RowNat
<1>4. CASE from <= Cell(row, 0) /\ Cell(row + 1, 0) <= to
    BY <1>1, <1>2, <1>3, <1>4
<1>5. CASE RowBlank(row)
    BY <1>2, <1>5 DEF RowBlank
<1> QED
    BY <1>4, <1>5

LEMMA KernelAlone ==
    ConsoleTypeOK /\ Bounds /\ Alone /\ Kernel => Alone'
<1> SUFFICES ASSUME ConsoleTypeOK, Bounds, Alone, Kernel PROVE Alone'
    OBVIOUS
<1>0. /\ k.t \in Nat /\ k.ph \in Nat /\ k.pe \in Nat /\ x \in Nat /\ y \in Nat /\ y + 1 \in Nat
      /\ x <= COLS /\ y <= ROWS /\ COLS \in Nat \ {0} /\ ROWS \in Nat \ {0, 1}
    BY ConsoleAssumption DEF ConsoleTypeOK, Registers
<1>p. pos \in OnScreenCells
    BY DEF Alone
<1>r. /\ screen' = screen => (RowBlank(0)' <=> RowBlank(0))
      /\ screen' = screen /\ y' = y => (RowBlank(y)' <=> RowBlank(y))
    BY DEF RowBlank, Cell
<1> USE <1>0, <1>p
<1>2. CASE Place
    <2>1. CASE Reads("char", "place", y)
        BY <2>1 DEF Alone, Moves, Reads
    <2>2. CASE Reads("place", "placed", Cell(k.t, x))
        <3>1. Cell(k.t, x) \in OnScreenCells
            BY <2>2, CellOn DEF Bounds, Wrapping, Below, Moves, Reads
        <3> QED
            BY <2>2, <3>1 DEF Alone, Moves, Reads
    <2>3. CASE WritesPos("placed", "put", k.t)
        BY <2>3 DEF Alone, Moves, WritesPos
    <2> QED
        BY <1>2, PlaceMoves, <2>1, <2>2, <2>3
<1>3. CASE Put
    <2>1. CASE Reads("put", "poke", pos)
        BY <2>1 DEF Alone, Moves, Reads
    <2>2. CASE Moves("poke", "step", 0) /\ pos' = pos
        BY <2>2 DEF Alone, Moves
    <2> QED
        BY <1>3, PutMoves, <2>1, <2>2
<1>4. CASE Advance
    <2>1. CASE Reads("step", "stepped", x + 1)
        BY <2>1 DEF Alone, Moves, Reads
    <2>2. CASE WritesX("stepped", "edge", k.t)
        BY <2>2 DEF Alone, Moves, WritesX
    <2> QED
        BY <1>4, AdvanceMoves, <2>1, <2>2
<1>5. CASE Wrap
    <2>1. CASE x < COLS /\ Reads("edge", "page", k.t)
        BY <2>1 DEF Alone, Moves, Reads
    <2>2. CASE x = COLS /\ Reads("edge", "rows", k.t)
        BY <2>2 DEF Alone, Moves, Reads
    <2>3. CASE Reads("rows", "row", IF x = COLS THEN 1 ELSE 0)
        BY <2>3 DEF Alone, Moves, Reads
    <2>4. CASE Reads("row", "below", y + k.t)
        BY <2>4 DEF Alone, Moves, Reads
    <2>5. CASE WritesY("below", "col", k.t)
        BY <2>5 DEF Alone, Moves, WritesY
    <2>6. CASE Reads("col", "left", IF x = COLS THEN 0 ELSE x)
        BY <2>6 DEF Alone, Moves, Reads
    <2>7. CASE WritesX("left", "page", k.t)
        BY <2>7 DEF Alone, Moves, WritesX
    <2> QED
        BY <1>5, WrapMoves, <2>1, <2>2, <2>3, <2>4, <2>5, <2>6, <2>7
<1>6. CASE Page
    <2>1. CASE y = ROWS /\ Reads("page", "con_init", k.t)
        BY <2>1 DEF Alone, Moves, Reads
    <2>2. CASE y < ROWS /\ Reads("page", "next", k.t)
        BY <2>2 DEF Alone, Moves, Reads
    <2> QED
        BY <1>6, PageMoves, <2>1, <2>2
<1>7. CASE Turned
    <2>1. CASE Reads("turned", "turn", y)
        BY <2>1 DEF Alone, Moves, Reads
    <2>2. CASE WritesY("turn", "next", k.t)
        BY <2>2 DEF Alone, Moves, WritesY
    <2> QED
        BY <1>7, TurnedMoves, <2>1, <2>2
<1>8. CASE NextChar
    <2>1. CASE k.left[1] = 0 /\ k'.at = "line" /\ k'.left = k.left
        BY <1>8, NextCharMoves, <2>1 DEF Alone, Moves
    <2>2. CASE k.left[1] >= 1 /\ k'.at = "char" /\ k'.left[1] = k.left[1] - 1
        BY <1>8, NextCharMoves, <2>2 DEF Alone, Moves
    <2> QED
        BY <1>8, NextCharMoves, <2>1, <2>2
<1>9. CASE NewLine
    <2>0. /\ Cell(y, x) \in Nat /\ Cell(y, 0) \in Nat /\ Cell(y + 1, 0) \in Nat
          /\ Cell(y, x) = Cell(y, 0) + x /\ Cell(y + 1, 0) = Cell(y, 0) + COLS
          /\ (y + 1) - 1 = y
        <3>1. (y + 1) - 1 = y
            OBVIOUS
        <3> QED
            BY <3>1, CellNat, RowNat, CellInRow, CellBelow
    <2>1. CASE Reads("line", "from", y)
        BY <2>1 DEF Alone, Moves, Reads
    <2>2. CASE k.at = "from" /\ k'.at = "start"
        <3>1. k'.ph = Cell(k.t, x) /\ UNCHANGED <<x, y, pos, screen, text, keys, disturbed>>
            BY <1>9, NewLineMoves, <2>2 DEF Moves, Reads, WritesX, WritesY
        <3>2. k.t = y
            BY <2>2 DEF Alone
        <3>3. k'.ph = Cell(y', x')
            BY <3>1, <3>2
        <3> QED
            BY <2>2, <3>1, <3>3 DEF Alone
    <2>3. CASE WritesX("start", "down", 0)
        <3>1. k.ph = Cell(y, x) /\ x < COLS
            BY <2>3 DEF Alone, Bounds, Wrapping, Moves, WritesX
        <3>2. Cell(y, 0) <= k.ph /\ k.ph < Cell(y + 1, 0)
            BY <2>0, <3>1
        <3>3. Erasing(y + 1)'
            BY <2>0, <2>3, <3>2 DEF Erasing, Moves, WritesX
        <3> QED
            BY <2>3, <3>3 DEF Alone, Moves, WritesX
    <2>4. CASE Reads("down", "downed", y + 1)
        <3>1. Erasing(y + 1)
            BY <2>4 DEF Alone, Moves, Reads
        <3>2. Erasing(y + 1)'
            BY <2>4, <3>1 DEF Erasing, Moves, Reads
        <3> QED
            BY <2>4, <3>2 DEF Alone, Moves, Reads
    <2>5. CASE WritesY("downed", "fits", k.t)
        <3>1. Erasing(y + 1) /\ k.t = y + 1
            BY <2>5 DEF Alone, Moves, WritesY
        <3>2. Erasing(y)'
            BY <2>5, <3>1 DEF Erasing, Moves, WritesY
        <3> QED
            BY <2>5, <3>1, <3>2 DEF Alone, Moves, WritesY
    <2>6. CASE y < ROWS /\ Reads("fits", "until", k.t)
        BY <2>6 DEF Alone, Erasing, Moves, Reads
    <2>7. CASE y = ROWS /\ Reads("fits", "top", k.t)
        BY <2>7 DEF Alone, Erasing, Moves, Reads
    <2> QED
        BY <1>9, NewLineMoves, <2>1, <2>2, <2>3, <2>4, <2>5, <2>6, <2>7
<1>10. CASE UntilEndOfNext
    <2>1. y < ROWS /\ x = 0 /\ k.ph < Cell(y, 0)
        BY <1>10, UntilMoves DEF Alone, Erasing, Bounds, Below
    <2> QED
        BY <1>10, UntilMoves, <2>1 DEF Alone
<1>11. CASE Top
    <2>1. CASE k.at = "top"
        <3>1. /\ Moves("top", "end", k.t) /\ UNCHANGED <<x, y, pos, text, keys, disturbed>>
              /\ screen' = Erase(0, COLS)
            BY <1>11, TopMoves, <2>1 DEF Moves, WritesY
        <3>2. Cell(0, 0) = 0 /\ Cell(0 + 1, 0) = COLS
            BY CellZero, CellBelow
        <3>3. RowBlank(0)'
            BY <3>1, <3>2, ErasedRow
        <3> QED
            BY <3>1, <3>3 DEF Alone, Erasing, Moves
    <2>2. CASE k.at = "end"
        <3>1. /\ k'.at = "again" /\ k'.pe = Cell(y, 0) /\ k'.ph = k.ph
              /\ UNCHANGED <<x, y, pos, screen, text, keys, disturbed>>
            BY <1>11, TopMoves, <2>2 DEF Moves, WritesY
        <3> QED
            BY <1>r, <2>2, <3>1 DEF Alone, Erasing
    <2>3. CASE WritesY("again", "erase", 0)
        <3>1. RowBlank(0)'
            BY <1>r, <2>3 DEF Alone, Moves, WritesY
        <3> QED
            BY <2>3, <3>1 DEF Alone, Erasing, Moves, WritesY
    <2> QED
        BY <1>11, TopMoves, <2>1, <2>2, <2>3 DEF Moves
<1>12. CASE EraseLine
    <2>1. x = 0 /\ y < ROWS
        BY <1>12, EraseLineMoves DEF Alone
    <2>2. Cell(y, 0) \in Nat /\ Cell(y + 1, 0) \in Nat
        BY RowNat
    <2>3. (k.ph <= Cell(y, 0) /\ Cell(y + 1, 0) <= k.pe) \/ RowBlank(y)
        BY <1>12, EraseLineMoves, <2>2 DEF Alone
    <2>4. RowBlank(y)'
        <3>1. y' = y /\ screen' = Erase(k.ph, k.pe)
            BY <1>12, EraseLineMoves
        <3>2. \A row \in Nat : row < ROWS /\ ((k.ph <= Cell(row, 0) /\ Cell(row + 1, 0) <= k.pe) \/ RowBlank(row))
                => RowBlank(row)'
            BY <3>1, ErasedRow
        <3> QED
            BY <2>1, <2>3, <3>1, <3>2 DEF RowBlank
    <2> QED
        BY <1>12, EraseLineMoves, <2>1, <2>4 DEF Alone
<1>13. CASE Return
    <2>1. CASE k'.at = "idle" /\ Len(k.left) = 1 /\ k'.left = <<>>
        BY <1>13, ReturnMoves, <2>1 DEF Alone, Moves
    <2>2. CASE k'.at = "cursor" /\ Len(k.left) # 1 /\ k'.left # <<>>
        BY <1>13, ReturnMoves, <2>2 DEF Alone, Moves
    <2> QED
        BY <1>13, ReturnMoves, <2>1, <2>2
<1>14. CASE Home
    <2>1. CASE WritesX("con_init", "con_y", 0)
        BY <2>1 DEF Alone, Moves, WritesX
    <2>2. CASE WritesY("con_y", "clear", 0)
        BY <2>2 DEF Alone, Moves, WritesY
    <2> QED
        BY <1>14, HomeMoves, <2>1, <2>2
<1>15. CASE ClearScreen
    BY <1>15, ClearScreenMoves DEF Alone, Moves
<1>16. CASE UpdateCursor
    <2>1. CASE Reads("cursor", "column", y)
        BY <2>1 DEF Alone, Moves, Reads
    <2>2. CASE Reads("column", "found", Cell(k.t, x))
        <3>1. Cell(k.t, x) \in OnScreenCells
            BY <2>2, CellOn DEF Bounds, Wrapping, Below, Moves, Reads
        <3> QED
            BY <2>2, <3>1 DEF Alone, Moves, Reads
    <2>3. CASE WritesPos("found", "turned", k.t)
        BY <2>3 DEF Alone, Moves, WritesPos
    <2> QED
        BY <1>16, UpdateCursorMoves, <2>1, <2>2, <2>3
<1> QED
    BY <1>2, <1>3, <1>4, <1>5, <1>6, <1>7, <1>8, <1>9, <1>10, <1>11, <1>12, <1>13, <1>14, <1>15, <1>16 DEF Kernel

LEMMA PrintkAlone ==
    ASSUME ConsoleTypeOK, Alone, NEW n \in Lengths, Printk(n)
    PROVE  Alone'
<1>1. k'.at = "next" /\ pos' = pos
    BY PrintkMoves
<1> QED
    BY <1>1 DEF Alone

LEMMA PrintCharAlone ==
    ASSUME ConsoleTypeOK, Bounds, PrintChar, ~disturbed'
    PROVE  Alone' /\ ~disturbed /\ k.at = "idle"
<1>1. ~disturbed /\ k.at = "idle" /\ k' = k /\ pos' = Cell(y, x)
    BY DEF PrintChar
<1>2. x \in Nat /\ y \in Nat /\ x < COLS /\ y < ROWS
    BY <1>1, ConsoleAssumption DEF ConsoleTypeOK, Bounds, Wrapping, Below
<1>3. pos' \in OnScreenCells
    BY <1>1, <1>2, CellOn
<1> QED
    BY <1>1, <1>3 DEF Alone

LEMMA AloneNext ==
    ConsoleTypeOK /\ Bounds /\ (~disturbed => Alone) /\ [Next]_vars => (~disturbed => Alone)'
<1> SUFFICES ASSUME ConsoleTypeOK, Bounds, ~disturbed => Alone, [Next]_vars, ~disturbed'
             PROVE  Alone'
    OBVIOUS
<1>1. CASE Kernel
    <2>1. disturbed' = disturbed
        BY <1>1 DEF Kernel, Place, Put, Advance, Wrap, Page, Turned, NextChar, NewLine,
           UntilEndOfNext, Top, EraseLine, Return, Home, ClearScreen, UpdateCursor, Load, StoreX,
           StoreY, StorePos, Test, echo
    <2> QED
        BY <1>1, <2>1, KernelAlone
<1>2. CASE \E n \in Lengths : Printk(n)
    BY <1>2, PrintkAlone, PrintkMoves
<1>3. CASE PrintChar
    BY <1>3, PrintCharAlone
<1>4. CASE UNCHANGED vars
    BY <1>4 DEF vars, cursor, video, echo, Alone, Erasing, RowBlank, Cell
<1> QED
    BY <1>1, <1>2, <1>3, <1>4 DEF Next

LEMMA AloneInit == Init => Alone
<1> SUFFICES ASSUME Init PROVE Alone
    OBVIOUS
<1>1. Cell(1, 0) = COLS
    BY CellBelow, CellZero, ConsoleAssumption
<1>2. Cell(1, 0) \in OnScreenCells
    BY CellOn, ConsoleAssumption
<1> QED
    BY <1>1, <1>2 DEF Init, Alone

LEMMA AloneInvariant == Spec => [](ConsoleTypeOK /\ Bounds /\ (~disturbed => Alone))
<1>1. Init => ConsoleTypeOK /\ Bounds /\ (~disturbed => Alone)
    BY BoundedInit, AloneInit
<1>2. ConsoleTypeOK /\ Bounds /\ (~disturbed => Alone) /\ [Next]_vars
        => (ConsoleTypeOK /\ Bounds /\ (~disturbed => Alone))'
    BY BoundedNext, AloneNext
<1> QED
    BY <1>1, <1>2, PTL DEF Spec

\* Kernel output and printchar, one after the other, write to the screen only.
THEOREM ConsoleOnScreen == Spec => []OnScreen
<1>1. (~disturbed => Alone) => OnScreen
    BY DEF Alone, OnScreen
<1> QED
    BY <1>1, AloneInvariant, PTL

\* printk leaves the cursor at the start of a blank row.
THEOREM ConsoleFreshLine == Spec => []FreshLine
<1>1. (~disturbed => Alone) => FreshLine
    BY DEF Alone, RowBlank, FreshLine, Printed
<1> QED
    BY <1>1, AloneInvariant, PTL

-----------------------------------------------------------------------------
(* A string that fits in the rest of its row stands there *)

LEMMA TextType ==
    ASSUME ConsoleTypeOK
    PROVE  /\ text[1] \in Nat /\ text[2] \in Nat /\ text[3] \in Nat
           /\ text[1] < ROWS /\ text[2] < COLS
BY ConsoleAssumption DEF ConsoleTypeOK

\* Clearing cells that are not the string's leaves it.
LEMMA ShowsKept ==
    ASSUME ConsoleTypeOK, Fits, Shows(text[3]), text' = text,
           NEW from \in Nat, NEW to \in Nat, screen' = Erase(from, to),
           \/ to <= Cell(text[1], 0)
           \/ from = Cell(text[1], text[2] + text[3])
    PROVE  Shows(text[3])'
<1> DEFINE row == text[1]
<1> DEFINE col == text[2]
<1> DEFINE n == text[3]
<1>1. row \in Nat /\ col \in Nat /\ n \in Nat /\ row < ROWS /\ col + n < COLS
    BY TextType DEF Fits
<1>2. ASSUME NEW c \in col .. col + n - 1 PROVE screen'[Cell(row, c)] = KernelChar
    <2>1. c \in Nat /\ c < col + n /\ c < COLS /\ col + n \in Nat /\ COLS \in Nat
        BY <1>1, ConsoleAssumption
    <2>2. Cell(row, c) \in VideoCells
        BY <1>1, <2>1, CellOn, OnIsVideo
    <2>3. /\ Cell(row, c) = Cell(row, 0) + c /\ Cell(row, 0) \in Nat
          /\ Cell(row, col + n) = Cell(row, 0) + (col + n)
        BY <1>1, <2>1, CellInRow, RowNat
    <2>4. ~(from <= Cell(row, c) /\ Cell(row, c) < to)
        BY <2>1, <2>3
    <2>5. screen'[Cell(row, c)] = screen[Cell(row, c)]
        BY <2>2, <2>4 DEF Erase
    <2> QED
        BY <2>5 DEF Shows
<1> QED
    BY <1>2 DEF Shows

LEMMA BlankBehindErased ==
    ASSUME ConsoleTypeOK, Fits, text' = text, NEW from, NEW to \in Nat,
           from = Cell(text[1], text[2] + text[3]), to >= Cell(text[1] + 1, 0),
           screen' = Erase(from, to)
    PROVE  BlankBehind'
<1> DEFINE row == text[1]
<1> DEFINE end == text[2] + text[3]
<1>1. row \in Nat /\ row + 1 \in Nat /\ row < ROWS /\ end \in Nat /\ end < COLS /\ COLS \in Nat
    BY TextType, ConsoleAssumption DEF Fits
<1>2. ASSUME NEW c \in end .. COLS - 1 PROVE screen'[Cell(row, c)] = Blank
    <2>1. c \in Nat /\ c < COLS /\ end <= c
        BY <1>1
    <2>2. Cell(row, c) \in VideoCells
        BY <1>1, <2>1, CellOn, OnIsVideo
    <2>3. /\ Cell(row, c) = Cell(row, 0) + c /\ Cell(row, end) = Cell(row, 0) + end
          /\ Cell(row + 1, 0) = Cell(row, 0) + COLS /\ Cell(row, 0) \in Nat
        BY <1>1, <2>1, CellInRow, CellBelow, RowNat
    <2>4. from <= Cell(row, c) /\ Cell(row, c) < to
        BY <1>1, <2>1, <2>3
    <2> QED
        BY <2>2, <2>4 DEF Erase
<1> QED
    BY <1>2 DEF BlankBehind

LEMMA KernelPrinting ==
    ConsoleTypeOK /\ Bounds /\ Alone /\ Printing /\ Fits /\ Kernel => k'.at = "idle" \/ Printing'
<1> SUFFICES ASSUME ConsoleTypeOK, Bounds, Alone, Printing, Fits, Kernel
             PROVE  k'.at = "idle" \/ Printing'
    OBVIOUS
<1>0. /\ k.t \in Nat /\ k.ph \in Nat /\ k.pe \in Nat /\ x \in Nat /\ y \in Nat /\ y <= ROWS
      /\ COLS \in Nat \ {0} /\ ROWS \in Nat \ {0, 1} /\ k.left \in Seq(Nat) /\ k.left # <<>>
      /\ k.left[1] \in Nat
    BY ConsoleAssumption, Finished, EmptySeq DEF ConsoleTypeOK, Registers, Printing
<1>t. /\ text[1] \in Nat /\ text[2] \in Nat /\ text[3] \in Nat /\ text[1] < ROWS
      /\ text[2] + text[3] < COLS
    BY TextType DEF Fits
<1>i. Taken \in Nat /\ Taken <= text[3]
    BY <1>0, <1>t, SMTT(30) DEF Taken, Printing
<1>u. k'.left = k.left /\ text' = text => Taken' = Taken
    BY DEF Taken
<1> USE <1>0, <1>t, <1>i
<1>2. CASE Place
    <2>1. Shows(Taken - 1)'
        BY <1>u, <1>2, PlaceMoves DEF Printing, Shows, Moves, Reads, WritesPos
    <2>2. CASE Reads("char", "place", y)
        BY <1>u, <2>1, <2>2 DEF Printing, Elsewhere, InRow, Feeding, Moves, Reads
    <2>3. CASE Reads("place", "placed", Cell(k.t, x))
        <3>1. k.t = y /\ k'.t = Cell(y', x')
            BY <2>3 DEF Alone, Moves, Reads
        <3> QED
            BY <1>u, <2>1, <2>3, <3>1 DEF Printing, Elsewhere, InRow, Feeding, Moves, Reads
    <2>4. CASE WritesPos("placed", "put", k.t)
        <3>1. pos' = Cell(y', x')
            BY <2>4 DEF Printing, Moves, WritesPos
        <3> QED
            BY <1>u, <2>1, <2>4, <3>1 DEF Printing, Elsewhere, InRow, Feeding, Moves, WritesPos
    <2> QED
        BY <1>2, PlaceMoves, <2>2, <2>3, <2>4
<1>3. CASE Put
    <2>1. CASE Reads("put", "poke", pos)
        <3>1. Shows(Taken - 1)' /\ k'.t = Cell(y', x')
            BY <1>u, <2>1 DEF Printing, Shows, Moves, Reads
        <3> QED
            BY <1>u, <2>1, <3>1 DEF Printing, Elsewhere, InRow, Feeding, Moves, Reads
    <2>2. CASE k.at = "poke"
        <3>1. /\ Moves("poke", "step", 0) /\ UNCHANGED <<x, y, pos, text, keys, disturbed>>
              /\ screen' = [screen EXCEPT ![k.t] = KernelChar]
            BY <1>3, PutMoves, <2>2 DEF Moves, Reads
        <3>2. /\ x = text[2] + Taken - 1 /\ Taken >= 1 /\ y = text[1] /\ k.t = Cell(y, x)
              /\ Shows(Taken - 1) /\ Taken' = Taken
            BY <1>u, <3>1 DEF Printing, InRow, Moves
        <3>3. ASSUME NEW c \in text[2] .. text[2] + Taken - 1
              PROVE  screen'[Cell(text[1], c)] = KernelChar
            <4>1. CASE c = x
                <5>1. k.t \in VideoCells
                    BY <2>2 DEF Bounds
                <5> QED
                    BY <3>1, <3>2, <4>1, <5>1 DEF ConsoleTypeOK
            <4>2. CASE c # x
                <5>1. c \in text[2] .. text[2] + (Taken - 1) - 1
                    <6>1. x = text[2] + Taken - 1 /\ c # x
                        BY <3>2, <4>2
                    <6>2. c \in Int /\ text[2] <= c /\ c <= text[2] + Taken - 1
                        OBVIOUS
                    <6> QED
                        BY <6>1, <6>2
                <5>2. screen[Cell(text[1], c)] = KernelChar
                    BY <3>2, <5>1 DEF Shows
                <5>3. Cell(text[1], c) \in VideoCells
                    <6>1. c \in Nat /\ c < COLS
                        OBVIOUS
                    <6> QED
                        BY <6>1, CellOn, OnIsVideo
                <5> QED
                    BY <3>1, <5>2, <5>3 DEF ConsoleTypeOK
            <4> QED
                BY <4>1, <4>2
        <3>4. Shows(Taken)'
            BY <3>1, <3>2, <3>3 DEF Shows
        <3> QED
            BY <3>1, <3>2, <3>4 DEF Printing, Elsewhere, InRow, Feeding, Moves
    <2> QED
        BY <1>3, PutMoves, <2>1, <2>2 DEF Moves
<1>4. CASE Advance
    <2>1. CASE Reads("step", "stepped", x + 1)
        <3>1. Shows(Taken)'
            BY <1>u, <2>1 DEF Shows, Printing, Moves, Reads
        <3> QED
            BY <1>u, <2>1, <3>1 DEF Printing, Elsewhere, InRow, Feeding, Moves, Reads
    <2>2. CASE WritesX("stepped", "edge", k.t)
        <3>1. Shows(Taken)'
            BY <1>u, <2>2 DEF Shows, Printing, Moves, WritesX
        <3>2. x' = text[2] + Taken
            <4>1. x' = k.t /\ k.t = x + 1 /\ x = text[2] + Taken - 1
                BY <2>2 DEF Alone, Printing, Moves, WritesX
            <4> QED
                BY <4>1, SMTT(30)
        <3> QED
            BY <1>u, <2>2, <3>1, <3>2 DEF Printing, Elsewhere, InRow, Feeding, Moves, WritesX
    <2> QED
        BY <1>4, AdvanceMoves, <2>1, <2>2
<1>5. CASE Wrap
    <2>1. CASE x < COLS /\ Reads("edge", "page", k.t)
        <3>1. Shows(Taken)'
            BY <1>u, <2>1 DEF Shows, Printing, Moves, Reads
        <3> QED
            BY <1>u, <2>1, <3>1 DEF Printing, Elsewhere, InRow, Feeding, Moves, Reads
    <2>2. ~(x = COLS /\ Reads("edge", "rows", k.t))
        BY SMTT(30) DEF Printing, Moves, Reads
    <2> QED
        BY <1>5, WrapMoves, <2>1, <2>2 DEF Printing, Elsewhere, Moves, Reads, WritesX, WritesY
<1>6. CASE Page
    <2>1. k.at = "page" => y = text[1]
        BY DEF Printing, InRow
    <2>2. CASE y < ROWS /\ Reads("page", "next", k.t)
        <3>1. Shows(Taken)'
            BY <1>u, <2>2 DEF Shows, Printing, Moves, Reads
        <3> QED
            BY <1>u, <2>2, <3>1 DEF Printing, Elsewhere, InRow, Feeding, Moves, Reads
    <2> QED
        BY <1>6, PageMoves, <2>1, <2>2 DEF Moves, Reads
<1>7. CASE Turned
    BY <1>7, TurnedMoves DEF Printing, Elsewhere, Moves, Reads, WritesX, WritesY, WritesPos
<1>8. CASE NextChar
    <2>0. /\ UNCHANGED <<x, y, pos, screen, text, keys, disturbed>> /\ k.at = "next"
          /\ Len(k'.left) = Len(k.left)
        BY <1>8, NextCharMoves
    <2>1. x = text[2] + Taken /\ Shows(Taken) /\ y = text[1] /\ Len(k.left) = 1 /\ k.left[1] <= text[3]
        BY <2>0 DEF Printing, InRow
    <2>2. CASE k.left[1] = 0 /\ k'.at = "line" /\ k'.left = k.left
        <3>1. Taken = text[3]
            BY <2>2 DEF Taken
        <3>2. Shows(text[3])'
            BY <2>0, <2>1, <3>1 DEF Shows
        <3> QED
            BY <2>0, <2>1, <2>2, <3>1, <3>2 DEF Printing, Elsewhere, InRow, Feeding
    <2>3. CASE k.left[1] >= 1 /\ k'.at = "char" /\ k'.left[1] = k.left[1] - 1
        <3>1. Taken' = Taken + 1
            <4>1. Taken' = text[3] - (k.left[1] - 1)
                BY <2>0, <2>3 DEF Taken
            <4>2. Taken = text[3] - k.left[1]
                BY DEF Taken
            <4> QED
                BY <4>1, <4>2, SMTT(30)
        <3>2. Taken' - 1 = Taken
            BY <3>1
        <3>3. Shows(Taken - 1)'
            <4>1. \A c \in text[2] .. text[2] + (Taken' - 1) - 1 : screen[Cell(text[1], c)] = KernelChar
                BY <2>1, <3>2 DEF Shows
            <4> QED
                BY <2>0, <4>1 DEF Shows
        <3>4. x' = text'[2] + Taken' - 1 /\ Taken' >= 1
            <4>1. x' = text[2] + Taken /\ text' = text
                BY <2>0, <2>1
            <4> DEFINE start == text[2]
                       n == Taken
            <4>2. start \in Nat /\ n \in Nat
                OBVIOUS
            <4>3. start + n = start + (n + 1) - 1 /\ n + 1 >= 1
                <5> HIDE DEF start, n
                <5> QED
                    BY <4>2
            <4> QED
                BY <4>1, <3>1, <4>3
        <3>5. k'.left[1] <= text'[3]
            BY <2>0, <2>1, <2>3, SMTT(30)
        <3> QED
            BY <2>0, <2>1, <2>3, <3>3, <3>4, <3>5 DEF Printing, Elsewhere, InRow, Feeding
    <2> QED
        BY <1>8, NextCharMoves, <2>2, <2>3
<1>9. CASE NewLine
    <2>1. CASE Reads("line", "from", y)
        <3>1. Shows(text[3])'
            BY <2>1 DEF Shows, Printing, Moves, Reads
        <3> QED
            BY <1>u, <2>1, <3>1 DEF Printing, Elsewhere, InRow, Feeding, Moves, Reads
    <2>2. CASE k.at = "from" /\ k'.at = "start"
        <3>1. /\ k'.ph = Cell(k.t, x) /\ k'.left = k.left
              /\ UNCHANGED <<x, y, pos, screen, text, keys, disturbed>>
            BY <1>9, NewLineMoves, <2>2 DEF Moves, Reads, WritesX, WritesY
        <3>2. k.t = y /\ y = text[1] /\ x = text[2] + text[3] /\ Shows(text[3])
            BY <2>2 DEF Alone, Printing, InRow
        <3>3. k'.ph = Cell(text'[1], text'[2] + text'[3])
            BY <3>1, <3>2
        <3>4. Shows(text[3])'
            BY <3>1, <3>2 DEF Shows
        <3> QED
            BY <1>u, <2>2, <3>1, <3>2, <3>3, <3>4 DEF Printing, Elsewhere, InRow, Feeding
    <2>3. CASE WritesX("start", "down", 0)
        <3>1. Shows(text[3])'
            BY <2>3 DEF Shows, Printing, Feeding, Moves, WritesX
        <3> QED
            BY <1>u, <2>3, <3>1 DEF Printing, Elsewhere, InRow, Feeding, Moves, WritesX
    <2>4. CASE Reads("down", "downed", y + 1)
        <3>1. Shows(text[3])'
            BY <2>4 DEF Shows, Printing, Feeding, Moves, Reads
        <3> QED
            BY <1>u, <2>4, <3>1 DEF Printing, Elsewhere, InRow, Feeding, Moves, Reads
    <2>5. CASE WritesY("downed", "fits", k.t)
        <3>1. Shows(text[3])'
            BY <2>5 DEF Shows, Printing, Feeding, Moves, WritesY
        <3>2. y' = text[1] + 1
            BY <2>5 DEF Alone, Printing, InRow, Moves, WritesY
        <3> QED
            BY <1>u, <2>5, <3>1, <3>2 DEF Printing, Elsewhere, InRow, Feeding, Moves, WritesY
    <2>6. CASE y < ROWS /\ Reads("fits", "until", k.t)
        <3>1. Shows(text[3])'
            BY <2>6 DEF Shows, Printing, Feeding, Moves, Reads
        <3> QED
            BY <1>u, <2>6, <3>1 DEF Printing, Elsewhere, InRow, Feeding, Moves, Reads
    <2>7. CASE y = ROWS /\ Reads("fits", "top", k.t)
        <3>1. Shows(text[3])'
            BY <2>7 DEF Shows, Printing, Feeding, Moves, Reads
        <3> QED
            BY <1>u, <2>7, <3>1 DEF Printing, Elsewhere, InRow, Feeding, Moves, Reads
    <2> QED
        BY <1>9, NewLineMoves, <2>1, <2>2, <2>3, <2>4, <2>5, <2>6, <2>7
<1>10. CASE UntilEndOfNext
    <2>1. /\ k.at = "until" /\ k'.at = "erase" /\ k'.pe = Cell(y + 1, 0) /\ k'.ph = k.ph
          /\ k'.left = k.left /\ UNCHANGED <<x, y, pos, screen, text, keys, disturbed>>
        BY <1>10, UntilMoves
    <2>2. y = text[1] + 1 /\ Shows(text[3]) /\ k.ph = Cell(text[1], text[2] + text[3])
        BY <2>1 DEF Printing, Feeding
    <2>3. Shows(text[3])'
        BY <2>1, <2>2 DEF Shows
    <2>4. Cell(text[1] + 1, 0) <= Cell(y + 1, 0)
        <3>1. y = text[1] + 1
            BY <2>2
        <3>2. y \in Nat /\ y + 1 \in Nat /\ y <= y + 1
            OBVIOUS
        <3>3. Cell(y, 0) <= Cell(y + 1, 0)
            BY <3>2, CellOrder
        <3> QED
            BY <3>1, <3>3
    <2>5. k'.pe >= Cell(text'[1] + 1, 0)
        <3>1. text[1] + 1 \in Nat /\ y + 1 \in Nat
            BY SMTT(30)
        <3>2. Cell(text[1] + 1, 0) \in Nat /\ Cell(y + 1, 0) \in Nat
            BY <3>1, RowNat
        <3> QED
            BY <2>1, <2>4, <3>2
    <2> QED
        BY <1>u, <2>1, <2>2, <2>3, <2>5 DEF Printing, Elsewhere, InRow, Feeding
<1>11. CASE Top
    <2>1. CASE k.at = "top"
        <3>1. /\ Moves("top", "end", k.t) /\ UNCHANGED <<x, y, pos, text, keys, disturbed>>
              /\ screen' = Erase(0, COLS)
            BY <1>11, TopMoves, <2>1 DEF Moves, WritesY
        <3>2. y = ROWS /\ y = text[1] + 1 /\ Shows(text[3])
            BY <2>1 DEF Alone, Printing, Feeding
        <3>3. COLS <= Cell(text[1], 0)
            <4>1. 0 \in Nat /\ 0 + 1 \in Nat /\ 0 + 1 <= text[1]
                BY <3>2
            <4>2. Cell(0 + 1, 0) <= Cell(text[1], 0) /\ Cell(0 + 1, 0) = Cell(0, 0) + COLS
                BY <4>1, CellOrder, CellBelow
            <4> QED
                BY <4>2, CellZero
        <3>4. Shows(text[3])'
            BY <3>1, <3>2, <3>3, ShowsKept
        <3> QED
            BY <1>u, <3>1, <3>2, <3>4 DEF Printing, Elsewhere, InRow, Feeding, Moves
    <2>2. CASE k.at = "end"
        <3>1. /\ k'.at = "again" /\ k'.pe = Cell(y, 0) /\ k'.ph = k.ph /\ k'.left = k.left
              /\ UNCHANGED <<x, y, pos, screen, text, keys, disturbed>>
            BY <1>11, TopMoves, <2>2 DEF Moves, WritesY
        <3>2. Shows(text[3])'
            BY <2>2, <3>1 DEF Shows, Printing, Feeding
        <3> QED
            BY <1>u, <2>2, <3>1, <3>2 DEF Printing, Elsewhere, InRow, Feeding
    <2>3. CASE WritesY("again", "erase", 0)
        <3>1. Shows(text[3])'
            BY <2>3 DEF Shows, Printing, Feeding, Moves, WritesY
        <3>2. y = ROWS /\ y = text[1] + 1 /\ k.pe = Cell(ROWS, 0)
            BY <2>3 DEF Alone, Printing, Moves, WritesY
        <3>3. k'.pe >= Cell(text'[1] + 1, 0)
            <4>1. k'.pe = Cell(text'[1] + 1, 0)
                BY <2>3, <3>2 DEF Moves, WritesY
            <4>2. Cell(ROWS, 0) \in Nat
                BY RowNat
            <4> QED
                BY <2>3, <3>2, <4>1, <4>2 DEF WritesY
        <3> QED
            BY <1>u, <2>3, <3>1, <3>3 DEF Printing, Elsewhere, InRow, Feeding, Moves, WritesY
    <2> QED
        BY <1>11, TopMoves, <2>1, <2>2, <2>3 DEF Moves
<1>12. CASE EraseLine
    <2>1. /\ k.at = "erase" /\ k'.at = "return" /\ k'.left = k.left
          /\ screen' = Erase(k.ph, k.pe) /\ UNCHANGED <<x, y, pos, text, keys, disturbed>>
        BY <1>12, EraseLineMoves
    <2>2. /\ Shows(text[3]) /\ k.ph = Cell(text[1], text[2] + text[3])
          /\ k.pe >= Cell(text[1] + 1, 0)
        BY <2>1 DEF Printing, Feeding
    <2>3. Shows(text[3])'
        BY <2>1, <2>2, ShowsKept
    <2>4. BlankBehind'
        BY <2>1, <2>2, BlankBehindErased
    <2> QED
        BY <1>u, <2>1, <2>3, <2>4 DEF Printing, Elsewhere, InRow, Feeding
<1>13. CASE Return
    BY <1>13, ReturnMoves DEF Printing
<1>14. CASE Home
    BY <1>14, HomeMoves DEF Printing, Elsewhere, Moves, Reads, WritesX, WritesY, WritesPos
<1>15. CASE ClearScreen
    BY <1>15, ClearScreenMoves DEF Printing, Elsewhere, Moves, Reads, WritesX, WritesY, WritesPos
<1>16. CASE UpdateCursor
    BY <1>16, UpdateCursorMoves DEF Printing, Elsewhere, Moves, Reads, WritesX, WritesY, WritesPos
<1> QED
    BY <1>2, <1>3, <1>4, <1>5, <1>6, <1>7, <1>8, <1>9, <1>10, <1>11, <1>12, <1>13, <1>14, <1>15, <1>16 DEF Kernel

LEMMA PrintkPrinting ==
    ASSUME ConsoleTypeOK, NEW n \in Lengths, Printk(n)
    PROVE  Printing'
<1>1. /\ k'.at = "next" /\ k'.left = <<n>> /\ n \in Nat /\ text' = <<y, x, n>>
      /\ UNCHANGED <<x, y, screen>> /\ x \in Nat
    BY PrintkMoves DEF ConsoleTypeOK
<1>2. Len(k'.left) = 1 /\ k'.left[1] = n /\ text'[1] = y /\ text'[2] = x /\ text'[3] = n
    BY <1>1
<1>3. Taken' = 0
    BY <1>1, <1>2 DEF Taken
<1>4. Shows(Taken)'
    BY <1>1, <1>2, <1>3 DEF Shows
<1> QED
    BY <1>1, <1>2, <1>3, <1>4 DEF Printing, Elsewhere, InRow, Feeding

LEMMA KernelLeaves ==
    ASSUME ConsoleTypeOK, Bounds, Kernel
    PROVE  k.at # "idle" /\ disturbed' = disturbed /\ text' = text
BY DEF Kernel, Place, Put, Advance, Wrap, Page, Turned, NextChar, NewLine,
   UntilEndOfNext, Top, EraseLine, Return, Home, ClearScreen, UpdateCursor, Load, StoreX,
   StoreY, StorePos, Test, Goto, Done, echo

Undisturbed == ~disturbed => Alone /\ Standing

LEMMA StandingNext ==
    ConsoleTypeOK /\ Bounds /\ Undisturbed /\ [Next]_vars => Undisturbed'
<1> SUFFICES ASSUME ConsoleTypeOK, Bounds, Undisturbed, [Next]_vars, ~disturbed'
             PROVE  Alone' /\ Standing'
    BY DEF Undisturbed
<1>1. Alone'
    BY AloneNext DEF Undisturbed
<1>2. CASE Kernel
    <2>1. k.at # "idle" /\ ~disturbed /\ (Fits' => Fits)
        BY <1>2, KernelLeaves DEF Fits
    <2>2. Fits' => k'.at = "idle" \/ Printing'
        BY <1>2, <2>1, KernelPrinting DEF Undisturbed, Standing
    <2> QED
        BY <1>1, <2>2 DEF Standing
<1>3. CASE \E n \in Lengths : Printk(n)
    BY <1>1, <1>3, PrintkPrinting DEF Standing
<1>4. CASE PrintChar
    <2>1. k.at = "idle" /\ k' = k
        BY <1>4, PrintCharAlone DEF PrintChar
    <2> QED
        BY <1>1, <2>1 DEF Standing
<1>5. CASE UNCHANGED vars
    <2>1. ~disturbed
        BY <1>5 DEF vars, echo
    <2> QED
        BY <1>1, <1>5, <2>1 DEF vars, cursor, video, echo, Undisturbed, Standing, Fits, Printing, Taken,
           Shows, BlankBehind
<1> QED
    BY <1>2, <1>3, <1>4, <1>5 DEF Next

\* A string that fits in the rest of its row stands where it began, and the row is blank
\* behind it, when printk returns.
THEOREM ConsoleTextStands == Spec => []TextStands
<1>1. Init => ConsoleTypeOK /\ Bounds /\ Undisturbed
    <2>1. Init => k.at = "idle"
        BY DEF Init
    <2> QED
        BY <2>1, BoundedInit, AloneInit DEF Undisturbed, Standing
<1>2. ConsoleTypeOK /\ Bounds /\ Undisturbed /\ [Next]_vars
        => (ConsoleTypeOK /\ Bounds /\ Undisturbed)'
    BY BoundedNext, StandingNext
<1>3. ConsoleTypeOK /\ Undisturbed => TextStands
    <2>0. ConsoleTypeOK => text[2] \in Nat /\ text[3] \in Nat
        BY TextType
    <2>1. Undisturbed /\ Printed /\ Fits => Shows(text[3]) /\ BlankBehind
        BY DEF Undisturbed, Standing, Printed, Printing
    <2> QED
        BY <2>0, <2>1 DEF TextStands, Fits, Shows, BlankBehind
<1> QED
    BY <1>1, <1>2, <1>3, PTL DEF Spec
=============================================================================
