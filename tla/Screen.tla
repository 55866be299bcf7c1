------------------------------- MODULE Screen -------------------------------
(* The text screen: its cells and the cursor, counted in cells.            *)
EXTENDS Integers

CONSTANTS Rows, Cols

ASSUME ScreenAssumption == Rows \in Nat \ {0} /\ Cols \in Nat \ {0}

NUL == "nul"

CellCount == Rows * Cols
Blank == [cells |-> [c \in 0 .. CellCount - 1 |-> NUL], at |-> 0]

Move(s, n) == [s EXCEPT !.at = @ + n]

(* Behind the last cell the rows move up and the cursor goes to the start  *)
(* of the last one, wherever it was.                                       *)
Scroll_Stay(s) == IF s.at >= CellCount THEN [s EXCEPT !.at = CellCount - Cols] ELSE s  \* a mistake
Scroll(s) ==
    IF s.at < CellCount THEN s
    ELSE [cells |-> [c \in 0 .. CellCount - 1 |->
                        IF c < CellCount - Cols THEN s.cells[c + Cols] ELSE NUL],
          at    |-> CellCount - Cols]

PrintChar(s, ch) == Scroll([cells |-> [s.cells EXCEPT ![s.at] = ch], at |-> s.at + 1])

(* To the start of the next row.                                           *)
Newline(s) == Scroll([s EXCEPT !.at = (@ + Cols) - (@ % Cols)])
=============================================================================
