-------------------------- MODULE LineEditor_proofs --------------------------
(* What kbd_readline's two counters of a held key guarantee, for every pair*)
(* of delays, every table of keys and every line.                          *)
EXTENDS LineEditor, SequenceTheorems, TLAPS

(* As long as the previous code is known, hold_iterations counts the polls *)
(* since it was taken; it is forgotten after the polls of a repetition, the*)
(* short ones only of the code that cached_prev_keycode has.               *)
Counting ==
    /\ key.prev # NoKey => key.prev = last /\ key.hold = run
    /\ key.prev = NoKey => run > InitHold \/ (run > ContHold /\ key.cached = last)

(* The ENTER before the line has not been repeated yet: the short delay is *)
(* not for it.                                                             *)
FirstEnter ==
    last = "ENTER" => /\ key.prev = "ENTER" => key.cached = NoKey
                      /\ key.prev = NoKey => run > InitHold

HeldInv ==
    /\ port \in Codes
    /\ key \in [prev : Codes \union {NoKey}, cached : Codes \union {NoKey}, hold : Nat]
    /\ run \in Nat /\ done \in BOOLEAN
    /\ ~done => Counting /\ FirstEnter

(* The 0 that stands for no scan code is none.                             *)
LEMMA NoKeyIsNoCode == NoKey \notin Codes /\ "ENTER" \in Codes /\ "ENTER" \notin DOMAIN Table
BY LineAssumption DEF Codes, NoKey

(* A line begins with the ENTER that ended the one before it.              *)
LEMMA FirstKeyHeld ==
    /\ FirstKey \in [prev : Codes \union {NoKey}, cached : Codes \union {NoKey}, hold : Nat]
    /\ FirstKey.prev = "ENTER" /\ FirstKey.cached = NoKey /\ FirstKey.hold = 0
    /\ FirstKey.prev # NoKey
<1>1. FirstKey \in [prev : Codes \union {NoKey}, cached : Codes \union {NoKey}, hold : Nat]
    BY NoKeyIsNoCode DEF FirstKey
<1> QED
    BY <1>1, NoKeyIsNoCode DEF FirstKey

LEMMA HeldInit == Init => HeldInv
<1> SUFFICES ASSUME Init PROVE HeldInv
    OBVIOUS
<1>1. key = FirstKey /\ last = "ENTER" /\ run = 0 /\ port = "ENTER" /\ done = FALSE
    BY DEF Init
<1> QED
    BY <1>1, NoKeyIsNoCode, FirstKeyHeld DEF HeldInv, Counting, FirstEnter

LEMMA HeldCall == HeldInv /\ Call => HeldInv'
<1> SUFFICES ASSUME HeldInv, Call PROVE HeldInv'
    OBVIOUS
<1>1. key' = FirstKey /\ last' = "ENTER" /\ run' = 0 /\ port' = port /\ done' = FALSE
    BY DEF Call
<1> QED
    BY <1>1, FirstKeyHeld DEF HeldInv, Counting, FirstEnter

LEMMA HeldPress == ASSUME HeldInv, NEW code \in Codes, Press(code) PROVE HeldInv'
BY DEF Press, HeldInv, Counting, FirstEnter

(* A poll that finds the code it knows.                                    *)
LEMMA HeldHold == HeldInv /\ Hold => HeldInv'
<1> SUFFICES ASSUME HeldInv, Hold PROVE HeldInv'
    OBVIOUS
<1>1. /\ ~done /\ done' = done /\ port' = port /\ last' = port
      /\ key' = Waited(key) /\ key.prev = port /\ key.prev # NoKey
    BY NoKeyIsNoCode DEF Hold, Read, IsNew, HeldInv
<1>2. key.prev = last /\ key.hold = run /\ run \in Nat
    BY <1>1 DEF HeldInv, Counting
<1>3. CASE key.prev = key.cached /\ key.hold >= ContHold
  <2>1. key' = [key EXCEPT !.prev = NoKey]
      BY <1>1, <1>3 DEF Waited
  <2>2. run' \in Nat /\ run' > ContHold
      BY <1>2, <1>3, HoldAssumption DEF Hold
  <2>3. last # "ENTER"
      BY <1>1, <1>2, <1>3 DEF HeldInv, FirstEnter
  <2>4. /\ key' \in [prev : Codes \union {NoKey}, cached : Codes \union {NoKey}, hold : Nat]
        /\ key'.prev = NoKey /\ key'.cached = last'
      BY <1>1, <1>3, <2>1 DEF HeldInv
  <2>5. Counting' /\ FirstEnter'
      BY <1>1, <1>2, <2>2, <2>3, <2>4, NoKeyIsNoCode DEF Counting, FirstEnter
  <2> QED
      BY <1>1, <2>2, <2>4, <2>5 DEF HeldInv
<1>4. CASE ~(key.prev = key.cached /\ key.hold >= ContHold) /\ key.hold >= InitHold
  <2>1. key' = [key EXCEPT !.prev = NoKey, !.cached = key.prev]
      BY <1>1, <1>4 DEF Waited
  <2>2. run' \in Nat /\ run' > ContHold /\ run' > InitHold
      BY <1>2, <1>4, HoldAssumption DEF Hold
  <2> QED
      BY <1>1, <2>1, <2>2 DEF HeldInv, Counting, FirstEnter
<1>5. CASE ~(key.prev = key.cached /\ key.hold >= ContHold) /\ key.hold < InitHold
  <2>1. key' = [key EXCEPT !.hold = key.hold + 1]
      BY <1>1, <1>2, <1>5, HoldAssumption DEF Waited
  <2>2. run' = run + 1
      BY <1>2, <1>5, HoldAssumption DEF Hold
  <2> QED
      BY <1>1, <1>2, <2>1, <2>2 DEF HeldInv, Counting, FirstEnter
<1> QED
    BY <1>2, <1>3, <1>4, <1>5, HoldAssumption

(* A poll that takes a code: only ENTER ends the line, and always does.    *)
LEMMA HeldTake == HeldInv /\ Poll /\ ~Hold => HeldInv'
<1> SUFFICES ASSUME HeldInv, Poll, ~Hold PROVE HeldInv'
    OBVIOUS
<1>1. Take /\ done' = (port = "ENTER")
  <2>1. done \in BOOLEAN
      BY DEF HeldInv
  <2> QED
      BY <2>1, NoKeyIsNoCode DEF Poll, Append1, Insert, Left, Right, Backspace, Enter, Ignore,
                                 Take, Read, Printable
<1>2. /\ port' = port /\ last' = port /\ run' = 0
      /\ key' = [key EXCEPT !.prev = port, !.hold = 0]
    BY <1>1 DEF Take, Read, Taken
<1> QED
    BY <1>1, <1>2, NoKeyIsNoCode DEF HeldInv, Counting, FirstEnter

LEMMA HeldStep == HeldInv /\ [Next]_vars => HeldInv'
<1> SUFFICES ASSUME HeldInv, [Next]_vars PROVE HeldInv'
    OBVIOUS
<1>1. CASE Call
    BY <1>1, HeldCall
<1>2. CASE Hold
    BY <1>2, HeldHold
<1>3. CASE Poll /\ ~Hold
    BY <1>3, HeldTake
<1>4. ASSUME NEW code \in Codes, Press(code) PROVE HeldInv'
    BY <1>4, HeldPress
<1>5. CASE UNCHANGED vars
    BY <1>5 DEF vars, HeldInv, Counting, FirstEnter
<1> QED
    BY <1>1, <1>2, <1>3, <1>4, <1>5 DEF Next

THEOREM HeldInvariance == Spec => []HeldInv
<1> QED
    BY HeldInit, HeldStep, PTL DEF Spec

(* The ENTER that ended one line, still held when kbd_readline is called   *)
(* again, does not end the next line before the polls of a first repetition*)
(* have gone by: keyboard.c:47.                                            *)
THEOREM HeldEnter == Spec => OneEnterOneLine
<1>1. HeldInv /\ [Next]_vars => [(done' /\ ~done /\ last = "ENTER") => run > InitHold]_vars
  <2> SUFFICES ASSUME HeldInv, Next, done', ~done, last = "ENTER" PROVE run > InitHold
      OBVIOUS
  <2>1. Poll /\ ~Hold
      BY DEF Next, Call, Press, Hold
  <2>2. Take /\ port = "ENTER"
    <3>1. done \in BOOLEAN
        BY DEF HeldInv
    <3> QED
        BY <2>1, <3>1 DEF Poll, Append1, Insert, Left, Right, Backspace, Enter, Ignore
  <2>3. key.prev = NoKey
      BY <2>2 DEF Take, IsNew, HeldInv, Counting
  <2> QED
      BY <2>3 DEF HeldInv, FirstEnter
<1> QED
    BY <1>1, HeldInvariance, PTL DEF Spec, OneEnterOneLine

(* A key that is held down is taken again after the long delay, or after   *)
(* the short one if it is the key that has last waited for the long one:   *)
(* keyboard.c:158-170.                                                     *)
THEOREM RepetitionSpaced == Spec => RepeatsSpaced
<1>1. HeldInv /\ [Next]_vars
        => [(IsNew(key, port) /\ key'.prev = port /\ last = port /\ ~done)
              => run > InitHold \/ (run > ContHold /\ key.cached = port)]_vars
    BY DEF IsNew, HeldInv, Counting
<1> QED
    BY <1>1, HeldInvariance, PTL DEF Spec, RepeatsSpaced

-----------------------------------------------------------------------------
(* The line and its picture.                                               *)

Printing == INSTANCE SequenceFacts WITH Op <- PrintChar

Back(s, ch) == Move(PrintChar(s, ch), -2)
Moving == INSTANCE SequenceFacts WITH Op <- Back

Cell == Chars \union Befores \union {NUL, ">"}
Screens == [cells : [0 .. CellCount - 1 -> Cell], at : 0 .. CellCount - 1]

(* Where the line begins for the code: when the byte before the buffer is  *)
(* not 0, the cursor gets there and the line is edited from that byte on.  *)
First == IF Sound THEN 0 ELSE -1

(* The line ends before byte e, and its characters are in the cells from   *)
(* the cursor's, less the position, on; the prompt is before them.         *)
LineTo(e) ==
    /\ e \in First .. Size - 1 /\ i \in First .. e
    /\ \A n \in First .. e - 1 : buffer[n] # NUL
    /\ \A n \in e .. Size - 1 : buffer[n] = NUL
Shown(e) ==
    /\ scr.at - i >= 1 /\ (scr.at - i) + e <= CellCount - 1
    /\ \A n \in 0 .. e - 1 : scr.cells[(scr.at - i) + n] = buffer[n]

LineInv ==
    /\ done \in BOOLEAN
    /\ scr \in Screens
    /\ buffer \in [-2 .. Size - 1 -> Cell] /\ before \in Befores
    /\ buffer[First - 1] = NUL
    /\ \E e \in -1 .. Size - 1 : LineTo(e) /\ (~done => Shown(e))

LEMMA Sizes ==
    /\ Size \in Nat \ {0} /\ Bytes \in Nat /\ Cols \in Nat \ {0} /\ CellCount \in Nat
    /\ Size <= CellCount - Cols
<1>1. Cols \in Nat /\ Rows \in Nat => Cols * (Rows - 1) = Rows * Cols - Cols
    OBVIOUS
<1>2. Rows * Cols \in Nat
    BY ScreenAssumption
<1> QED
    BY <1>1, <1>2, ScreenAssumption, LineAssumption DEF CellCount

(* The least number of a set that has one.                                 *)
LEMMA MinIs ==
    ASSUME NEW S \in SUBSET Int, NEW x \in S, \A y \in S : x <= y
    PROVE  Min(S) = x
<1>1. Min(S) \in S /\ \A y \in S : Min(S) <= y
    BY Zenon DEF Min
<1>2. Min(S) <= x /\ x <= Min(S) /\ Min(S) \in Int /\ x \in Int
    BY <1>1
<1> QED
    BY <1>2

(* From any position in the line its end is the first 0.                   *)
LEMMA EndIs ==
    ASSUME NEW e, LineTo(e), NEW k \in First .. e
    PROVE  EndOf(k) = e
<1> DEFINE zeros == {n \in k .. Size - 1 : buffer[n] = NUL}
<1>1. k \in Int /\ e \in Int /\ Size \in Int /\ k <= e /\ e <= Size - 1 /\ First \in Int
    BY Sizes DEF LineTo, First
<1>2. e \in zeros
    BY <1>1 DEF LineTo
<1>3. \A n \in zeros : e <= n
    BY <1>1 DEF LineTo
<1>4. zeros \in SUBSET Int
    BY <1>1
<1>5. Min(zeros) = e
    BY <1>2, <1>3, <1>4, MinIs
<1> QED
    BY <1>5 DEF EndOf

(* A character printed before the last cell: the cursor goes on.           *)
LEMMA PrintedInside ==
    ASSUME NEW s \in Screens, NEW ch \in Cell, s.at < CellCount - 1
    PROVE  /\ PrintChar(s, ch) \in Screens /\ PrintChar(s, ch).at = s.at + 1
           /\ \A c \in 0 .. CellCount - 1 :
                 PrintChar(s, ch).cells[c] = IF c = s.at THEN ch ELSE s.cells[c]
<1>1. s.at \in 0 .. CellCount - 1 /\ s.cells \in [0 .. CellCount - 1 -> Cell] /\ CellCount \in Nat
    BY Sizes DEF Screens
<1>2. PrintChar(s, ch) = [cells |-> [s.cells EXCEPT ![s.at] = ch], at |-> s.at + 1]
    BY <1>1 DEF PrintChar, Scroll
<1> QED
    BY <1>1, <1>2 DEF Screens

(* In the last cell: the rows move up and the cursor to the last row.      *)
LEMMA PrintedLast ==
    ASSUME NEW s \in Screens, NEW ch \in Cell, s.at = CellCount - 1
    PROVE  /\ PrintChar(s, ch) \in Screens /\ PrintChar(s, ch).at = CellCount - Cols
           /\ \A c \in 0 .. (CellCount - Cols) - 1 :
                 PrintChar(s, ch).cells[c] = IF c + Cols = s.at THEN ch ELSE s.cells[c + Cols]
<1> DEFINE cells == [s.cells EXCEPT ![s.at] = ch]
           moved == [c \in 0 .. CellCount - 1 |->
                        IF c < CellCount - Cols THEN cells[c + Cols] ELSE NUL]
<1>1. /\ s.at \in 0 .. CellCount - 1 /\ s.cells \in [0 .. CellCount - 1 -> Cell]
      /\ CellCount \in Nat /\ Cols \in Nat \ {0} /\ CellCount - Cols \in 0 .. CellCount - 1
    BY Sizes DEF Screens
<1>2. cells \in [0 .. CellCount - 1 -> Cell] /\ NUL \in Cell
    BY <1>1 DEF Cell
<1>3. PrintChar(s, ch) = [cells |-> moved, at |-> CellCount - Cols]
    BY <1>1 DEF PrintChar, Scroll
<1>4. moved \in [0 .. CellCount - 1 -> Cell]
    BY <1>1, <1>2
<1>5. \A c \in 0 .. (CellCount - Cols) - 1 :
         moved[c] = IF c + Cols = s.at THEN ch ELSE s.cells[c + Cols]
    BY <1>1
<1> QED
    BY <1>1, <1>3, <1>4, <1>5 DEF Screens

(* The folds of Insert and Backspace, one character after the other.       *)
Printed(s, seq) == FoldLeft(PrintChar, s, seq)
LEMMA PrintedRun ==
    ASSUME NEW s, NEW n \in Nat, NEW seq, DOMAIN seq = 1 .. n
    PROVE  \E g : /\ g[0] = s /\ Printed(s, seq) = g[n]
                  /\ \A k \in 1 .. n : g[k] = PrintChar(g[k - 1], seq[k])
<1>1. Printing!Folded(s, seq) = Printed(s, seq)
    BY DEF Printing!Folded, Printing!FoldLeft, Printing!MapThenFoldSet, Printing!Max,
           Printed, FoldLeft, MapThenFoldSet, Max
<1> QED
    BY <1>1, Printing!FoldLeftRun

PrintedBack(s, seq) == FoldLeft(Back, s, seq)
LEMMA PrintedBackRun ==
    ASSUME NEW s, NEW n \in Nat, NEW seq, DOMAIN seq = 1 .. n
    PROVE  \E g : /\ g[0] = s /\ PrintedBack(s, seq) = g[n]
                  /\ \A k \in 1 .. n : g[k] = Back(g[k - 1], seq[k])
<1>1. Moving!Folded(s, seq) = PrintedBack(s, seq)
    BY DEF Moving!Folded, Moving!FoldLeft, Moving!MapThenFoldSet, Moving!Max,
           PrintedBack, FoldLeft, MapThenFoldSet, Max
<1> QED
    BY <1>1, Moving!FoldLeftRun

-----------------------------------------------------------------------------
(* The invariant, action by action.                                        *)

(* A new line, with the prompt behind which it begins.                     *)
LEMMA LineBegins ==
    ASSUME NEW s \in Screens, NEW b \in Befores
    PROVE  /\ PrintChar(s, ">") \in Screens /\ PrintChar(s, ">").at >= 1
           /\ Line(b) \in [-2 .. Size - 1 -> Cell]
           /\ \A n \in 0 .. Size - 1 : Line(b)[n] = NUL
           /\ Line(b)[-1] = b /\ Line(b)[-2] = NUL
<1>1. ">" \in Cell /\ NUL \in Cell /\ b \in Cell
    BY DEF Cell
<1>2. s.at \in 0 .. CellCount - 1 /\ CellCount - Cols >= 1
    BY Sizes DEF Screens
<1>3. PrintChar(s, ">") \in Screens /\ PrintChar(s, ">").at >= 1
  <2>1. CASE s.at < CellCount - 1
      BY <1>1, <1>2, <2>1, PrintedInside
  <2>2. CASE s.at = CellCount - 1
      BY <1>1, <1>2, <2>2, PrintedLast
  <2> QED
      BY <1>2, <2>1, <2>2, Sizes
<1> QED
    BY <1>1, <1>3, Sizes DEF Line

LEMMA LineStart ==
    ASSUME scr' \in Screens, scr'.at >= 1, before' \in Befores, buffer' = Line(before'),
           i' = 0, done' \in BOOLEAN,
           Line(before') \in [-2 .. Size - 1 -> Cell],
           \A n \in 0 .. Size - 1 : Line(before')[n] = NUL,
           Line(before')[-1] = before' /\ Line(before')[-2] = NUL
    PROVE  LineInv'
<1>1. scr'.at \in 0 .. CellCount - 1
    BY DEF Screens
<1>2. First' = IF before' = NUL THEN 0 ELSE -1
    BY DEF First, Sound
<1>3. buffer'[First' - 1] = NUL
    BY <1>2
<1>4. LineTo(0)'
    BY <1>2, Sizes DEF LineTo
<1>5. Shown(0)'
    BY <1>1, Sizes DEF Shown
<1>6. 0 \in -1 .. Size - 1
    BY Sizes
<1> QED
    BY <1>3, <1>4, <1>5, <1>6 DEF LineInv, Screens

LEMMA LineInit == Init => LineInv
<1> SUFFICES ASSUME Init PROVE LineInv
    OBVIOUS
<1>1. PICK r \in 0 .. Rows - 1 : scr = PrintChar(Move(Blank, r * Cols), ">")
    BY DEF Init
<1>2. Move(Blank, r * Cols) \in Screens
  <2> DEFINE a == r * Cols
  <2>1. a \in 0 .. CellCount - 1
    <3>1. r \in Nat /\ Cols \in Nat /\ Rows \in Nat /\ r <= Rows - 1 /\ Cols > 0
        BY ScreenAssumption
    <3>2. r * Cols <= (Rows - 1) * Cols /\ (Rows - 1) * Cols = Rows * Cols - Cols
        BY <3>1
    <3>3. r * Cols >= 0 /\ r * Cols \in Int /\ Rows * Cols \in Int
        BY <3>1
    <3> QED
        BY <3>1, <3>2, <3>3 DEF CellCount
  <2> HIDE DEF a
  <2>2. Move(Blank, a) = [cells |-> [c \in 0 .. CellCount - 1 |-> NUL], at |-> a]
      BY <2>1, Sizes DEF Move, Blank
  <2>3. NUL \in Cell
      BY DEF Cell
  <2> QED
      BY <2>1, <2>2, <2>3 DEF Screens, a
<1>3. before \in Befores /\ buffer = Line(before) /\ i = 0 /\ done = FALSE
    BY DEF Init
<1>4. /\ scr \in Screens /\ scr.at >= 1
      /\ buffer \in [-2 .. Size - 1 -> Cell] /\ \A n \in 0 .. Size - 1 : buffer[n] = NUL
      /\ buffer[-1] = before /\ buffer[-2] = NUL
    BY <1>1, <1>2, <1>3, LineBegins
<1>5. scr.at \in 0 .. CellCount - 1
    BY <1>4 DEF Screens
<1>6. First = IF before = NUL THEN 0 ELSE -1
    BY DEF First, Sound
<1>7. LineTo(0)
    BY <1>3, <1>4, <1>6, Sizes DEF LineTo
<1>8. Shown(0)
    BY <1>3, <1>4, <1>5, Sizes DEF Shown
<1>9. 0 \in -1 .. Size - 1 /\ buffer[First - 1] = NUL
    BY <1>3, <1>4, <1>6, Sizes
<1> QED
    BY <1>3, <1>4, <1>7, <1>8, <1>9 DEF LineInv

LEMMA LineCall == LineInv /\ Call => LineInv'
<1> SUFFICES ASSUME LineInv, Call PROVE LineInv'
    OBVIOUS
<1>1. /\ before' \in Befores /\ buffer' = Line(before') /\ i' = 0 /\ done' = FALSE
      /\ scr' = PrintChar(scr, ">") /\ scr \in Screens
    BY DEF Call, LineInv
<1> HIDE DEF Call
<1> QED
    BY <1>1, LineBegins, LineStart

(* What the other actions leave alone.                                     *)
LEMMA TakeKeeps ==
    Take => /\ ~done /\ before' = before /\ First' = First
            /\ (Printable => Char \in Cell /\ Char # NUL)
<1> SUFFICES ASSUME Take
             PROVE  /\ ~done /\ before' = before
                    /\ (Printable => Char \in Chars)
    BY LineAssumption DEF First, Sound, Cell
<1>1. ASSUME Printable PROVE Char \in Chars
  <2>1. Char = Table[port][1] \/ Char = Table[port][2]
      BY DEF Char
  <2>2. {Table[port][1], Table[port][2]} \in {{Table[k][1], Table[k][2]} : k \in DOMAIN Table}
      BY <1>1 DEF Printable
  <2> QED
      BY <2>1, <2>2 DEF Chars
<1> QED
    BY <1>1 DEF Take, Read

LEMMA LineSame ==
    ASSUME LineInv, UNCHANGED <<buffer, i, before, scr>>,
           done' \in BOOLEAN, done' \/ done' = done
    PROVE  LineInv'
<1>1. First' = First
    BY DEF First, Sound
<1>2. PICK e \in -1 .. Size - 1 : LineTo(e) /\ (~done => Shown(e))
    BY DEF LineInv
<1>3. LineTo(e)' /\ (~done' => Shown(e)')
    BY <1>1, <1>2 DEF LineTo, Shown
<1> QED
    BY <1>1, <1>3 DEF LineInv

LEMMA LineEnter == LineInv /\ Enter => LineInv'
<1> SUFFICES ASSUME LineInv, Enter PROVE LineInv'
    OBVIOUS
<1>1. /\ buffer' = buffer /\ i' = i /\ before' = before /\ done' = TRUE /\ First' = First
      /\ scr' = Newline(scr) /\ scr \in Screens
    BY TakeKeeps DEF Enter, LineInv
<1>2. Newline(scr) \in Screens
  <2> DEFINE a == (scr.at + Cols) - (scr.at % Cols)
  <2>1. /\ scr.at \in 0 .. CellCount - 1 /\ scr.cells \in [0 .. CellCount - 1 -> Cell]
        /\ CellCount \in Nat /\ Cols \in Nat \ {0} /\ CellCount - Cols \in 0 .. CellCount - 1
      BY <1>1, Sizes DEF Screens
  <2>2. scr.at % Cols \in 0 .. Cols - 1
      BY <2>1
  <2>3. a \in Nat
      BY <2>1, <2>2
  <2> HIDE DEF a
  <2>4. scr = [cells |-> scr.cells, at |-> scr.at]
      BY <1>1 DEF Screens
  <2>5. [scr EXCEPT !.at = a] = [cells |-> scr.cells, at |-> a]
      BY <2>4
  <2>6. CASE a < CellCount
    <3>1. Newline(scr) = [cells |-> scr.cells, at |-> a]
        BY <2>5, <2>6 DEF Newline, Scroll, a
    <3> QED
        BY <2>1, <2>3, <2>6, <3>1 DEF Screens
  <2>7. CASE a >= CellCount
    <3> DEFINE moved == [c \in 0 .. CellCount - 1 |->
                            IF c < CellCount - Cols THEN scr.cells[c + Cols] ELSE NUL]
    <3>1. Newline(scr) = [cells |-> moved, at |-> CellCount - Cols]
        BY <2>1, <2>3, <2>5, <2>7 DEF Newline, Scroll, a
    <3>2. NUL \in Cell
        BY DEF Cell
    <3>3. moved \in [0 .. CellCount - 1 -> Cell]
        BY <2>1, <3>2
    <3> QED
        BY <2>1, <3>1, <3>3 DEF Screens
  <2> QED
      BY <2>1, <2>3, <2>6, <2>7
<1>3. PICK e \in -1 .. Size - 1 : LineTo(e)
    BY DEF LineInv
<1>4. LineTo(e)'
    BY <1>1, <1>3 DEF LineTo
<1> QED
    BY <1>1, <1>2, <1>4 DEF LineInv

(* A character behind the last one of the line.                            *)
LEMMA LineAppend ==
    ASSUME LineInv, Append1
    PROVE  LineInv' /\ \E e \in -1 .. Size - 1 : LineTo(e) /\ LineTo(e + 1)' /\ i = e
<1>1. /\ ~done /\ before' = before /\ First' = First /\ Char \in Cell /\ Char # NUL
      /\ buffer' = [buffer EXCEPT ![i] = Char] /\ scr' = PrintChar(scr, Char) /\ i' = i + 1
      /\ done' = done /\ buffer[i] = NUL /\ Fits
    BY TakeKeeps DEF Append1
<1>2. PICK e \in -1 .. Size - 1 : LineTo(e) /\ Shown(e)
    BY <1>1 DEF LineInv
<1>3. /\ First \in {-1, 0} /\ First <= i /\ i = e /\ i \in -1 .. Size - 1
      /\ scr \in Screens /\ buffer \in [-2 .. Size - 1 -> Cell] /\ buffer[First - 1] = NUL
    BY <1>1, <1>2, Sizes DEF LineTo, First, LineInv
<1>4. e + 1 <= Size - 1
    BY <1>1, <1>3, Sizes DEF Fits
<1>5. buffer' \in [-2 .. Size - 1 -> Cell] /\ buffer'[First - 1] = NUL
    BY <1>1, <1>3, Sizes
<1>6. LineTo(e + 1)'
    BY <1>1, <1>2, <1>3, <1>4, Sizes DEF LineTo
<1>7. scr' \in Screens /\ Shown(e + 1)'
  <2>1. scr.at \in 0 .. CellCount - 1 /\ scr.at = (scr.at - i) + e /\ scr.at - i >= 1
      BY <1>2, <1>3 DEF Shown, Screens
  <2>2. CASE scr.at < CellCount - 1
    <3>1. /\ scr' \in Screens /\ scr'.at = scr.at + 1
          /\ \A c \in 0 .. CellCount - 1 : scr'.cells[c] = IF c = scr.at THEN Char ELSE scr.cells[c]
        BY <1>1, <1>3, <2>2, PrintedInside
    <3>2. scr'.at - i' = scr.at - i /\ (scr.at - i) + (e + 1) <= CellCount - 1
        BY <1>1, <1>3, <2>1, <2>2, <3>1, Sizes
    <3>3. ASSUME NEW n \in 0 .. e PROVE scr'.cells[(scr.at - i) + n] = buffer'[n]
      <4>1. (scr.at - i) + n \in 0 .. CellCount - 1 /\ buffer'[n] = IF n = e THEN Char ELSE buffer[n]
          BY <1>1, <1>3, <2>1, <2>2, Sizes
      <4>2. (scr.at - i) + n = scr.at <=> n = e
          BY <2>1, <1>3
      <4>3. n # e => scr.cells[(scr.at - i) + n] = buffer[n]
          BY <1>2, <1>3 DEF Shown
      <4> QED
          BY <3>1, <4>1, <4>2, <4>3
    <3> QED
        BY <1>1, <1>3, <2>1, <3>1, <3>2, <3>3 DEF Shown
  <2>3. CASE scr.at = CellCount - 1
    <3>1. /\ scr' \in Screens /\ scr'.at = CellCount - Cols
          /\ \A c \in 0 .. (CellCount - Cols) - 1 :
                scr'.cells[c] = IF c + Cols = scr.at THEN Char ELSE scr.cells[c + Cols]
        BY <1>1, <1>3, <2>3, PrintedLast
    <3>2. scr'.at - i' = (scr.at - i) - Cols
        BY <1>1, <1>3, <2>1, <2>3, <3>1, Sizes
    <3>3. scr'.at - i' >= 1 /\ (scr'.at - i') + (e + 1) = CellCount - Cols
      <4>1. scr'.at = CellCount - Cols /\ i' = e + 1 /\ e \in Int
          BY <1>1, <1>3, <3>1, Sizes
      <4> QED
          BY <4>1, <1>4, Sizes
    <3>4. ASSUME NEW n \in 0 .. e PROVE scr'.cells[(scr'.at - i') + n] = buffer'[n]
      <4> DEFINE c == (scr'.at - i') + n
      <4>1. buffer'[n] = IF n = e THEN Char ELSE buffer[n]
          BY <1>1, <1>3, Sizes
      <4>2. c \in 0 .. (CellCount - Cols) - 1 /\ c + Cols = (scr.at - i) + n
        <5>1. e \in Int /\ n \in Int /\ 0 <= n /\ n <= e /\ scr'.at - i' \in Int /\ scr.at - i \in Int
            BY <1>3, <2>1, <3>1, <1>1, Sizes
        <5> QED
            BY <5>1, <3>2, <3>3, Sizes
      <4>3. c + Cols = scr.at <=> n = e
          BY <2>1, <1>3, <4>2
      <4>4. n # e => scr.cells[(scr.at - i) + n] = buffer[n]
          BY <1>2, <1>3 DEF Shown
      <4> HIDE DEF c
      <4>5. scr'.cells[c] = buffer'[n]
          BY <3>1, <4>1, <4>2, <4>3, <4>4
      <4> QED
          BY <4>5 DEF c
    <3>5. i' = e + 1 /\ e \in Int /\ CellCount - Cols <= CellCount - 1
        BY <1>1, <1>3, Sizes
    <3> QED
        BY <3>1, <3>3, <3>4, <3>5 DEF Shown
  <2> QED
      BY <2>1, <2>2, <2>3, Sizes
<1>8. e + 1 \in -1 .. Size - 1
    BY <1>3, <1>4
<1> QED
    BY <1>1, <1>2, <1>3, <1>5, <1>6, <1>7, <1>8 DEF LineInv

(* The cursor and the position move together.                              *)
LEMMA LineMoved ==
    ASSUME LineInv, NEW d \in {-1, 1}, scr' = Move(scr, d), i' = i + d,
           UNCHANGED <<buffer, before, done>>, ~done,
           NEW e \in -1 .. Size - 1, LineTo(e), Shown(e), i + d \in First .. e
    PROVE  LineInv'
<1>1. /\ scr \in Screens /\ buffer \in [-2 .. Size - 1 -> Cell] /\ First' = First
      /\ First \in {-1, 0} /\ i \in Int
    BY Sizes DEF LineInv, First, Sound, LineTo
<1>2. scr' = [cells |-> scr.cells, at |-> scr.at + d] /\ scr.at \in Int
    BY <1>1 DEF Move, Screens
<1>3. scr'.at - i' = scr.at - i /\ scr'.cells = scr.cells
    BY <1>1, <1>2
<1>4. scr' \in Screens
  <2>1. scr.at + d = (scr.at - i) + (i + d)
      BY <1>1, <1>2
  <2>2. scr.at + d \in 0 .. CellCount - 1
      BY <1>1, <1>2, <2>1, Sizes DEF Shown
  <2> QED
      BY <1>1, <1>2, <2>2 DEF Screens
<1>5. LineTo(e)' /\ Shown(e)'
    BY <1>1, <1>3 DEF LineTo, Shown
<1> QED
    BY <1>1, <1>4, <1>5 DEF LineInv

LEMMA LineLeft == LineInv /\ Left => LineInv'
<1> SUFFICES ASSUME LineInv, Left PROVE LineInv'
    OBVIOUS
<1>1. /\ ~done /\ before' = before /\ done' = done /\ buffer' = buffer
      /\ buffer[i - 1] # NUL /\ i' = i - 1 /\ scr' = Move(scr, -1)
    BY TakeKeeps DEF Left
<1>2. PICK e \in -1 .. Size - 1 : LineTo(e) /\ Shown(e)
    BY <1>1 DEF LineInv
<1>3. i + (-1) = i - 1 /\ i - 1 \in First .. e
    BY <1>1, <1>2, Sizes DEF LineInv, LineTo, First
<1> QED
    BY <1>1, <1>2, <1>3, LineMoved

LEMMA LineRight == LineInv /\ Right => LineInv'
<1> SUFFICES ASSUME LineInv, Right PROVE LineInv'
    OBVIOUS
<1>1. /\ ~done /\ before' = before /\ done' = done /\ buffer' = buffer
      /\ buffer[i] # NUL /\ i' = i + 1 /\ scr' = Move(scr, 1)
    BY TakeKeeps DEF Right
<1>2. PICK e \in -1 .. Size - 1 : LineTo(e) /\ Shown(e)
    BY <1>1 DEF LineInv
<1>3. i + 1 \in First .. e
    BY <1>1, <1>2, Sizes DEF LineInv, LineTo, First
<1> QED
    BY <1>1, <1>2, <1>3, LineMoved

(* The characters from the cursor on are printed one cell further, the last*)
(* one first: only that one can be printed in the last cell, and when the  *)
(* rows move up, the line's first cell, c, moves with them.                *)
LEMMA Sums ==
    \A a, b, n, k \in Int :
        /\ ((a - b) + n = a <=> n = b) /\ ((a + b) - k = a + n <=> n = b - k)
        /\ (((a - b) - k) + n) + k = (a - b) + n
OBVIOUS

ShowsTo(s, c, e) == \A n \in 0 .. e - 1 : s.cells[c + n] = buffer[n]
GoesBack(g, s, p, e) ==
    g[0] = s /\ \A k \in 1 .. e - p : g[k] = Back(g[k - 1], buffer[e - k])
HasMoved(s, p, e, c) ==
    /\ c >= 1 /\ c + e <= CellCount - 2 /\ s \in Screens /\ s.at = c + p
    /\ \A n \in 0 .. e : s.cells[c + n] = IF n > p THEN buffer[n - 1] ELSE buffer[n]

LEMMA MovedBack ==
    ASSUME buffer \in [-2 .. Size - 1 -> Cell],
           NEW p \in -1 .. Size - 1, NEW e \in -1 .. Size - 2, p < e,
           NEW s \in Screens, s.at - e >= 1, ShowsTo(s, s.at - e, e),
           NEW g, GoesBack(g, s, p, e)
    PROVE  \E c \in Int : HasMoved(g[e - p], p, e, c)
<1>1. /\ p \in Int /\ p >= -1 /\ e \in Int /\ e >= 0 /\ e <= Size - 2 /\ p < e
      /\ s.at \in Int /\ s.at <= CellCount - 1 /\ s.at >= e + 1
      /\ CellCount \in Int /\ Cols \in Int /\ Cols >= 1 /\ Size \in Int
      /\ Size <= CellCount - Cols
  <2>1. /\ Size \in Int /\ CellCount \in Int /\ Cols \in Int /\ Cols >= 1
        /\ Size <= CellCount - Cols
      BY Sizes
  <2>2. p \in Int /\ p >= -1 /\ e \in Int /\ e >= 0 /\ e <= Size - 2
      BY <2>1
  <2>3. s.at \in 0 .. CellCount - 1
      BY DEF Screens
  <2> QED
      BY <2>1, <2>2, <2>3
<1>0. \A n \in -2 .. Size - 1 : buffer[n] \in Cell
    OBVIOUS
<1> DEFINE At(t, c, k) ==
              /\ t \in Screens /\ t.at = (c + e) - k
              /\ \A n \in 0 .. e : t.cells[c + n] = IF n > e - k THEN buffer[n - 1] ELSE buffer[n]
           last1 == PrintChar(s, buffer[e - 1])
<1>2. ASSUME NEW t \in Screens, t.at >= 1
      PROVE  Move(t, -2).at = t.at - 2 /\ Move(t, -2).cells = t.cells
             /\ (t.at >= 2 => Move(t, -2) \in Screens)
  <2>1. Move(t, -2) = [cells |-> t.cells, at |-> t.at - 2] /\ t.at \in 0 .. CellCount - 1
      BY DEF Move, Screens
  <2> QED
      BY <2>1, Sizes DEF Screens
<1>3. PICK c \in Int : c >= 1 /\ c + e <= CellCount - 2 /\ At(g[1], c, 1)
  <2>1. g[1] = Move(last1, -2) /\ buffer[e - 1] \in Cell
    <3>1. 1 \in 1 .. e - p /\ e - 1 \in -2 .. Size - 1
        BY <1>1, Sizes
    <3> QED
        BY <3>1, <1>0, <1>1 DEF Back, GoesBack
  <2>2. CASE s.at < CellCount - 1
    <3> DEFINE c == s.at - e
    <3>1. /\ last1 \in Screens /\ last1.at = s.at + 1
          /\ \A d \in 0 .. CellCount - 1 :
                last1.cells[d] = IF d = s.at THEN buffer[e - 1] ELSE s.cells[d]
        BY <2>1, <2>2, PrintedInside
    <3>2. /\ c \in Int /\ c >= 1 /\ c + e = s.at
          /\ s.at >= 1 /\ \A n \in 0 .. e : c + n \in 0 .. CellCount - 1
        BY <1>1, <2>2
    <3>3. g[1] \in Screens /\ g[1].at = s.at - 1 /\ g[1].cells = last1.cells
      <4>1. last1.at \in Int /\ last1.at >= 2 /\ last1.at - 2 = s.at - 1
          BY <3>1, <3>2, <1>1
      <4> HIDE DEF last1
      <4>2. Move(last1, -2).at = last1.at - 2 /\ Move(last1, -2).cells = last1.cells
            /\ Move(last1, -2) \in Screens
          BY <1>2, <3>1, <4>1
      <4> QED
          BY <2>1, <4>1, <4>2
    <3>4. ASSUME NEW n \in 0 .. e
          PROVE  g[1].cells[c + n] = IF n > e - 1 THEN buffer[n - 1] ELSE buffer[n]
      <4>1. c + n = s.at <=> n = e
        <5>1. n \in Int /\ e \in Int /\ s.at \in Int
            BY <1>1
        <5> QED
            BY <5>1, Sums
      <4>2. n > e - 1 <=> n = e
          BY <1>1
      <4>3. n # e => s.cells[c + n] = buffer[n]
          BY <1>1 DEF ShowsTo
      <4> QED
          BY <3>1, <3>2, <3>3, <4>1, <4>2, <4>3
    <3> HIDE DEF c
    <3>5. c + e <= CellCount - 2
        BY <1>1, <2>2, <3>2
    <3> QED
        BY <3>2, <3>3, <3>4, <3>5
  <2>3. CASE s.at = CellCount - 1
    <3> DEFINE c == (s.at - e) - Cols
    <3>1. /\ last1 \in Screens /\ last1.at = CellCount - Cols
          /\ \A d \in 0 .. (CellCount - Cols) - 1 :
                last1.cells[d] = IF d + Cols = s.at THEN buffer[e - 1] ELSE s.cells[d + Cols]
        BY <2>1, <2>3, PrintedLast
    <3>2. /\ c \in Int /\ c >= 1 /\ c + e = (CellCount - Cols) - 1
          /\ \A n \in 0 .. e : c + n \in 0 .. (CellCount - Cols) - 1
          /\ \A n \in 0 .. e : (c + n) + Cols = (s.at - e) + n
        BY <1>1, <2>3
    <3>3. g[1] \in Screens /\ g[1].at = (c + e) - 1 /\ g[1].cells = last1.cells
      <4>1. last1.at >= 2 /\ last1.at - 2 = (c + e) - 1
        <5>1. e >= 0 /\ CellCount - Cols = (c + e) + 1
            BY <1>1, <3>2, Sizes
        <5> QED
            BY <3>1, <3>2, <5>1
      <4>2. last1.at \in Int
          BY <3>1, <1>1
      <4> HIDE DEF last1, c
      <4>3. Move(last1, -2).at = last1.at - 2 /\ Move(last1, -2).cells = last1.cells
            /\ Move(last1, -2) \in Screens
          BY <1>2, <3>1, <4>1, <4>2
      <4> QED
          BY <2>1, <4>1, <4>3
    <3>4. ASSUME NEW n \in 0 .. e
          PROVE  g[1].cells[c + n] = IF n > e - 1 THEN buffer[n - 1] ELSE buffer[n]
      <4>1. (c + n) + Cols = s.at <=> n = e
        <5>1. n \in Int /\ e \in Int /\ s.at \in Int /\ (c + n) + Cols = (s.at - e) + n
            BY <1>1, <3>2
        <5> HIDE DEF c
        <5> QED
            BY <5>1, Sums
      <4>2. n > e - 1 <=> n = e
          BY <1>1
      <4>3. n # e => s.cells[(c + n) + Cols] = buffer[n]
        <5>1. (c + n) + Cols = (s.at - e) + n
            BY <3>2
        <5>2. n # e => n \in 0 .. e - 1
            BY <1>1
        <5> HIDE DEF c
        <5> QED
            BY <5>1, <5>2 DEF ShowsTo
      <4> HIDE DEF c
      <4> QED
          BY <3>1, <3>2, <3>3, <4>1, <4>2, <4>3
    <3> HIDE DEF c
    <3>5. c + e <= CellCount - 2
        BY <1>1, <3>2
    <3> QED
        BY <3>2, <3>3, <3>4, <3>5
  <2> QED
      BY <1>1, <2>2, <2>3, Sizes
<1>4. ASSUME NEW k \in 1 .. (e - p) - 1, At(g[k], c, k) PROVE At(g[k + 1], c, k + 1)
  <2> DEFINE t == g[k]
             ch == buffer[e - (k + 1)]
             u == PrintChar(t, ch)
  <2>1. g[k + 1] = Move(u, -2) /\ ch \in Cell
    <3>1. k + 1 \in 1 .. e - p /\ e - (k + 1) \in -2 .. Size - 1 /\ (k + 1) - 1 = k
        BY <1>1, Sizes
    <3> QED
        BY <3>1, <1>0, <1>1 DEF Back, GoesBack
  <2>2. t \in Screens /\ t.at = (c + e) - k /\ t.at < CellCount - 1 /\ t.at >= 1 /\ t.at \in Int
      BY <1>1, <1>3, <1>4
  <2>3. /\ u \in Screens /\ u.at = t.at + 1
        /\ \A d \in 0 .. CellCount - 1 : u.cells[d] = IF d = t.at THEN ch ELSE t.cells[d]
      BY <2>1, <2>2, PrintedInside
  <2>4. g[k + 1] \in Screens /\ g[k + 1].at = (c + e) - (k + 1) /\ g[k + 1].cells = u.cells
    <3>1. u.at \in Int /\ u.at >= 2 /\ u.at - 2 = (c + e) - (k + 1)
      <4>1. k \in Int /\ c \in Int /\ t.at >= 1
          BY <1>1, <1>3, <2>2
      <4> HIDE DEF u, t
      <4> QED
          BY <1>1, <2>2, <2>3, <4>1
    <3> HIDE DEF u
    <3>2. Move(u, -2).at = u.at - 2 /\ Move(u, -2).cells = u.cells /\ Move(u, -2) \in Screens
        BY <1>2, <2>3, <3>1
    <3> QED
        BY <2>1, <3>1, <3>2
  <2>5. ASSUME NEW n \in 0 .. e
        PROVE  g[k + 1].cells[c + n] = IF n > e - (k + 1) THEN buffer[n - 1] ELSE buffer[n]
    <3>1. c + n \in 0 .. CellCount - 1
      <4>1. n \in Int /\ 0 <= n /\ n <= e /\ c >= 1 /\ c + e <= CellCount - 2
          BY <1>1, <1>3
      <4> QED
          BY <1>1, <4>1
    <3>2. c + n = t.at <=> n = e - k
      <4>1. n \in Int /\ e \in Int /\ c \in Int /\ k \in Int /\ t.at = (c + e) - k
          BY <1>1, <1>3, <2>2
      <4> HIDE DEF t
      <4> QED
          BY <4>1, Sums
    <3>3. n = e - k => n - 1 = e - (k + 1)
        BY <1>1
    <3>4. n > e - (k + 1) <=> n > e - k \/ n = e - k
        BY <1>1
    <3>5. t.cells[c + n] = IF n > e - k THEN buffer[n - 1] ELSE buffer[n]
        BY <1>4
    <3> QED
        BY <2>3, <2>4, <3>1, <3>2, <3>3, <3>4, <3>5
  <2> QED
      BY <2>4, <2>5
<1> HIDE DEF At
<1> DEFINE S == {k \in 0 .. (e - p) - 1 : At(g[k + 1], c, k + 1)}
<1>5. At(g[e - p], c, e - p)
  <2>1. (e - p) - 1 \in Nat
      BY <1>1
  <2>2. 0 \in S
      BY <1>3, <2>1
  <2>3. ASSUME NEW k \in 0 .. ((e - p) - 1) - 1, k \in S PROVE k + 1 \in S
    <3>1. k + 1 \in 1 .. (e - p) - 1 /\ At(g[k + 1], c, k + 1)
        BY <1>1, <2>3
    <3>2. At(g[(k + 1) + 1], c, (k + 1) + 1)
        BY <1>4, <3>1
    <3> QED
        BY <1>1, <3>1, <3>2
  <2> HIDE DEF S
  <2>4. \A k \in 0 .. (e - p) - 1 : k \in S
      BY <2>1, <2>2, <2>3, Printing!UpTo
  <2>5. (e - p) - 1 \in S
      BY <2>1, <2>4
  <2>6. ((e - p) - 1) + 1 = e - p
      BY <1>1
  <2> QED
      BY <2>5, <2>6 DEF S
<1>6. (c + e) - (e - p) = c + p /\ e - (e - p) = p
    BY <1>1, <1>3
<1> QED
    BY <1>3, <1>5, <1>6 DEF At, HasMoved

LEMMA LineInsert ==
    ASSUME LineInv, Insert
    PROVE  LineInv' /\ \E e \in -1 .. Size - 1 :
                          /\ LineTo(e) /\ LineTo(e + 1)' /\ i < e
                          /\ buffer' = Shifted(Char, e)
<1>1. /\ ~done /\ before' = before /\ First' = First /\ Char \in Cell /\ Char # NUL
      /\ i' = i + 1 /\ done' = done /\ buffer[i] # NUL /\ Fits
    BY TakeKeeps DEF Insert
<1>2. PICK e \in -1 .. Size - 1 : LineTo(e) /\ Shown(e)
    BY <1>1 DEF LineInv
<1>3. /\ First \in {-1, 0} /\ First <= i /\ i \in -1 .. Size - 1 /\ i <= e
      /\ scr \in Screens /\ buffer \in [-2 .. Size - 1 -> Cell] /\ buffer[First - 1] = NUL
    BY <1>1, <1>2, Sizes DEF LineTo, First, LineInv
<1>4. e <= Size - 2 /\ i < e
  <2>1. \E n \in i .. Size - 2 : buffer[n] = NUL
      BY <1>1 DEF Fits
  <2>2. \A n \in i .. e - 1 : buffer[n] # NUL
      BY <1>2, <1>3 DEF LineTo
  <2>3. i # e
      BY <1>1, <1>2, <1>3, Sizes DEF LineTo
  <2> QED
      BY <1>3, <2>1, <2>2, <2>3, Sizes
<1>5. EndOf(i) = e
    BY <1>2, <1>3, Sizes, EndIs
<1> DEFINE s0    == Move(scr, e - i)
           moved == [n \in 1 .. e - i |-> buffer[e - n]]
<1>6. buffer' = Shifted(Char, e) /\ scr' = PrintChar(PrintedBack(s0, moved), Char)
    BY <1>5 DEF Insert, PrintedBack, Back
<1>7. /\ s0 \in Screens /\ s0.at - e = scr.at - i /\ s0.at - e >= 1 /\ s0.cells = scr.cells
      /\ ShowsTo(s0, s0.at - e, e)
  <2>1. /\ scr.at - i >= 1 /\ (scr.at - i) + e <= CellCount - 1
        /\ \A n \in 0 .. e - 1 : scr.cells[(scr.at - i) + n] = buffer[n]
      BY <1>2 DEF Shown
  <2>2. s0 = [cells |-> scr.cells, at |-> scr.at + (e - i)] /\ scr.at \in 0 .. CellCount - 1
        /\ scr.cells \in [0 .. CellCount - 1 -> Cell]
      BY <1>3 DEF Move, Screens
  <2>3. scr.at + (e - i) \in 0 .. CellCount - 1 /\ (scr.at + (e - i)) - e = scr.at - i
      BY <1>3, <1>4, <2>1, <2>2, Sizes
  <2> HIDE DEF s0
  <2>4. s0 \in Screens /\ s0.at - e = scr.at - i /\ s0.cells = scr.cells
      BY <2>2, <2>3 DEF Screens
  <2> QED
      BY <2>1, <2>4 DEF ShowsTo
<1> HIDE DEF s0
<1>8. PICK g : /\ g[0] = s0 /\ PrintedBack(s0, moved) = g[e - i]
               /\ \A k \in 1 .. e - i : g[k] = Back(g[k - 1], moved[k])
  <2>1. e - i \in Nat /\ DOMAIN moved = 1 .. e - i
      BY <1>3, <1>4, Sizes
  <2> DEFINE m == e - i
  <2> HIDE DEF moved, m
  <2>2. \E g : /\ g[0] = s0 /\ PrintedBack(s0, moved) = g[m]
               /\ \A k \in 1 .. m : g[k] = Back(g[k - 1], moved[k])
      BY <2>1, PrintedBackRun DEF m
  <2> QED
      BY <2>2 DEF m
<1>9. GoesBack(g, s0, i, e)
    BY <1>8 DEF GoesBack
<1> DEFINE t == g[e - i]
<1>10. PICK c \in Int : HasMoved(t, i, e, c)
  <2>1. i \in -1 .. Size - 1 /\ e \in -1 .. Size - 2
      BY <1>3, <1>4, Sizes
  <2> QED
      BY <1>3, <1>4, <1>7, <1>9, <2>1, MovedBack
<1> HIDE DEF t
<1>11. /\ i \in Int /\ i >= -1 /\ e \in Int /\ e >= 0 /\ c + i < CellCount - 1 /\ c + i >= 0
       /\ CellCount \in Int
    BY <1>3, <1>4, <1>10, Sizes DEF HasMoved
<1>12. /\ scr' \in Screens /\ scr'.at = (c + i) + 1
       /\ \A d \in 0 .. CellCount - 1 : scr'.cells[d] = IF d = c + i THEN Char ELSE t.cells[d]
  <2>1. scr' = PrintChar(t, Char)
      BY <1>6, <1>8 DEF t
  <2> QED
      BY <1>1, <1>10, <1>11, <2>1, PrintedInside DEF HasMoved
<1>13. /\ buffer' \in [-2 .. Size - 1 -> Cell]
       /\ \A n \in -2 .. Size - 1 :
             buffer'[n] = IF n = i THEN Char ELSE IF n \in i + 1 .. e THEN buffer[n - 1] ELSE buffer[n]
  <2>1. DOMAIN buffer = -2 .. Size - 1 /\ \A n \in -2 .. Size - 1 : buffer[n] \in Cell
      BY <1>3
  <2>2. \A n \in i + 1 .. e : n - 1 \in -2 .. Size - 1
      BY <1>3, <1>4, Sizes
  <2> QED
      BY <1>1, <1>6, <2>1, <2>2 DEF Shifted
<1>14. LineTo(e + 1)' /\ buffer'[First' - 1] = NUL
  <2>1. e + 1 \in First .. Size - 1 /\ i + 1 \in First .. e + 1
      BY <1>3, <1>4, Sizes
  <2>2. ASSUME NEW n \in First .. e PROVE buffer'[n] # NUL
    <3>1. n \in -2 .. Size - 1 /\ n \in Int
        BY <1>3, <1>4, Sizes
    <3>2. CASE n = i
        BY <1>1, <1>13, <3>1, <3>2
    <3>3. CASE n \in i + 1 .. e
      <4>1. n - 1 \in First .. e - 1
          BY <1>3, <3>3, <1>11
      <4> QED
          BY <1>2, <1>13, <3>1, <3>3, <4>1, <1>11 DEF LineTo
    <3>4. CASE n < i
      <4>1. n \in First .. e - 1
          BY <1>3, <1>4, <3>4, <1>11
      <4> QED
          BY <1>2, <1>13, <3>1, <3>4, <4>1, <1>11 DEF LineTo
    <3> QED
        BY <3>1, <3>2, <3>3, <3>4, <1>11, <1>3
  <2>3. ASSUME NEW n \in e + 1 .. Size - 1 PROVE buffer'[n] = NUL
    <3>1. n \in -2 .. Size - 1 /\ n # i /\ n \notin i + 1 .. e /\ n \in e .. Size - 1
        BY <1>3, <1>4, Sizes
    <3> QED
        BY <1>2, <1>13, <3>1 DEF LineTo
  <2>4. buffer'[First - 1] = NUL
    <3>1. First - 1 \in -2 .. Size - 1 /\ First - 1 # i /\ First - 1 \notin i + 1 .. e
        BY <1>3, <1>4, Sizes
    <3> QED
        BY <1>3, <1>13, <3>1
  <2>5. (e + 1) - 1 = e
      BY <1>11
  <2> QED
      BY <1>1, <2>1, <2>2, <2>3, <2>4, <2>5 DEF LineTo
<1>15. Shown(e + 1)'
  <2>1. scr'.at - i' = c /\ c + (e + 1) <= CellCount - 1 /\ (e + 1) - 1 = e
      BY <1>1, <1>10, <1>11, <1>12 DEF HasMoved
  <2>2. ASSUME NEW n \in 0 .. e PROVE scr'.cells[c + n] = buffer'[n]
    <3>1. c + n \in 0 .. CellCount - 1 /\ n \in -2 .. Size - 1 /\ (c + n = c + i <=> n = i)
        BY <1>3, <1>4, <1>10, <1>11, Sizes DEF HasMoved
    <3>2. n \in i + 1 .. e <=> n > i
        BY <1>11
    <3> QED
        BY <1>10, <1>12, <1>13, <3>1, <3>2 DEF HasMoved
  <2> QED
      BY <1>10, <2>1, <2>2 DEF Shown, HasMoved
<1>16. e + 1 \in -1 .. Size - 1
    BY <1>4, <1>11, Sizes
<1> QED
    BY <1>1, <1>2, <1>3, <1>4, <1>6, <1>12, <1>13, <1>14, <1>15, <1>16 DEF LineInv

(* The characters behind the erased one, and the 0 behind them, are printed*)
(* one cell nearer; none is printed in the last cell.                      *)
GoesOn(g, s, p, e) ==
    g[0] = s /\ \A k \in 1 .. (e - p) + 1 : g[k] = PrintChar(g[k - 1], buffer[(p - 1) + k])
HasClosed(s, p, e, c, k) ==
    /\ s \in Screens /\ s.at = (c + p) - 1 + k
    /\ \A n \in 0 .. e - 1 :
          s.cells[c + n] = IF n \in p - 1 .. (p + k) - 2 THEN buffer[n + 1] ELSE buffer[n]

LEMMA ClosedUp ==
    ASSUME buffer \in [-2 .. Size - 1 -> Cell],
           NEW p \in 0 .. Size - 1, NEW e \in p .. Size - 1, NEW c \in Int, c >= 1,
           c + e <= CellCount - 1, NEW s \in Screens, s.at = (c + p) - 1, ShowsTo(s, c, e),
           NEW g, GoesOn(g, s, p, e)
    PROVE  HasClosed(g[(e - p) + 1], p, e, c, (e - p) + 1)
<1>1. /\ p \in Int /\ p >= 0 /\ e \in Int /\ e <= Size - 1 /\ p <= e
      /\ s.at \in Int /\ CellCount \in Int /\ Size \in Int
    BY Sizes DEF Screens
<1>2. \A n \in -2 .. Size - 1 : buffer[n] \in Cell
    OBVIOUS
<1>3. HasClosed(g[0], p, e, c, 0)
  <2>1. g[0] = s /\ s.at = (c + p) - 1 + 0
      BY <1>1 DEF GoesOn
  <2>2. \A n \in 0 .. e - 1 : n \notin p - 1 .. (p + 0) - 2
      BY <1>1
  <2> QED
      BY <1>1, <2>1, <2>2 DEF HasClosed, ShowsTo
<1>4. ASSUME NEW k \in 0 .. e - p, HasClosed(g[k], p, e, c, k)
      PROVE  HasClosed(g[k + 1], p, e, c, k + 1)
  <2> DEFINE t  == g[k]
             ch == buffer[p + k]
             u  == g[k + 1]
  <2>1. k \in Int /\ 0 <= k /\ k <= e - p
      BY <1>1
  <2>2. u = PrintChar(t, ch) /\ ch \in Cell
    <3>1. /\ k + 1 \in 1 .. (e - p) + 1 /\ (k + 1) - 1 = k /\ (p - 1) + (k + 1) = p + k
          /\ p + k \in -2 .. Size - 1
        BY <1>1, <2>1
    <3> QED
        BY <3>1, <1>2 DEF GoesOn
  <2>3. t \in Screens /\ t.at = (c + p) - 1 + k /\ t.at < CellCount - 1
    <3>1. t \in Screens /\ t.at = (c + p) - 1 + k
        BY <1>4 DEF HasClosed
    <3> HIDE DEF t
    <3> QED
        BY <1>1, <2>1, <3>1
  <2> HIDE DEF u
  <2>4. /\ u \in Screens /\ u.at = t.at + 1
        /\ \A d \in 0 .. CellCount - 1 : u.cells[d] = IF d = t.at THEN ch ELSE t.cells[d]
      BY <2>2, <2>3, PrintedInside
  <2>5. u.at = (c + p) - 1 + (k + 1)
      BY <1>1, <2>1, <2>3, <2>4
  <2>6. ASSUME NEW n \in 0 .. e - 1
        PROVE  u.cells[c + n] = IF n \in p - 1 .. (p + (k + 1)) - 2 THEN buffer[n + 1] ELSE buffer[n]
    <3>1. n \in Int /\ 0 <= n /\ n <= e - 1
        BY <1>1
    <3>2. c + n \in 0 .. CellCount - 1
        BY <1>1, <3>1
    <3>3. c + n = t.at <=> n = (p + k) - 1
        BY <1>1, <2>1, <2>3, <3>1
    <3>4. n = (p + k) - 1 => n + 1 = p + k
        BY <1>1, <2>1, <3>1
    <3>5. n \in p - 1 .. (p + (k + 1)) - 2 <=> n \in p - 1 .. (p + k) - 2 \/ n = (p + k) - 1
        BY <1>1, <2>1, <3>1
    <3>6. t.cells[c + n] = IF n \in p - 1 .. (p + k) - 2 THEN buffer[n + 1] ELSE buffer[n]
        BY <1>4 DEF HasClosed
    <3>7. n = (p + k) - 1 => n \notin p - 1 .. (p + k) - 2
        BY <1>1, <2>1, <3>1
    <3> HIDE DEF t
    <3> QED
        BY <2>4, <3>2, <3>3, <3>4, <3>5, <3>6, <3>7
  <2> QED
      BY <2>4, <2>5, <2>6 DEF HasClosed, u
<1> DEFINE m == (e - p) + 1
           S == {k \in 0 .. m : HasClosed(g[k], p, e, c, k)}
<1>5. m \in Nat
    BY <1>1
<1>6. 0 \in S
    BY <1>3, <1>5
<1>7. ASSUME NEW k \in 0 .. m - 1, k \in S PROVE k + 1 \in S
  <2>1. k \in 0 .. e - p /\ k + 1 \in 0 .. m
      BY <1>1, <1>5
  <2> QED
      BY <1>4, <1>7, <2>1
<1> HIDE DEF S, m
<1>8. m \in S
  <2>1. \A k \in 0 .. m : k \in S
      BY <1>5, <1>6, <1>7, Printing!UpTo
  <2> QED
      BY <1>5, <2>1
<1> QED
    BY <1>8 DEF S, m

LEMMA LineBackspace ==
    ASSUME LineInv, Backspace
    PROVE  LineInv' /\ \E e \in -1 .. Size - 1 :
              /\ LineTo(e) /\ LineTo(e - 1)' /\ First <= i - 1
              /\ \A n \in -2 .. Size - 1 :
                    buffer'[n] = IF n \in i - 1 .. e - 1 THEN buffer[n + 1] ELSE buffer[n]
<1>1. /\ ~done /\ before' = before /\ First' = First
      /\ i' = i - 1 /\ done' = done /\ buffer[i - 1] # NUL
    BY TakeKeeps DEF Backspace
<1>2. PICK e \in -1 .. Size - 1 : LineTo(e) /\ Shown(e)
    BY <1>1 DEF LineInv
<1>3. /\ First \in {-1, 0} /\ First <= i /\ i \in -1 .. Size - 1 /\ i <= e
      /\ scr \in Screens /\ buffer \in [-2 .. Size - 1 -> Cell] /\ buffer[First - 1] = NUL
    BY <1>1, <1>2, Sizes DEF LineTo, First, LineInv
<1>4. First <= i - 1 /\ i \in Int /\ i >= 0 /\ e \in Int /\ e <= Size - 1 /\ Size \in Int
    BY <1>1, <1>3, Sizes
<1>5. EndOf(i) = e
    BY <1>2, <1>3, Sizes, EndIs
<1> DEFINE s0    == Move(scr, -1)
           m     == (e - i) + 1
           moved == [n \in 1 .. m |-> buffer[(i - 1) + n]]
           c     == scr.at - i
<1>6. /\ buffer' = [n \in DOMAIN buffer |->
                       IF n \in i - 1 .. e - 1 THEN buffer[n + 1] ELSE buffer[n]]
      /\ scr' = Move(Printed(s0, moved), -m)
    BY <1>5 DEF Backspace, Printed
<1>7. /\ c \in Int /\ c >= 1 /\ c + e <= CellCount - 1 /\ CellCount \in Int
      /\ s0 \in Screens /\ s0.at = (c + i) - 1 /\ ShowsTo(s0, c, e)
  <2>1. /\ scr.at - i >= 1 /\ (scr.at - i) + e <= CellCount - 1
        /\ \A n \in 0 .. e - 1 : scr.cells[(scr.at - i) + n] = buffer[n]
      BY <1>2 DEF Shown
  <2>2. scr.at \in 0 .. CellCount - 1 /\ scr.at \in Int
        /\ scr.cells \in [0 .. CellCount - 1 -> Cell] /\ CellCount \in Int
      BY <1>3, Sizes DEF Screens
  <2>3. scr.at - 1 \in 0 .. CellCount - 1 /\ scr.at - 1 = ((scr.at - i) + i) - 1
    <3>1. scr.at - i >= 1
        BY <2>1
    <3> QED
        BY <1>4, <2>2, <3>1
  <2>7. s0 = [cells |-> scr.cells, at |-> scr.at - 1]
      BY <1>3, <2>2 DEF Move, Screens
  <2> HIDE DEF s0
  <2>4. s0 \in Screens /\ s0.at = scr.at - 1 /\ s0.cells = scr.cells
      BY <2>2, <2>3, <2>7 DEF Screens
  <2>5. ShowsTo(s0, c, e)
      BY <2>1, <2>4 DEF ShowsTo
  <2>6. c \in Int
      BY <1>4, <2>2
  <2> QED
      BY <2>1, <2>2, <2>3, <2>4, <2>5, <2>6
<1> HIDE DEF s0, c
<1>8. PICK g : /\ g[0] = s0 /\ Printed(s0, moved) = g[m]
               /\ \A k \in 1 .. m : g[k] = PrintChar(g[k - 1], moved[k])
  <2>1. m \in Nat /\ DOMAIN moved = 1 .. m
      BY <1>3, <1>4
  <2> HIDE DEF moved, m
  <2>2. \E after : after = Printed(s0, moved)
      OBVIOUS
  <2> QED
      BY <2>1, <2>2, PrintedRun
<1>9. GoesOn(g, s0, i, e)
    BY <1>8 DEF GoesOn
<1> DEFINE t == g[(e - i) + 1]
<1>10. HasClosed(t, i, e, c, (e - i) + 1)
  <2>1. i \in 0 .. Size - 1 /\ e \in i .. Size - 1
      BY <1>3, <1>4
  <2> QED
      BY <1>3, <1>7, <1>9, <2>1, ClosedUp
<1>11. scr' = Move(t, -((e - i) + 1))
    BY <1>6, <1>8
<1> HIDE DEF t
<1>12. t \in Screens /\ t.at = c + e /\ t.at \in Int
  <2>1. t \in Screens /\ t.at = (c + i) - 1 + ((e - i) + 1)
      BY <1>10 DEF HasClosed
  <2> QED
      BY <1>4, <1>7, <2>1
<1>13. scr' \in Screens /\ scr'.at = (c + i) - 1 /\ scr'.cells = t.cells
  <2>1. t.at + (-((e - i) + 1)) = (c + i) - 1 /\ (c + i) - 1 \in 0 .. CellCount - 1
      BY <1>3, <1>4, <1>7, <1>12
  <2>2. scr' = [cells |-> t.cells, at |-> (c + i) - 1] /\ t.cells \in [0 .. CellCount - 1 -> Cell]
      BY <1>11, <1>12, <2>1 DEF Move, Screens
  <2> QED
      BY <2>1, <2>2 DEF Screens
<1>14. /\ buffer' \in [-2 .. Size - 1 -> Cell]
       /\ \A n \in -2 .. Size - 1 :
             buffer'[n] = IF n \in i - 1 .. e - 1 THEN buffer[n + 1] ELSE buffer[n]
  <2>1. DOMAIN buffer = -2 .. Size - 1 /\ \A n \in -2 .. Size - 1 : buffer[n] \in Cell
      BY <1>3
  <2>2. \A n \in i - 1 .. e - 1 : n + 1 \in -2 .. Size - 1
      BY <1>3, <1>4
  <2> QED
      BY <1>6, <2>1, <2>2
<1>15. LineTo(e - 1)' /\ buffer'[First' - 1] = NUL
  <2>1. e - 1 \in First .. Size - 1 /\ i - 1 \in First .. e - 1
      BY <1>3, <1>4
  <2>2. ASSUME NEW n \in First .. e - 2 PROVE buffer'[n] # NUL
    <3>1. n \in -2 .. Size - 1 /\ n \in First .. e - 1 /\ n + 1 \in First .. e - 1
        BY <1>3, <1>4
    <3> QED
        BY <1>2, <1>14, <3>1 DEF LineTo
  <2>3. ASSUME NEW n \in e - 1 .. Size - 1 PROVE buffer'[n] = NUL
    <3>1. n \in -2 .. Size - 1 /\ (n \in i - 1 .. e - 1 <=> n = e - 1)
        BY <1>3, <1>4
    <3>2. n = e - 1 => n + 1 = e /\ e \in e .. Size - 1
        BY <1>4
    <3>3. n # e - 1 => n \in e .. Size - 1
        BY <1>4
    <3> QED
        BY <1>2, <1>14, <3>1, <3>2, <3>3 DEF LineTo
  <2>4. buffer'[First - 1] = NUL
    <3>1. First - 1 \in -2 .. Size - 1 /\ First - 1 \notin i - 1 .. e - 1
        BY <1>3, <1>4
    <3> QED
        BY <1>3, <1>14, <3>1
  <2>5. (e - 1) - 1 = e - 2
      BY <1>4
  <2> QED
      BY <1>1, <2>1, <2>2, <2>3, <2>4, <2>5 DEF LineTo
<1>16. Shown(e - 1)'
  <2>1. scr'.at - i' = c /\ c + (e - 1) <= CellCount - 1 /\ (e - 1) - 1 = e - 2
      BY <1>1, <1>4, <1>7, <1>13
  <2>2. ASSUME NEW n \in 0 .. e - 2 PROVE scr'.cells[c + n] = buffer'[n]
    <3>1. n \in 0 .. e - 1 /\ n \in -2 .. Size - 1
        BY <1>4
    <3>2. n \in i - 1 .. (i + ((e - i) + 1)) - 2 <=> n \in i - 1 .. e - 1
        BY <1>4
    <3> QED
        BY <1>10, <1>13, <1>14, <3>1, <3>2 DEF HasClosed
  <2> QED
      BY <1>7, <2>1, <2>2 DEF Shown
<1>17. e - 1 \in -1 .. Size - 1
    BY <1>3, <1>4
<1> QED
    BY <1>1, <1>2, <1>3, <1>4, <1>13, <1>14, <1>15, <1>16, <1>17 DEF LineInv

LEMMA LineStep == LineInv /\ [Next]_vars => LineInv'
<1> SUFFICES ASSUME LineInv, [Next]_vars PROVE LineInv'
    OBVIOUS
<1>1. done \in BOOLEAN
    BY DEF LineInv
<1>2. ASSUME Hold \/ Ignore \/ UNCHANGED vars \/ \E code \in Codes : Press(code)
      PROVE  LineInv'
  <2>1. UNCHANGED <<buffer, i, before, scr, done>>
      BY <1>2 DEF Hold, Ignore, Take, Read, vars, Press
  <2> QED
      BY <1>1, <2>1, LineSame
<1>3. CASE Call
    BY <1>3, LineCall
<1>4. CASE Append1
    BY <1>4, LineAppend
<1>5. CASE Insert
    BY <1>5, LineInsert
<1>6. CASE Left
    BY <1>6, LineLeft
<1>7. CASE Right
    BY <1>7, LineRight
<1>8. CASE Backspace
    BY <1>8, LineBackspace
<1>9. CASE Enter
    BY <1>9, LineEnter
<1> QED
    BY <1>2, <1>3, <1>4, <1>5, <1>6, <1>7, <1>8, <1>9 DEF Next, Poll

THEOREM LineInvariance == Spec => []LineInv
<1> QED
    BY LineInit, LineStep, PTL DEF Spec

(* The text in the buffer, when the byte before it is 0.                   *)
LEMMA TextIs ==
    ASSUME buffer \in [-2 .. Size - 1 -> Cell], Sound, NEW e, LineTo(e)
    PROVE  /\ e \in Nat /\ e <= Size - 1 /\ i \in 0 .. e /\ Text \in Seq(Cell) /\ Len(Text) = e
           /\ Text = [n \in 1 .. e |-> buffer[n - 1]]
<1>1. First = 0 /\ e \in Nat /\ e <= Size - 1 /\ i \in 0 .. e
    BY Sizes DEF LineTo, First
<1>2. EndOf(0) = e
  <2>1. 0 \in First .. e
      BY <1>1
  <2> QED
      BY <2>1, EndIs
<1>3. Text = [n \in 1 .. e |-> buffer[n - 1]]
    BY <1>2 DEF Text
<1>4. \A n \in 1 .. e : buffer[n - 1] \in Cell
  <2>1. \A n \in 1 .. e : n - 1 \in -2 .. Size - 1
      BY <1>1, Sizes
  <2> QED
      BY <2>1
<1> QED
    BY <1>1, <1>3, <1>4

(* The screen shows the line that is in the buffer, with the cursor where  *)
(* the next character goes, whatever keys were pressed: keyboard.c:66-146. *)
THEOREM ScreenMirrorsLine == Spec => []MirrorsLine
<1>1. LineInv => MirrorsLine
  <2> SUFFICES ASSUME LineInv, Sound, ~done
               PROVE  /\ i \in 0 .. Len(Text)
                      /\ \A n \in 1 .. Len(Text) :
                            LET c == (scr.at + n) - (i + 1)
                            IN  c \in 0 .. CellCount - 1 /\ scr.cells[c] = Text[n]
      BY DEF MirrorsLine
  <2>1. PICK e \in -1 .. Size - 1 : LineTo(e) /\ Shown(e)
      BY DEF LineInv
  <2>2. /\ e \in Nat /\ i \in 0 .. e /\ Len(Text) = e
        /\ Text = [n \in 1 .. e |-> buffer[n - 1]]
      BY <2>1, TextIs DEF LineInv
  <2>3. scr.at \in Int /\ CellCount \in Int
      BY Sizes DEF LineInv, Screens
  <2>4. ASSUME NEW n \in 1 .. e
        PROVE  LET c == (scr.at + n) - (i + 1)
               IN  c \in 0 .. CellCount - 1 /\ scr.cells[c] = Text[n]
    <3>1. (scr.at + n) - (i + 1) = (scr.at - i) + (n - 1) /\ n - 1 \in 0 .. e - 1
      <4>1. scr.at \in Int /\ n \in Int /\ i \in Int /\ e \in Int /\ 1 <= n /\ n <= e
          BY <2>2, <2>3
      <4> QED
          BY <4>1
    <3>2. (scr.at - i) + (n - 1) \in 0 .. CellCount - 1
        BY <2>1, <2>2, <2>3 DEF Shown
    <3>3. scr.cells[(scr.at - i) + (n - 1)] = buffer[n - 1]
        BY <2>1, <3>1 DEF Shown
    <3> QED
        BY <2>2, <3>1, <3>2, <3>3
  <2> QED
      BY <2>2, <2>4
<1> QED
    BY <1>1, LineInvariance, PTL

-----------------------------------------------------------------------------
(* The line implements the text a user edits.                              *)

AText == IF Sound THEN Text ELSE <<>>
AAt   == IF Sound THEN i ELSE 0

LEMMA InsertedText ==
    ASSUME NEW S, NEW s \in Seq(S), NEW k \in 1 .. Len(s) + 1, NEW x \in S
    PROVE  Abstract!InsertAt(s, k, x) =
              [n \in 1 .. Len(s) + 1 |-> IF n < k THEN s[n] ELSE IF n = k THEN x ELSE s[n - 1]]
<1>1. Abstract!InsertAt(s, k, x) = Printing!InsertAt(s, k, x)
    BY DEF Abstract!InsertAt, Printing!InsertAt
<1> QED
    BY <1>1, Printing!InsertedAt

LEMMA RemovedText ==
    ASSUME NEW S, NEW s \in Seq(S), NEW k \in 1 .. Len(s)
    PROVE  Abstract!RemoveAt(s, k) =
              [n \in 1 .. Len(s) - 1 |-> IF n < k THEN s[n] ELSE s[n + 1]]
<1>1. Abstract!RemoveAt(s, k) = Printing!RemoveAt(s, k)
    BY DEF Abstract!RemoveAt, Printing!RemoveAt
<1> QED
    BY <1>1, Printing!RemovedAt, Zenon

(* The same of the next state.                                             *)
LEMMA TextNow ==
    \A d : LineInv /\ Sound /\ LineTo(d) => Text = [n \in 1 .. d |-> buffer[n - 1]]
BY TextIs DEF LineInv

LEMMA TextNext ==
    (\A d : LineInv /\ Sound /\ LineTo(d) => Text = [n \in 1 .. d |-> buffer[n - 1]])'
BY TextNow, PTL

(* A character typed, anywhere in the line.                                *)
LEMMA TextInserted ==
    ASSUME LineInv, Append1 \/ Insert
    PROVE  \E ch \in Chars : Abstract!Insert(ch) \/ (~Sound /\ UNCHANGED <<AText, AAt, done>>)
<1>1. /\ Printable /\ i < Bytes /\ i' = i + 1 /\ done' = done
      /\ ~done /\ First' = First /\ Sound' = Sound
    BY TakeKeeps DEF Append1, Insert, Sound
<1>2. Char \in Chars
  <2>1. Char = Table[port][1] \/ Char = Table[port][2]
      BY DEF Char
  <2>2. {Table[port][1], Table[port][2]} \in {{Table[k][1], Table[k][2]} : k \in DOMAIN Table}
      BY <1>1 DEF Printable
  <2> QED
      BY <2>1, <2>2 DEF Chars
<1>3. CASE ~Sound
  <2>1. UNCHANGED <<AText, AAt, done>>
      BY <1>1, <1>3 DEF AText, AAt
  <2> QED
      BY <1>2, <1>3, <2>1
<1>4. CASE Sound
  <2>1. PICK e \in -1 .. Size - 1 :
           /\ LineInv' /\ LineTo(e) /\ LineTo(e + 1)'
           /\ \A n \in 0 .. e :
                 buffer'[n] = IF n < i THEN buffer[n] ELSE IF n = i THEN Char ELSE buffer[n - 1]
    <3>1. CASE Append1
      <4>1. PICK e \in -1 .. Size - 1 : LineTo(e) /\ LineTo(e + 1)' /\ i = e
          BY <3>1, LineAppend
      <4>2. buffer' = [buffer EXCEPT ![i] = Char] /\ buffer \in [-2 .. Size - 1 -> Cell]
          BY <3>1 DEF Append1, LineInv
      <4>3. \A n \in 0 .. e : n \in -2 .. Size - 1
          BY Sizes
      <4>4. \A n \in 0 .. e : ~(n < i) => n = i
          BY <4>1, Sizes
      <4>5. \A n \in 0 .. e : n < i => n # i
          BY <4>1, Sizes
      <4> QED
          BY <3>1, <4>1, <4>2, <4>3, <4>4, <4>5, LineAppend
    <3>2. CASE Insert
      <4>1. PICK e \in -1 .. Size - 1 :
               LineTo(e) /\ LineTo(e + 1)' /\ i < e /\ buffer' = Shifted(Char, e)
          BY <3>2, LineInsert
      <4>2. DOMAIN buffer = -2 .. Size - 1
          BY DEF LineInv
      <4>3. i \in Int /\ e \in Int /\ Size \in Int /\ e <= Size - 1
          BY <4>1, Sizes DEF LineTo, First
      <4>4. ASSUME NEW n \in 0 .. e
            PROVE  buffer'[n] = IF n < i THEN buffer[n] ELSE IF n = i THEN Char ELSE buffer[n - 1]
        <5>1. n \in -2 .. Size - 1 /\ (n \in i + 1 .. e <=> ~(n < i) /\ n # i) /\ (n < i => n # i)
            BY <4>3
        <5> QED
            BY <4>1, <4>2, <5>1 DEF Shifted
      <4> QED
          BY <3>2, <4>1, <4>4, LineInsert
    <3> QED
        BY <3>1, <3>2
  <2>2. /\ e \in Nat /\ i \in 0 .. e /\ Text \in Seq(Cell) /\ Len(Text) = e
        /\ Text = [n \in 1 .. e |-> buffer[n - 1]]
      BY <1>4, <2>1, TextIs DEF LineInv
  <2>3. Text' = [n \in 1 .. e + 1 |-> buffer'[n - 1]]
    <3>1. Text' = [n \in 1 .. e + 1 |-> buffer'[n - 1]] \/ ~LineInv' \/ ~Sound' \/ ~LineTo(e + 1)'
        BY TextNext
    <3> QED
        BY <1>1, <1>4, <2>1, <3>1
  <2>4. Abstract!InsertAt(Text, i + 1, Char)
           = [n \in 1 .. e + 1 |-> IF n < i + 1 THEN Text[n]
                                   ELSE IF n = i + 1 THEN Char ELSE Text[n - 1]]
    <3>1. i + 1 \in 1 .. Len(Text) + 1 /\ Char \in Cell /\ Len(Text) + 1 = e + 1
        BY <1>2, <2>2 DEF Cell
    <3>2. Abstract!InsertAt(Text, i + 1, Char)
             = [n \in 1 .. Len(Text) + 1 |-> IF n < i + 1 THEN Text[n]
                                     ELSE IF n = i + 1 THEN Char ELSE Text[n - 1]]
      <4>1. Text \in Seq(Cell)
          BY <2>2
      <4> QED
          BY <3>1, <4>1, InsertedText
    <3> QED
        BY <3>1, <3>2
  <2>5. ASSUME NEW n \in 1 .. e + 1
        PROVE  buffer'[n - 1] = IF n < i + 1 THEN Text[n]
                                ELSE IF n = i + 1 THEN Char ELSE Text[n - 1]
    <3>1. n \in Int /\ 1 <= n /\ n <= e + 1 /\ i \in Int /\ e \in Int /\ i <= e /\ i >= 0
        BY <2>2
    <3>2. buffer'[n - 1] = IF n - 1 < i THEN buffer[n - 1]
                           ELSE IF n - 1 = i THEN Char ELSE buffer[(n - 1) - 1]
      <4>1. n - 1 \in 0 .. e
          BY <3>1
      <4> QED
          BY <2>1, <4>1
    <3>3. CASE n < i + 1
      <4>1. n \in 1 .. e /\ n - 1 < i
          BY <3>1, <3>3
      <4> QED
          BY <2>2, <3>2, <3>3, <4>1
    <3>4. CASE n = i + 1
        BY <3>1, <3>2, <3>4
    <3>5. CASE n > i + 1
      <4>1. n - 1 \in 1 .. e /\ ~(n - 1 < i) /\ n - 1 # i /\ ~(n < i + 1) /\ n # i + 1
          BY <3>1, <3>5
      <4> QED
          BY <2>2, <3>2, <4>1
    <3> QED
        BY <3>1, <3>3, <3>4, <3>5
  <2>6. Text' = Abstract!InsertAt(Text, i + 1, Char)
      BY <2>3, <2>4, <2>5
  <2>7. Abstract!Insert(Char)
      BY <1>1, <1>4, <2>6 DEF Abstract!Insert
  <2> QED
      BY <1>2, <2>7
<1> QED
    BY <1>3, <1>4

(* The character before the cursor erased.                                 *)
LEMMA TextErased ==
    ASSUME LineInv, Backspace
    PROVE  Abstract!Erase \/ (~Sound /\ UNCHANGED <<AText, AAt, done>>)
<1>1. /\ i' = i - 1 /\ done' = done /\ ~done /\ First' = First /\ Sound' = Sound
    BY TakeKeeps DEF Backspace, Sound
<1>2. CASE ~Sound
    BY <1>1, <1>2 DEF AText, AAt
<1>3. CASE Sound
  <2>1. PICK e \in -1 .. Size - 1 :
           /\ LineInv' /\ LineTo(e) /\ LineTo(e - 1)' /\ First <= i - 1
           /\ \A n \in -2 .. Size - 1 :
                 buffer'[n] = IF n \in i - 1 .. e - 1 THEN buffer[n + 1] ELSE buffer[n]
      BY LineBackspace
  <2>2. /\ e \in Nat /\ i \in 0 .. e /\ e <= Size - 1 /\ Text \in Seq(Cell) /\ Len(Text) = e
        /\ Text = [n \in 1 .. e |-> buffer[n - 1]]
      BY <1>3, <2>1, TextIs DEF LineInv
  <2>3. Text' = [n \in 1 .. e - 1 |-> buffer'[n - 1]]
    <3>1. Text' = [n \in 1 .. e - 1 |-> buffer'[n - 1]] \/ ~LineInv' \/ ~Sound' \/ ~LineTo(e - 1)'
        BY TextNext
    <3> QED
        BY <1>1, <1>3, <2>1, <3>1
  <2>4. i >= 1 /\ i <= e /\ i \in Int /\ Size \in Int
      BY <1>3, <2>1, <2>2, Sizes DEF First
  <2>5. Abstract!RemoveAt(Text, i)
           = [n \in 1 .. e - 1 |-> IF n < i THEN Text[n] ELSE Text[n + 1]]
    <3>1. i \in 1 .. Len(Text) /\ Len(Text) - 1 = e - 1
        BY <2>2, <2>4
    <3>2. Abstract!RemoveAt(Text, i)
             = [n \in 1 .. Len(Text) - 1 |-> IF n < i THEN Text[n] ELSE Text[n + 1]]
      <4>1. Text \in Seq(Cell)
          BY <2>2
      <4> QED
          BY <3>1, <4>1, RemovedText
    <3> QED
        BY <3>1, <3>2
  <2>6. ASSUME NEW n \in 1 .. e - 1
        PROVE  buffer'[n - 1] = IF n < i THEN Text[n] ELSE Text[n + 1]
    <3>1. n \in Int /\ 1 <= n /\ n <= e - 1 /\ e \in Int /\ e <= Size - 1
        BY <2>2
    <3>2. n - 1 \in -2 .. Size - 1 /\ n \in 1 .. e /\ n + 1 \in 1 .. e /\ (n + 1) - 1 = n
          /\ (n - 1) + 1 = n
        BY <2>4, <3>1
    <3>3. n - 1 \in i - 1 .. e - 1 <=> ~(n < i)
        BY <2>4, <3>1
    <3>4. Text[n] = buffer[n - 1] /\ Text[n + 1] = buffer[n]
        BY <2>2, <3>2
    <3> QED
        BY <2>1, <3>2, <3>3, <3>4
  <2>7. Text' = Abstract!RemoveAt(Text, i)
      BY <2>3, <2>5, <2>6
  <2> QED
      BY <1>1, <1>3, <2>4, <2>7 DEF Abstract!Erase
<1> QED
    BY <1>2, <1>3

(* The steps that leave the text alone.                                    *)
LEMMA TextKept ==
    ASSUME LineInv, UNCHANGED <<buffer, before>>
    PROVE  Text' = Text /\ Sound' = Sound
BY DEF Text, EndOf, Sound

LEMMA TextMoved ==
    ASSUME LineInv, Left \/ Right
    PROVE  Abstract!Left \/ Abstract!Right \/ (~Sound /\ UNCHANGED <<AText, AAt, done>>)
<1>1. /\ buffer' = buffer /\ before' = before /\ done' = done /\ ~done
      /\ \/ Left /\ i' = i - 1 /\ buffer[i - 1] # NUL
         \/ Right /\ i' = i + 1 /\ buffer[i] # NUL
    BY TakeKeeps DEF Left, Right
<1>2. Text' = Text /\ Sound' = Sound
    BY <1>1, TextKept
<1>3. CASE ~Sound
    BY <1>1, <1>2, <1>3 DEF AText, AAt
<1>4. CASE Sound
  <2>1. PICK e \in -1 .. Size - 1 : LineTo(e)
      BY DEF LineInv
  <2>2. e \in Nat /\ e <= Size - 1 /\ i \in 0 .. e /\ Len(Text) = e
      BY <1>4, <2>1, TextIs DEF LineInv
  <2>3. CASE i' = i - 1 /\ buffer[i - 1] # NUL
    <3>1. i # 0
        BY <1>4, <2>3 DEF LineInv, First
    <3>2. i > 0
        BY <2>2, <3>1
    <3> QED
        BY <1>1, <1>2, <1>4, <2>3, <3>2 DEF Abstract!Left
  <2>4. CASE i' = i + 1 /\ buffer[i] # NUL
    <3>1. i # e
        BY <2>1, <2>2, <2>4, Sizes DEF LineTo
    <3>2. i < Len(Text)
        BY <2>2, <3>1
    <3> QED
        BY <1>1, <1>2, <1>4, <2>4, <3>2 DEF Abstract!Right
  <2> QED
      BY <1>1, <2>3, <2>4
<1> QED
    BY <1>3, <1>4

(* A new line.                                                             *)
LEMMA TextEmpty ==
    ASSUME NEW b, buffer = Line(b), i = 0
    PROVE  Text = <<>>
<1>1. EndOf(0) = 0
  <2> DEFINE zeros == {n \in 0 .. Size - 1 : buffer[n] = NUL}
  <2>1. zeros \in SUBSET Int /\ 0 \in zeros /\ \A n \in zeros : 0 <= n
      BY Sizes DEF Line
  <2> HIDE DEF zeros
  <2>2. Min(zeros) = 0
      BY <2>1, MinIs
  <2> QED
      BY <2>2 DEF EndOf, zeros
<1> QED
    BY <1>1 DEF Text

LEMMA TextEmptyNext == (\A b : buffer = Line(b) /\ i = 0 => Text = <<>>)'
<1>1. \A b : buffer = Line(b) /\ i = 0 => Text = <<>>
    BY TextEmpty
<1> QED
    BY <1>1, PTL

LEMMA TextStep ==
    LineInv /\ [Next]_vars => [Abstract!Next]_<<AText, AAt, done>>
<1> SUFFICES ASSUME LineInv, [Next]_vars
             PROVE  Abstract!Next \/ UNCHANGED <<AText, AAt, done>>
    OBVIOUS
<1>1. ASSUME Hold \/ Ignore \/ UNCHANGED vars \/ \E code \in Codes : Press(code)
      PROVE  UNCHANGED <<AText, AAt, done>>
  <2>1. UNCHANGED <<buffer, i, before, done>>
      BY <1>1 DEF Hold, Ignore, Take, Read, vars, Press
  <2> QED
      BY <2>1, TextKept DEF AText, AAt
<1>2. CASE Call
  <2>1. Text' = <<>>
      BY <1>2, TextEmptyNext DEF Call
  <2>2. done /\ done' = FALSE /\ i' = 0
      BY <1>2 DEF Call
  <2>3. Abstract!Again
      BY <2>1, <2>2 DEF Abstract!Again
  <2> QED
      BY <2>3 DEF Abstract!Next
<1>3. CASE Append1 \/ Insert
    BY <1>3, TextInserted DEF Abstract!Next
<1>4. CASE Left \/ Right
    BY <1>4, TextMoved DEF Abstract!Next
<1>5. CASE Backspace
    BY <1>5, TextErased DEF Abstract!Next
<1>6. CASE Enter
  <2>1. buffer' = buffer /\ before' = before /\ i' = i /\ ~done /\ done' = TRUE
      BY <1>6, TakeKeeps DEF Enter
  <2>2. Text' = Text /\ Sound' = Sound
      BY <2>1, TextKept
  <2>3. Abstract!End
      BY <2>1, <2>2 DEF Abstract!End
  <2> QED
      BY <2>3 DEF Abstract!Next
<1> QED
    BY <1>1, <1>2, <1>3, <1>4, <1>5, <1>6 DEF Next, Poll

(* Every key does to the buffer what an editor's key does to its text:     *)
(* a character is inserted at the cursor or the one before it is erased,   *)
(* the cursor moves by one inside the line, ENTER ends it: keyboard.c:66.  *)
THEOREM LineImplementsText == Spec => ImplementsTextLine
<1>1. Init => Abstract!Init
  <2> SUFFICES ASSUME Init PROVE Abstract!Init
      OBVIOUS
  <2>1. buffer = Line(before) /\ i = 0 /\ done = FALSE
      BY DEF Init
  <2>2. Text = <<>>
      BY <2>1, TextEmpty
  <2> QED
      BY <2>1, <2>2 DEF Abstract!Init
<1>2. LineInv /\ [Next]_vars
        => [Abstract!Next]_<<IF Sound THEN Text ELSE <<>>, IF Sound THEN i ELSE 0, done>>
    BY TextStep DEF AText, AAt
<1> QED
    BY <1>1, <1>2, LineInvariance, PTL DEF Spec, ImplementsTextLine, Abstract!Spec
=============================================================================
