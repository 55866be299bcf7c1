-------------------------------- MODULE Edit --------------------------------
(* edit, with a cursor in a text, and view, which only scrolls it.  Both   *)
(* redraw the screen from line line_offset on after every change; the      *)
(* cursor is counted from there.                                           *)
EXTENDS FileBuffer, Keys

CONSTANTS
    Letters  \* scan codes of characters other than "r" and "s"

VARIABLES
    key,    \* prev_keycode, cached_prev_keycode, hold_iterations
    ctrl,   \* ctrl_pressed
    actual  \* actual_selected_char

editor == <<key, ctrl, actual>>

Specials == {"r", "s", "CTRL", "UNCTRL", "BACKSPACE", "LEFT", "RIGHT", "ENTER", "UP", "DOWN",
             "PGUP", "PGDN", "ESC", "OTHER"}

ASSUME LettersAssumption == Letters \intersect Specials = {}

EditCodes == Letters \union Specials
ViewCodes == {"UP", "DOWN", "PGUP", "PGDN", "ESC", "OTHER"}

-----------------------------------------------------------------------------
(* print_text_buffer                                                       *)

ByteAt(f, n) == IF n \in DOMAIN f THEN f[n] ELSE NUL

(* The row that begins at byte c ends behind a newline or after Cols       *)
(* characters.                                                             *)
NextRow_Long(f, c) == c + Cols  \* a mistake
NextRow(f, c) ==
    LET ends == {n \in c .. (c + Cols) - 1 : ByteAt(f, n) = NL}
    IN  IF ends = {} THEN c + Cols ELSE Min(ends) + 1

RowStart(f, line) ==
    LET start[n \in 0 .. line] == IF n = 0 THEN 0 ELSE NextRow(f, start[n - 1])
    IN  start[line]

(* Redrawing finds the cursor anew.                                        *)
Redraw == actual' = RowStart(file', offset') + selected'

(* What it draws: the rows from row line on, all of the screen but one.    *)
(* Where a newline is edit draws a space, which may wrap by itself.        *)
Draw(f, line) ==
    LET char(s, ch) ==
            IF ch # NL THEN PrintChar(s, ch)
            ELSE Newline(IF prog = "edit" THEN PrintChar(s, " ") ELSE s)
        row(s, r) ==
            LET c == RowStart(f, line + r)
            IN  FoldLeft(char, s, [n \in 1 .. NextRow(f, c) - c |-> ByteAt(f, (c + n) - 1)])
    IN  FoldLeft(row, Blank, [r \in 1 .. Rows - 1 |-> r - 1])

-----------------------------------------------------------------------------
InitEdit == key = FirstKey /\ ctrl = FALSE /\ actual = 0 /\ status = "running"

(* A turn of the loop.  ESC ends it once it has been dealt with.           *)
EditRead(p) ==
    /\ prog = p /\ status = "running"
    /\ ctrl' = (p = "edit" /\ (port = "CTRL" \/ (ctrl /\ port # "UNCTRL")))
    /\ UNCHANGED <<fixed, port, keys>>

Going_Never == status' = "running"  \* a mistake
Going == status' = IF port = "ESC" THEN "ended" ELSE "running"

HoldKey ==
    /\ prog \in {"edit", "view"} /\ EditRead(prog) /\ ~IsNew(key, port)
    /\ key' = Waited(key) /\ Going
    /\ UNCHANGED <<buffer, selected, offset, actual>>

TakeKey(p) == EditRead(p) /\ IsNew(key, port) /\ key' = Taken(key, port)

Character == port \in Letters \union {"r", "s"}
Plain == TakeKey("edit") /\ ~ctrl'

(* Where inserting and erasing do what they should.  At byte 0 the shift   *)
(* does not happen (the unsigned position minus 1 is large), above the     *)
(* first row shown the rows move, and behind the text all goes uncounted.  *)
InsertsRight == actual \in 0 .. TextLen /\ (actual = 0 => TextLen = 0) /\ selected >= 0
ErasesRight  == actual \in 1 .. TextLen /\ (selected > 0 \/ offset = 0)

Room == actual \in -1 .. LastByte - 1 /\ file_size \in 0 .. LastByte - 2

InsertChar_NoShift(ch) ==  \* a mistake
    file' = [file EXCEPT ![actual] = ch]
InsertChar(ch) ==
    file' = [(IF actual >= 1 THEN MovedUp(actual) ELSE file) EXCEPT ![actual] = ch]

Longer_Not(size) == size  \* a mistake: the new character is not counted
Longer(size) == size + 1

InsertAtCursor(ch) ==
    /\ Room
    /\ InsertChar(ch)
    /\ selected' = selected + 1 /\ file_size' = Longer(file_size)
    /\ strayed' = (strayed \/ ~InsertsRight)
    /\ UNCHANGED offset
    /\ Redraw /\ Going

(* With control held down r goes back to the start, s saves; any other     *)
(* character is inserted all the same.                                     *)
InsertLetter ==
    /\ TakeKey("edit") /\ Character
    /\ ~(ctrl' /\ port \in {"r", "s"})
    /\ InsertAtCursor(port)

InsertNewline == Plain /\ port = "ENTER" /\ InsertAtCursor(NL)

ResetCursor ==
    /\ TakeKey("edit") /\ ctrl' /\ port = "r"
    /\ selected' = 0 /\ offset' = 0
    /\ UNCHANGED buffer
    /\ Redraw /\ Going

(* It tries again for as long as nothing is written.                       *)
SaveText ==
    /\ TakeKey("edit") /\ ctrl' /\ port = "s"
    /\ status' = IF SaveLen > 0 THEN "running" ELSE "hung"
    /\ UNCHANGED <<buffer, selected, offset>>
    /\ Redraw

EraseChar ==
    /\ Plain /\ port = "BACKSPACE" /\ actual \in 0 .. LastByte - 1
    /\ file' = MovedDown(actual - 1)
    /\ file_size' = file_size - 1 /\ selected' = selected - 1
    /\ strayed' = (strayed \/ ~ErasesRight)
    /\ UNCHANGED offset
    /\ Redraw /\ Going

(* Nothing keeps the cursor in the text.                                   *)
MoveCursor ==
    /\ Plain
    /\ \/ port = "LEFT" /\ actual >= 0 /\ selected' = selected - 1
       \/ port = "RIGHT" /\ actual <= LastByte /\ selected' = selected + 1
    /\ UNCHANGED <<buffer, offset>>
    /\ Redraw /\ Going

(* UP goes back over two newlines, or to byte 0, and one forward.  What it *)
(* finds in front of the buffer is not modelled.                           *)
UpTarget_OneBack ==  \* a mistake: the last newline is not passed over
    LET ends == {n \in 1 .. actual - 1 : file[n] = NL}
    IN  IF Cardinality(ends) < 2 THEN 0 ELSE Max(ends \ {Max(ends)})
UpTarget ==
    LET ends == {n \in 1 .. actual - 1 : file[n] = NL}
    IN  IF Cardinality(ends) < 2 THEN 0 ELSE Max(ends \ {Max(ends)}) + 1

CursorUp ==
    /\ Plain /\ port = "UP" /\ actual \in 1 .. LastByte + 1
    /\ selected' = selected - (actual - UpTarget)
    /\ UNCHANGED <<buffer, offset>>
    /\ Redraw /\ Going

(* DOWN goes behind the next newline, which may be far behind the text.    *)
DownTarget == Min({n \in actual .. LastByte : n >= 0 /\ file[n] = NL}) + 1

CursorDown ==
    /\ Plain /\ port = "DOWN" /\ actual \in 0 .. LastByte
    /\ selected' = selected + (DownTarget - actual)
    /\ UNCHANGED <<buffer, offset>>
    /\ Redraw /\ Going

(* Scrolling, in edit with page keys or control and arrows, in view with   *)
(* both.  The cursor moves with the rows.                                  *)
Scrolls(up, down) ==
    \/ port \in up /\ offset > 0 /\ offset' = offset - 1
    \/ port \in down /\ RowStart(file, offset + 1) <= LastByte /\ offset' = offset + 1

ScrollText ==
    /\ \/ Plain /\ Scrolls({"PGUP"}, {"PGDN"})
       \/ TakeKey("edit") /\ ctrl' /\ Scrolls({"UP"}, {"DOWN"})
    /\ UNCHANGED <<buffer, selected>>
    /\ Redraw /\ Going

ScrollView ==
    /\ TakeKey("view") /\ Scrolls({"PGUP", "UP"}, {"PGDN", "DOWN"})
    /\ UNCHANGED <<buffer, selected, actual>> /\ Going

(* Keys without effect.                                                    *)
NoEffect ==
    /\ \/ /\ TakeKey("edit") /\ ~Character
          /\ \/ port \in {"CTRL", "UNCTRL", "ESC", "OTHER"}
             \/ ctrl' /\ port \in {"BACKSPACE", "LEFT", "RIGHT", "ENTER", "PGUP", "PGDN"}
             \/ ctrl' /\ port = "UP" /\ offset = 0
             \/ ~ctrl' /\ port = "PGUP" /\ offset = 0
       \/ /\ TakeKey("view") /\ port \notin {"PGDN", "DOWN"}
          /\ port \in {"PGUP", "UP"} => offset = 0
    /\ Going
    /\ UNCHANGED <<buffer, selected, offset, actual>>

EditStep == HoldKey \/ InsertLetter \/ InsertNewline \/ ResetCursor \/ SaveText \/ EraseChar
            \/ MoveCursor \/ CursorUp \/ CursorDown \/ ScrollText \/ ScrollView \/ NoEffect
=============================================================================
