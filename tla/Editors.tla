------------------------------ MODULE Editors ------------------------------
(* One of the programs edit, view and hexedit with the user at its         *)
(* keyboard, and what should be true of them.                              *)
EXTENDS Edit, HexEdit

CONSTANT Programs  \* those that are run

vars == <<buffer, fixed, port, selected, offset, status, keys, editor, hex>>

Init ==
    /\ prog \in Programs /\ InitBuffer
    /\ IF prog = "hexedit"
       THEN InitHex /\ key = FirstKey /\ ctrl = FALSE /\ actual = 0
       ELSE InitEdit /\ previous = "OTHER" /\ pressed = 0 /\ mode = "keys"

Poll == (EditStep /\ UNCHANGED hex) \/ (HexStep /\ UNCHANGED editor)

CodesOf == [edit |-> EditCodes, view |-> ViewCodes, hexedit |-> HexCodes]

User == /\ \/ \E code \in CodesOf[prog] : Press(code) /\ UNCHANGED mode
           \/ \E b \in Bytes : Entered(b)
        /\ UNCHANGED <<editor, previous, pressed>>

Next == Poll \/ User
Spec == Init /\ [][Next]_vars

(* The programs poll for as long as they run.                              *)
FairSpec == Spec /\ WF_vars(Poll)

-----------------------------------------------------------------------------
(* As long as no edit was made with the cursor where the programs go wrong,*)
(* a file of the machine's is saved with all of its text: the size, that   *)
(* the program keeps on its own, still covers it.                          *)
SaveCovers ==
    (~strayed /\ origin = "machine") =>
        \A n \in 0 .. LastByte - 1 : file[n] # NUL => n < Len(Saved)

(* And edit is then an editor as a user expects it: keys insert and erase  *)
(* at the cursor, and the cursor follows.                                  *)
Abstract == INSTANCE TextLine
    WITH Chars <- Letters \union {"r", "s", NL}, Limit <- LastByte, Jumps <- TRUE,
         text <- Text, at <- actual, ended <- status # "running"
EditsText ==
    [][(prog = "edit" /\ ~strayed' /\ {actual, actual'} \subseteq 0 .. TextLen + 1
        /\ actual <= TextLen /\ actual' <= TextLen')
         => (Abstract!Next \/ UNCHANGED <<Text, actual>>)]_vars

(* No key of hexedit changes a byte before the selected one; and until one *)
(* has inserted, or edited behind the text, each edit changes or deletes   *)
(* the selected byte, no other, and the size counts the text that is left. *)
HexExact ==
    [][(prog = "hexedit" /\ file' # file)
         => /\ \A n \in -1 .. At - 1 : file'[n] = file[n]
            /\ ~strayed' => \/ Text' = RemoveAt(Text, At + 1)
                             \/ \E b \in Bytes : Text' = ReplaceAt(Text, At + 1, b)]_vars

(* hexedit.c:46 says "i: insert byte": all bytes of the text, the selected *)
(* one included, are kept and make room for the new one.                   *)
HexInserts ==
    [][(mode = "keys" /\ mode' = "insert")
         => \A n \in At .. TextLen - 1 : file'[n + 1] = file[n]]_vars

(* UP leads to the start of the line above: DOWN leads back from there to  *)
(* the line one came from.  Not so if the file begins with a newline.      *)
LineStart(p) == Max({0} \union {n \in 1 .. p : file[n - 1] = NL})
UpThenDown ==
    [][(port = "UP" /\ actual' # actual /\ offset' = offset /\ file[0] # NL
        /\ LineStart(actual) > 0)
         => LET below == {n \in actual' .. LastByte : file[n] = NL}
            IN  /\ LineStart(actual') = actual'
                /\ Min(below) + 1 = LineStart(actual)]_vars

(* Row r of the screen shows the r-th row of the text from line_offset on. *)
(* edit shifts the rest by a row for each newline in the last column.      *)
RowsShown ==
    prog \in {"edit", "view"} =>
        LET start(r)  == RowStart(file, offset + r)
            after(r)  == NextRow(file, start(r))
            at(r, c)  == IF start(r) + c < after(r) THEN ByteAt(file, start(r) + c) ELSE NUL
            blank     == IF prog = "edit" THEN " " ELSE NUL
            awkward   == \E r \in 0 .. Rows - 2 : at(r, Cols - 1) = NL
        IN  (prog = "view" \/ ~awkward) =>
                \A r \in 0 .. Rows - 2, c \in 0 .. Cols - 1 :
                    Draw(file, offset).cells[(r * Cols) + c] =
                        IF at(r, c) = NL THEN blank ELSE at(r, c)

(* ESC ends every program, unless hexedit is waiting for a byte or for d to*)
(* be released.  A save that does not come back counts as an end here.     *)
EscEnds ==
    (port = "ESC" /\ mode = "keys") ~> (status # "running" \/ port # "ESC")
=============================================================================
