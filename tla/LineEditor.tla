----------------------------- MODULE LineEditor -----------------------------
(* kbd_readline, with which the shell reads a command and hexedit a byte:  *)
(* a line is edited in a buffer and, at the same time, on the screen.      *)
EXTENDS Keys, Screen, SequencesExt

CONSTANTS
    Table,    \* Table[code]: the characters of a key, without and with shift
    Bytes,    \* buffer_bytes
    Size,     \* bound: the bytes from the buffer's start that are modelled;
              \* those behind the buffer are 0, and no line fills them
    Befores,  \* what may be in the byte before the buffer
    MaxKeys   \* bound: scan codes

Chars == UNION {{Table[k][1], Table[k][2]} : k \in DOMAIN Table}

ASSUME LineAssumption ==
    /\ Bytes \in Nat /\ Size \in Nat /\ Bytes < Size
    /\ {"LEFT", "RIGHT", "BACKSPACE", "ENTER", "SHIFT", "UNSHIFT", "OTHER", NoKey}
          \intersect DOMAIN Table = {}
    /\ NUL \notin Chars          \* get_printable_char gives 0 for the other keys
    /\ Size <= Cols * (Rows - 1)  \* the line stays on the screen when it scrolls

VARIABLES
    port,    \* the scan code the keyboard port holds
    key,     \* prev_keycode, cached_prev_keycode, hold_iterations
    shift,   \* shift_pressed
    buffer,  \* from two bytes before the buffer on
    i,       \* buffer_i
    scr,     \* the screen
    done,    \* kbd_readline has returned
    keys,
    before,  \* history: the byte before the buffer at the call
    last,    \* history: the last scan code read
    run      \* history: how many polls have read it since it was taken

vars == <<port, key, shift, buffer, i, scr, done, keys, before, last, run>>

Codes == DOMAIN Table \union
         {"LEFT", "RIGHT", "BACKSPACE", "ENTER", "SHIFT", "UNSHIFT", "OTHER"}

Line(b) == [k \in -2 .. Size - 1 |-> IF k = -1 THEN b ELSE NUL]

(* The kernel prints its prompt, clears the buffer and calls kbd_readline. *)
Init ==
    /\ port = "ENTER" /\ key = FirstKey /\ shift = FALSE
    /\ before \in Befores /\ buffer = Line(before) /\ i = 0
    /\ \E r \in 0 .. Rows - 1 : scr = PrintChar(Move(Blank, r * Cols), ">")
    /\ done = FALSE /\ keys = 0 /\ last = "ENTER" /\ run = 0

Call ==
    /\ done /\ done' = FALSE
    /\ key' = FirstKey /\ shift' = FALSE
    /\ before' \in Befores /\ buffer' = Line(before') /\ i' = 0
    /\ scr' = PrintChar(scr, ">")
    /\ last' = "ENTER" /\ run' = 0
    /\ UNCHANGED <<port, keys>>

(* The user presses or releases a key.                                     *)
Press(code) ==
    /\ keys < MaxKeys /\ code # port
    /\ port' = code /\ keys' = keys + 1
    /\ UNCHANGED <<key, shift, buffer, i, scr, done, before, last, run>>

-----------------------------------------------------------------------------
(* One turn of the loop.                                                   *)

Read ==
    /\ ~done
    /\ shift' = (port = "SHIFT" \/ (shift /\ port # "UNSHIFT"))
    /\ last' = port
    /\ UNCHANGED <<port, keys, before>>

Hold ==
    /\ Read /\ ~IsNew(key, port)
    /\ key' = Waited(key)
    /\ run' = IF run <= InitHold THEN run + 1 ELSE run
    /\ UNCHANGED <<buffer, i, scr, done>>

Take == Read /\ IsNew(key, port) /\ key' = Taken(key, port) /\ run' = 0

Printable == port \in DOMAIN Table
Char == Table[port][IF shift THEN 2 ELSE 1]

(* The first byte that is 0 from position k on.                            *)
EndOf(k) == Min({n \in k .. Size - 1 : buffer[n] = NUL})

Fits == \E n \in i .. Size - 2 : buffer[n] = NUL

Append1 ==
    /\ Take /\ Printable /\ i < Bytes /\ buffer[i] = NUL /\ Fits
    /\ buffer' = [buffer EXCEPT ![i] = Char]
    /\ scr' = PrintChar(scr, Char) /\ i' = i + 1
    /\ UNCHANGED done

(* The cursor goes to the end of the text; from there the characters are   *)
(* moved one by one, printed, and the cursor set back by two.              *)
Shifted_Short(ch, e) ==  \* a mistake: the last character is not moved
    [n \in DOMAIN buffer |->
        IF n = i THEN ch ELSE IF n \in i + 1 .. e - 1 THEN buffer[n - 1] ELSE buffer[n]]
Shifted(ch, e) ==
    [n \in DOMAIN buffer |->
        IF n = i THEN ch ELSE IF n \in i + 1 .. e THEN buffer[n - 1] ELSE buffer[n]]

Insert ==
    /\ Take /\ Printable /\ i < Bytes /\ buffer[i] # NUL /\ Fits
    /\ LET e     == EndOf(i)
           moved == [n \in 1 .. e - i |-> buffer[e - n]]
           back(s, ch) == Move(PrintChar(s, ch), -2)
       IN  /\ buffer' = Shifted(Char, e)
           /\ scr' = PrintChar(FoldLeft(back, Move(scr, e - i), moved), Char)
    /\ i' = i + 1
    /\ UNCHANGED done

(* The first byte of the line is told by the one before it, which is not   *)
(* the buffer's.                                                           *)
Left ==
    /\ Take /\ port = "LEFT" /\ buffer[i - 1] # NUL
    /\ i' = i - 1 /\ scr' = Move(scr, -1)
    /\ UNCHANGED <<buffer, done>>

Right ==
    /\ Take /\ port = "RIGHT" /\ buffer[i] # NUL
    /\ i' = i + 1 /\ scr' = Move(scr, 1)
    /\ UNCHANGED <<buffer, done>>

Backspace ==
    /\ Take /\ port = "BACKSPACE" /\ buffer[i - 1] # NUL
    /\ LET e == EndOf(i)
       IN  /\ buffer' = [n \in DOMAIN buffer |->
                            IF n \in i - 1 .. e - 1 THEN buffer[n + 1] ELSE buffer[n]]
           /\ scr' = Move(FoldLeft(PrintChar, Move(scr, -1),
                                   [n \in 1 .. (e - i) + 1 |-> buffer[(i - 1) + n]]),
                          -((e - i) + 1))
    /\ i' = i - 1
    /\ UNCHANGED done

Enter ==
    /\ Take /\ port = "ENTER"
    /\ scr' = Newline(scr) /\ done' = TRUE
    /\ UNCHANGED <<buffer, i>>

(* A key that does nothing: release codes, others, arrows at an end of the *)
(* line, and characters when the cursor is behind the last byte.           *)
Ignore ==
    /\ Take /\ port # "ENTER"
    /\ Printable => i >= Bytes
    /\ port \in {"LEFT", "BACKSPACE"} => buffer[i - 1] = NUL
    /\ port = "RIGHT" => buffer[i] = NUL
    /\ UNCHANGED <<buffer, i, scr, done>>

Poll == Hold \/ Append1 \/ Insert \/ Left \/ Right \/ Backspace \/ Enter \/ Ignore

Next == Call \/ Poll \/ \E code \in Codes : Press(code)
Spec == Init /\ [][Next]_vars

(* The processor does nothing but poll.                                    *)
FairSpec == Spec /\ WF_vars(Poll)

-----------------------------------------------------------------------------
(* The text in the buffer.                                                 *)
Text == [n \in 1 .. EndOf(0) |-> buffer[n - 1]]

(* The byte before the buffer is 0, as L_ARROW and BACKSPACE need it.      *)
Sound == before = NUL

(* The screen shows the line with the cursor where the next character goes,*)
(* also after it has been wrapped and scrolled and in whatever order       *)
(* characters were inserted and erased: the code keeps text and cursor     *)
(* position apart and moves both by hand.                                  *)
MirrorsLine ==
    (Sound /\ ~done) =>
        /\ i \in 0 .. Len(Text)
        /\ \A n \in 1 .. Len(Text) :
              LET c == (scr.at + n) - (i + 1)
              IN  c \in 0 .. CellCount - 1 /\ scr.cells[c] = Text[n]

(* Keys edit the line as a user expects of any editor.  Inserting inside a *)
(* full line makes it longer than the buffer: only its position is limited.*)
Abstract == INSTANCE TextLine
    WITH Limit <- Bytes, Jumps <- FALSE, ended <- done,
         text  <- IF Sound THEN Text ELSE <<>>,
         at    <- IF Sound THEN i ELSE 0
ImplementsTextLine == Abstract!Spec

(* "so enter key doesn't instantly get spammed upon command execution":    *)
(* the ENTER that ended one line, still held, does not end the next before *)
(* the polls of a first repetition have gone by.                           *)
OneEnterOneLine ==
    [][(done' /\ ~done /\ last = "ENTER") => run > InitHold]_vars

(* A key that is held down is taken again only after the polls of a first  *)
(* repetition, those of a further one if it is the key that has last waited*)
(* for a first: no press counts twice.                                     *)
RepeatsSpaced ==
    [][(IsNew(key, port) /\ key'.prev = port /\ last = port /\ ~done)
         => run > InitHold \/ (run > ContHold /\ key.cached = port)]_vars

(* Whatever was typed before, a line ends when ENTER is held long enough.  *)
EnterEnds == (port = "ENTER" /\ ~done) ~> (done \/ port # "ENTER")
=============================================================================
