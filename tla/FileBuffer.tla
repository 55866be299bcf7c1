----------------------------- MODULE FileBuffer -----------------------------
(* What edit, hexedit and view have in common: a file read into a buffer,  *)
(* a position in it, and the way it is saved.                              *)
EXTENDS Screen, SequencesExt

CONSTANTS
    Texts,    \* what the file may hold
    NameLen,  \* the length of its name
    LastByte, \* bound: the last byte of the buffer that is modelled
    MaxKeys   \* bound: scan codes in a behaviour

NL == "\n"

ASSUME BufferAssumption ==
    /\ NameLen \in Nat \ {0} /\ LastByte \in Nat /\ MaxKeys \in Nat
    /\ \A t \in Texts : Len(t) \in Nat /\ DOMAIN t = 1 .. Len(t) /\ Len(t) + NameLen + 1 < LastByte

VARIABLES
    prog,       \* the program: edit, hexedit or view
    port,       \* the scan code the keyboard port holds
    file,       \* the buffer from the byte before it on
    file_size,
    origin,     \* who wrote the file: the machine or the host's tool
    selected,   \* selected_char, selected_byte
    offset,     \* line_offset, read_offset
    status,     \* "running", "ended", or "hung" in edit's SAVE loop
    keys,
    strayed     \* history: an edit was made where the program gets it wrong

buffer == <<file, file_size, strayed>>
fixed  == <<prog, origin>>

(* A file written by the machine counts its name, the NUL behind it and    *)
(* the text in its size, one from the host only its text.                  *)
Counted == IF origin = "machine" THEN NameLen + 1 ELSE 0

(* The buffer: 0 behind the text, as far as it has been cleared; the next  *)
(* newline of what is behind that is LastByte.                             *)
InitBuffer ==
    /\ origin \in {"machine", "host"}
    /\ \E t \in Texts :
          /\ file = [n \in -1 .. LastByte |-> IF n + 1 \in DOMAIN t THEN t[n + 1]
                                          ELSE IF n = LastByte THEN NL ELSE NUL]
          /\ file_size = Counted + Len(t)
    /\ selected = 0 /\ offset = 0
    /\ port = "OTHER" /\ keys = 0
    /\ strayed = FALSE

Press(code) ==
    /\ status = "running" /\ keys < MaxKeys /\ code # port
    /\ port' = code /\ keys' = keys + 1
    /\ UNCHANGED <<fixed, buffer, selected, offset, status>>

(* The characters the file is said to have.                                *)
TextLen == file_size - Counted
Text == [n \in 1 .. TextLen |-> file[n - 1]]
InText(p) == p \in 0 .. TextLen - 1

(* Bytes from position p up to byte file_size are moved up, or those       *)
(* behind p are moved down over it.                                        *)
MovedUp(p) ==
    [n \in DOMAIN file |-> IF n \in p + 1 .. file_size + 1 THEN file[n - 1] ELSE file[n]]
MovedDown_Late(p) ==  \* a mistake: byte p stays
    [n \in DOMAIN file |-> IF n \in p + 1 .. file_size - 1 THEN file[n + 1] ELSE file[n]]
MovedDown(p) ==
    [n \in DOMAIN file |-> IF n \in p .. file_size - 1 THEN file[n + 1] ELSE file[n]]

(* A save writes so many bytes: the name is taken off the size but not the *)
(* NUL behind it.                                                          *)
SaveLen == file_size - NameLen
Saved == [n \in 1 .. SaveLen |-> file[n - 1]]
=============================================================================
