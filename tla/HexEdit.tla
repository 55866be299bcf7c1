------------------------------ MODULE HexEdit ------------------------------
(* hexedit, which changes, inserts and deletes bytes.                      *)
EXTENDS FileBuffer

CONSTANTS
    RowBytes,   \* 24, the bytes of a row
    Shown,      \* 480, the bytes on the screen
    KeyLimit,   \* keypress_limit
    Bytes       \* what the user may enter for a byte; "bad" is above 0xFF

ASSUME HexAssumption ==
    /\ RowBytes \in Nat \ {0} /\ KeyLimit \in Nat \ {0}
    /\ Shown \in Nat /\ Shown > RowBytes + 2 /\ Shown <= LastByte

VARIABLES
    previous,  \* prev_keycode
    pressed,   \* keypress_counter
    mode       \* "keys"; what a byte is wanted for, "change" or "insert"; or
               \* "delete" until the key is released

hex == <<previous, pressed, mode>>

HexCodes == {"PGUP", "PGDN", "RIGHT", "LEFT", "UP", "DOWN", "c", "i", "d", "w", "ESC", "OTHER"}

At == offset + selected

(* prev_keycode is not initialised, nor is status, and a status of 1 ends  *)
(* the program at once.                                                    *)
InitHex == /\ previous \in {"OTHER", "ESC"} /\ pressed = 0 /\ mode = "keys"
           /\ status \in {"running", "ended"}

HexRead ==
    /\ prog = "hexedit" /\ status = "running" /\ mode = "keys"
    /\ previous' = port
    /\ UNCHANGED <<fixed, port, keys>>

Count == IF port = previous THEN pressed + 1 ELSE pressed

WaitKey == /\ HexRead /\ Count < KeyLimit
            /\ pressed' = Count
            /\ UNCHANGED <<buffer, selected, offset, status, mode>>

(* A key that has been down for long enough, since the last that was.      *)
Key(code) == HexRead /\ Count >= KeyLimit /\ pressed' = 0 /\ port = code

HexScroll ==
    /\ \/ Key("PGUP") /\ offset >= RowBytes /\ offset' = offset - RowBytes
       \/ Key("PGDN") /\ offset + RowBytes <= LastByte - Shown
          /\ offset' = offset + RowBytes
    /\ UNCHANGED <<buffer, selected, status, mode>>

HexMove ==
    /\ \/ Key("RIGHT") /\ selected < Shown - 1 /\ selected' = selected + 1
       \/ Key("LEFT") /\ selected > 0 /\ selected' = selected - 1
       \/ Key("UP") /\ selected >= RowBytes /\ selected' = selected - RowBytes
       \/ Key("DOWN") /\ selected < (Shown - RowBytes) - 2 /\ selected' = selected + RowBytes
    /\ UNCHANGED <<buffer, offset, status, mode>>

(* c and i wait until the key is released and then for a byte; i has moved *)
(* the bytes before that, those behind the selected one only.              *)
AskChange ==
    /\ Key("c") /\ mode' = "change"
    /\ UNCHANGED <<buffer, selected, offset, status>>

AskInsert ==
    /\ Key("i") /\ mode' = "insert" /\ file_size \in 0 .. LastByte - 2
    /\ file' = MovedUp(At + 1) /\ strayed' = TRUE
    /\ UNCHANGED <<file_size, selected, offset, status>>

(* Inserting goes wrong everywhere, changing behind the text.              *)
Entered(b) ==
    /\ prog = "hexedit" /\ status = "running" /\ mode \in {"change", "insert"}
    /\ file' = IF b = "bad" THEN file ELSE [file EXCEPT ![At] = b]
    /\ file_size' = IF mode = "insert" THEN file_size + 1 ELSE file_size
    /\ strayed' = (strayed \/ (~InText(At) /\ b \notin {NUL, "bad"}))
    /\ mode' = "keys" /\ port' = "OTHER"  \* ENTER, or its release
    /\ UNCHANGED <<fixed, keys, previous, pressed, selected, offset, status>>

(* d deletes once, when the key is released.                               *)
AskDelete ==
    /\ Key("d") /\ file_size >= 0 /\ mode' = "delete"
    /\ UNCHANGED <<buffer, selected, offset, status>>

DeleteByte ==
    /\ prog = "hexedit" /\ status = "running" /\ mode = "delete" /\ port # "d"
    /\ file' = MovedDown(At) /\ file_size' = file_size - 1
    /\ strayed' = (strayed \/ ~InText(At))
    /\ mode' = "keys"
    /\ UNCHANGED <<fixed, port, keys, previous, pressed, selected, offset, status>>

(* It saves once and does not look at the answer.                          *)
SaveBytes ==
    /\ Key("w")
    /\ UNCHANGED <<buffer, selected, offset, status, mode>>

Exit ==
    /\ Key("ESC") /\ status' = "ended"
    /\ UNCHANGED <<buffer, selected, offset, mode>>

NoCommand ==
    /\ \/ Key("OTHER")
       \/ Key("PGUP") /\ offset < RowBytes
       \/ Key("RIGHT") /\ selected >= Shown - 1
       \/ Key("LEFT") /\ selected = 0
       \/ Key("UP") /\ selected < RowBytes
       \/ Key("DOWN") /\ selected >= (Shown - RowBytes) - 2
    /\ UNCHANGED <<buffer, selected, offset, status, mode>>

HexStep == WaitKey \/ HexScroll \/ HexMove \/ AskChange \/ AskInsert \/ AskDelete
           \/ DeleteByte \/ SaveBytes \/ Exit \/ NoCommand
=============================================================================
