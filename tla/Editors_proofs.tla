--------------------------- MODULE Editors_proofs ---------------------------
(* The bytes and the size that edit and hexedit keep, what the keys of edit *)
(* do to a text, and what edit and view show of it, for every file, name,  *)
(* screen and number of keys.                                              *)
EXTENDS Editors, SequenceTheorems, FiniteSetTheorems, TLAPS

(* As long as every edit was made where the programs are right, there is   *)
(* nothing but 0 behind the text in the part of the buffer in use.         *)
Covered ==
    /\ TextLen >= 0 /\ file_size < LastByte
    /\ \A n \in TextLen .. LastByte - 1 : file[n] = NUL

BufInv ==
    /\ origin \in {"machine", "host"} /\ strayed \in BOOLEAN /\ file_size \in Int
    /\ file = [n \in -1 .. LastByte |-> file[n]]
    /\ mode = "insert" => strayed
    /\ ~strayed => Covered

(* The byte selected in hexedit is in that part.                           *)
Selected == prog = "hexedit" => /\ selected \in 0 .. Shown - 1
                                /\ offset \in 0 .. LastByte - Shown

EditorInv == BufInv /\ Selected

-----------------------------------------------------------------------------
(* How a text changes in the buffer.                                       *)

LEMMA CountedType == ASSUME origin \in {"machine", "host"} PROVE Counted \in Nat
BY BufferAssumption DEF Counted

(* Inserting at p: edit.c:151-158.                                         *)
LEMMA InsertCovers ==
    ASSUME BufInv, ~strayed, NEW p \in 0 .. TextLen, NEW ch,
           file_size <= LastByte - 2,
           file' = [(IF p >= 1 THEN MovedUp(p) ELSE file) EXCEPT ![p] = ch],
           file_size' = file_size + 1, origin' = origin
    PROVE  Covered' /\ file' = [n \in -1 .. LastByte |-> file'[n]]
<1>1. Counted \in Nat /\ Counted' = Counted /\ LastByte \in Nat /\ file_size \in Int
    BY CountedType, BufferAssumption DEF BufInv, Counted
<1>2. TextLen \in Int /\ TextLen' = TextLen + 1 /\ TextLen <= file_size
    BY <1>1 DEF TextLen
<1>3. file' = [n \in -1 .. LastByte |-> file'[n]]
    BY DEF BufInv, MovedUp
<1>4. ASSUME NEW n \in TextLen' .. LastByte - 1 PROVE file'[n] = NUL
  <2>1. n \in -1 .. LastByte /\ n # p /\ n \in TextLen .. LastByte - 1
        /\ n - 1 \in TextLen .. LastByte - 1
      BY <1>1, <1>2
  <2>2. file[n] = NUL /\ file[n - 1] = NUL
      BY <2>1 DEF BufInv, Covered
  <2> QED
      BY <2>1, <2>2 DEF BufInv, MovedUp
<1> QED
    BY <1>1, <1>2, <1>3, <1>4 DEF Covered, BufInv

(* Erasing byte p: edit.c:166-171, hexedit.c:180-186.                      *)
LEMMA EraseCovers ==
    ASSUME BufInv, ~strayed, NEW p \in 0 .. TextLen - 1,
           file' = MovedDown(p), file_size' = file_size - 1, origin' = origin
    PROVE  Covered' /\ file' = [n \in -1 .. LastByte |-> file'[n]]
<1>1. Counted \in Nat /\ Counted' = Counted /\ LastByte \in Nat /\ file_size \in Int
    BY CountedType, BufferAssumption DEF BufInv, Counted
<1>2. TextLen \in Int /\ TextLen' = TextLen - 1 /\ TextLen <= file_size
    BY <1>1 DEF TextLen
<1>3. file' = [n \in -1 .. LastByte |-> file'[n]]
    BY DEF BufInv, MovedDown
<1>4. ASSUME NEW n \in TextLen' .. LastByte - 1 PROVE file'[n] = NUL
  <2>1. file_size < LastByte
      BY DEF BufInv, Covered
  <2>2. n \in -1 .. LastByte /\ n \in Int /\ p <= n
      BY <1>1, <1>2
  <2>3. CASE n \in p .. file_size - 1
    <3>1. file'[n] = file[n + 1]
        BY <2>2, <2>3 DEF BufInv, MovedDown
    <3>2. n + 1 \in TextLen .. LastByte - 1
        BY <1>1, <1>2, <2>1, <2>2, <2>3
    <3> QED
        BY <3>1, <3>2 DEF BufInv, Covered
  <2>4. CASE n \notin p .. file_size - 1
    <3>1. file'[n] = file[n]
        BY <2>2, <2>4 DEF BufInv, MovedDown
    <3>2. n \in TextLen .. LastByte - 1
        BY <1>1, <1>2, <2>2, <2>4
    <3> QED
        BY <3>1, <3>2 DEF BufInv, Covered
  <2> QED
      BY <2>3, <2>4
<1> QED
    BY <1>1, <1>2, <1>3, <1>4 DEF Covered, BufInv

(* What a step that leaves the buffer alone preserves.                     *)
LEMMA SameBuffer ==
    ASSUME BufInv, UNCHANGED <<buffer, origin>>, mode' = "insert" => mode = "insert"
    PROVE  BufInv'
BY DEF buffer, BufInv, Covered, TextLen, Counted

-----------------------------------------------------------------------------
(* edit                                                                    *)
LEMMA InsertInv ==
    ASSUME BufInv, NEW ch, InsertAtCursor(ch), UNCHANGED <<origin, mode>>
    PROVE  BufInv'
<1>1. /\ actual \in -1 .. LastByte - 1 /\ file_size \in 0 .. LastByte - 2
      /\ file' = [(IF actual >= 1 THEN MovedUp(actual) ELSE file) EXCEPT ![actual] = ch]
      /\ file_size' = file_size + 1 /\ strayed' = (strayed \/ ~InsertsRight)
    BY DEF InsertAtCursor, Room, InsertChar, Longer
<1>2. file' = [n \in -1 .. LastByte |-> file'[n]]
    BY <1>1 DEF BufInv, MovedUp
<1>3. ASSUME ~strayed' PROVE Covered'
  <2>1. ~strayed /\ actual \in 0 .. TextLen
      BY <1>1, <1>3 DEF InsertsRight
  <2>2. file_size <= LastByte - 2 /\ origin' = origin
      BY <1>1, BufferAssumption
  <2> QED
      BY <1>1, <2>1, <2>2, InsertCovers
<1>4. strayed' \in BOOLEAN /\ file_size' \in Int /\ (mode' = "insert" => strayed')
    BY <1>1, BufferAssumption DEF BufInv
<1> QED
    BY <1>2, <1>3, <1>4 DEF BufInv

LEMMA EraseInv == ASSUME BufInv, EraseChar, UNCHANGED mode PROVE BufInv'
<1>1. /\ actual \in 0 .. LastByte - 1 /\ origin' = origin
      /\ file' = MovedDown(actual - 1) /\ file_size' = file_size - 1
      /\ strayed' = (strayed \/ ~ErasesRight)
    BY DEF EraseChar, Plain, TakeKey, EditRead, fixed
<1>2. file' = [n \in -1 .. LastByte |-> file'[n]]
    BY <1>1 DEF BufInv, MovedDown
<1>3. ASSUME ~strayed' PROVE Covered'
  <2>1. ~strayed /\ actual \in 1 .. TextLen
      BY <1>1, <1>3 DEF ErasesRight
  <2>2. TextLen \in Int
      BY CountedType DEF TextLen, BufInv
  <2>3. actual - 1 \in 0 .. TextLen - 1
      BY <1>1, <2>1, <2>2, BufferAssumption
  <2> QED
      BY <1>1, <2>1, <2>3, EraseCovers
<1>4. strayed' \in BOOLEAN /\ file_size' \in Int /\ (mode' = "insert" => strayed')
    BY <1>1 DEF BufInv
<1> QED
    BY <1>1, <1>2, <1>3, <1>4 DEF BufInv

LEMMA EditInv ==
    ASSUME EditorInv, EditStep, UNCHANGED hex PROVE EditorInv'
<1>1. prog \in {"edit", "view"} /\ prog' = prog /\ origin' = origin /\ mode' = mode
    BY DEF EditStep, HoldKey, InsertLetter, InsertNewline, ResetCursor, SaveText, EraseChar,
           MoveCursor, CursorUp, CursorDown, ScrollText, ScrollView, NoEffect, Plain, TakeKey,
           EditRead, fixed, hex
<1>2. CASE EraseChar
    BY <1>1, <1>2, EraseInv DEF EditorInv, Selected
<1>3. CASE InsertLetter \/ InsertNewline
    BY <1>1, <1>3, InsertInv DEF EditorInv, Selected, InsertLetter, InsertNewline
<1>4. CASE ~(EraseChar \/ InsertLetter \/ InsertNewline)
  <2>1. UNCHANGED buffer
      BY <1>4 DEF EditStep, HoldKey, ResetCursor, SaveText, MoveCursor, CursorUp, CursorDown,
                  ScrollText, ScrollView, NoEffect
  <2> QED
      BY <1>1, <2>1, SameBuffer DEF EditorInv, Selected
<1> QED
    BY <1>2, <1>3, <1>4

-----------------------------------------------------------------------------
(* hexedit                                                                 *)
LEMMA DeleteInv == ASSUME BufInv, DeleteByte PROVE BufInv'
<1>1. /\ origin' = origin /\ mode' = "keys"
      /\ file' = MovedDown(At) /\ file_size' = file_size - 1
      /\ strayed' = (strayed \/ ~InText(At))
    BY DEF DeleteByte, fixed
<1>2. file' = [n \in -1 .. LastByte |-> file'[n]]
    BY <1>1 DEF BufInv, MovedDown
<1>3. ASSUME ~strayed' PROVE Covered'
    BY <1>1, <1>3, EraseCovers DEF InText
<1>4. strayed' \in BOOLEAN /\ file_size' \in Int /\ (mode' = "insert" => strayed')
    BY <1>1 DEF BufInv
<1> QED
    BY <1>1, <1>2, <1>3, <1>4 DEF BufInv

LEMMA EnteredInv == ASSUME BufInv, NEW b \in Bytes, Entered(b) PROVE BufInv'
<1>1. /\ origin' = origin /\ mode' = "keys"
      /\ file' = IF b = "bad" THEN file ELSE [file EXCEPT ![At] = b]
      /\ file_size' = IF mode = "insert" THEN file_size + 1 ELSE file_size
      /\ strayed' = (strayed \/ (~InText(At) /\ b \notin {NUL, "bad"}))
    BY DEF Entered, fixed
<1>2. file' = [n \in -1 .. LastByte |-> file'[n]]
    BY <1>1 DEF BufInv
<1>3. ASSUME ~strayed' PROVE Covered'
  <2>1. ~strayed /\ (InText(At) \/ b \in {NUL, "bad"}) /\ mode # "insert"
      BY <1>1, <1>3 DEF BufInv
  <2>2. file_size' = file_size /\ TextLen' = TextLen /\ TextLen \in Int
      BY <1>1, <2>1, CountedType DEF TextLen, Counted, BufInv
  <2>3. ASSUME NEW n \in TextLen .. LastByte - 1 PROVE file'[n] = NUL
    <3>1. file[n] = NUL
        BY <2>1 DEF BufInv, Covered
    <3>2. file'[n] = file[n] \/ (n = At /\ file'[n] = b)
        BY <1>1, <2>2, BufferAssumption DEF BufInv
    <3>3. InText(At) => n # At
        BY <2>2, BufferAssumption DEF InText
    <3>4. b = "bad" => file'[n] = file[n]
        BY <1>1
    <3> QED
        BY <2>1, <3>1, <3>2, <3>3, <3>4
  <2> QED
      BY <2>1, <2>2, <2>3 DEF BufInv, Covered
<1>4. strayed' \in BOOLEAN /\ file_size' \in Int /\ (mode' = "insert" => strayed')
    BY <1>1 DEF BufInv
<1> QED
    BY <1>1, <1>2, <1>3, <1>4 DEF BufInv

LEMMA AskInsertInv == ASSUME BufInv, AskInsert PROVE BufInv'
<1>1. /\ origin' = origin /\ strayed' = TRUE /\ file_size' = file_size
      /\ file' = MovedUp(At + 1)
    BY DEF AskInsert, Key, HexRead, fixed
<1> QED
    BY <1>1 DEF BufInv, MovedUp

(* The cursor stays on the page shown, and that in the part in use.        *)
LEMMA SelectedInv == ASSUME Selected, HexStep, prog' = prog PROVE Selected'
<1>1. CASE HexScroll
  <2>1. selected' = selected /\ (\/ offset >= RowBytes /\ offset' = offset - RowBytes
                                 \/ /\ offset + RowBytes <= LastByte - Shown
                                    /\ offset' = offset + RowBytes)
      BY <1>1 DEF HexScroll
  <2> QED
      BY <2>1, HexAssumption, BufferAssumption DEF Selected
<1>2. CASE HexMove
  <2>1. /\ offset' = offset
        /\ \/ selected < Shown - 1 /\ selected' = selected + 1
           \/ selected > 0 /\ selected' = selected - 1
           \/ selected >= RowBytes /\ selected' = selected - RowBytes
           \/ selected < (Shown - RowBytes) - 2 /\ selected' = selected + RowBytes
      BY <1>2 DEF HexMove
  <2> QED
      BY <2>1, HexAssumption DEF Selected
<1>3. CASE ~(HexScroll \/ HexMove)
  <2>1. selected' = selected /\ offset' = offset
      BY <1>3 DEF HexStep, WaitKey, AskChange, AskInsert, AskDelete, DeleteByte, SaveBytes, Exit, NoCommand
  <2> QED
      BY <2>1 DEF Selected
<1> QED
    BY <1>1, <1>2, <1>3

LEMMA HexInv == ASSUME EditorInv, HexStep PROVE EditorInv'
<1>1. prog' = prog /\ origin' = origin
    BY DEF HexStep, WaitKey, HexScroll, HexMove, AskChange, AskInsert, AskDelete, DeleteByte, SaveBytes,
           Exit, NoCommand, Key, HexRead, fixed
<1>2. BufInv'
  <2>1. CASE DeleteByte
      BY <2>1, DeleteInv DEF EditorInv
  <2>2. CASE AskInsert
      BY <2>2, AskInsertInv DEF EditorInv
  <2>3. CASE ~(DeleteByte \/ AskInsert)
    <3>1. UNCHANGED buffer /\ (mode' = "insert" => mode = "insert")
        BY <2>3 DEF HexStep, WaitKey, HexScroll, HexMove, AskChange, AskDelete, SaveBytes, Exit, NoCommand
    <3> QED
        BY <1>1, <3>1, SameBuffer DEF EditorInv
  <2> QED
      BY <2>1, <2>2, <2>3
<1> QED
    BY <1>1, <1>2, SelectedInv DEF EditorInv

-----------------------------------------------------------------------------
LEMMA EditorsInit == Init => EditorInv
<1> SUFFICES ASSUME Init PROVE EditorInv
    OBVIOUS
<1>1. /\ origin \in {"machine", "host"} /\ strayed = FALSE /\ mode = "keys"
      /\ selected = 0 /\ offset = 0
    BY DEF Init, InitBuffer, InitHex
<1>2. PICK t \in Texts :
          /\ file = [n \in -1 .. LastByte |-> IF n + 1 \in DOMAIN t THEN t[n + 1]
                                          ELSE IF n = LastByte THEN NL ELSE NUL]
          /\ file_size = Counted + Len(t)
    BY DEF Init, InitBuffer
<1>3. Counted \in Nat /\ Counted <= NameLen + 1 /\ Len(t) \in Nat /\ DOMAIN t = 1 .. Len(t)
      /\ Len(t) + NameLen + 1 < LastByte /\ LastByte \in Nat /\ NameLen \in Nat
    BY BufferAssumption DEF Counted
<1>4. TextLen = Len(t) /\ file_size \in Int /\ file_size < LastByte
    BY <1>2, <1>3 DEF TextLen
<1>5. \A n \in TextLen .. LastByte - 1 : file[n] = NUL
    BY <1>2, <1>3, <1>4
<1>6. file = [n \in -1 .. LastByte |-> file[n]]
    BY <1>2
<1>7. Covered
    BY <1>3, <1>4, <1>5 DEF Covered
<1>8. BufInv
    BY <1>1, <1>4, <1>6, <1>7 DEF BufInv
<1>9. Selected
    BY <1>1, HexAssumption, BufferAssumption DEF Selected
<1> QED
    BY <1>8, <1>9 DEF EditorInv

LEMMA EditorsStep == EditorInv /\ [Next]_vars => EditorInv'
<1> SUFFICES ASSUME EditorInv, [Next]_vars PROVE EditorInv'
    OBVIOUS
<1>1. CASE EditStep /\ UNCHANGED hex
    BY <1>1, EditInv
<1>2. CASE HexStep
    BY <1>2, HexInv
<1>3. ASSUME NEW code \in CodesOf[prog], Press(code), UNCHANGED mode PROVE EditorInv'
    BY <1>3, SameBuffer DEF Press, fixed, EditorInv, Selected
<1>4. ASSUME NEW b \in Bytes, Entered(b) PROVE EditorInv'
  <2>1. UNCHANGED <<prog, selected, offset>>
      BY <1>4 DEF Entered, fixed
  <2> QED
      BY <1>4, <2>1, EnteredInv DEF EditorInv, Selected
<1>5. CASE UNCHANGED vars
    BY <1>5, SameBuffer DEF vars, fixed, hex, EditorInv, Selected
<1> QED
    BY <1>1, <1>2, <1>3, <1>4, <1>5 DEF Next, Poll, User

THEOREM EditorsInvariance == Spec => []EditorInv
<1> QED
    BY EditorsInit, EditorsStep, PTL DEF Spec

(* A file of the machine's is saved with all of its text, in edit and in   *)
(* hexedit, as long as no edit was made where they are wrong: the size,    *)
(* kept by hand, covers it (edit.c:136, hexedit.c:193).                    *)
THEOREM SavesCover == Spec => []SaveCovers
<1>1. EditorInv => SaveCovers
  <2> SUFFICES ASSUME EditorInv, ~strayed, origin = "machine",
                      NEW n \in 0 .. LastByte - 1, file[n] # NUL
               PROVE  n < Len(Saved)
      BY DEF SaveCovers
  <2>1. /\ file_size \in Int /\ NameLen \in Nat /\ LastByte \in Nat
        /\ TextLen = file_size - (NameLen + 1) /\ TextLen >= 0
        /\ \A k \in TextLen .. LastByte - 1 : file[k] = NUL
    <3>1. Covered /\ file_size \in Int
        BY DEF EditorInv, BufInv
    <3> QED
        BY <3>1, BufferAssumption DEF Covered, TextLen, Counted
  <2>2. SaveLen \in Nat /\ n < SaveLen
    <3>1. n < TextLen
        BY <2>1
    <3> QED
        BY <2>1, <3>1 DEF SaveLen
  <2>3. Len(Saved) = SaveLen
      BY <2>2 DEF Saved
  <2> QED
      BY <2>2, <2>3
<1> QED
    BY <1>1, EditorsInvariance, PTL

-----------------------------------------------------------------------------
(* What RemoveAt of the community modules leaves of a sequence.            *)
LEMMA Removed ==
    ASSUME NEW S, NEW s \in Seq(S), NEW k \in 1 .. Len(s)
    PROVE  /\ RemoveAt(s, k) \in Seq(S) /\ Len(RemoveAt(s, k)) = Len(s) - 1
           /\ \A n \in 1 .. Len(s) - 1 :
                  RemoveAt(s, k)[n] = IF n < k THEN s[n] ELSE s[n + 1]
<1> DEFINE front == SubSeq(s, 1, k - 1)
           rest  == SubSeq(s, k + 1, Len(s))
<1>1. Len(s) \in Nat /\ k \in Nat /\ k >= 1 /\ k <= Len(s) /\ \A n \in 1 .. Len(s) : s[n] \in S
    BY LenProperties
<1>2. /\ front \in Seq(S) /\ Len(front) = k - 1 /\ \A n \in 1 .. k - 1 : front[n] = s[n]
  <2>1. \A n \in 1 .. k - 1 : s[n] \in S
      BY <1>1
  <2>2. /\ front \in Seq(S) /\ Len(front) = IF 1 <= k - 1 THEN ((k - 1) - 1) + 1 ELSE 0
        /\ \A n \in 1 .. ((k - 1) - 1) + 1 : front[n] = s[(1 + n) - 1]
      BY <1>1, <2>1, SubSeqProperties
  <2> QED
      BY <1>1, <2>2
<1>3. /\ rest \in Seq(S) /\ Len(rest) = Len(s) - k
      /\ \A n \in 1 .. Len(s) - k : rest[n] = s[k + n]
  <2>1. \A n \in k + 1 .. Len(s) : s[n] \in S
      BY <1>1
  <2>2. /\ rest \in Seq(S) /\ Len(rest) = IF k + 1 <= Len(s) THEN (Len(s) - (k + 1)) + 1 ELSE 0
        /\ \A n \in 1 .. (Len(s) - (k + 1)) + 1 : rest[n] = s[((k + 1) + n) - 1]
      BY <1>1, <2>1, SubSeqProperties
  <2> QED
      BY <1>1, <2>2
<1>4. RemoveAt(s, k) = front \o rest
    BY DEF RemoveAt
<1>5. /\ front \o rest \in Seq(S) /\ Len(front \o rest) = Len(front) + Len(rest)
      /\ \A n \in 1 .. Len(front) + Len(rest) :
             (front \o rest)[n] = IF n <= Len(front) THEN front[n] ELSE rest[n - Len(front)]
    BY <1>2, <1>3, ConcatProperties
<1> HIDE DEF front, rest
<1> QED
    BY <1>1, <1>2, <1>3, <1>4, <1>5

(* Deleting byte p deletes character p of the text.                        *)
LEMMA EraseText ==
    ASSUME BufInv, ~strayed, NEW p \in 0 .. TextLen - 1,
           file' = MovedDown(p), file_size' = file_size - 1, origin' = origin
    PROVE  Text' = RemoveAt(Text, p + 1)
<1> DEFINE S == {file[n] : n \in -1 .. LastByte}
           L == TextLen
<1>1. Counted \in Nat /\ Counted' = Counted /\ LastByte \in Nat /\ file_size \in Int
    BY CountedType, BufferAssumption DEF BufInv, Counted
<1>2. L \in Nat /\ L >= 1 /\ TextLen' = L - 1 /\ L <= file_size /\ file_size < LastByte
    BY <1>1 DEF TextLen, BufInv, Covered
<1> HIDE DEF L
<1>3. Text = [n \in 1 .. L |-> file[n - 1]] /\ Text' = [n \in 1 .. L - 1 |-> file'[n - 1]]
    BY <1>2 DEF Text, L
<1>4. \A n \in -1 .. LastByte : file[n] \in S
    OBVIOUS
<1> HIDE DEF S
<1>5. Text \in Seq(S) /\ Len(Text) = L
    BY <1>1, <1>2, <1>3, <1>4
<1>6. p + 1 \in 1 .. Len(Text)
    BY <1>2, <1>5 DEF L
<1>7. /\ RemoveAt(Text, p + 1) \in Seq(S) /\ Len(RemoveAt(Text, p + 1)) = L - 1
      /\ \A n \in 1 .. L - 1 :
             RemoveAt(Text, p + 1)[n] = IF n < p + 1 THEN Text[n] ELSE Text[n + 1]
    BY <1>5, <1>6, Removed
<1>8. \A n \in -1 .. LastByte :
          file'[n] = IF n \in p .. file_size - 1 THEN file[n + 1] ELSE file[n]
    BY DEF BufInv, MovedDown
<1>9. \A n \in 1 .. L - 1 : Text'[n] = RemoveAt(Text, p + 1)[n] /\ Text'[n] \in S
  <2> SUFFICES ASSUME NEW n \in 1 .. L - 1
               PROVE  Text'[n] = RemoveAt(Text, p + 1)[n] /\ Text'[n] \in S
      OBVIOUS
  <2>1. n - 1 \in -1 .. LastByte /\ n \in -1 .. LastByte /\ n \in 1 .. L /\ n + 1 \in 1 .. L
        /\ p \in Int
      BY <1>1, <1>2
  <2>2. Text'[n] = file'[n - 1] /\ Text[n] = file[n - 1] /\ Text[n + 1] = file[n]
      BY <1>3, <2>1
  <2>3. CASE n < p + 1
    <3>1. file'[n - 1] = file[n - 1]
        BY <1>8, <2>1, <2>3
    <3> QED
        BY <1>4, <1>7, <2>1, <2>2, <2>3, <3>1
  <2>4. CASE n >= p + 1
    <3>1. file'[n - 1] = file[n]
        BY <1>1, <1>2, <1>8, <2>1, <2>4
    <3> QED
        BY <1>4, <1>7, <2>1, <2>2, <2>4, <3>1
  <2> QED
      BY <2>1, <2>3, <2>4
<1>10. Text' \in Seq(S) /\ Len(Text') = L - 1
  <2>1. L - 1 \in Nat
      BY <1>2
  <2>2. Text' = [n \in 1 .. L - 1 |-> Text'[n]]
      BY <1>3
  <2>3. Text' \in [1 .. L - 1 -> S]
      BY <1>9, <2>2
  <2> QED
      BY <2>1, <2>3
<1> QED
    BY <1>7, <1>9, <1>10, SeqEqual

(* hexedit changes no byte before the selected one, whatever key is used;  *)
(* until one inserts or edits behind the text, it changes or deletes the   *)
(* selected byte and no other: hexedit.c:146-157, 178-188.                 *)
THEOREM HexExactly == Spec => HexExact
<1> DEFINE Exact == \/ Text' = RemoveAt(Text, At + 1)
                    \/ \E b \in Bytes : Text' = ReplaceAt(Text, At + 1, b)
           Before == \A n \in -1 .. At - 1 : file'[n] = file[n]
<1>1. EditorInv /\ [Next]_vars
        => [(prog = "hexedit" /\ file' # file) => Before /\ (~strayed' => Exact)]_vars
  <2> SUFFICES ASSUME EditorInv, Next, prog = "hexedit", file' # file
               PROVE  Before /\ (~strayed' => Exact)
      OBVIOUS
  <2> HIDE DEF Exact, Before
  <2>1. DeleteByte \/ AskInsert \/ \E b \in Bytes : Entered(b)
    <3>1. CASE EditStep
        BY <3>1 DEF EditStep, HoldKey, InsertLetter, InsertNewline, ResetCursor, SaveText,
               EraseChar, MoveCursor, CursorUp, CursorDown, ScrollText, ScrollView, NoEffect,
               Plain, TakeKey, EditRead
    <3>2. CASE HexStep
        BY <3>2 DEF HexStep, WaitKey, HexScroll, HexMove, AskChange, AskDelete, SaveBytes, Exit, NoCommand,
               buffer
    <3>3. ASSUME NEW code \in CodesOf[prog], Press(code) PROVE FALSE
        BY <3>3 DEF Press, buffer
    <3> QED
        BY <3>1, <3>2, <3>3 DEF Next, Poll, User
  <2>2. At \in 0 .. LastByte - 1 /\ LastByte \in Nat /\ file = [n \in -1 .. LastByte |-> file[n]]
      BY HexAssumption, BufferAssumption DEF EditorInv, BufInv, Selected, At
  <2>3. Before
    <3>1. CASE DeleteByte
        BY <2>2, <3>1 DEF DeleteByte, MovedDown, Before
    <3>2. CASE AskInsert
        BY <2>2, <3>2 DEF AskInsert, MovedUp, Before
    <3>3. ASSUME NEW b \in Bytes, Entered(b) PROVE Before
        BY <2>2, <3>3 DEF Entered, Before
    <3> QED
        BY <2>1, <3>1, <3>2, <3>3
  <2>4. CASE strayed'
      BY <2>3, <2>4
  <2>5. CASE DeleteByte /\ ~strayed'
    <3>1. /\ origin' = origin /\ file' = MovedDown(At) /\ file_size' = file_size - 1
          /\ strayed' = (strayed \/ ~InText(At))
        BY <2>5 DEF DeleteByte, fixed
    <3>2. ~strayed /\ At \in 0 .. TextLen - 1
        BY <2>5, <3>1 DEF InText
    <3> QED
        BY <2>3, <3>1, <3>2, EraseText DEF EditorInv, Exact
  <2>6. CASE AskInsert
      BY <2>3, <2>6 DEF AskInsert
  <2>7. ASSUME NEW b \in Bytes, Entered(b), ~strayed' PROVE Exact
    <3>1. /\ origin' = origin
          /\ file' = IF b = "bad" THEN file ELSE [file EXCEPT ![At] = b]
          /\ file_size' = IF mode = "insert" THEN file_size + 1 ELSE file_size
          /\ strayed' = (strayed \/ (~InText(At) /\ b \notin {NUL, "bad"}))
        BY <2>7 DEF Entered, fixed
    <3>2. ~strayed /\ b # "bad" /\ (InText(At) \/ b = NUL) /\ file' = [file EXCEPT ![At] = b]
        BY <2>7, <3>1
    <3>3. mode # "insert" /\ file = [n \in -1 .. LastByte |-> file[n]] /\ Covered
          /\ file_size \in Int /\ Counted \in Nat
        BY <3>2, CountedType DEF EditorInv, BufInv
    <3>4. TextLen \in Nat /\ TextLen' = TextLen /\ TextLen < LastByte
      <4>1. Counted' = Counted /\ file_size' = file_size
          BY <3>1, <3>3 DEF Counted
      <4>2. TextLen' = TextLen
          BY <4>1 DEF TextLen
      <4>3. TextLen \in Nat /\ TextLen < LastByte
          BY <3>3, BufferAssumption DEF TextLen, Covered
      <4> QED
          BY <4>2, <4>3
    <3>5. At \in 0 .. LastByte - 1
        BY HexAssumption, BufferAssumption DEF EditorInv, Selected, At
    <3>6. InText(At)
      <4> SUFFICES ASSUME ~InText(At) PROVE FALSE
          OBVIOUS
      <4>1. At \in TextLen .. LastByte - 1
          BY <3>4, <3>5, BufferAssumption DEF InText
      <4>2. file[At] = NUL /\ b = NUL
          BY <3>2, <3>3, <4>1 DEF Covered
      <4>3. file' = file
          BY <3>2, <3>3, <4>2
      <4> QED
          BY <4>3
    <3>7. At \in 0 .. TextLen - 1
        BY <3>6 DEF InText
    <3>8. Text = [n \in 1 .. TextLen |-> file[n - 1]] /\ Text' = [n \in 1 .. TextLen |-> file'[n - 1]]
        BY <3>4 DEF Text
    <3>9. \A n \in 1 .. TextLen :
              file'[n - 1] = IF n = At + 1 THEN b ELSE file[n - 1]
      <4> SUFFICES ASSUME NEW n \in 1 .. TextLen
                   PROVE  file'[n - 1] = IF n = At + 1 THEN b ELSE file[n - 1]
          OBVIOUS
      <4>1. n - 1 \in -1 .. LastByte /\ (n - 1 = At <=> n = At + 1)
          BY <3>4, <3>7, BufferAssumption
      <4> QED
          BY <3>2, <3>3, <4>1
    <3>10. Text' = [Text EXCEPT ![At + 1] = b]
        BY <3>7, <3>8, <3>9
    <3> QED
        BY <3>10 DEF Exact, ReplaceAt
  <2> QED
      BY <2>1, <2>3, <2>4, <2>5, <2>6, <2>7
<1> QED
    BY <1>1, EditorsInvariance, PTL DEF Spec, HexExact

-----------------------------------------------------------------------------
(* The rows of a text.                                                     *)

(* The row behind one that begins at c.                                    *)
RowAfter(c, f) == NextRow(f, c)

Rowing == INSTANCE SequenceFacts WITH Op <- RowAfter

LEMMA LeastOf ==
    ASSUME NEW S \in SUBSET Nat, S # {}
    PROVE  Min(S) \in S /\ \A y \in S : Min(S) <= y
<1>1. \E x \in S : \A y \in S : x <= y
    BY Rowing!LeastNatural
<1> QED
    BY <1>1 DEF Min

(* A row ends behind its newline, or is full.                              *)
LEMMA NextRowFacts ==
    ASSUME NEW f, NEW c \in Nat
    PROVE  /\ NextRow(f, c) \in Nat /\ c < NextRow(f, c) /\ NextRow(f, c) <= c + Cols
           /\ \A n \in c .. NextRow(f, c) - 2 : ByteAt(f, n) # NL
           /\ NextRow(f, c) = c + Cols \/ ByteAt(f, NextRow(f, c) - 1) = NL
<1> DEFINE ends == {n \in c .. (c + Cols) - 1 : ByteAt(f, n) = NL}
<1>1. NextRow(f, c) = IF ends = {} THEN c + Cols ELSE Min(ends) + 1
    BY DEF NextRow
<1>2. Cols \in Nat /\ Cols >= 1 /\ ends \in SUBSET Nat
    BY ScreenAssumption
<1>3. CASE ends = {}
  <2>1. NextRow(f, c) = c + Cols
      BY <1>1, <1>3
  <2>2. \A n \in c .. (c + Cols) - 2 : n \in c .. (c + Cols) - 1
      BY <1>2
  <2>3. \A n \in c .. (c + Cols) - 2 : ByteAt(f, n) # NL
      BY <1>3, <2>2
  <2> HIDE DEF ends
  <2> QED
      BY <1>2, <2>1, <2>3
<1>4. CASE ends # {}
  <2> DEFINE m == Min(ends)
  <2>1. m \in ends /\ \A y \in ends : m <= y
      BY <1>2, <1>4, LeastOf
  <2>2. m \in Nat /\ c <= m /\ m <= (c + Cols) - 1 /\ ByteAt(f, m) = NL
      BY <1>2, <2>1
  <2>3. NextRow(f, c) = m + 1
      BY <1>1, <1>4
  <2> HIDE DEF m
  <2>4. ASSUME NEW n \in c .. (m + 1) - 2 PROVE ByteAt(f, n) # NL
    <3>1. n \in c .. (c + Cols) - 1 /\ ~(m <= n)
        BY <1>2, <2>2
    <3> QED
        BY <2>1, <3>1
  <2>5. (m + 1) - 1 = m
      BY <2>2
  <2> HIDE DEF ends
  <2> QED
      BY <1>2, <2>2, <2>3, <2>4, <2>5
<1> QED
    BY <1>3, <1>4

(* Where it ends depends on the row alone.                                 *)
LEMMA NextRowSame ==
    ASSUME NEW f, NEW h, NEW c \in Nat,
           \A n \in c .. NextRow(f, c) - 1 : ByteAt(h, n) = ByteAt(f, n)
    PROVE  NextRow(h, c) = NextRow(f, c)
<1> DEFINE x == NextRow(f, c)
           y == NextRow(h, c)
<1>1. /\ x \in Nat /\ c < x /\ x <= c + Cols
      /\ \A n \in c .. x - 2 : ByteAt(f, n) # NL
      /\ x = c + Cols \/ ByteAt(f, x - 1) = NL
    BY NextRowFacts
<1>2. /\ y \in Nat /\ c < y /\ y <= c + Cols
      /\ \A n \in c .. y - 2 : ByteAt(h, n) # NL
      /\ y = c + Cols \/ ByteAt(h, y - 1) = NL
    BY NextRowFacts
<1>3. \A n \in c .. x - 1 : ByteAt(h, n) = ByteAt(f, n)
    OBVIOUS
<1> HIDE DEF x, y
<1>4. ~(x < y)
  <2> SUFFICES ASSUME x < y PROVE FALSE
      OBVIOUS
  <2>1. x # c + Cols /\ x - 1 \in c .. x - 1 /\ x - 1 \in c .. y - 2
      BY <1>1, <1>2, ScreenAssumption
  <2> QED
      BY <1>1, <1>2, <1>3, <2>1
<1>5. ~(y < x)
  <2> SUFFICES ASSUME y < x PROVE FALSE
      OBVIOUS
  <2>1. y # c + Cols /\ y - 1 \in c .. x - 1 /\ y - 1 \in c .. x - 2
      BY <1>1, <1>2, ScreenAssumption
  <2> QED
      BY <1>1, <1>2, <1>3, <2>1
<1>6. x = y
    BY <1>1, <1>2, <1>4, <1>5
<1> QED
    BY <1>6 DEF x, y

(* RowStart, a function defined by recursion up to the row, unfolded.      *)
LEMMA RowStarts ==
    ASSUME NEW f
    PROVE  /\ RowStart(f, 0) = 0
           /\ \A k \in Nat : RowStart(f, k + 1) = NextRow(f, RowStart(f, k))
<1> DEFINE Rec(s, n) == s = [k \in 0 .. n |-> IF k = 0 THEN 0 ELSE NextRow(f, s[k - 1])]
           start(n)  == CHOOSE s : Rec(s, n)
<1>1. \A n \in Nat : RowStart(f, n) = start(n)[n]
    BY DEF RowStart
<1>2. ASSUME NEW n \in Nat PROVE \E s : Rec(s, n)
  <2> DEFINE seq == [k \in 1 .. n |-> f]
  <2>1. DOMAIN seq = 1 .. n
      OBVIOUS
  <2> HIDE DEF seq
  <2>2. PICK g : /\ g[0] = 0
                 /\ \A k \in 1 .. n : g[k] = RowAfter(g[k - 1], seq[k])
                 /\ Rowing!Folded(0, seq) = g[n]
      BY <2>1, Rowing!FoldLeftRun
  <2>3. \A k \in 1 .. n : g[k] = NextRow(f, g[k - 1])
      BY <2>2 DEF seq, RowAfter
  <2> DEFINE s == [k \in 0 .. n |-> g[k]]
  <2>4. ASSUME NEW k \in 0 .. n PROVE s[k] = IF k = 0 THEN 0 ELSE NextRow(f, s[k - 1])
    <3>1. CASE k = 0
        BY <2>2, <3>1
    <3>2. CASE k # 0
      <4>1. k \in 1 .. n /\ k - 1 \in 0 .. n
          BY <3>2
      <4> QED
          BY <2>3, <3>2, <4>1
    <3> QED
        BY <3>1, <3>2
  <2>5. Rec(s, n)
      BY <2>4
  <2> QED
      BY <2>5
<1>3. \A n \in Nat : Rec(start(n), n)
    BY <1>2
<1>4. \A n \in Nat : \A k \in 0 .. n :
          start(n)[k] = IF k = 0 THEN 0 ELSE NextRow(f, start(n)[k - 1])
  <2> SUFFICES ASSUME NEW n \in Nat, NEW k \in 0 .. n
               PROVE  start(n)[k] = IF k = 0 THEN 0 ELSE NextRow(f, start(n)[k - 1])
      OBVIOUS
  <2>1. Rec(start(n), n)
      BY <1>3
  <2> HIDE DEF start
  <2> QED
      BY <2>1
<1> HIDE DEF Rec, start
<1>5. RowStart(f, 0) = 0
  <2>1. 0 \in 0 .. 0 /\ 0 \in Nat
      OBVIOUS
  <2> QED
      BY <1>1, <1>4, <2>1
<1>6. ASSUME NEW k \in Nat PROVE RowStart(f, k + 1) = NextRow(f, RowStart(f, k))
  <2> DEFINE Same == {j \in 0 .. k : start(k + 1)[j] = start(k)[j]}
  <2>1. 0 \in Same
    <3>1. 0 \in 0 .. k /\ 0 \in 0 .. k + 1 /\ k + 1 \in Nat
        OBVIOUS
    <3> QED
        BY <1>4, <3>1
  <2>2. ASSUME NEW j \in 0 .. k - 1, j \in Same PROVE j + 1 \in Same
    <3>1. j + 1 \in 0 .. k /\ j + 1 \in 0 .. k + 1 /\ k + 1 \in Nat /\ (j + 1) - 1 = j /\ j + 1 # 0
        OBVIOUS
    <3>2. start(k)[j + 1] = NextRow(f, start(k)[j])
        BY <1>4, <3>1
    <3>3. start(k + 1)[j + 1] = NextRow(f, start(k + 1)[j])
        BY <1>4, <3>1
    <3> QED
        BY <2>2, <3>1, <3>2, <3>3
  <2> HIDE DEF Same
  <2>3. \A j \in 0 .. k : j \in Same
      BY <2>1, <2>2, Rowing!UpTo
  <2>4. start(k + 1)[k] = start(k)[k]
      BY <2>3 DEF Same
  <2>5. k + 1 \in Nat /\ k + 1 \in 0 .. k + 1 /\ (k + 1) - 1 = k /\ k + 1 # 0
      OBVIOUS
  <2>6. start(k + 1)[k + 1] = NextRow(f, start(k + 1)[k])
      BY <1>4, <2>5
  <2> QED
      BY <1>1, <2>4, <2>5, <2>6
<1> QED
    BY <1>5, <1>6

(* Rows begin one behind the other.                                        *)
LEMMA RowStartType == ASSUME NEW f, NEW line \in Nat PROVE RowStart(f, line) \in Nat
<1> DEFINE Good == {k \in Nat : RowStart(f, k) \in Nat}
<1>1. 0 \in Good
    BY RowStarts
<1>2. ASSUME NEW k \in 0 .. line - 1, k \in Good PROVE k + 1 \in Good
  <2>1. k \in Nat /\ RowStart(f, k) \in Nat
      BY <1>2
  <2>2. RowStart(f, k + 1) = NextRow(f, RowStart(f, k))
      BY <2>1, RowStarts
  <2>3. NextRow(f, RowStart(f, k)) \in Nat
      BY <2>1, NextRowFacts
  <2> QED
      BY <2>1, <2>2, <2>3
<1> HIDE DEF Good
<1>3. line \in Good
    BY <1>1, <1>2, Rowing!UpTo
<1> QED
    BY <1>3 DEF Good

LEMMA RowsAscend ==
    ASSUME NEW f, NEW line \in Nat, NEW j \in 0 .. line
    PROVE  RowStart(f, j) <= RowStart(f, line)
<1> DEFINE Good == {k \in Nat : j <= k => RowStart(f, j) <= RowStart(f, k)}
<1>1. 0 \in Good
  <2>1. j <= 0 => j = 0
      OBVIOUS
  <2> QED
      BY <2>1, RowStartType
<1>2. ASSUME NEW k \in 0 .. line - 1, k \in Good PROVE k + 1 \in Good
  <2>1. CASE j <= k
    <3>1. k \in Nat /\ RowStart(f, k) \in Nat /\ RowStart(f, j) \in Nat
          /\ RowStart(f, k + 1) \in Nat
        BY RowStartType
    <3>2. RowStart(f, k) < RowStart(f, k + 1)
        BY <3>1, RowStarts, NextRowFacts
    <3> QED
        BY <1>2, <2>1, <3>1, <3>2
  <2>2. CASE ~(j <= k)
    <3>1. j <= k + 1 => j = k + 1
        BY <2>2
    <3>2. RowStart(f, k + 1) \in Nat
        BY RowStartType
    <3> QED
        BY <3>1, <3>2
  <2> QED
      BY <2>1, <2>2
<1> HIDE DEF Good
<1>3. line \in Good
    BY <1>1, <1>2, Rowing!UpTo
<1> QED
    BY <1>3 DEF Good

(* What is behind a row does not move it.                                  *)
LEMMA RowStartSame ==
    ASSUME NEW f, NEW h, NEW line \in Nat,
           \A n \in 0 .. RowStart(f, line) - 1 : ByteAt(h, n) = ByteAt(f, n)
    PROVE  RowStart(h, line) = RowStart(f, line)
<1> DEFINE Good == {k \in Nat : RowStart(h, k) = RowStart(f, k)}
<1>1. 0 \in Good
    BY RowStarts
<1>2. ASSUME NEW k \in 0 .. line - 1, k \in Good PROVE k + 1 \in Good
  <2>1. k \in Nat /\ k + 1 \in 0 .. line
      OBVIOUS
  <2>2. RowStart(f, k) \in Nat /\ RowStart(f, k + 1) \in Nat /\ RowStart(f, line) \in Nat
        /\ RowStart(f, k + 1) <= RowStart(f, line)
      BY <2>1, RowStartType, RowsAscend
  <2>3. RowStart(f, k + 1) = NextRow(f, RowStart(f, k))
        /\ RowStart(h, k + 1) = NextRow(h, RowStart(f, k))
      BY <1>2, <2>1, RowStarts
  <2> DEFINE c == RowStart(f, k)
  <2>4. \A n \in c .. NextRow(f, c) - 1 : n \in 0 .. RowStart(f, line) - 1
      BY <2>2, <2>3
  <2>5. \A n \in c .. NextRow(f, c) - 1 : ByteAt(h, n) = ByteAt(f, n)
      BY <2>4
  <2> HIDE DEF c
  <2>6. NextRow(h, c) = NextRow(f, c)
      BY <2>2, <2>5, NextRowSame DEF c
  <2> QED
      BY <2>1, <2>3, <2>6 DEF c
<1> HIDE DEF Good
<1>3. line \in Good
    BY <1>1, <1>2, Rowing!UpTo
<1> QED
    BY <1>3 DEF Good

-----------------------------------------------------------------------------
(* The cursor of edit.                                                     *)

(* It is counted from the first row shown, and there is a newline for DOWN *)
(* to find behind the text.                                                *)
CursorInv ==
    prog = "edit" => /\ offset \in Nat /\ selected \in Int
                     /\ actual = RowStart(file, offset) + selected
                     /\ file_size < LastByte /\ file[LastByte] = NL

LEMMA GreatestOf ==
    ASSUME NEW b \in Int, NEW S \in SUBSET Int, S # {}, \A y \in S : y <= b
    PROVE  Max(S) \in S /\ \A y \in S : y <= Max(S)
<1> DEFINE T == {b - y : y \in S}
<1>1. T \in SUBSET Nat /\ T # {}
  <2>1. ASSUME NEW y \in S PROVE b - y \in Nat
    <3>1. y \in Int /\ y <= b
        OBVIOUS
    <3> QED
        BY <3>1
  <2> QED
      BY <2>1
<1>2. PICK t \in T : \A u \in T : t <= u
    BY <1>1, Rowing!LeastNatural
<1>3. PICK x \in S : t = b - x
    BY <1>2
<1>4. ASSUME NEW y \in S PROVE y <= x
  <2>1. b - y \in T
      OBVIOUS
  <2>2. b - x <= b - y
      BY <1>2, <1>3, <2>1
  <2> QED
      BY <2>2
<1>5. \E m \in S : \A y \in S : m >= y
  <2>1. \A y \in S : x >= y
      BY <1>4
  <2> QED
      BY <2>1
<1>6. Max(S) \in S /\ \A y \in S : Max(S) >= y
    BY <1>5, Zenon DEF Max
<1> QED
    BY <1>6

(* UP goes behind the last newline but one before the cursor.              *)
Ends == {n \in 1 .. actual - 1 : file[n] = NL}

LEMMA UpTargetIs ==
    ASSUME actual \in Int
    PROVE  \/ UpTarget = 0 /\ \A n, m \in Ends : n = m
           \/ \E n, m \in Ends : /\ n < m /\ \A k \in Ends : k = m \/ k <= n
                                 /\ UpTarget = n + 1
<1> DEFINE m == Max(Ends)
           n == Max(Ends \ {m})
<1>1. UpTarget = IF Cardinality(Ends) < 2 THEN 0 ELSE n + 1
    BY DEF UpTarget, Ends
<1>2. Ends \in SUBSET (1 .. actual - 1) /\ Ends \in SUBSET Int /\ IsFiniteSet(Ends)
      /\ \A k \in Ends : k <= actual - 1
  <2>1. IsFiniteSet(1 .. actual - 1)
      BY FS_Interval
  <2>2. Ends \in SUBSET (1 .. actual - 1)
      BY DEF Ends
  <2>3. IsFiniteSet(Ends)
      BY <2>1, <2>2, FS_Subset
  <2>4. \A k \in Ends : k \in Int /\ k <= actual - 1
      BY DEF Ends
  <2> QED
      BY <2>2, <2>3, <2>4
<1>3. CASE Cardinality(Ends) < 2
  <2> SUFFICES ASSUME NEW k \in Ends, NEW j \in Ends, k # j PROVE FALSE
      BY <1>1, <1>3
  <2>1. {k, j} \in SUBSET Ends /\ IsFiniteSet({k}) /\ Cardinality({k}) = 1
      BY FS_Singleton
  <2>2. Cardinality({k} \union {j}) = 2
      BY <2>1, FS_AddElement
  <2>3. {k} \union {j} \in SUBSET Ends
      OBVIOUS
  <2>4. Cardinality({k} \union {j}) <= Cardinality(Ends)
      BY <1>2, <2>3, FS_Subset
  <2>5. Cardinality(Ends) \in Nat
      BY <1>2, FS_CardinalityType
  <2> QED
      BY <1>3, <2>2, <2>4, <2>5
<1>4. CASE ~(Cardinality(Ends) < 2)
  <2>1. Ends # {} /\ Ends # {m}
    <3>1. Cardinality({}) = 0 /\ Cardinality({m}) = 1
        BY FS_EmptySet, FS_Singleton
    <3> QED
        BY <1>4, <3>1
  <2>2. m \in Ends /\ \A k \in Ends : k <= m
    <3>1. Ends \in SUBSET Int /\ Ends # {} /\ actual - 1 \in Int
          /\ \A k \in Ends : k <= actual - 1
        BY <1>2, <2>1
    <3> QED
        BY <3>1, GreatestOf
  <2> HIDE DEF m
  <2>3. Ends \ {m} # {} /\ Ends \ {m} \in SUBSET Int /\ \A k \in Ends \ {m} : k <= actual - 1
      BY <1>2, <2>1
  <2>4. n \in Ends \ {m} /\ \A k \in Ends \ {m} : k <= n
    <3> DEFINE rest == Ends \ {m}
    <3>1. rest \in SUBSET Int /\ rest # {} /\ actual - 1 \in Int
          /\ \A k \in rest : k <= actual - 1
        BY <2>3
    <3> HIDE DEF rest
    <3>2. Max(rest) \in rest /\ \A k \in rest : k <= Max(rest)
        BY <3>1, GreatestOf
    <3> QED
        BY <3>2 DEF rest
  <2> HIDE DEF n
  <2>5. n \in Ends /\ n < m /\ UpTarget = n + 1
      BY <1>1, <1>2, <1>4, <2>2, <2>4
  <2> QED
      BY <2>2, <2>4, <2>5
<1> QED
    BY <1>3, <1>4

LEMMA CursorInit == Init => CursorInv
<1> SUFFICES ASSUME Init, prog = "edit" PROVE CursorInv
    BY DEF CursorInv
<1>1. offset = 0 /\ selected = 0 /\ actual = 0
    BY DEF Init, InitBuffer, InitEdit
<1>2. RowStart(file, 0) = 0
    BY RowStarts
<1>3. PICK t \in Texts :
          /\ file = [n \in -1 .. LastByte |-> IF n + 1 \in DOMAIN t THEN t[n + 1]
                                          ELSE IF n = LastByte THEN NL ELSE NUL]
          /\ file_size = Counted + Len(t)
    BY DEF Init, InitBuffer
<1>4. Counted \in Nat /\ Counted <= NameLen + 1 /\ Len(t) \in Nat /\ DOMAIN t = 1 .. Len(t)
      /\ Len(t) + NameLen + 1 < LastByte /\ LastByte \in Nat /\ NameLen \in Nat
    BY BufferAssumption DEF Counted
<1>5. file_size < LastByte /\ file[LastByte] = NL
    BY <1>3, <1>4
<1> QED
    BY <1>1, <1>2, <1>5 DEF CursorInv

LEMMA CursorNext == EditorInv /\ CursorInv /\ [Next]_vars => CursorInv'
<1> SUFFICES ASSUME EditorInv, CursorInv, [Next]_vars, prog' = "edit" PROVE CursorInv'
    BY DEF CursorInv
<1>0. /\ \A n \in Nat : RowStart(file, n) \in Nat
      /\ LastByte \in Nat /\ file_size \in Int /\ file = [n \in -1 .. LastByte |-> file[n]]
    BY RowStartType, BufferAssumption DEF EditorInv, BufInv
<1>1. ASSUME prog = "edit", UNCHANGED <<file, file_size, selected, offset, actual>>
      PROVE  CursorInv'
    BY <1>1 DEF CursorInv
<1>2. ASSUME prog = "edit", Redraw, offset' \in Nat, selected' \in Int,
             file_size' < LastByte, file'[LastByte] = NL
      PROVE  CursorInv'
    BY <1>2 DEF CursorInv, Redraw
<1>3. prog = "edit" => /\ offset \in Nat /\ selected \in Int /\ actual \in Int
                       /\ file_size < LastByte /\ file[LastByte] = NL
    BY <1>0 DEF CursorInv
<1>4. CASE EditStep
  <2>1. prog = "edit"
      BY <1>4 DEF EditStep, HoldKey, InsertLetter, InsertNewline, ResetCursor, SaveText,
           EraseChar, MoveCursor, CursorUp, CursorDown, ScrollText, ScrollView, NoEffect,
           Plain, TakeKey, EditRead, fixed
  <2>2. CASE HoldKey \/ NoEffect
      BY <1>1, <2>1, <2>2 DEF HoldKey, NoEffect, buffer
  <2>3. ASSUME NEW ch, InsertAtCursor(ch) PROVE CursorInv'
    <3>1. Redraw /\ offset' = offset /\ selected' = selected + 1 /\ file_size' = file_size + 1
          /\ actual \in -1 .. LastByte - 1 /\ file_size \in 0 .. LastByte - 2
          /\ file' = [(IF actual >= 1 THEN MovedUp(actual) ELSE file) EXCEPT ![actual] = ch]
        BY <2>3 DEF InsertAtCursor, Room, InsertChar, Longer
    <3>2. file'[LastByte] = file[LastByte]
      <4>1. LastByte \in -1 .. LastByte /\ LastByte # actual
            /\ LastByte \notin actual + 1 .. file_size + 1
          BY <1>0, <3>1
      <4> QED
          BY <1>0, <3>1, <4>1 DEF MovedUp
    <3>3. offset' \in Nat /\ selected' \in Int /\ file_size' < LastByte
          BY <1>0, <1>3, <2>1, <3>1
    <3> QED
        BY <1>2, <1>3, <2>1, <3>1, <3>2, <3>3
  <2>4. CASE EraseChar
    <3>1. Redraw /\ offset' = offset /\ selected' = selected - 1
          /\ file_size' = file_size - 1 /\ file' = MovedDown(actual - 1)
        BY <2>4 DEF EraseChar
    <3>2. file'[LastByte] = file[LastByte]
      <4>1. LastByte \in -1 .. LastByte /\ LastByte \notin actual - 1 .. file_size - 1
          BY <1>0, <1>3, <2>1
      <4> QED
          BY <1>0, <3>1, <4>1 DEF MovedDown
    <3>3. offset' \in Nat /\ selected' \in Int /\ file_size' < LastByte
          BY <1>0, <1>3, <2>1, <3>1
    <3> QED
        BY <1>2, <1>3, <2>1, <3>1, <3>2, <3>3
  <2>5. ASSUME UNCHANGED buffer, Redraw, offset' \in Nat, selected' \in Int PROVE CursorInv'
      BY <1>2, <1>3, <2>1, <2>5 DEF buffer
  <2>6. CASE ResetCursor \/ SaveText
    <3>1. /\ UNCHANGED buffer /\ Redraw
          /\ \/ offset' = 0 /\ selected' = 0
             \/ offset' = offset /\ selected' = selected
        BY <2>6 DEF ResetCursor, SaveText
    <3> QED
        BY <1>3, <2>1, <2>5, <3>1
  <2>7. CASE MoveCursor
    <3>1. UNCHANGED buffer /\ Redraw /\ offset' = offset
          /\ (selected' = selected + 1 \/ selected' = selected - 1)
        BY <2>7 DEF MoveCursor
    <3> QED
        BY <1>3, <2>1, <2>5, <3>1
  <2>8. CASE CursorUp
    <3>1. /\ UNCHANGED buffer /\ Redraw /\ offset' = offset
          /\ selected' = selected - (actual - UpTarget)
        BY <2>8 DEF CursorUp
    <3>2. UpTarget \in Int
      <4>1. \A n \in Ends : n \in Int
          BY <1>3, <2>1 DEF Ends
      <4> QED
          BY <1>3, <2>1, <4>1, UpTargetIs
    <3> QED
        BY <1>3, <2>1, <2>5, <3>1, <3>2
  <2>9. CASE CursorDown
    <3>1. /\ UNCHANGED buffer /\ Redraw /\ offset' = offset /\ actual \in 0 .. LastByte
          /\ selected' = selected + (DownTarget - actual)
        BY <2>9 DEF CursorDown
    <3>2. DownTarget \in Int
      <4> DEFINE ends == {n \in actual .. LastByte : n >= 0 /\ file[n] = NL}
      <4>1. LastByte \in ends /\ ends \in SUBSET Nat
          BY <1>0, <1>3, <2>1, <3>1
      <4> HIDE DEF ends
      <4>2. Min(ends) \in Nat
          BY <4>1, LeastOf
      <4>3. DownTarget = Min(ends) + 1
          BY DEF DownTarget, ends
      <4> QED
          BY <4>2, <4>3
    <3> QED
        BY <1>3, <2>1, <2>5, <3>1, <3>2
  <2>10. CASE ScrollText
    <3>1. UNCHANGED buffer /\ Redraw /\ selected' = selected
          /\ \/ offset > 0 /\ offset' = offset - 1
             \/ offset' = offset + 1
        BY <2>10 DEF ScrollText, Scrolls
    <3> QED
        BY <1>3, <2>1, <2>5, <3>1
  <2>11. ~ScrollView
      BY <2>1 DEF ScrollView, TakeKey, EditRead
  <2> QED
      BY <1>4, <2>2, <2>3, <2>4, <2>6, <2>7, <2>8, <2>9, <2>10, <2>11
      DEF EditStep, InsertLetter, InsertNewline
<1>5. ~HexStep /\ \A b \in Bytes : ~Entered(b)
    BY DEF HexStep, WaitKey, HexScroll, HexMove, AskChange, AskInsert, AskDelete, DeleteByte, SaveBytes,
           Exit, NoCommand, Key, HexRead, Entered, fixed
<1>6. ASSUME NEW code \in CodesOf[prog], Press(code), UNCHANGED editor PROVE CursorInv'
    BY <1>1, <1>6 DEF Press, fixed, buffer, editor
<1>7. CASE UNCHANGED vars
    BY <1>1, <1>7 DEF vars, fixed, buffer, editor
<1> QED
    BY <1>4, <1>5, <1>6, <1>7 DEF Next, Poll, User

LEMMA CursorInvariance == Spec => [](EditorInv /\ CursorInv)
<1>1. Init => EditorInv /\ CursorInv
    BY EditorsInit, CursorInit
<1>2. (EditorInv /\ CursorInv) /\ [Next]_vars => (EditorInv /\ CursorInv)'
    BY EditorsStep, CursorNext
<1> QED
    BY <1>1, <1>2, PTL DEF Spec

-----------------------------------------------------------------------------
(* What edit's keys do to the text.                                        *)

LEMMA TextFacts ==
    ASSUME EditorInv, ~strayed
    PROVE  /\ Counted \in Nat /\ LastByte \in Nat /\ file_size \in Int
           /\ TextLen \in Nat /\ TextLen = file_size - Counted
           /\ TextLen <= file_size /\ file_size < LastByte
           /\ file = [n \in -1 .. LastByte |-> file[n]]
<1>1. Counted \in Nat /\ LastByte \in Nat /\ file_size \in Int
      /\ file = [n \in -1 .. LastByte |-> file[n]]
    BY CountedType, BufferAssumption DEF EditorInv, BufInv
<1>2. TextLen >= 0 /\ file_size < LastByte /\ TextLen = file_size - Counted
    BY DEF EditorInv, BufInv, Covered, TextLen
<1> QED
    BY <1>1, <1>2

(* Inserting at byte p inserts behind p characters of the text.            *)
LEMMA InsertText ==
    ASSUME EditorInv, ~strayed, NEW p \in 0 .. TextLen, NEW ch,
           p = 0 => TextLen = 0, file_size <= LastByte - 2,
           file' = [(IF p >= 1 THEN MovedUp(p) ELSE file) EXCEPT ![p] = ch],
           file_size' = file_size + 1, origin' = origin
    PROVE  Text' = InsertAt(Text, p + 1, ch)
<1> DEFINE L == TextLen
           S == {file[n] : n \in -1 .. LastByte} \union {ch}
<1>1. /\ Counted \in Nat /\ LastByte \in Nat /\ file_size \in Int /\ L \in Nat
      /\ L <= file_size /\ file_size <= LastByte - 2
      /\ file = [n \in -1 .. LastByte |-> file[n]]
      /\ TextLen' = L + 1 /\ p \in 0 .. L /\ (p = 0 => L = 0)
  <2>1. Counted' = Counted
      BY DEF Counted
  <2> QED
      BY <2>1, TextFacts DEF TextLen
<1>2. Text = [n \in 1 .. L |-> file[n - 1]] /\ Text' = [n \in 1 .. L + 1 |-> file'[n - 1]]
    BY <1>1 DEF Text
<1> HIDE DEF L
<1>3. \A n \in -1 .. LastByte :
          file'[n] = IF n = p THEN ch
                     ELSE IF p >= 1 /\ n \in p + 1 .. file_size + 1 THEN file[n - 1] ELSE file[n]
    BY <1>1 DEF MovedUp
<1>4. (\A n \in -1 .. LastByte : file[n] \in S) /\ ch \in S
    OBVIOUS
<1> HIDE DEF S
<1>5. Text \in Seq(S) /\ Len(Text) = L
  <2>1. \A n \in 1 .. L : n - 1 \in -1 .. LastByte
      BY <1>1
  <2>2. L \in Nat /\ Text \in [1 .. L -> S]
      BY <1>1, <1>2, <1>4, <2>1
  <2> HIDE DEF Text
  <2> QED
      BY <2>2
<1>6. p + 1 \in 1 .. Len(Text) + 1 /\ p \in Int
    BY <1>1, <1>5
<1>7. InsertAt(Text, p + 1, ch) =
          [n \in 1 .. Len(Text) + 1 |->
              IF n < p + 1 THEN Text[n] ELSE IF n = p + 1 THEN ch ELSE Text[n - 1]]
  <2>1. InsertAt(Text, p + 1, ch) = Rowing!InsertAt(Text, p + 1, ch)
      BY DEF InsertAt, Rowing!InsertAt
  <2> DEFINE t == Text
             k == p + 1
  <2>2. t \in Seq(S) /\ k \in 1 .. Len(t) + 1 /\ ch \in S
      BY <1>4, <1>5, <1>6
  <2> HIDE DEF t, k
  <2>3. Rowing!InsertAt(t, k, ch) =
            [n \in 1 .. Len(t) + 1 |->
                IF n < k THEN t[n] ELSE IF n = k THEN ch ELSE t[n - 1]]
      BY <2>2, Rowing!InsertedAt
  <2> QED
      BY <2>1, <2>3 DEF t, k
<1>8. ASSUME NEW n \in 1 .. L + 1
      PROVE  file'[n - 1] = IF n < p + 1 THEN Text[n] ELSE IF n = p + 1 THEN ch ELSE Text[n - 1]
  <2>1. n \in Int /\ n - 1 \in -1 .. LastByte /\ n - 1 # n
        /\ (n < p + 1 => n \in 1 .. L) /\ (n > p + 1 => n - 1 \in 1 .. L)
      BY <1>1, <1>6
  <2>2. CASE n < p + 1
    <3>1. Text[n] = file[n - 1]
        BY <1>2, <2>1, <2>2
    <3>2. n - 1 # p /\ ~(n - 1 \in p + 1 .. file_size + 1)
        BY <1>6, <2>1, <2>2
    <3> QED
        BY <1>3, <2>1, <2>2, <3>1, <3>2
  <2>3. CASE n = p + 1
    <3>1. n - 1 = p /\ ~(n < p + 1)
        BY <1>6, <2>3
    <3> QED
        BY <1>3, <2>1, <2>3, <3>1
  <2>4. CASE n > p + 1
    <3>1. Text[n - 1] = file[(n - 1) - 1]
        BY <1>2, <2>1, <2>4
    <3>2. n - 1 # p /\ p >= 1 /\ n - 1 \in p + 1 .. file_size + 1 /\ ~(n < p + 1) /\ n # p + 1
        BY <1>1, <1>6, <2>1, <2>4
    <3> QED
        BY <1>3, <2>1, <3>1, <3>2
  <2> QED
      BY <1>6, <2>1, <2>2, <2>3, <2>4
<1> QED
    BY <1>2, <1>5, <1>7, <1>8

(* What is shown above the cursor stays where it is.                       *)
LEMMA RowKept ==
    ASSUME NEW f, NEW h, NEW line \in Nat, NEW p \in Int, RowStart(f, line) <= p,
           NEW q \in Nat, p <= q, DOMAIN f = -1 .. q, DOMAIN h = -1 .. q,
           \A n \in -1 .. q : n < p => h[n] = f[n]
    PROVE  RowStart(h, line) = RowStart(f, line)
<1>1. RowStart(f, line) \in Nat
    BY RowStartType
<1>2. ASSUME NEW n \in 0 .. RowStart(f, line) - 1 PROVE ByteAt(h, n) = ByteAt(f, n)
  <2>1. n \in -1 .. q /\ n < p
      BY <1>1
  <2> QED
      BY <2>1 DEF ByteAt
<1> QED
    BY <1>2, RowStartSame

LEMMA InsertKey ==
    ASSUME EditorInv, CursorInv, prog = "edit", ~strayed', status = "running",
           NEW ch \in Letters \union {"r", "s", NL}, port # "ESC", UNCHANGED <<origin>>,
           InsertAtCursor(ch)
    PROVE  Abstract!Insert(ch)
<1>1. /\ actual \in -1 .. LastByte - 1 /\ file_size \in 0 .. LastByte - 2
      /\ file' = [(IF actual >= 1 THEN MovedUp(actual) ELSE file) EXCEPT ![actual] = ch]
      /\ file_size' = file_size + 1 /\ strayed' = (strayed \/ ~InsertsRight)
      /\ offset' = offset /\ selected' = selected + 1 /\ Redraw /\ Going
    BY DEF InsertAtCursor, Room, InsertChar, Longer
<1>2. ~strayed /\ actual \in 0 .. TextLen /\ (actual = 0 => TextLen = 0) /\ selected >= 0
    BY <1>1 DEF InsertsRight
<1>3. LastByte \in Nat /\ file_size \in Int /\ TextLen \in Nat
      /\ file = [n \in -1 .. LastByte |-> file[n]]
    BY <1>2, TextFacts
<1>4. Text' = InsertAt(Text, actual + 1, ch)
  <2>1. file_size <= LastByte - 2
      BY <1>1, <1>3
  <2> QED
      BY <1>1, <1>2, <2>1, InsertText
<1>5. actual' = actual + 1
  <2>1. offset \in Nat /\ selected \in Int /\ actual = RowStart(file, offset) + selected
      BY DEF CursorInv
  <2>2. RowStart(file, offset) \in Nat
      BY <2>1, RowStartType
  <2>3. RowStart(file, offset) <= actual /\ actual \in Int /\ actual <= LastByte
      BY <1>1, <1>2, <1>3, <2>1, <2>2
  <2>4. file' = [n \in -1 .. LastByte |-> file'[n]]
      BY <1>1, <1>3 DEF MovedUp
  <2>5. ASSUME NEW n \in -1 .. LastByte, n < actual PROVE file'[n] = file[n]
    <3>1. n # actual /\ n \notin actual + 1 .. file_size + 1
        BY <2>3, <2>5
    <3>2. CASE actual >= 1
      <4>1. file' = [MovedUp(actual) EXCEPT ![actual] = ch]
          BY <1>1, <3>2
      <4>2. MovedUp(actual)[n] = file[n] /\ MovedUp(actual) = [k \in -1 .. LastByte |-> MovedUp(actual)[k]]
          BY <1>3, <3>1 DEF MovedUp
      <4> QED
          BY <3>1, <4>1, <4>2
    <3>3. CASE ~(actual >= 1)
        BY <1>1, <1>3, <3>1, <3>3
    <3> QED
        BY <3>2, <3>3
  <2>6. RowStart(file', offset) = RowStart(file, offset)
    <3>1. DOMAIN file = -1 .. LastByte /\ DOMAIN file' = -1 .. LastByte
        BY <1>3, <2>4
    <3> QED
        BY <1>3, <2>1, <2>3, <2>5, <3>1, RowKept
  <2>7. actual' = RowStart(file', offset) + (selected + 1)
      BY <1>1 DEF Redraw
  <2> QED
      BY <2>1, <2>2, <2>6, <2>7
<1>6. actual < LastByte
    BY <1>1, <1>3
<1>7. status' = "running"
    BY <1>1 DEF Going
<1> QED
    BY <1>4, <1>5, <1>6, <1>7 DEF Abstract!Insert, Abstract!InsertAt, InsertAt

LEMMA EraseKey ==
    ASSUME EditorInv, CursorInv, EraseChar, ~strayed'
    PROVE  Abstract!Erase
<1>1. /\ prog = "edit" /\ status = "running" /\ port = "BACKSPACE" /\ origin' = origin
      /\ actual \in 0 .. LastByte - 1
      /\ file' = MovedDown(actual - 1) /\ file_size' = file_size - 1
      /\ strayed' = (strayed \/ ~ErasesRight)
      /\ offset' = offset /\ selected' = selected - 1 /\ Redraw /\ Going
    BY DEF EraseChar, Plain, TakeKey, EditRead, fixed
<1>2. ~strayed /\ actual \in 1 .. TextLen /\ (selected > 0 \/ offset = 0)
    BY <1>1 DEF ErasesRight
<1>3. LastByte \in Nat /\ file_size \in Int /\ TextLen \in Nat
      /\ file = [n \in -1 .. LastByte |-> file[n]]
    BY <1>2, TextFacts
<1>4. Text' = RemoveAt(Text, actual)
  <2>1. actual - 1 \in 0 .. TextLen - 1 /\ (actual - 1) + 1 = actual
      BY <1>2, <1>3
  <2>2. Text' = RemoveAt(Text, (actual - 1) + 1)
      BY <1>1, <1>2, <2>1, EraseText DEF EditorInv
  <2> QED
      BY <2>1, <2>2
<1>5. actual' = actual - 1
  <2>1. offset \in Nat /\ selected \in Int /\ actual = RowStart(file, offset) + selected
      BY <1>1 DEF CursorInv
  <2>2. RowStart(file, offset) \in Nat /\ RowStart(file, 0) = 0
      BY <2>1, RowStartType, RowStarts
  <2>3. RowStart(file, offset) <= actual - 1 /\ actual - 1 \in Int /\ actual - 1 <= LastByte
      BY <1>1, <1>2, <1>3, <2>1, <2>2
  <2>4. file' = [n \in -1 .. LastByte |-> file'[n]]
      BY <1>1, <1>3 DEF MovedDown
  <2>5. \A n \in -1 .. LastByte : n < actual - 1 => file'[n] = file[n]
      BY <1>1, <1>3, <2>3 DEF MovedDown
  <2>6. RowStart(file', offset) = RowStart(file, offset)
    <3>1. DOMAIN file = -1 .. LastByte /\ DOMAIN file' = -1 .. LastByte
        BY <1>3, <2>4
    <3> QED
        BY <1>3, <2>1, <2>3, <2>5, <3>1, RowKept
  <2>7. actual' = RowStart(file', offset) + (selected - 1)
      BY <1>1 DEF Redraw
  <2> QED
      BY <2>1, <2>2, <2>6, <2>7
<1>6. actual > 0
    BY <1>2, <1>3
<1>7. status' = "running"
    BY <1>1 DEF Going
<1> QED
    BY <1>1, <1>4, <1>5, <1>6, <1>7 DEF Abstract!Erase, Abstract!RemoveAt, RemoveAt

(* A key that leaves the buffer alone moves the cursor at most.            *)
LEMMA MoveKey ==
    ASSUME EditStep, prog = "edit", CursorInv,
           ~(InsertLetter \/ InsertNewline \/ EraseChar)
    PROVE  /\ UNCHANGED <<buffer, origin>> /\ status = "running"
           /\ actual' = actual \/ status' = "running"
<1>1. UNCHANGED <<buffer, origin>> /\ status = "running"
    BY DEF EditStep, HoldKey, ResetCursor, SaveText, MoveCursor, CursorUp, CursorDown, ScrollText,
           ScrollView, NoEffect, Plain, TakeKey, EditRead, fixed
<1>2. CASE HoldKey \/ NoEffect
    BY <1>1, <1>2 DEF HoldKey, NoEffect
<1>3. CASE SaveText
    BY <1>1, <1>3 DEF SaveText, Redraw, buffer, CursorInv
<1>4. CASE ResetCursor \/ MoveCursor \/ CursorUp \/ CursorDown \/ ScrollText
  <2>1. Going /\ port # "ESC"
      BY <1>4 DEF ResetCursor, MoveCursor, CursorUp, CursorDown, ScrollText, Scrolls
  <2> QED
      BY <1>1, <2>1 DEF Going
<1>5. ~ScrollView
    BY DEF ScrollView, TakeKey, EditRead
<1> QED
    BY <1>1, <1>2, <1>3, <1>4, <1>5 DEF EditStep

(* As long as no edit was made where edit goes wrong, it is the editor a   *)
(* user expects while the cursor is in the text: a key inserts or erases   *)
(* one character at the cursor, and the cursor, which is counted from the  *)
(* first row shown and found anew after every redraw, follows it:          *)
(* edit.c:27-60, 144-180.                                                  *)
THEOREM EditFollowsText == Spec => EditsText
<1> DEFINE Expected == Abstract!Next \/ UNCHANGED <<Text, actual>>
           Inside   == /\ prog = "edit" /\ ~strayed' /\ {actual, actual'} \subseteq 0 .. TextLen + 1
                       /\ actual <= TextLen /\ actual' <= TextLen'
<1>1. EditorInv /\ CursorInv /\ [Next]_vars => [Inside => Expected]_vars
  <2> SUFFICES ASSUME EditorInv, CursorInv, Next, Inside PROVE Expected
      OBVIOUS
  <2> HIDE DEF Expected
  <2>1. prog = "edit" /\ ~strayed' /\ actual' <= TextLen' /\ actual' \in 0 .. TextLen + 1
      OBVIOUS
  <2> HIDE DEF Inside
  <2>2. ~HexStep /\ \A b \in Bytes : ~Entered(b)
      BY <2>1 DEF HexStep, WaitKey, HexScroll, HexMove, AskChange, AskInsert, AskDelete, DeleteByte, SaveBytes,
           Exit, NoCommand, Key, HexRead, Entered
  <2>3. CASE InsertLetter \/ InsertNewline
    <3>1. PICK ch \in Letters \union {"r", "s", NL} :
              InsertAtCursor(ch) /\ port # "ESC"
        BY <2>3, LettersAssumption
        DEF InsertLetter, InsertNewline, Character, Specials
    <3>2. status = "running" /\ UNCHANGED <<origin>>
        BY <2>3 DEF InsertLetter, InsertNewline, Plain, TakeKey, EditRead, fixed
    <3>3. Abstract!Insert(ch)
        BY <2>1, <3>1, <3>2, InsertKey
    <3> QED
        BY <3>3 DEF Expected, Abstract!Next
  <2>4. CASE EraseChar
      BY <2>1, <2>4, EraseKey DEF Expected, Abstract!Next
  <2>5. ASSUME EditStep, ~(InsertLetter \/ InsertNewline \/ EraseChar) PROVE Expected
    <3>1. /\ UNCHANGED <<buffer, origin>> /\ status = "running"
          /\ actual' = actual \/ status' = "running"
        BY <2>1, <2>5, MoveKey
    <3>2. Text' = Text /\ TextLen' = TextLen
        BY <3>1 DEF buffer, Text, TextLen, Counted
    <3>3. CASE actual' = actual
        BY <3>2, <3>3 DEF Expected
    <3>4. CASE status' = "running"
      <4>1. ~strayed
          BY <2>1, <3>1 DEF buffer
      <4>2. TextLen \in Nat
          BY <4>1, TextFacts
      <4>3. Len(Text) = TextLen
          BY <4>2 DEF Text
      <4>4. actual' \in 0 .. Len(Text)
          BY <2>1, <3>2, <4>2, <4>3
      <4>5. Abstract!Jump
          BY <3>1, <3>2, <3>4, <4>4 DEF Abstract!Jump
      <4> QED
          BY <4>5 DEF Expected, Abstract!Next
    <3> QED
        BY <3>1, <3>3, <3>4
  <2>6. ASSUME NEW code \in CodesOf[prog], Press(code), UNCHANGED editor PROVE Expected
      BY <2>6 DEF Press, fixed, buffer, editor, Expected, Text, TextLen, Counted
  <2> QED
      BY <2>2, <2>3, <2>4, <2>5, <2>6 DEF Next, Poll, User
<1> QED
    BY <1>1, CursorInvariance, PTL DEF Spec, EditsText, Expected, Inside

-----------------------------------------------------------------------------
(* UP and DOWN.                                                            *)

LEMMA LineStartIs ==
    ASSUME NEW p \in Int, NEW x \in Int, 0 <= x,
           x = 0 \/ (1 <= x /\ x <= p /\ file[x - 1] = NL),
           \A n \in 1 .. p : file[n - 1] = NL => n <= x
    PROVE  LineStart(p) = x
<1> DEFINE S == {0} \union {n \in 1 .. p : file[n - 1] = NL}
<1>1. S \in SUBSET Int /\ x \in S /\ \A n \in S : n <= x
    OBVIOUS
<1> HIDE DEF S
<1>2. \E m \in S : \A y \in S : m >= y
  <2>1. \A y \in S : x >= y
      BY <1>1
  <2> QED
      BY <1>1, <2>1
<1>3. Max(S) \in S /\ \A y \in S : Max(S) >= y
    BY <1>2, Zenon DEF Max
<1>4. Max(S) = x
  <2>1. Max(S) \in Int /\ x \in Int /\ Max(S) >= x /\ Max(S) <= x
      BY <1>1, <1>3
  <2> QED
      BY <2>1
<1> QED
    BY <1>4 DEF LineStart, S

LEMMA BelowIs ==
    ASSUME NEW p \in Nat, NEW q \in Nat, NEW m \in p .. q, file[m] = NL,
           \A n \in p .. q : file[n] = NL => m <= n
    PROVE  Min({n \in p .. q : file[n] = NL}) = m
<1> DEFINE S == {n \in p .. q : file[n] = NL}
<1>1. S \in SUBSET Nat /\ m \in S /\ \A n \in S : m <= n
    OBVIOUS
<1> HIDE DEF S
<1>2. Min(S) \in S /\ \A y \in S : Min(S) <= y
    BY <1>1, LeastOf
<1>3. Min(S) \in Nat /\ m \in Nat
    BY <1>1, <1>2
<1>4. Min(S) <= m /\ m <= Min(S)
    BY <1>1, <1>2
<1>5. Min(S) = m
    BY <1>3, <1>4
<1> QED
    BY <1>5 DEF S

(* UP, which the code finds by going back over two newlines, leads to the  *)
(* start of the line above the cursor's, in every text that does not begin *)
(* with a newline and wherever the rows are: edit.c:195-222.               *)
THEOREM UpLeadsAbove == Spec => UpThenDown
<1> DEFINE Above == LET below == {n \in actual' .. LastByte : file[n] = NL}
                    IN  /\ LineStart(actual') = actual'
                        /\ Min(below) + 1 = LineStart(actual)
           Moved == /\ port = "UP" /\ actual' # actual /\ offset' = offset /\ file[0] # NL
                    /\ LineStart(actual) > 0
<1>1. EditorInv /\ CursorInv /\ [Next]_vars => [Moved => Above]_vars
  <2> SUFFICES ASSUME EditorInv, CursorInv, Next, Moved PROVE Above
      OBVIOUS
  <2> HIDE DEF Above
  <2>1. port = "UP" /\ actual' # actual /\ offset' = offset /\ file[0] # NL
        /\ LineStart(actual) > 0
      OBVIOUS
  <2> HIDE DEF Moved
  <2>2. EditStep /\ prog = "edit"
    <3>1. EditStep
        BY <2>1 DEF Next, Poll, User, editor
    <3> QED
        BY <2>1, <3>1 DEF EditStep, HoldKey, InsertLetter, InsertNewline, ResetCursor, SaveText,
           EraseChar, MoveCursor, CursorUp, CursorDown, ScrollText, ScrollView, NoEffect,
           Plain, TakeKey, EditRead
  <2>3. offset \in Nat /\ selected \in Int /\ actual = RowStart(file, offset) + selected
        /\ LastByte \in Nat /\ actual \in Int
    <3>1. offset \in Nat /\ selected \in Int /\ actual = RowStart(file, offset) + selected
        BY <2>2 DEF CursorInv
    <3> QED
        BY <3>1, RowStartType, BufferAssumption
  <2>4. CursorUp
    <3>1. "UP" \notin Letters
        BY LettersAssumption DEF Specials
    <3>2. ~(HoldKey \/ NoEffect \/ ScrollView)
        BY <2>1 DEF HoldKey, NoEffect, ScrollView
    <3>3. ~(InsertLetter \/ InsertNewline \/ ResetCursor \/ SaveText \/ EraseChar \/ MoveCursor
            \/ CursorDown)
        BY <2>1, <3>1 DEF InsertLetter, InsertNewline, ResetCursor, SaveText, EraseChar, MoveCursor,
                          CursorDown, Character
    <3>4. ~ScrollText
        BY <2>1, <2>3 DEF ScrollText, Scrolls
    <3> QED
        BY <2>2, <3>2, <3>3, <3>4 DEF EditStep
  <2>5. actual \in 1 .. LastByte + 1 /\ file' = file
        /\ selected' = selected - (actual - UpTarget) /\ Redraw
      BY <2>4 DEF CursorUp, buffer
  <2>6. UpTarget \in Int /\ actual' = UpTarget
    <3>1. UpTarget \in Int
      <4>1. \A n \in Ends : n \in Int
          BY <2>3 DEF Ends
      <4> QED
          BY <2>3, <4>1, UpTargetIs
    <3>2. actual' = RowStart(file, offset) + (selected - (actual - UpTarget))
        BY <2>1, <2>5 DEF Redraw
    <3> QED
        BY <2>3, <3>1, <3>2, RowStartType
  <2>7. Ends # {}
    <3> SUFFICES ASSUME Ends = {} PROVE FALSE
        OBVIOUS
    <3>1. ASSUME NEW n \in 1 .. actual, file[n - 1] = NL PROVE FALSE
      <4>1. n = 1 \/ n - 1 \in 1 .. actual - 1
          BY <2>3
      <4> QED
          BY <2>1, <3>1, <4>1 DEF Ends
    <3>2. LineStart(actual) = 0
      <4>1. \A n \in 1 .. actual : file[n - 1] = NL => n <= 0
          BY <3>1
      <4>2. 0 \in Int /\ 0 <= 0 /\ actual \in Int
          BY <2>3
      <4> HIDE <2>3
      <4> QED
          BY <4>1, <4>2, LineStartIs
    <3> QED
        BY <2>1, <3>2
  <2>8. ASSUME NEW u \in Nat, NEW m \in Ends, u <= m, actual' = u,
               u = 0 \/ file[u - 1] = NL,
               \A k \in Ends : k = m \/ k < u
        PROVE  Above
    <3>1. m \in 1 .. actual - 1 /\ file[m] = NL /\ m \in Nat /\ m <= LastByte
        BY <2>3, <2>5 DEF Ends
    <3>2. ASSUME NEW n \in 1 .. u, file[n - 1] = NL PROVE n <= u
        OBVIOUS
    <3>3. LineStart(u) = u
        BY <2>8, <3>2, LineStartIs
    <3>4. ASSUME NEW n \in 1 .. actual, file[n - 1] = NL PROVE n <= m + 1
      <4>1. n = 1 \/ (n - 1 \in 1 .. actual - 1 /\ n - 1 \in Ends)
          BY <2>3, <3>4 DEF Ends
      <4> QED
          BY <2>1, <2>8, <3>1, <3>4, <4>1
    <3>5. LineStart(actual) = m + 1
      <4>1. m + 1 \in Int /\ 0 <= m + 1 /\ 1 <= m + 1 /\ m + 1 <= actual /\ (m + 1) - 1 = m
          BY <2>3, <3>1
      <4> QED
          BY <2>3, <3>1, <3>4, <4>1, LineStartIs
    <3>6. ASSUME NEW n \in u .. LastByte, file[n] = NL PROVE m <= n
      <4> SUFFICES ASSUME n < m PROVE FALSE
          BY <2>3, <3>1
      <4>1. n # 0
          BY <2>1, <3>6
      <4>2. n \in 1 .. actual - 1
          BY <2>3, <3>1, <4>1
      <4>3. n \in Ends
          BY <3>6, <4>2 DEF Ends
      <4> QED
          BY <2>8, <4>3
    <3>7. Min({n \in u .. LastByte : file[n] = NL}) = m
      <4>1. m \in u .. LastByte
          BY <2>8, <3>1
      <4> QED
          BY <2>3, <3>1, <3>6, <4>1, BelowIs
    <3> QED
        BY <2>8, <3>3, <3>5, <3>7 DEF Above
  <2>9. \A k \in Ends : k \in Nat /\ k >= 1 /\ file[k] = NL
      BY <2>3 DEF Ends
  <2>10. CASE UpTarget = 0 /\ \A n, m \in Ends : n = m
    <3>1. PICK m \in Ends : TRUE
        BY <2>7
    <3>2. 0 <= m /\ 0 \in Nat /\ \A k \in Ends : k = m \/ k < 0
        BY <2>9, <2>10, <3>1
    <3> QED
        BY <2>6, <2>8, <2>10, <3>2
  <2>11. CASE \E n, m \in Ends : /\ n < m /\ \A k \in Ends : k = m \/ k <= n
                                 /\ UpTarget = n + 1
    <3>1. PICK n \in Ends, m \in Ends : /\ n < m /\ \A k \in Ends : k = m \/ k <= n
                                        /\ UpTarget = n + 1
        BY <2>11
    <3>2. n + 1 \in Nat /\ n + 1 <= m /\ (n + 1) - 1 = n /\ file[n] = NL
          /\ \A k \in Ends : k = m \/ k < n + 1
        BY <2>9, <3>1
    <3> QED
        BY <2>6, <2>8, <3>1, <3>2
  <2> QED
      BY <2>3, <2>10, <2>11, UpTargetIs
<1> QED
    BY <1>1, CursorInvariance, PTL DEF Spec, UpThenDown, Above, Moved

-----------------------------------------------------------------------------
(* The screen of edit and view.                                            *)

(* What the rows from line_offset on have in their columns.                *)
RowBegin(r)   == RowStart(file, offset + r)
RowByte(r, c) == IF RowBegin(r) + c < NextRow(file, RowBegin(r))
                 THEN ByteAt(file, RowBegin(r) + c) ELSE NUL
Gap           == IF prog = "edit" THEN " " ELSE NUL
Awkward       == \E r \in 0 .. Rows - 2 : RowByte(r, Cols - 1) = NL

(* What cell n should show, and the screen that shows it up to cell p.     *)
Seen(n) == LET b == RowByte(n \div Cols, n % Cols) IN IF b = NL THEN Gap ELSE b
Shot(p) == [cells |-> [n \in 0 .. CellCount - 1 |-> IF n < p THEN Seen(n) ELSE NUL],
            at    |-> p]

(* The folds of Draw.                                                      *)
DrawnChar(s, ch) ==
    IF ch # NL THEN PrintChar(s, ch)
    ELSE Newline(IF prog = "edit" THEN PrintChar(s, " ") ELSE s)
RowChars(r) ==
    LET c == RowBegin(r)
    IN  [n \in 1 .. NextRow(file, c) - c |-> ByteAt(file, (c + n) - 1)]
DrawnRow(s, r) == FoldLeft(DrawnChar, s, RowChars(r))
DrawnRows      == FoldLeft(DrawnRow, Blank, [r \in 1 .. Rows - 1 |-> r - 1])

CharByChar == INSTANCE SequenceFacts WITH Op <- DrawnChar
RowByRow   == INSTANCE SequenceFacts WITH Op <- DrawnRow

LEMMA DrawnRowRun ==
    ASSUME NEW s, NEW r, NEW n \in Nat, DOMAIN RowChars(r) = 1 .. n
    PROVE  \E g : /\ g[0] = s /\ DrawnRow(s, r) = g[n]
                  /\ \A k \in 1 .. n : g[k] = DrawnChar(g[k - 1], RowChars(r)[k])
<1>1. CharByChar!Folded(s, RowChars(r)) = DrawnRow(s, r)
    BY DEF CharByChar!Folded, CharByChar!FoldLeft, CharByChar!MapThenFoldSet, CharByChar!Max,
           DrawnRow, FoldLeft, MapThenFoldSet, Max
<1> QED
    BY <1>1, CharByChar!FoldLeftRun

LEMMA DrawnRowsRun ==
    ASSUME Rows - 1 \in Nat
    PROVE  \E g : /\ g[0] = Blank /\ DrawnRows = g[Rows - 1]
                  /\ \A k \in 1 .. Rows - 1 : g[k] = DrawnRow(g[k - 1], k - 1)
<1> DEFINE seq == [r \in 1 .. Rows - 1 |-> r - 1]
<1>1. RowByRow!Folded(Blank, seq) = DrawnRows
    BY DEF RowByRow!Folded, RowByRow!FoldLeft, RowByRow!MapThenFoldSet, RowByRow!Max,
           DrawnRows, FoldLeft, MapThenFoldSet, Max
<1>2. DOMAIN seq = 1 .. Rows - 1 /\ \A k \in 1 .. Rows - 1 : seq[k] = k - 1
    OBVIOUS
<1> HIDE DEF seq
<1>3. PICK g : /\ g[0] = Blank /\ RowByRow!Folded(Blank, seq) = g[Rows - 1]
               /\ \A k \in 1 .. Rows - 1 : g[k] = DrawnRow(g[k - 1], seq[k])
    BY <1>2, RowByRow!FoldLeftRun
<1> QED
    BY <1>1, <1>2, <1>3

LEMMA DrawIs == Draw(file, offset) = DrawnRows
BY DEF Draw, DrawnRows, DrawnRow, DrawnChar, RowChars, RowBegin, FoldLeft, MapThenFoldSet, Max

(* Cell c of row r.                                                        *)
LEMMA CellIs ==
    ASSUME NEW r \in Nat, NEW c \in 0 .. Cols - 1
    PROVE  ((r * Cols) + c) \div Cols = r /\ ((r * Cols) + c) % Cols = c
<1> DEFINE p == r * Cols
           x == p + c
           q == x \div Cols
           m == x % Cols
<1>1. Cols \in Nat /\ Cols >= 1 /\ p \in Nat
    BY ScreenAssumption
<1> HIDE DEF p
<1>2. x \in Nat /\ c \in Int
    BY <1>1
<1>3. q \in Int /\ m \in 0 .. Cols - 1 /\ x = (Cols * q) + m
    BY <1>1, <1>2
<1>4. x = p + c
    OBVIOUS
<1> HIDE DEF x, q, m
<1>5. p = Cols * r
    BY <1>1 DEF p
<1>6. Cols * (q - r) = c - m
  <2>1. Cols * (q - r) = (Cols * q) - (Cols * r)
      BY <1>1, <1>3
  <2>2. Cols * q \in Int /\ Cols * r \in Int
      BY <1>1, <1>3
  <2> QED
      BY <1>1, <1>2, <1>3, <1>4, <1>5, <2>1, <2>2
<1>7. ~(q - r >= 1)
  <2> SUFFICES ASSUME q - r >= 1 PROVE FALSE
      OBVIOUS
  <2>1. Cols * ((q - r) - 1) \in Nat
      BY <1>1, <1>3
  <2>2. Cols * ((q - r) - 1) = (Cols * (q - r)) - Cols
      BY <1>1, <1>3
  <2> QED
      BY <1>1, <1>2, <1>3, <1>6, <2>1, <2>2
<1>8. ~(r - q >= 1)
  <2> SUFFICES ASSUME r - q >= 1 PROVE FALSE
      OBVIOUS
  <2>1. Cols * ((r - q) - 1) \in Nat
      BY <1>1, <1>3
  <2>2. Cols * ((r - q) - 1) = (Cols * (r - q)) - Cols
      BY <1>1, <1>3
  <2>3. Cols * (r - q) = 0 - (Cols * (q - r))
      BY <1>1, <1>3
  <2> QED
      BY <1>1, <1>2, <1>3, <1>6, <2>1, <2>2, <2>3
<1>9. q = r
    BY <1>3, <1>7, <1>8
<1>10. m = c
  <2>1. Cols * 0 = 0 /\ q - r = 0
      BY <1>1, <1>3, <1>9
  <2> QED
      BY <1>2, <1>3, <1>6, <2>1
<1> QED
    BY <1>9, <1>10 DEF p, x, q, m

(* The rows drawn, and the last one of the screen, that is not.            *)
LEMMA RowIn ==
    ASSUME NEW r \in 0 .. Rows - 2
    PROVE  /\ r * Cols \in Nat /\ (r + 1) * Cols = (r * Cols) + Cols
           /\ CellCount \in Nat /\ (r * Cols) + Cols < CellCount
<1>1. Rows \in Nat /\ Cols \in Nat /\ Cols >= 1 /\ r \in Nat /\ (Rows - r) - 2 \in Nat
    BY ScreenAssumption
<1>2. r * Cols \in Nat /\ Rows * Cols \in Nat /\ ((Rows - r) - 2) * Cols \in Nat
    BY <1>1
<1>3. (r + 1) * Cols = (r * Cols) + Cols
    BY <1>1
<1>4. Rows * Cols = ((((Rows - r) - 2) * Cols) + (r * Cols)) + (Cols + Cols)
    BY <1>1
<1> QED
    BY <1>1, <1>2, <1>3, <1>4 DEF CellCount

LEMMA SeenIs ==
    ASSUME NEW r \in Nat, NEW c \in 0 .. Cols - 1
    PROVE  Seen((r * Cols) + c) = IF RowByte(r, c) = NL THEN Gap ELSE RowByte(r, c)
<1>1. ((r * Cols) + c) \div Cols = r /\ ((r * Cols) + c) % Cols = c
    BY CellIs
<1> QED
    BY <1>1 DEF Seen

(* A character in its cell, and cells left empty.                          *)
LEMMA CellDrawn ==
    ASSUME NEW p \in Nat, p + 1 < CellCount, CellCount \in Nat
    PROVE  PrintChar(Shot(p), Seen(p)) = Shot(p + 1)
<1> DEFINE picture(q) == [n \in 0 .. CellCount - 1 |-> IF n < q THEN Seen(n) ELSE NUL]
<1>1. Shot(p).cells = picture(p) /\ Shot(p).at = p
    BY DEF Shot
<1>2. [picture(p) EXCEPT ![p] = Seen(p)] = picture(p + 1)
  <2>1. \A n \in 0 .. CellCount - 1 :
           [picture(p) EXCEPT ![p] = Seen(p)][n] = picture(p + 1)[n]
      OBVIOUS
  <2> QED
      BY <2>1
<1> HIDE DEF picture
<1>3. PrintChar(Shot(p), Seen(p)) = [cells |-> picture(p + 1), at |-> p + 1]
    BY <1>1, <1>2 DEF PrintChar, Scroll
<1> QED
    BY <1>3 DEF Shot, picture

LEMMA CellsLeft ==
    ASSUME NEW p \in Nat, NEW q \in Nat, p <= q, \A n \in p .. q - 1 : Seen(n) = NUL
    PROVE  [cells |-> Shot(p).cells, at |-> q] = Shot(q)
<1>1. [n \in 0 .. CellCount - 1 |-> IF n < p THEN Seen(n) ELSE NUL]
         = [n \in 0 .. CellCount - 1 |-> IF n < q THEN Seen(n) ELSE NUL]
  <2>1. ASSUME NEW n \in 0 .. CellCount - 1
        PROVE  (IF n < p THEN Seen(n) ELSE NUL) = (IF n < q THEN Seen(n) ELSE NUL)
    <3>1. ~(n < p) /\ n < q => n \in p .. q - 1
        OBVIOUS
    <3>2. n < p => n < q
        OBVIOUS
    <3> QED
        BY <3>1, <3>2
  <2> QED
      BY <2>1
<1> QED
    BY <1>1 DEF Shot

(* A newline in column c of row r leads to the row below.                  *)
LEMMA RowLeft ==
    ASSUME NEW r \in 0 .. Rows - 2, NEW c \in 0 .. Cols - 1,
           \A k \in c .. Cols - 1 : Seen((r * Cols) + k) = NUL
    PROVE  Newline(Shot((r * Cols) + c)) = Shot((r + 1) * Cols)
<1> DEFINE b == r * Cols
           s == Shot(b + c)
<1>1. b \in Nat /\ (r + 1) * Cols = b + Cols /\ CellCount \in Nat /\ b + Cols < CellCount
    BY RowIn
<1>2. Cols \in Nat /\ Cols >= 1 /\ c \in Nat /\ c <= Cols - 1
    BY ScreenAssumption
<1>3. (b + c) % Cols = c
  <2>1. r \in Nat
      OBVIOUS
  <2> QED
      BY <2>1, CellIs
<1>4. \A n \in b + c .. (b + Cols) - 1 : Seen(n) = NUL
  <2> SUFFICES ASSUME NEW n \in b + c .. (b + Cols) - 1 PROVE Seen(n) = NUL
      OBVIOUS
  <2> HIDE DEF b
  <2>1. n - b \in c .. Cols - 1 /\ b + (n - b) = n
      BY <1>1, <1>2
  <2> QED
      BY <2>1 DEF b
<1> HIDE DEF b
<1>5. [cells |-> s.cells, at |-> b + Cols] = Shot(b + Cols)
  <2>1. b + c \in Nat /\ b + Cols \in Nat /\ b + c <= b + Cols
      BY <1>1, <1>2
  <2> QED
      BY <1>4, <2>1, CellsLeft
<1>6. s.at = b + c /\ s = [cells |-> s.cells, at |-> s.at]
    BY DEF Shot
<1>7. ((b + c) + Cols) - ((b + c) % Cols) = b + Cols
    BY <1>1, <1>2, <1>3
<1> HIDE DEF s
<1>8. [s EXCEPT !.at = (@ + Cols) - (@ % Cols)] = [cells |-> s.cells, at |-> b + Cols]
    BY <1>6, <1>7
<1>9. Newline(s) = [cells |-> s.cells, at |-> b + Cols]
    BY <1>1, <1>8 DEF Newline, Scroll
<1> QED
    BY <1>1, <1>5, <1>9 DEF s, b

(* One character after the other, to the end of the row.                   *)
LEMMA RowDrawn ==
    ASSUME NEW r \in 0 .. Rows - 2, offset \in Nat, prog = "view" \/ (prog = "edit" /\ ~Awkward)
    PROVE  DrawnRow(Shot(r * Cols), r) = Shot((r + 1) * Cols)
<1> DEFINE b   == r * Cols
           len == NextRow(file, RowBegin(r)) - RowBegin(r)
<1>1. b \in Nat /\ (r + 1) * Cols = b + Cols /\ CellCount \in Nat /\ b + Cols < CellCount
    BY RowIn
<1>2. Cols \in Nat /\ Cols >= 1 /\ r \in Nat
    BY ScreenAssumption
<1>3. /\ RowBegin(r) \in Nat /\ len \in 1 .. Cols
      /\ \A c \in 0 .. len - 2 : ByteAt(file, RowBegin(r) + c) # NL
      /\ len = Cols \/ ByteAt(file, RowBegin(r) + (len - 1)) = NL
  <2>1. offset + r \in Nat
      BY <1>2
  <2>2. RowBegin(r) \in Nat
      BY <2>1, RowStartType DEF RowBegin
  <2> DEFINE c == RowBegin(r)
             e == NextRow(file, c)
  <2>3. /\ e \in Nat /\ c < e /\ e <= c + Cols
        /\ \A n \in c .. e - 2 : ByteAt(file, n) # NL
        /\ e = c + Cols \/ ByteAt(file, e - 1) = NL
      BY <2>2, NextRowFacts
  <2>4. len = e - c /\ c \in Nat
      BY <2>2
  <2> HIDE DEF c, e, len
  <2>5. len \in 1 .. Cols /\ (e = c + Cols => len = Cols) /\ c + (len - 1) = e - 1
      BY <1>2, <2>3, <2>4
  <2>6. ASSUME NEW k \in 0 .. len - 2 PROVE ByteAt(file, c + k) # NL
    <3>1. c + k \in c .. e - 2
        BY <2>3, <2>4
    <3> QED
        BY <2>3, <3>1
  <2> QED
      BY <2>2, <2>3, <2>5, <2>6 DEF c
<1>4. \A c \in 0 .. len - 1 : RowByte(r, c) = ByteAt(file, RowBegin(r) + c)
  <2> SUFFICES ASSUME NEW c \in 0 .. len - 1
               PROVE  RowBegin(r) + c < NextRow(file, RowBegin(r))
      BY DEF RowByte
  <2>1. NextRow(file, RowBegin(r)) \in Nat
      BY <1>3, NextRowFacts
  <2> QED
      BY <1>3, <2>1
<1>5. \A c \in len .. Cols - 1 : RowByte(r, c) = NUL
  <2> SUFFICES ASSUME NEW c \in len .. Cols - 1
               PROVE  ~(RowBegin(r) + c < NextRow(file, RowBegin(r)))
      BY DEF RowByte
  <2>1. NextRow(file, RowBegin(r)) \in Nat
      BY <1>3, NextRowFacts
  <2> QED
      BY <1>3, <2>1
<1>6. /\ DOMAIN RowChars(r) = 1 .. len
      /\ \A k \in 1 .. len : RowChars(r)[k] = ByteAt(file, (RowBegin(r) + k) - 1)
    BY DEF RowChars
<1>7. \A c \in 0 .. Cols - 1 :
          Seen(b + c) = IF RowByte(r, c) = NL THEN Gap ELSE RowByte(r, c)
    BY <1>2, SeenIs
<1> HIDE DEF len
<1>8. PICK g : /\ g[0] = Shot(b) /\ DrawnRow(Shot(b), r) = g[len]
               /\ \A k \in 1 .. len : g[k] = DrawnChar(g[k - 1], RowChars(r)[k])
  <2>1. len \in Nat
      BY <1>3
  <2>2. DOMAIN RowChars(r) = 1 .. len
      BY <1>6
  <2> QED
      BY <2>1, <2>2, DrawnRowRun, SMTT(60)
<1> HIDE DEF b
<1>9. \A k \in 1 .. len : g[k] = DrawnChar(g[k - 1], RowByte(r, k - 1))
  <2> SUFFICES ASSUME NEW k \in 1 .. len PROVE RowChars(r)[k] = RowByte(r, k - 1)
      BY <1>8
  <2>1. k - 1 \in 0 .. len - 1 /\ (RowBegin(r) + k) - 1 = RowBegin(r) + (k - 1)
      BY <1>3
  <2> QED
      BY <1>4, <1>6, <2>1
(* A character that is not a newline, in its cell.                         *)
<1>10. ASSUME NEW k \in 0 .. len - 1, g[k] = Shot(b + k), RowByte(r, k) # NL
       PROVE  g[k + 1] = Shot(b + (k + 1))
  <2>1. k + 1 \in 1 .. len /\ (k + 1) - 1 = k /\ k \in 0 .. Cols - 1
      BY <1>2, <1>3
  <2>2. g[k + 1] = DrawnChar(g[k], RowByte(r, k))
      BY <1>9, <2>1
  <2>3. Seen(b + k) = RowByte(r, k)
      BY <1>7, <1>10, <2>1
  <2>4. g[k + 1] = PrintChar(Shot(b + k), Seen(b + k))
      BY <1>10, <2>2, <2>3 DEF DrawnChar
  <2>5. b + k \in Nat /\ (b + k) + 1 < CellCount /\ (b + k) + 1 = b + (k + 1)
      BY <1>1, <1>2, <2>1
  <2> QED
      BY <1>1, <2>4, <2>5, CellDrawn
<1>11. \A k \in 0 .. len - 1 : g[k] = Shot(b + k)
  <2> DEFINE Done == {k \in 0 .. len - 1 : g[k] = Shot(b + k)}
  <2>1. 0 \in Done
    <3>1. b + 0 = b /\ 0 \in 0 .. len - 1
        BY <1>1, <1>3
    <3> QED
        BY <1>8, <3>1
  <2>2. ASSUME NEW k \in 0 .. (len - 1) - 1, k \in Done PROVE k + 1 \in Done
    <3>1. k \in 0 .. len - 2 /\ k \in 0 .. len - 1 /\ k + 1 \in 0 .. len - 1
        BY <1>3
    <3>2. RowByte(r, k) # NL
        BY <1>3, <1>4, <3>1
    <3> QED
        BY <1>10, <2>2, <3>1, <3>2
  <2>3. len - 1 \in Nat
      BY <1>3
  <2> HIDE DEF Done
  <2>4. \A k \in 0 .. len - 1 : k \in Done
      BY <2>1, <2>2, <2>3, Rowing!UpTo
  <2> QED
      BY <2>4 DEF Done
<1>12. g[len - 1] = Shot(b + (len - 1)) /\ len - 1 \in 0 .. len - 1 /\ (len - 1) + 1 = len
    BY <1>3, <1>11
(* The last one, which may be a newline.                                   *)
<1>13. CASE RowByte(r, len - 1) # NL
  <2>1. len = Cols
      BY <1>3, <1>4, <1>12, <1>13
  <2>2. g[len] = Shot(b + len)
      BY <1>10, <1>12, <1>13
  <2> QED
      BY <1>1, <1>8, <2>1, <2>2 DEF b
<1>14. CASE RowByte(r, len - 1) = NL
  <2>1. len \in 1 .. len /\ len - 1 \in 0 .. Cols - 1
      BY <1>2, <1>3
  <2>2. g[len] = Newline(IF prog = "edit" THEN PrintChar(g[len - 1], " ") ELSE g[len - 1])
      BY <1>9, <1>14, <2>1 DEF DrawnChar
  <2>3. NUL # NL
      BY DEF NUL, NL
  <2>4. \A k \in len .. Cols - 1 : Seen(b + k) = NUL
    <3> SUFFICES ASSUME NEW k \in len .. Cols - 1 PROVE Seen(b + k) = NUL
        OBVIOUS
    <3>1. k \in 0 .. Cols - 1
        BY <1>3
    <3> QED
        BY <1>5, <1>7, <2>3, <3>1
  <2>5. Seen(b + (len - 1)) = Gap
      BY <1>7, <1>14, <2>1
  <2>6. CASE prog = "edit"
    <3>1. len - 1 # Cols - 1
        BY <1>14, <2>6 DEF Awkward
    <3>2. len \in 0 .. Cols - 1
        BY <1>2, <1>3, <3>1
    <3>3. PrintChar(g[len - 1], " ") = Shot(b + len)
      <4>1. b + (len - 1) \in Nat /\ (b + (len - 1)) + 1 < CellCount
            /\ (b + (len - 1)) + 1 = b + len
          BY <1>1, <1>2, <1>3, <3>2
      <4>2. PrintChar(Shot(b + (len - 1)), Seen(b + (len - 1))) = Shot(b + len)
          BY <1>1, <4>1, CellDrawn
      <4> QED
          BY <1>12, <2>5, <2>6, <4>2 DEF Gap
    <3>4. Newline(Shot(b + len)) = Shot((r + 1) * Cols)
        BY <2>4, <3>2, RowLeft DEF b
    <3> QED
        BY <1>8, <2>2, <2>6, <3>3, <3>4 DEF b
  <2>7. CASE prog # "edit"
    <3>1. \A k \in len - 1 .. Cols - 1 : Seen(b + k) = NUL
      <4> SUFFICES ASSUME NEW k \in len - 1 .. Cols - 1 PROVE Seen(b + k) = NUL
          OBVIOUS
      <4>1. k = len - 1 \/ k \in len .. Cols - 1
          BY <1>3
      <4> QED
          BY <2>4, <2>5, <2>7, <4>1 DEF Gap
    <3>2. Newline(Shot(b + (len - 1))) = Shot((r + 1) * Cols)
        BY <2>1, <3>1, RowLeft DEF b
    <3> QED
        BY <1>8, <1>12, <2>2, <2>7, <3>2 DEF b
  <2> QED
      BY <2>6, <2>7
<1> QED
    BY <1>13, <1>14

(* One row after the other.                                                *)
LEMMA AllDrawn ==
    ASSUME offset \in Nat, prog = "view" \/ (prog = "edit" /\ ~Awkward)
    PROVE  Draw(file, offset) = Shot((Rows - 1) * Cols)
<1>1. Rows \in Nat /\ Rows >= 1 /\ Cols \in Nat /\ Rows - 1 \in Nat /\ 0 * Cols = 0
    BY ScreenAssumption
<1>2. Shot(0) = Blank
  <2>1. ASSUME NEW n \in 0 .. CellCount - 1 PROVE (IF n < 0 THEN Seen(n) ELSE NUL) = NUL
      OBVIOUS
  <2> QED
      BY <2>1 DEF Shot, Blank
<1>3. PICK g : /\ g[0] = Blank /\ DrawnRows = g[Rows - 1]
               /\ \A k \in 1 .. Rows - 1 : g[k] = DrawnRow(g[k - 1], k - 1)
    BY <1>1, DrawnRowsRun
<1> DEFINE Done == {k \in 0 .. Rows - 1 : g[k] = Shot(k * Cols)}
<1>4. 0 \in Done
    BY <1>1, <1>2, <1>3
<1>5. ASSUME NEW k \in 0 .. (Rows - 1) - 1, k \in Done PROVE k + 1 \in Done
  <2>1. k \in 0 .. Rows - 2 /\ k + 1 \in 1 .. Rows - 1 /\ k + 1 \in 0 .. Rows - 1
        /\ (k + 1) - 1 = k
      BY <1>1
  <2>2. g[k + 1] = DrawnRow(Shot(k * Cols), k)
      BY <1>3, <1>5, <2>1
  <2>3. DrawnRow(Shot(k * Cols), k) = Shot((k + 1) * Cols)
      BY <2>1, RowDrawn
  <2> QED
      BY <2>1, <2>2, <2>3
<1> HIDE DEF Done
<1>6. Rows - 1 \in Done
  <2>1. \A k \in 0 .. Rows - 1 : k \in Done
      BY <1>1, <1>4, <1>5, Rowing!UpTo
  <2> QED
      BY <1>1, <2>1
<1> QED
    BY <1>3, <1>6, DrawIs DEF Done

(* The first row shown is one of the text.                                 *)
Scrolled == prog \in {"edit", "view"} => offset \in Nat

LEMMA ScrolledInvariance == Spec => []Scrolled
<1>1. Init => Scrolled
    BY DEF Init, InitBuffer, Scrolled
<1>2. Scrolled /\ [Next]_vars => Scrolled'
  <2> SUFFICES ASSUME Scrolled, [Next]_vars, prog' \in {"edit", "view"} PROVE offset' \in Nat
      BY DEF Scrolled
  <2>1. CASE EditStep
    <3>1. CASE HoldKey \/ InsertLetter \/ InsertNewline \/ SaveText \/ EraseChar \/ MoveCursor
               \/ CursorUp \/ CursorDown \/ NoEffect
      <4>1. offset' = offset /\ prog' = prog
          BY <3>1 DEF HoldKey, InsertLetter, InsertNewline, InsertAtCursor, SaveText, EraseChar,
                      MoveCursor, CursorUp, CursorDown, NoEffect, Plain, TakeKey, EditRead, fixed
      <4> QED
          BY <4>1 DEF Scrolled
    <3>2. CASE ResetCursor
        BY <3>2 DEF ResetCursor
    <3>3. CASE ScrollText \/ ScrollView
      <4>1. prog' = prog /\ (\/ offset > 0 /\ offset' = offset - 1
                             \/ offset' = offset + 1)
          BY <3>3 DEF ScrollText, ScrollView, Scrolls, Plain, TakeKey, EditRead, fixed
      <4>2. offset \in Nat
          BY <4>1 DEF Scrolled
      <4> QED
          BY <4>1, <4>2
    <3> QED
        BY <2>1, <3>1, <3>2, <3>3 DEF EditStep
  <2>2. CASE HexStep
    <3>1. prog = "hexedit" /\ prog' = prog
        BY <2>2 DEF HexStep, WaitKey, HexScroll, HexMove, AskChange, AskInsert, AskDelete, DeleteByte,
                    SaveBytes, Exit, NoCommand, Key, HexRead, fixed
    <3> QED
        BY <3>1
  <2>3. CASE User \/ UNCHANGED vars
    <3>1. offset' = offset /\ prog' = prog
        BY <2>3 DEF User, Press, Entered, vars, fixed
    <3> QED
        BY <3>1 DEF Scrolled
  <2> QED
      BY <2>1, <2>2, <2>3 DEF Next, Poll
<1> QED
    BY <1>1, <1>2, PTL DEF Spec

(* Row r of the screen shows the r-th row of the text from line_offset on, *)
(* in view always and in edit as long as no newline is in the last column: *)
(* print_text_buffer, edit.c:9-51 and view.c:9.                            *)
THEOREM ScreenShowsText == Spec => []RowsShown
<1>1. Scrolled => RowsShown
  <2> SUFFICES ASSUME offset \in Nat, prog = "view" \/ (prog = "edit" /\ ~Awkward),
                      NEW r \in 0 .. Rows - 2, NEW c \in 0 .. Cols - 1
               PROVE  Draw(file, offset).cells[(r * Cols) + c]
                         = IF RowByte(r, c) = NL THEN Gap ELSE RowByte(r, c)
      BY DEF Scrolled, RowsShown, Awkward, RowByte, RowBegin, Gap
  <2> DEFINE n == (r * Cols) + c
             p == (Rows - 1) * Cols
  <2>1. n \in 0 .. CellCount - 1 /\ n < p
    <3>1. /\ r * Cols \in Nat /\ CellCount \in Nat /\ (r * Cols) + Cols < CellCount
          /\ Cols \in Nat /\ Rows \in Nat
        BY RowIn, ScreenAssumption
    <3>2. (Rows - 2) - r \in Nat /\ Rows - 1 = (((Rows - 2) - r) + r) + 1
        BY <3>1
    <3>3. ((Rows - 2) - r) * Cols \in Nat
        BY <3>1, <3>2
    <3>4. p = ((((Rows - 2) - r) * Cols) + (r * Cols)) + Cols
        BY <3>1
    <3> QED
        BY <3>1, <3>3, <3>4
  <2>2. Seen(n) = IF RowByte(r, c) = NL THEN Gap ELSE RowByte(r, c)
      BY SeenIs
  <2>3. Draw(file, offset) = Shot(p)
      BY AllDrawn
  <2> HIDE DEF n, p
  <2>4. Shot(p).cells[n] = Seen(n)
      BY <2>1 DEF Shot
  <2> QED
      BY <2>2, <2>3, <2>4 DEF n
<1> QED
    BY <1>1, ScrolledInvariance, PTL
=============================================================================
