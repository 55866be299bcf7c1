------------------------------ MODULE FileStore ------------------------------
(***************************************************************************)
(* What ESFS promises the programs: every drive is a map from names to     *)
(* texts.  A file is made empty, removed whole, and written by appending   *)
(* to its end the text handed to file_write, a piece at a time until all   *)
(* of it is there.  Nothing that is done to one file changes another, and  *)
(* the loss of power only cuts a write or a formatting short.              *)
(***************************************************************************)
EXTENDS Sequences, Naturals

CONSTANTS Drives, Names

VARIABLES
    files,   \* files[d][n]: the text of file n of drive d, or Absent
    mode,    \* "off", "ready", "writing" or "formatting"
    target,  \* the drive and the name of the file being written
    rest     \* the text that has still to reach it

Texts  == Seq(Nat \ {0})
Absent == <<0>>
Nobody == <<>>

Init ==
    /\ files \in [Drives -> [Names -> Texts \union {Absent}]]
    /\ mode = "off" /\ target = Nobody /\ rest = <<>>

PowerOn  == mode = "off" /\ mode' = "ready" /\ UNCHANGED <<files, target, rest>>
PowerOff == /\ mode # "off" /\ mode' = "off"
            /\ target' = Nobody /\ rest' = <<>> /\ UNCHANGED files

Make(d, n) ==
    /\ mode = "ready" /\ files[d][n] = Absent
    /\ files' = [files EXCEPT ![d][n] = <<>>]
    /\ UNCHANGED <<mode, target, rest>>

Remove(d, n) ==
    /\ mode = "ready" /\ files[d][n] # Absent
    /\ files' = [files EXCEPT ![d][n] = Absent]
    /\ UNCHANGED <<mode, target, rest>>

(* A write is begun on a file that is there, with any text.                *)
Open(d, n) ==
    /\ mode = "ready" /\ files[d][n] # Absent
    /\ mode' = "writing" /\ target' = <<d, n>> /\ rest' \in Texts
    /\ UNCHANGED files

(* The next k cells of the text reach the end of the file.                 *)
Extend(k) ==
    /\ mode = "writing"
    /\ files' = [files EXCEPT ![target[1]][target[2]] = @ \o SubSeq(rest, 1, k)]
    /\ rest' = SubSeq(rest, k + 1, Len(rest))
    /\ UNCHANGED <<mode, target>>

(* A write ends when all of its text has arrived.                          *)
Close ==
    /\ mode = "writing" /\ rest = <<>>
    /\ mode' = "ready" /\ target' = Nobody
    /\ UNCHANGED <<files, rest>>

(* Formatting forgets the files of one drive, a few at a time.             *)
StartFormat == mode = "ready" /\ mode' = "formatting" /\ UNCHANGED <<files, target, rest>>
EndFormat   == mode = "formatting" /\ mode' = "ready" /\ UNCHANGED <<files, target, rest>>
Forget(d) ==
    /\ mode = "formatting"
    /\ \E gone \in SUBSET Names :
          files' = [files EXCEPT ![d] =
                       [n \in Names |-> IF n \in gone THEN Absent ELSE files[d][n]]]
    /\ UNCHANGED <<mode, target, rest>>

Next ==
    \/ PowerOn \/ PowerOff \/ Close \/ StartFormat \/ EndFormat
    \/ \E d \in Drives, n \in Names : Make(d, n) \/ Remove(d, n) \/ Open(d, n)
    \/ \E k \in 1 .. Len(rest) : Extend(k)
    \/ \E d \in Drives : Forget(d)

Spec == Init /\ [][Next]_<<files, mode, target, rest>>
=============================================================================
