------------------------------ MODULE TextLine ------------------------------
(* What a user expects of an editor: a text and a position in it; a        *)
(* character is inserted at the position or the one before it is erased.   *)
EXTENDS Integers, SequencesExt

CONSTANTS
    Chars,
    Limit,  \* no character is inserted at this position or behind it
    Jumps   \* whether the position may also change by more than one

VARIABLES text, at, ended

Init == text = <<>> /\ at = 0 /\ ended = FALSE

Insert(c) == /\ ~ended /\ at < Limit
             /\ text' = InsertAt(text, at + 1, c) /\ at' = at + 1
             /\ UNCHANGED ended

Erase == /\ ~ended /\ at > 0
         /\ text' = RemoveAt(text, at) /\ at' = at - 1
         /\ UNCHANGED ended

Left  == ~ended /\ at > 0 /\ at' = at - 1 /\ UNCHANGED <<text, ended>>
Right == ~ended /\ at < Len(text) /\ at' = at + 1 /\ UNCHANGED <<text, ended>>
Jump  == ~ended /\ Jumps /\ at' \in 0 .. Len(text) /\ UNCHANGED <<text, ended>>

End   == ~ended /\ ended' = TRUE /\ UNCHANGED <<text, at>>
Again == ended /\ text' = <<>> /\ at' = 0 /\ ended' = FALSE

Next == (\E c \in Chars : Insert(c)) \/ Erase \/ Left \/ Right \/ Jump \/ End \/ Again
Spec == Init /\ [][Next]_<<text, at, ended>>
=============================================================================
