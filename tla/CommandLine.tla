----------------------------- MODULE CommandLine -----------------------------
(* How the shell, chain and the programs take a command line apart.  A text *)
(* is a sequence of tokens: characters, but the name of a program, and what *)
(* else is only handed on, is one token.                                    *)
EXTENDS Integers, Sequences, FiniteSets, FiniteSetsExt, SequencesExt

(* Where the text behind the n-th delimiter begins, or behind all the text. *)
From(text, n, delim) ==
    LET nth == {k \in DOMAIN text : /\ text[k] = delim
                                    /\ Cardinality({j \in 1 .. k : text[j] = delim}) = n}
    IN  IF n = 0 THEN 1 ELSE IF nth = {} THEN Len(text) + 1 ELSE Min(nth) + 1

(* Piece number n of a text, up to the next delimiter.  A delimiter with    *)
(* nothing behind it is not cut off.                                        *)
Splice(text, n, delim) ==
    LET from == From(text, n, delim)
        ends == {k \in from .. Len(text) - 1 : text[k] = delim}
    IN  SubSeq(text, from, IF ends = {} THEN Len(text) ELSE Min(ends) - 1)

(* What comes before the first delimiter.                                   *)
Before(text, delim) ==
    LET ends == {k \in DOMAIN text : text[k] = delim}
    IN  IF ends = {} THEN text ELSE SubSeq(text, 1, Min(ends) - 1)

(* A character less '0': of digits their value, of a blank less than 0, of  *)
(* the others some number that is no digit's.                               *)
Digits == <<"0", "1", "2", "3", "4", "5", "6", "7", "8", "9">>
Digit(c) ==
    IF c \in Range(Digits) THEN (CHOOSE n \in 1 .. 10 : Digits[n] = c) - 1
    ELSE IF c = " " THEN -16 ELSE CHOOSE v \in (-176 .. 79) \ (0 .. 9) : TRUE

(* The number a text stands for.  A text without characters is taken to     *)
(* have one, the 0 behind it.                                               *)
Atoi(text) ==
    IF text = <<>> THEN -48 ELSE FoldLeft(LAMBDA sum, c : 10 * sum + Digit(c), 0, text)
=============================================================================
