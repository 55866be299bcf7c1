---------------------------- MODULE MCLineEditor ----------------------------
(* A small instance of LineEditor: two rows of four cells, lines of two    *)
(* characters, three if inserted inside, one key with two characters.      *)
EXTENDS LineEditor

OneKey == [a |-> <<"a", "A">>]
AnyBefore == {NUL, "x"}
=============================================================================
