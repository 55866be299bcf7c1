----------------------------- MODULE MCEditors -----------------------------
(* Small instances of Editors: a screen of three rows of three cells, short*)
(* texts with and without newlines, a name of one character.               *)
EXTENDS Editors

ShortTexts == {<<>>, <<NL, "x">>, <<"x", "y", NL, "z">>}
AllPrograms == {"edit", "view", "hexedit"}
OnlyHex     == {"hexedit"}
SomeBytes   == {"b", NUL, "bad"}
=============================================================================
