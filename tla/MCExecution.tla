----------------------------- MODULE MCExecution -----------------------------
(* Execution with the numbers of the code, the programs of two drives and  *)
(* the examples of the manual.                                             *)
EXTENDS ExecutionChain

TwoDrives  == {0, 1}

Editor == 229376
BufferSizes == [p \in {"list", "drive", "edit", "chain"} |->
                   CASE p = "edit"  -> <<Editor>>
                     [] p = "chain" -> <<2000, 1900, 100, 100>>
                     [] OTHER       -> <<>>]
OnDrives == [d \in TwoDrives |-> IF d = 0 THEN DOMAIN BufferSizes ELSE {"list", "chain"}]

RunP(p, arg) == [op |-> "run", prog |-> p, arg |-> arg]
Say(text)    == [op |-> "print", text |-> text]
IfIs(st, to) == [op |-> "if", is |-> st, to |-> to]
GoTo(to)     == [op |-> "goto", to |-> to]

(* The manual's examples, a chain in a chain, one that tries again, and a  *)
(* script of ten statements.                                               *)
ManualScripts ==
    {<<RunP("drive", <<d>>), IfIs(0, 4), IfIs(1, 6), Say("exists"), GoTo(7), Say("absent"),
       RunP("edit", <<"notes">>)>> : d \in {"1", "3"}}
    \union {<<RunP("drive", <<"1">>), GoTo(4), RunP("list", <<>>), RunP("drive", <<"0">>)>>,
            <<RunP("none", <<>>), IfIs(2, 4), Say("absent"), RunP("edit", <<"notes">>),
              RunP("list", <<>>), IfIs(1, 5)>>,
            <<RunP("chain", <<>>), RunP("edit", <<"notes">>), RunP("edit", <<"notes">>)>>,
            <<RunP("list", <<>>), IfIs(1, 10), GoTo(10)>> \o [k \in 1 .. 7 |-> Say("text")]}

(* The stack is out of the reach of these sizes.                           *)
ASSUME SizesFit == Fits

(* Lines of one command, some with blanks where they are not expected.     *)
TypedCommands ==
    {Line(s) : s \in ManualScripts}
    \union {<<"edit", " ", "notes">>, <<"list", " ">>, <<" ", "list">>,
            <<"drive">>, <<"drive", " ", "1", " ">>, <<"drive", " ", "2", "5", "7">>,
            <<"chain">>, <<"chain", "$", "list">>,
            <<"chain", " ", "$", "list", " ", "$", "$">>}
=============================================================================
