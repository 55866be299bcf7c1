--------------------------- MODULE ExecutionChain ---------------------------
(* chain as Execution runs it implements ChainScript: a script, written as *)
(* the manual says and typed at the prompt, does what the manual says.     *)
EXTENDS Execution

CONSTANT Scripts  \* the scripts that are typed

(* A statement of a script: run a program, with or without an argument,    *)
(* print a text, jump to a statement if the last exit status was that, or  *)
(* jump in any case.  Statements are numbered from 1; no text holds a $,   *)
(* which ends a statement, and no program's name a blank or what else a    *)
(* statement may begin with.                                               *)
Text == STRING \ {"$"}

Statement ==
    [op : {"run"}, prog : Text \ (Marks \union {" "}), arg : Seq(Text)]
    \union [op : {"print"}, text : Text]
    \union [op : {"if"}, is : Nat, to : Nat \ {0}] \union [op : {"goto"}, to : Nat \ {0}]

ASSUME ScriptAssumption == Scripts \subseteq Seq(Statement)

(* How a number, a statement and a script are written.                     *)
Decimal[n \in Nat] ==
    IF n < 10 THEN <<Digits[n + 1]>> ELSE Decimal[n \div 10] \o <<Digits[(n % 10) + 1]>>

Written(s) ==
    CASE s.op = "run"   -> <<s.prog>> \o (IF s.arg = <<>> THEN <<>> ELSE <<" ">> \o s.arg)
      [] s.op = "print" -> <<"\"", s.text, "\"">>
      [] s.op = "if"    -> <<"~">> \o Decimal[s.is] \o <<":">> \o Decimal[s.to] \o <<"~">>
      [] s.op = "goto"  -> <<"@">> \o Decimal[s.to] \o <<"@">>

Added(line, s) == line \o <<"$">> \o Written(s)
Line(script) == FoldLeft(Added, <<"chain", " ">>, script)

(* The lines written so, and the scripts they hold.                        *)
ScriptOf == [line \in {Line(s) : s \in Scripts} |-> CHOOSE s \in Scripts : Line(s) = line]

-----------------------------------------------------------------------------
(* The manual says nothing of a line that is not written so.               *)
mode ==
    IF input \notin DOMAIN ScriptOf THEN "idle"
    ELSE IF depth = 2 \/ (depth = 1 /\ pc = "execute") THEN "running"
    ELSE IF pc \in {"chain", "statement", "next"} THEN "reading" ELSE "idle"

Existing == IF bootable = {} THEN {} ELSE ProgramsOn[Min(bootable)]
Script   == IF mode = "idle" THEN <<>> ELSE ScriptOf[input]
At       == IF mode = "idle" THEN 0 ELSE IF pc = "next" THEN i + 1 ELSE i
LastExit == IF mode = "idle" THEN 0 ELSE status[1]

Manual == INSTANCE ChainScript
          WITH existing <- Existing, mode <- mode, script <- Script, at <- At, last <- LastExit

(* The statements of a script are taken apart from the line and executed   *)
(* in the manual's order, with the exit statuses the manual gives, although*)
(* the drive that chain and its programs have selected changes on the way. *)
ImplementsChainScript == Manual!Spec

(* A line whose jumps all go forward brings the shell's prompt back.       *)
Forward(s) == \A k \in DOMAIN s : s[k].op \in {"if", "goto"} => s[k].to > k
Straight == {line \in Commands : line \in DOMAIN ScriptOf => Forward(ScriptOf[line])}
CommandReturns ==
    \A line \in Straight :
        (depth = 0 /\ pc = "execute" /\ call.args = line) ~> pc = "prompt"
=============================================================================
