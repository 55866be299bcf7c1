----------------------------- MODULE ChainScript -----------------------------
(***************************************************************************)
(* chain as the manual describes it: the statements of a script are taken  *)
(* in order, those between ~ and @ excepted, which go on at the statement  *)
(* they name.  Statements are numbered from 1.  A program that exists      *)
(* returns 0 or 1, an attempt to run one that does not returns 2, whatever *)
(* drive is selected.                                                      *)
(***************************************************************************)
EXTENDS Naturals, Sequences

VARIABLES
    existing, \* the programs of the system drive
    mode,    \* "idle", "reading" or "running"
    script,  \* the statements
    at,      \* the number of the next or running one
    last     \* the exit status of the last program

vars == <<existing, mode, script, at, last>>

Init == mode = "idle" /\ script = <<>> /\ at = 0 /\ last = 0

Begin == /\ mode = "idle" /\ mode' = "reading" /\ at' = 1 /\ last' = 0
         /\ UNCHANGED existing

Is(op) == mode = "reading" /\ at \in DOMAIN script /\ script[at].op = op

PrintText == /\ Is("print") /\ at' = at + 1
             /\ UNCHANGED <<existing, mode, script, last>>
If    == /\ Is("if") /\ at' = IF last = script[at].is THEN script[at].to ELSE at + 1
         /\ UNCHANGED <<existing, mode, script, last>>
Goto  == /\ Is("goto") /\ at' = script[at].to
         /\ UNCHANGED <<existing, mode, script, last>>
Run   == /\ Is("run") /\ mode' = "running"
         /\ UNCHANGED <<existing, script, at, last>>
Ran   == /\ mode = "running" /\ mode' = "reading" /\ at' = at + 1
         /\ last' \in IF script[at].prog \in existing THEN {0, 1} ELSE {2}
         /\ UNCHANGED <<existing, script>>
End   == /\ mode = "reading" /\ at > Len(script)
         /\ mode' = "idle" /\ script' = <<>> /\ at' = 0 /\ last' = 0
         /\ UNCHANGED existing

Next == Begin \/ PrintText \/ If \/ Goto \/ Run \/ Ran \/ End
Spec == Init /\ [][Next]_vars
=============================================================================
