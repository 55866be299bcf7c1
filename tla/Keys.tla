-------------------------------- MODULE Keys --------------------------------
(* How kbd_readline, edit and view read the keyboard.  They poll the port, *)
(* which keeps the last scan code.  A code is taken when it differs from   *)
(* the one before; of a key that is held down the previous code is         *)
(* forgotten after some polls, so that it is taken once more.  A key is a  *)
(* record of prev_keycode, cached_prev_keycode and hold_iterations.        *)
EXTENDS Integers

CONSTANTS InitHold, ContHold  \* INIT_HOLD_ITERATIONS, CONT_HOLD_ITERATIONS

ASSUME HoldAssumption == InitHold \in Nat /\ ContHold \in Nat /\ ContHold < InitHold

NoKey == "none"  \* the 0 that is no scan code

KeyRecord(codes) == [prev : codes \union {NoKey}, cached : codes \union {NoKey},
                     hold : 0 .. InitHold]

FirstKey_Any == [prev |-> NoKey, cached |-> NoKey, hold |-> 0]  \* a mistake
FirstKey == [prev |-> "ENTER", cached |-> NoKey, hold |-> 0]

IsNew(k, code) == code # k.prev

Taken(k, code) == [k EXCEPT !.prev = code, !.hold = 0]

Waited_Any(k) ==  \* a mistake: the first repetition waits no longer than the others
    IF k.hold >= ContHold THEN [k EXCEPT !.prev = NoKey] ELSE [k EXCEPT !.hold = @ + 1]

Waited_Never(k) == [k EXCEPT !.hold = IF @ < InitHold THEN @ + 1 ELSE @]  \* a mistake
Waited(k) ==
    IF k.prev = k.cached /\ k.hold >= ContHold THEN [k EXCEPT !.prev = NoKey]
    ELSE IF k.hold >= InitHold THEN [k EXCEPT !.prev = NoKey, !.cached = k.prev]
    ELSE [k EXCEPT !.hold = @ + 1]
=============================================================================
