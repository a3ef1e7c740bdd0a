------------------------------ MODULE CharQueue ------------------------------
(***************************************************************************)
(* What either direction of a serial port promises: characters are         *)
(* numbered in the order in which they enter, and leave in that order,     *)
(* none of them twice.  A lossless queue gives up every one of them; a     *)
(* lossy one may leave some out, and never goes back.                      *)
(***************************************************************************)
EXTENDS Integers

VARIABLES
    entered,    \* number of the last character that entered
    left,       \* number of the last character that left
    lossy       \* the queue may leave characters out

queueVars == <<entered, left, lossy>>

Init ==
    /\ entered = 0
    /\ left = 0
    /\ lossy \in BOOLEAN

Enter ==
    /\ entered' = entered + 1
    /\ UNCHANGED <<left, lossy>>

Leave ==
    /\ left < entered
    /\ left' \in IF lossy THEN (left + 1) .. entered ELSE {left + 1}
    /\ entered' \in {entered, entered + 1}     \* one may enter at the same time
    /\ UNCHANGED lossy

Next == Enter \/ Leave

Spec == Init /\ [][Next]_queueVars
=============================================================================
