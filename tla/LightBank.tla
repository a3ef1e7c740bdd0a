------------------------------ MODULE LightBank ------------------------------
(***************************************************************************)
(* What the command link promises a host that paces its commands: a bank   *)
(* of three registers behind a queue.  Every command is carried out, once, *)
(* in the order sent, on its own channel only.                             *)
(***************************************************************************)
EXTENDS Integers, Sequences

CONSTANTS Bytes, Channels, Channel(_)

VARIABLES bus, pending

bankVars == <<bus, pending>>

Init ==
    /\ bus = [c \in Channels |-> 0]
    /\ pending = <<>>

Command(b) ==
    /\ pending' = Append(pending, b)
    /\ bus' = bus

CarryOut ==
    /\ pending # <<>>
    /\ pending' = Tail(pending)
    /\ bus' = [c \in Channels |->
                 IF c = Channel(Head(pending)) THEN Head(pending) ELSE bus[c]]

Next == CarryOut \/ \E b \in Bytes : Command(b)

Safety == Init /\ [][Next]_bankVars

Spec == Safety /\ WF_bankVars(CarryOut)
=============================================================================
