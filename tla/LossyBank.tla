------------------------------ MODULE LossyBank ------------------------------
(***************************************************************************)
(* What the command link promises a host that sends whenever it likes: a   *)
(* LightBank whose queue may lose commands, but never the last one.        *)
(***************************************************************************)
EXTENDS LightBank

Without(queue, i) == SubSeq(queue, 1, i - 1) \o SubSeq(queue, i + 1, Len(queue))

Lose ==
    /\ \E i \in 1 .. Len(pending) - 1 : pending' = Without(pending, i)
    /\ bus' = bus

LossyNext == Next \/ Lose

LossySafety == Init /\ [][LossyNext]_bankVars

LossySpec == LossySafety /\ WF_bankVars(CarryOut)
=============================================================================
