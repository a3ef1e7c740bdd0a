------------------------------ MODULE PacedLink ------------------------------
(***************************************************************************)
(* The link of LedLink under a host that waits at least Gap ticks between  *)
(* two commands, as the scan and calibration scripts do with pause().      *)
(*                                                                         *)
(* latest, unread and fresh are history variables: they record what the    *)
(* host asked for and whether the firmware has seen a character, and no    *)
(* action of the link depends on them.                                     *)
(***************************************************************************)
EXTENDS LedLink, Sequences

CONSTANT Gap    \* least number of ticks from one command to the next

ASSUME GapAssumption == Gap \in Nat

VARIABLES
    sinceSend,  \* ticks since the last command, saturating at Gap
    latest,     \* per channel, the last command sent
    unread,     \* a character reached the data register since it was last read
    fresh       \* the character in a was unread when it was read

vars == <<wire, uart, pc, a, elapsed, bus, echo, sinceSend, latest, unread, fresh>>

TypeOK ==
    /\ LinkTypeOK
    /\ sinceSend \in 0 .. Gap
    /\ latest \in [Channels -> Character]
    /\ unread \in BOOLEAN
    /\ fresh \in BOOLEAN

Init ==
    /\ LinkInit
    /\ sinceSend = Gap
    /\ latest = bus
    /\ unread = FALSE
    /\ fresh = FALSE

-----------------------------------------------------------------------------
HostSend(b) ==
    /\ sinceSend >= Gap
    /\ Send(b)
    /\ sinceSend' = 0
    /\ latest' = [c \in Channels |-> IF c = Channel(b) THEN b ELSE latest[c]]
    /\ UNCHANGED <<unread, fresh>>

Arrival ==
    /\ Receive
    /\ unread' = TRUE
    /\ UNCHANGED <<sinceSend, latest, fresh>>

Poll ==
    /\ \/ Sample /\ unread' = FALSE
       \/ SampleColliding /\ unread' = TRUE
    /\ fresh' = unread
    /\ UNCHANGED <<sinceSend, latest>>

Act == (Drive \/ Echo) /\ UNCHANGED <<sinceSend, latest, unread, fresh>>

Clock ==
    /\ Tick
    /\ sinceSend' = IF sinceSend < Gap THEN sinceSend + 1 ELSE Gap
    /\ UNCHANGED <<latest, unread, fresh>>

Firmware == Poll \/ Act

Next == Arrival \/ Firmware \/ Clock \/ \E b \in Bytes : HostSend(b)

Safety == Init /\ [][Next]_vars

(***************************************************************************)
(* The FPGA clock runs, main loops forever and a character on the line     *)
(* arrives.  The host is free to stop at any time.                         *)
(***************************************************************************)
Spec == Safety /\ WF_vars(Arrival) /\ WF_vars(Firmware) /\ WF_vars(Clock)

\* The discipline of the host: it never sends twice within a loop period.
Paced == Period < Gap

-----------------------------------------------------------------------------
(* Where a command can be on its way to its bus.                           *)
OnWire == IF wire = None THEN <<>> ELSE <<wire>>
InUart == IF unread THEN <<uart.data>> ELSE <<>>
InFirmware == IF pc = "drive" /\ fresh THEN <<a>> ELSE <<>>

Bank == INSTANCE LightBank WITH pending <- InFirmware \o InUart \o OnWire

(***************************************************************************)
(* The link of a paced host is a light bank: the polled, unacknowledged    *)
(* one-character register loses, repeats and reorders nothing.             *)
(***************************************************************************)
ImplementsBank == Bank!Spec

(***************************************************************************)
(* What the scripts rely on when they trigger the camera: a longest loop   *)
(* period after a command, every bus shows the last command sent to it.    *)
(***************************************************************************)
SettledAfterPeriod ==
    sinceSend > Period /\ pc # "drive" => bus = latest

(***************************************************************************)
(* The receive register is never overwritten before it was read: the core  *)
(* would raise ROE, which the firmware never looks at.                     *)
(***************************************************************************)
NoOverrun == ~uart.roe

(***************************************************************************)
(* Applying the same character in every loop never takes a bus back to an  *)
(* older command: when a bus changes, it changes to the last command sent. *)
(***************************************************************************)
NoRevert == [][\A c \in Channels : bus'[c] # bus[c] => bus'[c] = latest[c]]_vars

-----------------------------------------------------------------------------
(* The inductive invariant: at most one command is on its way, it cannot   *)
(* be older than the firmware's next read, and latest is what the buses    *)
(* will show when it has been carried out.                                 *)

InFlight == wire # None \/ unread \/ (pc = "drive" /\ fresh)

\* The buses once the command b is carried out.
After(b) == [c \in Channels |-> IF c = Channel(b) THEN b ELSE bus[c]]

\* The command on its way will be read within a period of its sending.
Timing ==
    /\ wire # None => sinceSend = 0
    /\ wire # None \/ unread => sinceSend <= elapsed
    /\ pc = "drive" /\ fresh => sinceSend <= Period

\* It is in one place.
OnePlace ==
    /\ ~(wire # None /\ unread)
    /\ pc = "drive" /\ fresh => wire = None /\ ~unread /\ a = uart.data
    /\ uart.rrdy => unread

\* A character that was seen before shows on its bus already.
StaleIsShown ==
    /\ ~unread /\ ~(pc = "drive" /\ fresh) /\ Channel(uart.data) \in Channels
         => bus[Channel(uart.data)] = uart.data
    /\ pc = "drive" /\ ~fresh /\ Channel(a) \in Channels => bus[Channel(a)] = a

LatestIsAhead ==
    /\ wire # None => latest = After(wire)
    /\ unread => latest = After(uart.data)
    /\ pc = "drive" /\ fresh => latest = After(a)
    /\ ~InFlight => latest = bus

IInv == TypeOK /\ Timing /\ OnePlace /\ StaleIsShown /\ LatestIsAhead /\ NoOverrun

-----------------------------------------------------------------------------
(***************************************************************************)
(* The line the firmware prints names the bus it has just written ("1 get  *)
(* %d", "3 get %d").                                                       *)
(***************************************************************************)
EchoNamesBus == echo.label # 0 => echo.label = Channel(echo.value)
=============================================================================
