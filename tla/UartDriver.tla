----------------------------- MODULE UartDriver -----------------------------
(***************************************************************************)
(* The BSP's driver of the RS-232 core, in both builds of the source.      *)
(*   small  (ALT_USE_SMALL_DRIVERS, this firmware): read and write poll    *)
(*          the status register;                                           *)
(*   fast   read and write work on two ring buffers, an interrupt handler  *)
(*          moves characters between them and the core.                    *)
(* One thread calls the driver (ALT_SINGLE_THREADED: the semaphores and    *)
(* event flags of the source are empty macros); the interrupt handler runs *)
(* to its end between two steps of the caller, and the core goes on        *)
(* between any two steps of either.                                        *)
(*                                                                         *)
(* A character is its number: the i-th to arrive on the line, or the i-th  *)
(* that write() took.  arrived, delivered, accepted and sent count them,    *)
(* turns how often CTS fell.                                               *)
(***************************************************************************)
EXTENDS UartCore

CONSTANTS
    BufLen,     \* ALT_AVALON_UART_BUF_LEN (64)
    Builds,     \* the values of small that are considered
    Flows,      \* the values of fc that are considered
    Lens,       \* lengths asked of read and write
    Misframed,  \* numbers of the arriving characters with a bad stop bit
    Budget      \* bound: arrivals, characters written and falls of CTS together

ASSUME BufLenAssumption == BufLen \in Nat \ {0, 1}
ASSUME BuildAssumption == Builds \subseteq BOOLEAN /\ Flows \subseteq BOOLEAN
ASSUME LensAssumption == Lens \subseteq Nat
ASSUME BudgetAssumption == Budget \in 0 .. 255

VARIABLES
    small, fc,          \* build: small driver; ALT_AVALON_UART_FC set
    rx, fe, tx,         \* core: receive registers, framing error, transmit registers
    cts, dcts,          \* core: CTS asserted, and changed since the last status write
    ctrl,               \* interrupts enabled: sp->ctrl and the control register
    rxBuf, rxStart, rxEnd, txBuf, txStart, txEnd,
    isr, status,        \* where the interrupt handler is, and the status it read
    pc, len, block, count,      \* the call of the application
    arrived, delivered, accepted, sent, turns

build == <<small, fc>>
core == <<rx, fe, tx, cts, dcts>>
rxRing == <<rxBuf, rxStart, rxEnd>>
txRing == <<txBuf, txStart, txEnd>>
handler == <<isr, status>>
call == <<pc, len, block, count>>
counts == <<arrived, delivered, accepted, sent, turns>>
vars == <<build, core, ctrl, rxRing, txRing, handler, call, counts>>

Slot == 0 .. BufLen - 1

\* (i + 1) & ALT_AVALON_UART_BUF_MSK
Succ(i) == IF i + 1 = BufLen THEN 0 ELSE i + 1

\* TXDATA and TRDY; the shift register takes the character when it is free.
TxState == [data : Nat, trdy : BOOLEAN]

StatusBits == {"RRDY", "TRDY", "FE", "CTS", "DCTS"}

\* The interrupts the driver may turn on in the control register.
ControlBits == {"RRDY", "TRDY", "DCTS"}

StatusRegister ==
    {b \in StatusBits : \/ b = "RRDY" /\ rx.rrdy
                        \/ b = "TRDY" /\ tx.trdy
                        \/ b = "FE" /\ fe
                        \/ b = "CTS" /\ cts
                        \/ b = "DCTS" /\ dcts}

Reading == {"rdTest", "rdCopy", "rdAdvance", "rdMask", "rdEmpty", "rdEnable", "rdExit"}
Writing == {"wrTest", "wrEnable", "wrSpin", "wrStore", "wrAdvance", "wrExit"}
Polling == {"srStatus", "srClear", "srData", "swStatus", "swData"}

TypeOK ==
    /\ small \in BOOLEAN /\ fc \in BOOLEAN
    /\ rx \in UartState /\ fe \in BOOLEAN /\ tx \in TxState
    /\ cts \in BOOLEAN /\ dcts \in BOOLEAN
    /\ ctrl \subseteq ControlBits
    /\ rxBuf \in [Slot -> Nat] /\ txBuf \in [Slot -> Nat]
    /\ rxStart \in 0 .. BufLen /\ rxEnd \in Slot /\ txStart \in Slot /\ txEnd \in Slot
    /\ isr \in {"off", "clear", "rx", "tx"} /\ status \subseteq StatusBits
    /\ pc \in {"idle", "close"} \cup Reading \cup Writing \cup Polling
    /\ len \in Nat /\ count \in Int /\ block \in BOOLEAN
    /\ arrived \in Nat /\ delivered \in Nat /\ accepted \in Nat /\ sent \in Nat
    /\ turns \in Nat

\* After altera_avalon_uart_init: empty rings, receive and CTS interrupts on.
Init ==
    /\ small \in Builds
    /\ fc \in Flows /\ (small => ~fc)    \* the small driver ignores CTS
    /\ rx = UartReset /\ fe = FALSE
    /\ tx = [data |-> 0, trdy |-> TRUE]
    /\ cts = TRUE /\ dcts = FALSE
    /\ ctrl = IF small THEN {} ELSE {"RRDY", "DCTS"}
    /\ rxBuf = [i \in Slot |-> 0] /\ rxStart = 0 /\ rxEnd = 0
    /\ txBuf = [i \in Slot |-> 0] /\ txStart = 0 /\ txEnd = 0
    /\ isr = "off" /\ status = {}
    /\ pc = "idle" /\ len = 0 /\ block = FALSE /\ count = 0
    /\ arrived = 0 /\ delivered = 0 /\ accepted = 0 /\ sent = 0
    /\ turns = 0

-----------------------------------------------------------------------------
(* The core *)

Spent ==
    arrived + accepted + turns
    + IF pc \in Writing \cup {"swStatus", "swData"} THEN count ELSE 0

Misframe(n) == n \in Misframed

CharArrives ==
    /\ Spent < Budget
    /\ arrived' = arrived + 1
    /\ rx' = Arrive(rx, arrived + 1)
    /\ fe' = (fe \/ Misframe(arrived + 1))
    /\ UNCHANGED <<build, tx, cts, dcts, ctrl, rxRing, txRing, handler, call,
                   delivered, accepted, sent, turns>>

\* do_load_shifter: TXDATA goes to the line.
Shift ==
    /\ ~tx.trdy
    /\ tx' = [data |-> tx.data, trdy |-> TRUE]
    /\ sent' = tx.data
    /\ UNCHANGED <<build, rx, fe, cts, dcts, ctrl, rxRing, txRing, handler, call,
                   arrived, delivered, accepted, turns>>

\* The other end moves CTS (a core with flow control; this one has none).
CtsChange ==
    /\ fc
    /\ cts => Spent < Budget
    /\ cts' = ~cts
    /\ dcts' = TRUE
    /\ turns' = IF cts THEN turns + 1 ELSE turns
    /\ UNCHANGED <<build, rx, fe, tx, ctrl, rxRing, txRing, handler, call,
                   arrived, delivered, accepted, sent>>

\* The CPU reads RXDATA; a character that ends in the same cycle stays in the
\* register with RRDY clear.
ReadRxData ==
    \/ rx' = ReadData(rx) /\ UNCHANGED <<fe, arrived>>
    \/ /\ Spent < Budget
       /\ rx' = ArriveDuringRead(rx, arrived + 1)
       /\ arrived' = arrived + 1
       /\ fe' = (fe \/ Misframe(arrived + 1))

\* IOWR_ALTERA_AVALON_UART_STATUS(base, 0)
ClearStatus ==
    /\ fe' = FALSE
    /\ dcts' = FALSE
    /\ rx' = [rx EXCEPT !.roe = FALSE]

\* IOWR_ALTERA_AVALON_UART_TXDATA: it does not wait for TRDY.
WriteTxData(c) == tx' = [data |-> c, trdy |-> FALSE]

-----------------------------------------------------------------------------
(* altera_avalon_uart_irq *)

IrqPending ==
    \/ "RRDY" \in ctrl /\ rx.rrdy
    \/ "TRDY" \in ctrl /\ tx.trdy
    \/ "DCTS" \in ctrl /\ dcts

Irq ==
    /\ ~small
    /\ isr = "off"
    /\ IrqPending
    /\ status' = StatusRegister
    /\ isr' = "clear"
    /\ UNCHANGED <<build, core, ctrl, rxRing, txRing, call, counts>>

\* The handler goes on at s; the status word is a local of it.
GoOn(s) ==
    /\ isr' = s
    /\ status' = IF s = "off" THEN {} ELSE status

\* Where it goes once receiving is dealt with.
AfterRx == IF status \cap {"TRDY", "DCTS"} # {} THEN "tx" ELSE "off"

IrqClear ==
    /\ isr = "clear"
    /\ ClearStatus
    /\ GoOn(IF "RRDY" \in status THEN "rx" ELSE AfterRx)
    /\ UNCHANGED <<build, tx, cts, ctrl, rxRing, txRing, call, counts>>

\* altera_avalon_uart_rxirq with PE or FE: it returns, RXDATA unread.
RxIrqError ==
    /\ isr = "rx"
    /\ "FE" \in status
    /\ GoOn(AfterRx)
    /\ UNCHANGED <<build, core, ctrl, rxRing, txRing, call, counts>>

\* Mutant: the end index is advanced before the character is stored.
RxIrqNextSlot ==
    /\ isr = "rx"
    /\ "FE" \notin status
    /\ rxBuf' = [rxBuf EXCEPT ![Succ(rxEnd)] = rx.data]
    /\ rxEnd' = Succ(rxEnd)
    /\ ReadRxData
    /\ ctrl' = IF Succ(rxEnd') = rxStart THEN ctrl \ {"RRDY"} ELSE ctrl
    /\ GoOn(AfterRx)
    /\ UNCHANGED <<build, tx, cts, dcts, rxStart, txRing, call,
                   delivered, accepted, sent, turns>>

\* altera_avalon_uart_rxirq: the interrupt is turned off when the ring is full.
RxIrq ==
    /\ isr = "rx"
    /\ "FE" \notin status
    /\ rxBuf' = [rxBuf EXCEPT ![rxEnd] = rx.data]
    /\ rxEnd' = Succ(rxEnd)
    /\ ReadRxData
    /\ ctrl' = IF Succ(rxEnd') = rxStart THEN ctrl \ {"RRDY"} ELSE ctrl
    /\ GoOn(AfterRx)
    /\ UNCHANGED <<build, tx, cts, dcts, rxStart, txRing, call,
                   delivered, accepted, sent, turns>>

\* altera_avalon_uart_txirq: the last line but one.
Disarm(c) == IF txStart' = txEnd THEN c \ {"TRDY", "DCTS"} ELSE c

MayTransmit == ~fc \/ "CTS" \in status

TxIrq ==
    /\ isr = "tx"
    /\ GoOn("off")
    /\ \/ /\ txStart # txEnd
          /\ MayTransmit
          /\ WriteTxData(txBuf[txStart])
          /\ txStart' = Succ(txStart)
          /\ ctrl' = Disarm(ctrl \cup {"TRDY"})
       \/ /\ txStart # txEnd
          /\ ~MayTransmit
          /\ ctrl' = IF cts THEN ctrl ELSE ctrl \ {"TRDY"}
          /\ UNCHANGED <<tx, txStart>>
       \/ /\ txStart = txEnd
          /\ UNCHANGED <<tx, txStart>>
          /\ ctrl' = Disarm(ctrl)
    /\ UNCHANGED <<build, rx, fe, cts, dcts, rxRing, txBuf, txEnd, call, counts>>

Handler == Irq \/ IrqClear \/ RxIrqError \/ RxIrq \/ TxIrq
-----------------------------------------------------------------------------
(* The caller: it runs while the handler does not. *)

At(s) == isr = "off" /\ pc = s

\* The call goes on at s; when it returns, its arguments and locals are gone.
Proceed(s, c) ==
    /\ pc' = s
    /\ IF s = "idle"
       THEN len' = 0 /\ block' = FALSE /\ count' = 0
       ELSE count' = c /\ UNCHANGED <<len, block>>

\* alt_irq_disable_all .. alt_irq_enable_all: no interrupt in between.
Arm(c) == ctrl' = ctrl \cup c

Start(n, b, s) ==
    /\ At("idle")
    /\ pc' = s /\ len' = n /\ block' = b
    /\ UNCHANGED <<build, core, ctrl, rxRing, txRing, handler, counts>>

CallRead(n, b) == Start(n, b, IF small THEN "srStatus" ELSE "rdTest") /\ count' = 0

\* The small driver's loop tests its count at the end and would never stop for
\* no characters at all; nothing in this firmware asks for that.
CallWrite(n, b) ==
    /\ small => n # 0
    /\ Spent + n <= Budget
    /\ Start(n, b, IF small THEN "swStatus" ELSE "wrTest")
    /\ count' = n

CallClose(b) == ~small /\ Start(0, b, "close") /\ count' = 0

(* altera_avalon_uart_read, fast *)

\* Mutant: an empty ring is read.
RdTestLength ==
    /\ At("rdTest")
    /\ Proceed(IF count < len THEN "rdCopy" ELSE "rdEmpty", count)
    /\ UNCHANGED <<build, core, ctrl, rxRing, txRing, handler, counts>>

\* while ((count < len) && (sp->rx_start != sp->rx_end))
RdTest ==
    /\ At("rdTest")
    /\ Proceed(IF count < len /\ rxStart # rxEnd THEN "rdCopy" ELSE "rdEmpty", count)
    /\ UNCHANGED <<build, core, ctrl, rxRing, txRing, handler, counts>>

RdCopy ==
    /\ At("rdCopy")
    /\ delivered' = rxBuf[rxStart]
    /\ Proceed("rdAdvance", count + 1)
    /\ UNCHANGED <<build, core, ctrl, rxRing, txRing, handler,
                   arrived, accepted, sent, turns>>

\* sp->rx_start = (++sp->rx_start) & MSK modifies rx_start twice without a
\* sequence point: it may be stored once, or first without the mask.
RdAdvance ==
    /\ At("rdAdvance")
    /\ \/ rxStart' = Succ(rxStart) /\ Proceed("rdTest", count)
       \/ rxStart' = rxStart + 1 /\ Proceed("rdMask", count)
    /\ UNCHANGED <<build, core, ctrl, rxBuf, rxEnd, txRing, handler, counts>>

RdMask ==
    /\ At("rdMask")
    /\ rxStart' = IF rxStart = BufLen THEN 0 ELSE rxStart
    /\ Proceed("rdTest", count)
    /\ UNCHANGED <<build, core, ctrl, rxBuf, rxEnd, txRing, handler, counts>>

\* if (!count && (sp->rx_start == sp->rx_end)), else while (!count && len)
RdEmpty ==
    /\ At("rdEmpty")
    /\ Proceed(IF count = 0 /\ rxStart = rxEnd
               THEN (IF block THEN "rdEnable" ELSE "rdExit")
               ELSE (IF count = 0 /\ len # 0 THEN "rdTest" ELSE "rdExit"), count)
    /\ UNCHANGED <<build, core, ctrl, rxRing, txRing, handler, counts>>

\* Receive interrupts on, no event flag to wait for: round the loop.
RdEnable ==
    /\ At("rdEnable")
    /\ Arm({"RRDY"})
    /\ Proceed(IF len # 0 THEN "rdTest" ELSE "rdExit", count)
    /\ UNCHANGED <<build, core, rxRing, txRing, handler, counts>>

\* Mutant: the receive interrupt is not turned on again.
RdExitUnarmed ==
    /\ At("rdExit")
    /\ Proceed("idle", count)
    /\ UNCHANGED <<build, core, ctrl, rxRing, txRing, handler, counts>>

RdExit ==
    /\ At("rdExit")
    /\ Arm({"RRDY"})
    /\ Proceed("idle", count)
    /\ UNCHANGED <<build, core, rxRing, txRing, handler, counts>>

(* altera_avalon_uart_write, fast *)

\* Mutant: the ring is never full.
NeverFull == FALSE

Full == Succ(txEnd) = txStart

WrTest ==
    /\ At("wrTest")
    /\ Proceed(IF count = 0 THEN "wrExit"
               ELSE IF ~Full THEN "wrStore"
               ELSE IF block THEN "wrEnable" ELSE "wrExit", count)
    /\ UNCHANGED <<build, core, ctrl, rxRing, txRing, handler, counts>>

WrEnable ==
    /\ At("wrEnable")
    /\ Arm({"TRDY", "DCTS"})
    /\ Proceed("wrSpin", count)
    /\ UNCHANGED <<build, core, rxRing, txRing, handler, counts>>

\* while (next == sp->tx_start)
WrSpin ==
    /\ At("wrSpin")
    /\ ~Full
    /\ Proceed("wrStore", count)
    /\ UNCHANGED <<build, core, ctrl, rxRing, txRing, handler, counts>>

WrStore ==
    /\ At("wrStore")
    /\ txBuf' = [txBuf EXCEPT ![txEnd] = accepted + 1]
    /\ Proceed("wrAdvance", count)
    /\ UNCHANGED <<build, core, ctrl, rxRing, txStart, txEnd, handler, counts>>

WrAdvance ==
    /\ At("wrAdvance")
    /\ txEnd' = Succ(txEnd)
    /\ accepted' = accepted + 1
    /\ Proceed("wrTest", count - 1)
    /\ UNCHANGED <<build, core, ctrl, rxRing, txBuf, txStart, handler,
                   arrived, delivered, sent, turns>>

\* Mutant: the transmit interrupt is not turned on.
WrExitUnarmed ==
    /\ At("wrExit")
    /\ Proceed("idle", count)
    /\ UNCHANGED <<build, core, ctrl, rxRing, txRing, handler, counts>>

WrExit ==
    /\ At("wrExit")
    /\ Arm({"TRDY", "DCTS"})
    /\ Proceed("idle", count)
    /\ UNCHANGED <<build, core, rxRing, txRing, handler, counts>>

\* altera_avalon_uart_close: it waits for the ring to drain, or says EWOULDBLOCK.
Close ==
    /\ At("close")
    /\ txStart = txEnd \/ ~block
    /\ Proceed("idle", count)
    /\ UNCHANGED <<build, core, ctrl, rxRing, txRing, handler, counts>>

(* altera_avalon_uart_read and _write, small: status is their local *)

SrStatus ==
    /\ At("srStatus")
    /\ status' = StatusRegister
    /\ Proceed("srClear", count)
    /\ UNCHANGED <<build, core, ctrl, rxRing, txRing, isr, counts>>

\* while (block)
Again(s) == Proceed(IF block THEN s ELSE "idle", count)

SrClear ==
    /\ At("srClear")
    /\ ClearStatus
    /\ IF "RRDY" \in status THEN Proceed("srData", count) ELSE Again("srStatus")
    /\ status' = status \cap {"FE"}
    /\ UNCHANGED <<build, tx, cts, ctrl, rxRing, txRing, isr, counts>>

SrData ==
    /\ At("srData")
    /\ ReadRxData
    /\ IF "FE" \in status
       THEN delivered' = delivered /\ Again("srStatus")
       ELSE delivered' = rx.data /\ Proceed("idle", count)
    /\ status' = {}
    /\ UNCHANGED <<build, tx, cts, dcts, ctrl, rxRing, txRing, isr,
                   accepted, sent, turns>>

SwStatus ==
    /\ At("swStatus")
    /\ tx.trdy \/ ~block \/ count = 0
    /\ Proceed(IF tx.trdy THEN "swData" ELSE "idle", count)
    /\ UNCHANGED <<build, core, ctrl, rxRing, txRing, handler, counts>>

SwData ==
    /\ At("swData")
    /\ WriteTxData(accepted + 1)
    /\ accepted' = accepted + 1
    /\ Proceed(IF block /\ count # 1 THEN "swStatus" ELSE "idle", count - 1)
    /\ UNCHANGED <<build, rx, fe, cts, dcts, ctrl, rxRing, txRing, handler,
                   arrived, delivered, sent, turns>>

-----------------------------------------------------------------------------
Call ==
    \/ \E n \in Lens, b \in BOOLEAN : CallRead(n, b) \/ CallWrite(n, b)
    \/ \E b \in BOOLEAN : CallClose(b)

FastStep ==
    \/ RdTest \/ RdCopy \/ RdAdvance \/ RdMask \/ RdEmpty \/ RdEnable \/ RdExit
    \/ WrTest \/ WrEnable \/ WrSpin \/ WrStore \/ WrAdvance \/ WrExit
    \/ Close

SmallStep == SrStatus \/ SrClear \/ SrData \/ SwStatus \/ SwData

Next == CharArrives \/ Shift \/ CtsChange \/ Handler \/ Call \/ FastStep \/ SmallStep

(***************************************************************************)
(* The core shifts, the CPU runs; nothing is assumed of the line, of CTS   *)
(* or of the application.                                                  *)
(***************************************************************************)
Fairness ==
    /\ WF_vars(Shift)
    /\ WF_vars(Handler)
    /\ SF_vars(FastStep)
    /\ WF_vars(SmallStep)

Spec == Init /\ [][Next]_vars /\ Fairness

-----------------------------------------------------------------------------
(* Properties *)

TxQueue == INSTANCE CharQueue WITH entered <- accepted, left <- sent, lossy <- fc
RxQueue == INSTANCE CharQueue WITH entered <- arrived, left <- delivered, lossy <- TRUE

\* Without flow control every character that write() took is on the line, in
\* order, whatever the interrupts do; with it some may be overwritten in TXDATA.
ImplementsTxQueue == TxQueue!Spec

\* read() gives characters in the order of their arrival, none twice and none
\* that did not arrive, however the handler cuts into it.
ImplementsRxQueue == RxQueue!Spec

\* What write() took is transmitted: no order of filling, draining, arming and
\* disarming leaves characters behind.  (With flow control this fails, see
\* NeverStranded.)
Drains == (~fc /\ sent < accepted) ~> (sent = accepted)

\* A character in the core is fetched while somebody reads: the receive
\* interrupt, which a full ring turns off, is never left off.
ReaderFetches == (~small /\ pc \in Reading /\ rx.rrdy) ~> ~rx.rrdy

\* The interrupt-driven driver delivers no character that came with a framing
\* error.
MisframedDiscarded ==
    [][~small /\ delivered' # delivered => ~Misframe(delivered')]_vars

\* While characters wait, the interrupt that will move them is on: TRDY when CTS
\* is asserted, and a change of CTS not dealt with yet otherwise.
NeverStranded ==
    isr = "off" /\ pc = "idle" /\ txStart # txEnd =>
        "TRDY" \in ctrl \/ dcts \/ ~cts

(***************************************************************************)
(* The inductive invariant.  Pending counts the characters between two     *)
(* indices of a ring, Age(i, e) how many slots were written after slot i   *)
(* was passed by the write index e last: 0 for the slot written next.      *)
(***************************************************************************)
Pending(start, end) ==
    IF end >= start THEN end - start ELSE end - start + BufLen

\* Characters that write() took and the handler took out of the ring again.
Taken == accepted - Pending(txStart, txEnd)

TxInv ==
    /\ 0 <= Taken
    /\ \A i \in Slot :
          Pending(txStart, i) < Pending(txStart, txEnd) =>
              txBuf[i] = Taken + 1 + Pending(txStart, i)
    /\ pc \in {"wrStore", "wrAdvance"} => Succ(txEnd) # txStart
    /\ pc = "wrAdvance" => txBuf[txEnd] = accepted + 1
    /\ tx.data = Taken
    /\ IF tx.trdy THEN sent <= Taken /\ (~fc => sent = Taken)
       ELSE sent < Taken /\ (~fc => sent + 1 = Taken)

HandlerInv ==
    /\ ~fc => ~dcts /\ "DCTS" \notin status
    /\ ~fc /\ "TRDY" \in status /\ isr # "off" => tx.trdy
    /\ isr = "tx" => status \cap {"TRDY", "DCTS"} # {}
    /\ isr \in {"clear", "rx"} /\ "RRDY" \in status => rx.rrdy
    /\ isr = "rx" => "RRDY" \in status
    /\ small => isr = "off" /\ ~fc /\ pc \notin Reading \cup Writing \cup {"close"}
    /\ small => txStart = txEnd /\ rxStart = rxEnd
    /\ ~small => pc \notin Polling
    /\ pc = "swData" => tx.trdy
    /\ pc = "srClear" /\ "RRDY" \in status => rx.rrdy
    /\ pc = "srData" => rx.rrdy

\* The slot that rx_start stands for, also between its two stores.
First == IF rxStart = BufLen THEN 0 ELSE rxStart

\* Slots in the order of their writing: 0 is written next, the last one is the newest.
Order(i) == Pending(rxEnd, i)

RxInv ==
    /\ rxStart = BufLen => pc = "rdMask"
    /\ delivered <= arrived
    /\ rx.data <= arrived
    /\ rx.rrdy => delivered < rx.data
    /\ \A i \in Slot : rxBuf[i] <= arrived /\ (rx.rrdy => rxBuf[i] < rx.data)
    /\ \A i, j \in Slot : Order(i) < Order(j) => rxBuf[i] = 0 \/ rxBuf[i] < rxBuf[j]
    /\ pc = "rdCopy" => delivered < rxBuf[First]
    /\ \A i \in Slot :
          IF pc = "rdAdvance"
          THEN Order(First) < Order(i) => delivered < rxBuf[i]
          ELSE First # rxEnd /\ Order(First) <= Order(i) => delivered < rxBuf[i]

\* What is still to be written counts as spent; the loops test for it.
BoundInv ==
    /\ Spent <= Budget
    /\ pc \in Writing => count >= 0
    /\ pc \in {"wrEnable", "wrSpin", "wrStore", "wrAdvance", "swStatus", "swData"} => count >= 1

IInv == TypeOK /\ HandlerInv /\ BoundInv /\ TxInv /\ RxInv

\* The handler takes no unread character away.
NothingDiscarded == [][isr = "rx" => Pending(rxStart, rxEnd)' >= Pending(rxStart, rxEnd)]_vars
=============================================================================
