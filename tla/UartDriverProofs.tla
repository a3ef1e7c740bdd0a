-------------------------- MODULE UartDriverProofs --------------------------
(***************************************************************************)
(* Proofs about UartDriver, for every size of the rings, both builds, with *)
(* and without flow control, any bound and any set of misframed            *)
(* characters.                                                             *)
(***************************************************************************)
EXTENDS UartDriver, TLAPS

USE DEF ControlBits

\* What the UART operators do to the record, field by field.
LEMMA UartTypes ==
    ASSUME NEW u \in UartState, NEW b \in Character
    PROVE  /\ UartReset \in UartState
           /\ Arrive(u, b) \in UartState
           /\ ReadData(u) \in UartState
           /\ ArriveDuringRead(u, b) \in UartState
<1>1. UartReset \in UartState
  BY DEF UartReset, UartState, Character
<1>2. (u.roe \/ u.rrdy) \in BOOLEAN
  BY Zenon
<1>3. Arrive(u, b) \in UartState
  BY <1>2 DEF Arrive, UartState
<1>4. ReadData(u) \in UartState
  BY DEF ReadData, UartState
<1>5. ArriveDuringRead(u, b) \in UartState
  BY <1>2 DEF ArriveDuringRead, UartState
<1> QED BY <1>1, <1>3, <1>4, <1>5

CoreStep == CharArrives \/ Shift \/ CtsChange

\* After altera_avalon_uart_init the rings are empty and nothing is under way.
LEMMA InitInv == Init => IInv
<1> SUFFICES ASSUME Init PROVE IInv
  OBVIOUS
<1> USE BufLenAssumption, BuildAssumption, BudgetAssumption
<1>1. /\ rx = UartReset /\ rx \in UartState
      /\ rx.data = 0 /\ rx.rrdy = FALSE
  BY DEF Init, UartReset, UartState, Character
<1>2. small \in BOOLEAN /\ fc \in BOOLEAN /\ cts \in BOOLEAN /\ dcts \in BOOLEAN
  BY DEF Init
<1>3. /\ tx = [data |-> 0, trdy |-> TRUE]
      /\ rxBuf = [i \in Slot |-> 0] /\ txBuf = [i \in Slot |-> 0]
      /\ rxStart = 0 /\ rxEnd = 0 /\ txStart = 0 /\ txEnd = 0
      /\ arrived = 0 /\ delivered = 0 /\ accepted = 0 /\ sent = 0 /\ turns = 0
      /\ pc = "idle" /\ isr = "off" /\ status = {} /\ count = 0
  BY DEF Init
<1>4. TypeOK
  <2>1. tx \in TxState /\ 0 \in Slot
    BY <1>3 DEF TxState, Slot
  <2>2. ctrl \subseteq {"RRDY", "TRDY", "DCTS"}
    BY DEF Init
  <2>3. fe \in BOOLEAN /\ block \in BOOLEAN /\ len \in Nat
    BY DEF Init
  <2>4. QED
    BY <1>1, <1>2, <1>3, <2>1, <2>2, <2>3 DEF TypeOK, StatusBits
<1>5. HandlerInv
  <2>1. ~dcts /\ (small => ~fc)
    BY DEF Init
  <2>2. QED
    BY <1>3, <2>1 DEF HandlerInv, Reading, Writing, Polling
<1>6. BoundInv
  BY <1>3 DEF BoundInv, Spent, Writing
<1>7. TxInv
  BY <1>3 DEF TxInv, Taken, Pending, Slot
<1>8. RxInv
  BY <1>1, <1>3 DEF RxInv, First, Order, Pending, Slot
<1>9. QED
  BY <1>4, <1>5, <1>6, <1>7, <1>8 DEF IInv

\* Slots follow each other around the ring.
LEMMA SuccSlot ==
    ASSUME NEW i \in Slot
    PROVE  Succ(i) \in Slot /\ Succ(i) # i
  BY BufLenAssumption DEF Succ, Slot

\* Reading RXDATA, alone or while a character arrives.
LEMMA ReadRxDataFacts ==
    ASSUME IInv, ReadRxData
    PROVE  /\ rx' \in UartState /\ rx'.rrdy = FALSE
           /\ \/ rx'.data = rx.data /\ arrived' = arrived /\ fe' = fe
              \/ /\ Spent < Budget /\ arrived' = arrived + 1 /\ rx'.data = arrived + 1
                 /\ fe' \in BOOLEAN
<1> USE BudgetAssumption
<1>1. rx \in UartState /\ arrived \in Nat
  BY DEF IInv, TypeOK
<1>2. CASE rx' = ReadData(rx) /\ UNCHANGED <<fe, arrived>>
  BY <1>1, <1>2, UartTypes, ZenonT(60) DEF ReadData, UartState, Character
<1>3. CASE /\ Spent < Budget
           /\ rx' = ArriveDuringRead(rx, arrived + 1)
           /\ arrived' = arrived + 1
           /\ fe' = (fe \/ Misframe(arrived + 1))
  <2>1. arrived + 1 <= Budget
    BY <1>1, <1>3 DEF IInv, TypeOK, BoundInv, Spent, Writing
  <2>2. arrived + 1 \in Character
    BY <1>1, <2>1 DEF Character
  <2>3. fe' \in BOOLEAN
    BY <1>3, Zenon
  <2>4. rx' \in UartState
    BY <1>1, <1>3, <2>2, UartTypes
  <2>5. QED
    BY <1>3, <2>3, <2>4 DEF ArriveDuringRead
<1>4. QED
  BY <1>2, <1>3 DEF ReadRxData

\* The line: the core receives a character.
LEMMA ArriveFacts ==
    ASSUME IInv, CharArrives
    PROVE  /\ rx' \in UartState /\ rx'.data = arrived + 1 /\ rx'.rrdy
           /\ fe' \in BOOLEAN
<1> USE BudgetAssumption
<1>1. rx \in UartState /\ arrived \in Nat
  BY DEF IInv, TypeOK
<1>2. arrived + 1 <= Budget
  BY <1>1 DEF CharArrives, IInv, TypeOK, BoundInv, Spent, Writing
<1>3. arrived + 1 \in Character
  BY <1>1, <1>2 DEF Character
<1>4. fe' \in BOOLEAN
  BY Zenon DEF CharArrives
<1>5. rx' \in UartState
  BY <1>1, <1>3, UartTypes DEF CharArrives
<1>6. rx'.data = arrived + 1 /\ rx'.rrdy
  BY DEF CharArrives, Arrive
<1>7. QED
  BY <1>4, <1>5, <1>6

\* Writing the status register clears no character.
LEMMA ClearFacts ==
    ASSUME IInv, ClearStatus
    PROVE  /\ rx' \in UartState /\ rx'.data = rx.data /\ rx'.rrdy = rx.rrdy
           /\ fe' = FALSE /\ dcts' = FALSE
  BY DEF IInv, TypeOK, ClearStatus, UartState

UartCoreTypes ==
    /\ small \in BOOLEAN /\ fc \in BOOLEAN
    /\ rx \in UartState /\ fe \in BOOLEAN /\ tx \in TxState
    /\ cts \in BOOLEAN /\ dcts \in BOOLEAN

RingTypes ==
    /\ rxBuf \in [Slot -> Nat] /\ txBuf \in [Slot -> Nat]
    /\ rxStart \in 0 .. BufLen /\ rxEnd \in Slot /\ txStart \in Slot /\ txEnd \in Slot

CallTypes ==
    /\ ctrl \subseteq {"RRDY", "TRDY", "DCTS"}
    /\ isr \in {"off", "clear", "rx", "tx"} /\ status \subseteq StatusBits
    /\ pc \in {"idle", "close"} \cup Reading \cup Writing \cup Polling
    /\ len \in Nat /\ count \in Int /\ block \in BOOLEAN

CountTypes ==
    /\ arrived \in Nat /\ delivered \in Nat /\ accepted \in Nat /\ sent \in Nat
    /\ turns \in Nat

LEMMA TypeParts == TypeOK <=> UartCoreTypes /\ RingTypes /\ CallTypes /\ CountTypes
  BY Zenon DEF TypeOK, UartCoreTypes, RingTypes, CallTypes, CountTypes

\* The registers of the core keep their types.
LEMMA CoreTypeStep == ASSUME IInv, Next PROVE UartCoreTypes'
<1> USE DEF build, core, rxRing, txRing, handler, call, counts
<1>1. UartCoreTypes /\ tx.data \in Nat
  BY TypeParts DEF IInv, UartCoreTypes, TxState
<1>2. accepted \in Nat /\ txStart \in Slot /\ txBuf[txStart] \in Nat
  BY TypeParts DEF IInv, CountTypes, RingTypes
<1>3. CASE CharArrives
  <2>1. UNCHANGED <<small, fc, tx, cts, dcts>>
    BY <1>3 DEF CharArrives
  <2>2. QED
    BY <1>1, <1>3, <2>1, ArriveFacts DEF UartCoreTypes
<1>4. CASE Shift
  <2>1. tx' \in TxState
    BY <1>1, <1>4 DEF Shift, TxState
  <2>2. QED
    BY <1>1, <1>4, <2>1 DEF Shift, UartCoreTypes
<1>5. CASE CtsChange
  <2>1. cts' \in BOOLEAN /\ dcts' \in BOOLEAN
    BY <1>5, Zenon DEF CtsChange
  <2>2. QED
    BY <1>1, <1>5, <2>1 DEF CtsChange, UartCoreTypes
<1>6. CASE IrqClear \/ SrClear
  <2>1. ClearStatus /\ UNCHANGED <<small, fc, tx, cts>>
    BY <1>6 DEF IrqClear, SrClear
  <2>2. QED
    BY <1>1, <2>1, ClearFacts DEF UartCoreTypes
<1>7. CASE RxIrq \/ SrData
  <2>1. ReadRxData /\ UNCHANGED <<small, fc, tx, cts, dcts>>
    BY <1>7 DEF RxIrq, SrData
  <2>2. QED
    BY <1>1, <2>1, ReadRxDataFacts DEF UartCoreTypes
<1>8. CASE TxIrq \/ SwData
  <2>1. UNCHANGED <<small, fc, rx, fe, cts, dcts>>
    BY <1>8 DEF TxIrq, SwData
  <2>2. tx' \in TxState
    <3>1. \/ tx' = tx
          \/ tx' = [data |-> txBuf[txStart], trdy |-> FALSE]
          \/ tx' = [data |-> accepted + 1, trdy |-> FALSE]
      BY <1>8, Zenon DEF TxIrq, SwData, WriteTxData
    <3>2. accepted + 1 \in Nat
      BY <1>2
    <3>3. \A c \in Nat : [data |-> c, trdy |-> FALSE] \in TxState
      BY DEF TxState
    <3>4. tx \in TxState
      BY <1>1 DEF UartCoreTypes
    <3>5. QED
      BY <1>2, <3>1, <3>2, <3>3, <3>4
  <2>3. QED
    BY <1>1, <2>1, <2>2 DEF UartCoreTypes
<1>9. CASE Irq \/ RxIrqError \/ Call \/ FastStep \/ SrStatus \/ SwStatus
  <2>1. UNCHANGED <<small, fc, rx, fe, tx, cts, dcts>>
    BY <1>9 DEF Irq, RxIrqError, Call, CallRead, CallWrite, CallClose, Start, FastStep,
       RdTest, RdCopy, RdAdvance, RdMask, RdEmpty, RdEnable, RdExit, WrTest, WrEnable, WrSpin,
       WrStore, WrAdvance, WrExit, Close, SrStatus, SwStatus
  <2>2. QED
    BY <1>1, <2>1 DEF UartCoreTypes
<1>10. QED
  BY <1>3, <1>4, <1>5, <1>6, <1>7, <1>8, <1>9 DEF Next, Handler, SmallStep

\* The rings keep their types.
LEMMA RingTypeStep == ASSUME IInv, Next PROVE RingTypes'
<1> USE DEF build, core, rxRing, txRing, handler, call, counts
<1>1. RingTypes /\ rx.data \in Nat /\ accepted \in Nat
  BY TypeParts DEF IInv, UartCoreTypes, CountTypes, UartState, Character
<1>2. Succ(rxEnd) \in Slot /\ Succ(txEnd) \in Slot /\ Succ(txStart) \in Slot
  BY <1>1, SuccSlot DEF RingTypes
<1>3. CASE RxIrq
  <2>1. rxBuf' \in [Slot -> Nat] /\ rxEnd' \in Slot
    BY <1>1, <1>2, <1>3 DEF RxIrq, RingTypes
  <2>2. QED
    BY <1>1, <1>3, <2>1 DEF RxIrq, RingTypes
<1>4. CASE TxIrq
  BY <1>1, <1>2, <1>4 DEF TxIrq, RingTypes
<1>5. CASE RdAdvance \/ RdMask
  <2>1. rxStart # BufLen \/ pc = "rdMask"
    BY DEF IInv, RxInv
  <2>2. rxStart' \in 0 .. BufLen
    <3>1. CASE RdAdvance
      <4>1. rxStart \in 0 .. BufLen /\ rxStart # BufLen
        BY <1>1, <2>1, <3>1 DEF RdAdvance, At, RingTypes
      <4>2. rxStart' = Succ(rxStart) \/ rxStart' = rxStart + 1
        BY <3>1 DEF RdAdvance
      <4>3. QED
        BY <4>1, <4>2, BufLenAssumption DEF Succ
    <3>2. CASE RdMask
      BY <1>1, <3>2, BufLenAssumption DEF RdMask, RingTypes
    <3>3. QED
      BY <1>5, <3>1, <3>2
  <2>3. QED
    BY <1>1, <1>5, <2>2 DEF RdAdvance, RdMask, RingTypes
<1>6. CASE WrStore
  <2>1. txBuf' \in [Slot -> Nat]
    BY <1>1, <1>6 DEF WrStore, RingTypes
  <2>2. QED
    BY <1>1, <1>6, <2>1 DEF WrStore, RingTypes
<1>7. CASE WrAdvance
  BY <1>1, <1>2, <1>7 DEF WrAdvance, RingTypes
<1>8. CASE \/ CoreStep \/ Irq \/ IrqClear \/ RxIrqError \/ Call \/ SmallStep
           \/ RdTest \/ RdCopy \/ RdEmpty \/ RdEnable \/ RdExit
           \/ WrTest \/ WrEnable \/ WrSpin \/ WrExit \/ Close
  <2>1. UNCHANGED <<rxBuf, rxStart, rxEnd, txBuf, txStart, txEnd>>
    BY <1>8 DEF CoreStep, CharArrives, Shift, CtsChange, Irq, IrqClear, RxIrqError, Call,
       CallRead, CallWrite, CallClose, Start, SmallStep, SrStatus, SrClear, SrData, SwStatus,
       SwData, RdTest, RdCopy, RdEmpty, RdEnable, RdExit, WrTest, WrEnable, WrSpin, WrExit, Close
  <2>2. QED
    BY <1>1, <2>1 DEF RingTypes
<1>9. QED
  BY <1>3, <1>4, <1>5, <1>6, <1>7, <1>8 DEF Next, Handler, FastStep, CoreStep

\* Where the handler and the call may be.
LEMMA CallTypeStep == ASSUME IInv, Next PROVE CallTypes'
<1> USE DEF build, core, rxRing, txRing, handler, call, counts, At, Arm
<1>1. CallTypes
  BY TypeParts DEF IInv
<1>2. StatusRegister \subseteq StatusBits
  BY DEF StatusRegister
<1>3. AfterRx \in {"tx", "off"}
  BY DEF AfterRx
<1>4. CASE CoreStep
  <2>1. UNCHANGED <<ctrl, isr, status, pc, len, block, count>>
    BY <1>4 DEF CoreStep, CharArrives, Shift, CtsChange
  <2>2. QED
    BY <1>1, <2>1 DEF CallTypes
<1>5. CASE Handler
  <2>1. UNCHANGED <<pc, len, block, count>>
    BY <1>5 DEF Handler, Irq, IrqClear, RxIrqError, RxIrq, TxIrq
  <2>2. isr' \in {"off", "clear", "rx", "tx"} /\ status' \subseteq StatusBits
    BY <1>1, <1>2, <1>3, <1>5 DEF Handler, Irq, IrqClear, RxIrqError, RxIrq, TxIrq, GoOn, CallTypes
  <2>3. ctrl' \subseteq {"RRDY", "TRDY", "DCTS"}
    BY <1>1, <1>5 DEF Handler, Irq, IrqClear, RxIrqError, RxIrq, TxIrq, Disarm, CallTypes
  <2>4. QED
    BY <1>1, <2>1, <2>2, <2>3 DEF CallTypes
<1>6. ASSUME NEW n \in Lens, NEW b \in BOOLEAN, CallRead(n, b) \/ CallWrite(n, b) PROVE CallTypes'
  <2>1. /\ UNCHANGED <<ctrl, isr, status>> /\ len' = n /\ block' = b
        /\ count' \in {0, n} /\ pc' \in {"srStatus", "rdTest", "swStatus", "wrTest"}
    BY <1>6 DEF CallRead, CallWrite, Start
  <2>2. QED
    BY <1>1, <2>1, LensAssumption DEF CallTypes, Reading, Writing, Polling
<1>7. ASSUME NEW b \in BOOLEAN, CallClose(b) PROVE CallTypes'
  <2>1. /\ UNCHANGED <<ctrl, isr, status>> /\ len' = 0 /\ block' = b
        /\ count' = 0 /\ pc' = "close"
    BY <1>7 DEF CallClose, Start
  <2>2. QED
    BY <1>1, <2>1 DEF CallTypes
<1>8. ASSUME NEW s \in {"idle", "close"} \cup Reading \cup Writing \cup Polling,
             NEW c \in Int, Proceed(s, c),
             ctrl' \subseteq {"RRDY", "TRDY", "DCTS"}, isr' = isr, status' \subseteq StatusBits
      PROVE  CallTypes'
  <2>1. /\ pc' = s /\ count' \in Int /\ len' \in Nat
    BY <1>1, <1>8 DEF Proceed, CallTypes
  <2>2. block' \in BOOLEAN
    <3>1. block' = FALSE \/ block' = block
      BY <1>8 DEF Proceed
    <3>2. QED
      BY <1>1, <3>1 DEF CallTypes
  <2>3. QED
    BY <1>1, <1>8, <2>1, <2>2 DEF CallTypes
<1> DEFINE PC == {"idle", "close"} \cup Reading \cup Writing \cup Polling
<1>9. CASE FastStep
  <2>1. isr' = isr /\ status' = status
    BY <1>9 DEF FastStep, RdTest, RdCopy, RdAdvance, RdMask, RdEmpty, RdEnable, RdExit, WrTest,
       WrEnable, WrSpin, WrStore, WrAdvance, WrExit, Close
  <2>2. ctrl' \subseteq {"RRDY", "TRDY", "DCTS"}
    BY <1>1, <1>9 DEF FastStep, RdTest, RdCopy, RdAdvance, RdMask, RdEmpty, RdEnable, RdExit, WrTest,
       WrEnable, WrSpin, WrStore, WrAdvance, WrExit, Close, CallTypes
  <2>3. \E s \in PC, c \in {count, count + 1, count - 1} : Proceed(s, c)
    <3>1. CASE RdTest \/ RdMask \/ RdEmpty \/ RdEnable \/ RdExit
      BY <3>1 DEF RdTest, RdMask, RdEmpty, RdEnable, RdExit, Reading
    <3>2. CASE RdCopy \/ RdAdvance
      BY <3>2 DEF RdCopy, RdAdvance, Reading
    <3>3. CASE WrTest \/ WrEnable \/ WrSpin \/ WrStore \/ WrExit \/ Close
      BY <3>3 DEF WrTest, WrEnable, WrSpin, WrStore, WrExit, Close, Writing
    <3>4. CASE WrAdvance
      BY <3>4 DEF WrAdvance, Writing
    <3>5. QED
      BY <1>9, <3>1, <3>2, <3>3, <3>4 DEF FastStep
  <2>4. PICK s \in PC, c \in {count, count + 1, count - 1} : Proceed(s, c)
    BY <2>3
  <2>5. c \in Int
    BY <1>1, <2>4 DEF CallTypes
  <2>6. QED
    BY <1>1, <1>8, <2>1, <2>2, <2>4, <2>5 DEF CallTypes
<1>10. CASE SmallStep
  <2>1. isr' = isr /\ ctrl' = ctrl
    BY <1>10 DEF SmallStep, SrStatus, SrClear, SrData, SwStatus, SwData
  <2>2. status' \subseteq StatusBits
    BY <1>1, <1>2, <1>10 DEF SmallStep, SrStatus, SrClear, SrData, SwStatus, SwData, CallTypes
  <2>3. \E s \in PC, c \in {count, count - 1} : Proceed(s, c)
    <3>1. CASE SrStatus \/ SwStatus \/ SwData
      BY <3>1 DEF SrStatus, SwStatus, SwData, Polling
    <3>2. CASE SrClear \/ SrData
      BY <3>2 DEF SrClear, SrData, Again, Polling
    <3>3. QED
      BY <1>10, <3>1, <3>2 DEF SmallStep
  <2>4. PICK s \in PC, c \in {count, count - 1} : Proceed(s, c)
    BY <2>3
  <2>5. c \in Int
    BY <1>1, <2>4 DEF CallTypes
  <2>6. QED
    BY <1>1, <1>8, <2>1, <2>2, <2>4, <2>5 DEF CallTypes
<1>11. QED
  BY <1>4, <1>5, <1>6, <1>7, <1>9, <1>10 DEF Next, CoreStep, Call

\* The counts are natural numbers.
LEMMA CountTypeStep == ASSUME IInv, Next PROVE CountTypes'
<1> USE DEF build, core, rxRing, txRing, handler, call, counts, At, Arm
<1>1. /\ CountTypes /\ tx.data \in Nat /\ rx.data \in Nat
      /\ rxStart # BufLen => rxBuf[rxStart] \in Nat
  <2>1. CountTypes /\ UartCoreTypes /\ RingTypes
    BY TypeParts DEF IInv
  <2>2. tx.data \in Nat /\ rx.data \in Nat
    BY <2>1 DEF UartCoreTypes, TxState, UartState, Character
  <2>3. rxStart # BufLen => rxStart \in Slot
    BY <2>1, BufLenAssumption DEF RingTypes, Slot
  <2>4. rxStart # BufLen => rxBuf[rxStart] \in Nat
    BY <2>1, <2>3 DEF RingTypes
  <2>5. QED
    BY <2>1, <2>2, <2>4
<1>2. CASE CoreStep
  BY <1>1, <1>2 DEF CoreStep, CharArrives, Shift, CtsChange, CountTypes
<1>3. CASE RxIrq
  <2>1. arrived' \in {arrived, arrived + 1}
    BY <1>3, ReadRxDataFacts DEF RxIrq
  <2>2. QED
    BY <1>1, <1>3, <2>1 DEF RxIrq, CountTypes
<1>4. CASE Irq \/ IrqClear \/ RxIrqError \/ TxIrq
  BY <1>1, <1>4 DEF Irq, IrqClear, RxIrqError, TxIrq, CountTypes
<1>5. CASE Call
  BY <1>1, <1>5 DEF Call, CallRead, CallWrite, CallClose, Start, CountTypes
<1>6. CASE RdCopy
  <2>1. rxStart # BufLen
    BY <1>6 DEF RdCopy, IInv, RxInv
  <2>2. QED
    BY <1>1, <1>6, <2>1 DEF RdCopy, CountTypes
<1>7. CASE WrAdvance
  BY <1>1, <1>7 DEF WrAdvance, CountTypes
<1>8. CASE \/ RdTest \/ RdAdvance \/ RdMask \/ RdEmpty \/ RdEnable \/ RdExit
           \/ WrTest \/ WrEnable \/ WrSpin \/ WrStore \/ WrExit \/ Close
  BY <1>1, <1>8 DEF RdTest, RdAdvance, RdMask, RdEmpty, RdEnable, RdExit, WrTest, WrEnable,
     WrSpin, WrStore, WrExit, Close, CountTypes
<1>9. CASE SrData
  <2>1. arrived' \in {arrived, arrived + 1}
    BY <1>9, ReadRxDataFacts DEF SrData
  <2>2. delivered' \in {delivered, rx.data}
    BY <1>9 DEF SrData
  <2>3. QED
    BY <1>1, <1>9, <2>1, <2>2 DEF SrData, CountTypes
<1>10. CASE SrStatus \/ SrClear \/ SwStatus \/ SwData
  BY <1>1, <1>10 DEF SrStatus, SrClear, SwStatus, SwData, CountTypes
<1>11. QED
  BY <1>2, <1>3, <1>4, <1>5, <1>6, <1>7, <1>8, <1>9, <1>10
     DEF Next, Handler, CoreStep, FastStep, SmallStep

LEMMA TypeStep == ASSUME IInv, Next PROVE TypeOK'
  BY CoreTypeStep, RingTypeStep, CallTypeStep, CountTypeStep, Zenon
     DEF TypeOK, UartCoreTypes, RingTypes, CallTypes, CountTypes

\* What is known of the boolean parts and of the places in the code.
LEMMA HandlerStep == ASSUME IInv, Next PROVE HandlerInv'
<1> USE DEF build, core, rxRing, txRing, handler, call, counts, At, Arm
<1>1. HandlerInv
  BY DEF IInv
<1>2. CASE CoreStep
  <2>1. CASE CharArrives
    <3>1. rx'.rrdy /\ UNCHANGED <<small, fc, dcts, status, isr, tx, pc, txStart, txEnd, rxStart, rxEnd>>
      BY <2>1, ArriveFacts DEF CharArrives
    <3>2. QED
      BY <1>1, <3>1 DEF HandlerInv
  <2>2. CASE Shift
    <3>1. tx'.trdy /\ UNCHANGED <<small, fc, dcts, status, isr, rx, pc, txStart, txEnd, rxStart, rxEnd>>
      BY <2>2 DEF Shift
    <3>2. QED
      BY <1>1, <3>1 DEF HandlerInv
  <2>3. CASE CtsChange
    <3>1. fc /\ UNCHANGED <<small, fc, status, isr, rx, tx, pc, txStart, txEnd, rxStart, rxEnd>>
      BY <2>3 DEF CtsChange
    <3>2. QED
      BY <1>1, <3>1 DEF HandlerInv
  <2>4. QED
    BY <1>2, <2>1, <2>2, <2>3 DEF CoreStep
<1>3. CASE Irq
  <2>1. /\ ~small /\ isr' = "clear" /\ status' = StatusRegister
        /\ UNCHANGED <<small, fc, dcts, rx, tx, pc, txStart, txEnd, rxStart, rxEnd>>
    BY <1>3 DEF Irq
  <2>2. /\ "DCTS" \in status' <=> dcts
        /\ "TRDY" \in status' <=> tx.trdy
        /\ "RRDY" \in status' <=> rx.rrdy
    BY <2>1 DEF StatusRegister, StatusBits
  <2>3. pc \notin Polling
    BY <1>1, <2>1 DEF HandlerInv
  <2>4. pc # "srClear" /\ pc # "srData" /\ pc # "swData"
    BY <2>3 DEF Polling
  <2>5. QED
    BY <1>1, <2>1, <2>2, <2>4 DEF HandlerInv
<1>4. CASE IrqClear
  <2>1. /\ isr = "clear" /\ rx'.rrdy = rx.rrdy /\ dcts' = FALSE
        /\ UNCHANGED <<small, fc, tx, pc, txStart, txEnd, rxStart, rxEnd>>
    BY <1>4, ClearFacts DEF IrqClear
  <2>2. \/ isr' = "rx" /\ "RRDY" \in status /\ status' = status
        \/ isr' = "tx" /\ status \cap {"TRDY", "DCTS"} # {} /\ status' = status
        \/ isr' = "off" /\ status' = {}
    BY <1>4 DEF IrqClear, GoOn, AfterRx
  <2>3. QED
    BY <1>1, <2>1, <2>2 DEF HandlerInv
<1>5. CASE RxIrqError \/ RxIrq
  <2>1. /\ isr = "rx"
        /\ UNCHANGED <<small, fc, tx, pc, dcts, txStart, txEnd, rxStart>>
    BY <1>5 DEF RxIrqError, RxIrq
  <2>2. \/ isr' = "tx" /\ status \cap {"TRDY", "DCTS"} # {} /\ status' = status
        \/ isr' = "off" /\ status' = {}
    BY <1>5 DEF RxIrqError, RxIrq, GoOn, AfterRx
  <2>3. ~small /\ pc \notin Polling
    BY <1>1, <2>1 DEF HandlerInv
  <2>4. pc # "srClear" /\ pc # "srData" /\ pc # "swData"
    BY <2>3 DEF Polling
  <2>5. QED
    BY <1>1, <2>1, <2>2, <2>3, <2>4 DEF HandlerInv
<1>6. CASE TxIrq
  <2>1. /\ isr = "tx" /\ isr' = "off" /\ status' = {}
        /\ UNCHANGED <<small, fc, rx, pc, dcts, txEnd, rxStart, rxEnd>>
    BY <1>6 DEF TxIrq, GoOn
  <2>2. ~small /\ pc \notin Polling
    BY <1>1, <2>1 DEF HandlerInv
  <2>3. pc # "srClear" /\ pc # "srData" /\ pc # "swData"
    BY <2>2 DEF Polling
  <2>4. QED
    BY <1>1, <2>1, <2>2, <2>3 DEF HandlerInv
<1>7. CASE Call
  <2>1. UNCHANGED <<small, fc, rx, tx, dcts, isr, status, txStart, txEnd, rxStart, rxEnd>>
    BY <1>7 DEF Call, CallRead, CallWrite, CallClose, Start
  <2>2. IF small THEN pc' \in {"srStatus", "swStatus"} ELSE pc' \in {"rdTest", "wrTest", "close"}
    BY <1>7 DEF Call, CallRead, CallWrite, CallClose, Start
  <2>3. QED
    BY <1>1, <2>1, <2>2 DEF HandlerInv, Reading, Writing, Polling
<1>8. CASE FastStep
  <2>1. ~small
    <3>1. pc \in Reading \cup Writing \cup {"close"}
      BY <1>8 DEF FastStep, RdTest, RdCopy, RdAdvance, RdMask, RdEmpty, RdEnable, RdExit, WrTest,
         WrEnable, WrSpin, WrStore, WrAdvance, WrExit, Close, Reading, Writing
    <3>2. QED
      BY <1>1, <3>1 DEF HandlerInv
  <2>2. UNCHANGED <<small, fc, rx, tx, dcts, isr, status>>
    BY <1>8 DEF FastStep, RdTest, RdCopy, RdAdvance, RdMask, RdEmpty, RdEnable, RdExit, WrTest,
       WrEnable, WrSpin, WrStore, WrAdvance, WrExit, Close
  <2>3. pc' \in {"idle"} \cup Reading \cup Writing
    BY <1>8 DEF FastStep, RdTest, RdCopy, RdAdvance, RdMask, RdEmpty, RdEnable, RdExit, WrTest,
       WrEnable, WrSpin, WrStore, WrAdvance, WrExit, Close, Proceed, Reading, Writing
  <2>4. QED
    BY <1>1, <2>1, <2>2, <2>3 DEF HandlerInv, Reading, Writing, Polling
<1>9. CASE SmallStep
  <2>1. small
    <3>1. pc \in Polling
      BY <1>9 DEF SmallStep, SrStatus, SrClear, SrData, SwStatus, SwData, Polling
    <3>2. QED
      BY <1>1, <3>1 DEF HandlerInv
  <2>2. isr = "off" /\ ~fc
    BY <1>1, <2>1 DEF HandlerInv
  <2>3. UNCHANGED <<small, fc, isr, txStart, txEnd, rxStart, rxEnd>>
    BY <1>9 DEF SmallStep, SrStatus, SrClear, SrData, SwStatus, SwData
  <2>4. CASE SrStatus
    <3>1. /\ status' = StatusRegister /\ pc' = "srClear" /\ UNCHANGED <<rx, tx, dcts>>
      BY <2>4 DEF SrStatus, Proceed
    <3>2. /\ "DCTS" \in status' <=> dcts
          /\ "RRDY" \in status' <=> rx.rrdy
      BY <3>1 DEF StatusRegister, StatusBits
    <3>3. QED
      BY <1>1, <2>1, <2>2, <2>3, <3>1, <3>2 DEF HandlerInv, Reading, Writing, Polling
  <2>5. CASE SrClear
    <3>1. /\ rx'.rrdy = rx.rrdy /\ dcts' = FALSE /\ tx' = tx /\ status' \subseteq {"FE"}
      BY <2>5, ClearFacts DEF SrClear
    <3>2. pc = "srClear" /\ ((pc' = "srData" /\ "RRDY" \in status) \/ pc' \in {"srStatus", "idle"})
      BY <2>5 DEF SrClear, Again, Proceed
    <3>3. QED
      BY <1>1, <2>1, <2>2, <2>3, <3>1, <3>2 DEF HandlerInv, Reading, Writing, Polling
  <2>6. CASE SrData \/ SwStatus \/ SwData
    <3>1. pc' \in {"srStatus", "idle", "swStatus", "swData"} /\ (pc' = "swData" => tx'.trdy)
      BY <2>6 DEF SrData, SwStatus, SwData, Again, Proceed
    <3>2. dcts' = dcts /\ status' \subseteq status
      BY <2>6 DEF SrData, SwStatus, SwData
    <3>3. QED
      BY <1>1, <2>1, <2>2, <2>3, <3>1, <3>2 DEF HandlerInv, Reading, Writing, Polling
  <2>7. QED
    BY <1>9, <2>4, <2>5, <2>6 DEF SmallStep
<1>10. QED
  BY <1>2, <1>3, <1>4, <1>5, <1>6, <1>7, <1>8, <1>9 DEF Next, Handler, CoreStep

\* Nothing is spent twice: what write() still has to do is reserved.
LEMMA BoundStep == ASSUME IInv, Next PROVE BoundInv'
<1> USE DEF build, core, rxRing, txRing, handler, call, counts, At, Arm
<1> DEFINE W == Writing \cup {"swStatus", "swData"}
           Busy == {"wrEnable", "wrSpin", "wrStore", "wrAdvance", "swStatus", "swData"}
           Sum == arrived + accepted + turns
<1>1. /\ arrived \in Nat /\ accepted \in Nat /\ turns \in Nat /\ count \in Int
      /\ Sum + (IF pc \in W THEN count ELSE 0) <= Budget
      /\ pc \in W => count >= 0
      /\ pc \in Busy => count >= 1
      /\ Budget \in Nat
  BY BudgetAssumption DEF IInv, TypeOK, BoundInv, Spent, Writing
<1>2. SUFFICES /\ Sum' + (IF pc' \in W THEN count' ELSE 0) <= Budget
               /\ pc' \in Writing => count' >= 0
               /\ pc' \in Busy => count' >= 1
  BY DEF BoundInv, Spent
<1>3. CASE CoreStep \/ Handler
  <2>1. UNCHANGED <<pc, count, accepted>>
    BY <1>3 DEF CoreStep, CharArrives, Shift, CtsChange, Handler, Irq, IrqClear, RxIrqError,
       RxIrq, TxIrq
  <2>2. \/ arrived' = arrived /\ turns' = turns
        \/ arrived' = arrived + 1 /\ turns' = turns /\ Spent < Budget
        \/ arrived' = arrived /\ turns' = turns + 1 /\ Spent < Budget
    <3>1. CASE RxIrq
      BY <3>1, ReadRxDataFacts DEF RxIrq
    <3>2. CASE ~RxIrq
      BY <1>3, <3>2 DEF CoreStep, CharArrives, Shift, CtsChange, Handler, Irq, IrqClear,
         RxIrqError, TxIrq
    <3>3. QED
      BY <3>1, <3>2
  <2>3. QED
    BY <1>1, <2>1, <2>2 DEF Spent
<1>4. ASSUME NEW n \in Lens, NEW b \in BOOLEAN, CallWrite(n, b)
      PROVE  /\ Sum' + (IF pc' \in W THEN count' ELSE 0) <= Budget
             /\ pc' \in Writing => count' >= 0
             /\ pc' \in Busy => count' >= 1
  <2>1. /\ UNCHANGED <<arrived, accepted, turns>> /\ count' = n /\ n \in Nat
        /\ pc = "idle" /\ Spent + n <= Budget
        /\ \/ pc' = "swStatus" /\ n # 0
           \/ pc' = "wrTest"
    BY <1>4, LensAssumption DEF CallWrite, Start
  <2>2. Spent = Sum
    BY <1>1, <2>1 DEF Spent, Writing
  <2>3. QED
    BY <1>1, <2>1, <2>2 DEF Writing
<1>5. CASE \/ \E n \in Lens, b \in BOOLEAN : CallRead(n, b)
           \/ \E b \in BOOLEAN : CallClose(b)
  <2>1. /\ UNCHANGED <<arrived, accepted, turns>> /\ count' = 0 /\ pc = "idle"
        /\ pc' \in {"srStatus", "rdTest", "close"}
    BY <1>5 DEF CallRead, CallClose, Start
  <2>2. QED
    BY <1>1, <2>1 DEF Writing
<1>6. CASE RdTest \/ RdCopy \/ RdAdvance \/ RdMask \/ RdEmpty \/ RdEnable \/ RdExit \/ Close
  <2>1. UNCHANGED <<arrived, accepted, turns>> /\ pc \in Reading \cup {"close"}
    BY <1>6 DEF RdTest, RdCopy, RdAdvance, RdMask, RdEmpty, RdEnable, RdExit, Close, Reading
  <2>2. pc' \in Reading \cup {"idle"}
    BY <1>6 DEF RdTest, RdCopy, RdAdvance, RdMask, RdEmpty, RdEnable, RdExit, Close, Reading, Proceed
  <2>3. QED
    BY <1>1, <2>1, <2>2 DEF Writing, Reading
<1>7. CASE WrTest \/ WrEnable \/ WrSpin \/ WrStore \/ WrExit
  <2>1. /\ UNCHANGED <<arrived, accepted, turns>> /\ pc \in Writing
        /\ \/ pc' = "idle"
           \/ pc' = "wrExit" /\ count' = count
           \/ pc' \in Busy /\ count' = count /\ (count # 0 \/ pc \in Busy)
    BY <1>7 DEF WrTest, WrEnable, WrSpin, WrStore, WrExit, Writing, Proceed
  <2>2. QED
    BY <1>1, <2>1 DEF Writing
<1>8. CASE WrAdvance
  <2>1. /\ UNCHANGED <<arrived, turns>> /\ accepted' = accepted + 1
        /\ pc = "wrAdvance" /\ pc' = "wrTest" /\ count' = count - 1
    BY <1>8 DEF WrAdvance, Proceed
  <2>2. QED
    BY <1>1, <2>1 DEF Writing
<1>9. CASE SrStatus \/ SrClear \/ SrData
  <2>1. /\ UNCHANGED <<accepted, turns>> /\ pc \in {"srStatus", "srClear", "srData"}
        /\ pc' \in {"srStatus", "srClear", "srData", "idle"}
    BY <1>9 DEF SrStatus, SrClear, SrData, Again, Proceed
  <2>2. arrived' = arrived \/ (arrived' = arrived + 1 /\ Spent < Budget)
    <3>1. CASE SrData
      BY <3>1, ReadRxDataFacts DEF SrData
    <3>2. CASE ~SrData
      BY <1>9, <3>2 DEF SrStatus, SrClear
    <3>3. QED
      BY <3>1, <3>2
  <2>3. Spent = Sum
    BY <1>1, <2>1 DEF Spent, Writing
  <2>4. QED
    BY <1>1, <2>1, <2>2, <2>3 DEF Writing
<1>10. CASE SwStatus
  <2>1. /\ UNCHANGED <<arrived, accepted, turns>> /\ pc = "swStatus"
        /\ pc' = "idle" \/ (pc' = "swData" /\ count' = count)
    BY <1>10 DEF SwStatus, Proceed
  <2>2. QED
    BY <1>1, <2>1 DEF Writing
<1>11. CASE SwData
  <2>1. /\ UNCHANGED <<arrived, turns>> /\ accepted' = accepted + 1 /\ pc = "swData"
        /\ pc' = "idle" \/ (pc' = "swStatus" /\ count # 1 /\ count' = count - 1)
    BY <1>11 DEF SwData, Proceed
  <2>2. QED
    BY <1>1, <2>1 DEF Writing
<1>12. QED
  BY <1>3, <1>4, <1>5, <1>6, <1>7, <1>8, <1>9, <1>10, <1>11
     DEF Next, CoreStep, FastStep, SmallStep, Call

\* Distances around the ring.
LEMMA PendingFacts ==
    ASSUME NEW a \in Slot, NEW b \in Slot
    PROVE  /\ Pending(a, b) \in 0 .. BufLen - 1
           /\ Pending(a, b) = 0 <=> a = b
           /\ Succ(b) # a => Pending(a, Succ(b)) = Pending(a, b) + 1
           /\ a # b => Pending(Succ(a), b) = Pending(a, b) - 1
           /\ Succ(b) = a <=> Pending(a, b) = BufLen - 1
           /\ Pending(Succ(a), a) = BufLen - 1
  BY BufLenAssumption DEF Slot, Pending, Succ

\* A character is taken out: the others come one nearer, and there is room.
LEMMA AdvanceStart ==
    ASSUME NEW a \in Slot, NEW b \in Slot, a # b
    PROVE  /\ Succ(b) # Succ(a)
           /\ Pending(Succ(a), b) = Pending(a, b) - 1
           /\ \A i \in Slot : Pending(Succ(a), i) < Pending(Succ(a), b) =>
                 Pending(a, i) = Pending(Succ(a), i) + 1
  BY BufLenAssumption DEF Slot, Pending, Succ

LEMMA PendingInjective ==
    ASSUME NEW a \in Slot, NEW b \in Slot, NEW c \in Slot
    PROVE  Pending(a, b) = Pending(a, c) <=> b = c
  BY BufLenAssumption DEF Slot, Pending

\* The transmit side, as it is: what is in the ring, and what is in TXDATA.
LEMMA TxTypes ==
    ASSUME IInv
    PROVE  /\ txStart \in Slot /\ txEnd \in Slot /\ txBuf \in [Slot -> Nat]
           /\ accepted \in Nat /\ sent \in Nat /\ tx \in TxState /\ tx.data \in Nat
           /\ Pending(txStart, txEnd) \in 0 .. BufLen - 1
           /\ Taken \in Nat /\ TxInv
<1>1. /\ txStart \in Slot /\ txEnd \in Slot /\ txBuf \in [Slot -> Nat]
      /\ accepted \in Nat /\ sent \in Nat /\ tx \in TxState /\ TxInv
  BY DEF IInv, TypeOK
<1>2. Pending(txStart, txEnd) \in 0 .. BufLen - 1
  BY <1>1, PendingFacts
<1>3. Taken \in Nat
  BY <1>1, <1>2, BufLenAssumption DEF TxInv, Taken
<1>4. QED
  BY <1>1, <1>2, <1>3 DEF TxState

\* A step that touches neither the ring nor TXDATA.
LEMMA TxFrame ==
    ASSUME IInv, UNCHANGED <<fc, tx, sent, accepted, txBuf, txStart, txEnd>>,
           \/ pc' = pc
           \/ pc' \notin {"wrStore", "wrAdvance"}
           \/ pc' = "wrStore" /\ Succ(txEnd) # txStart
    PROVE  TxInv'
<1>1. TxInv
  BY DEF IInv
<1>2. Taken' = Taken
  BY DEF Taken, Pending
<1>3. \A i \in Slot : Pending(txStart, i)' = Pending(txStart, i)
  BY DEF Pending
<1>4. Succ(txEnd)' = Succ(txEnd) /\ Pending(txStart, txEnd)' = Pending(txStart, txEnd)
  BY DEF Succ, Pending
<1>5. QED
  BY <1>1, <1>2, <1>3, <1>4 DEF TxInv

LEMMA TxStep == ASSUME IInv, Next PROVE TxInv'
<1> USE DEF build, core, rxRing, txRing, handler, call, counts, At, Arm
<1> USE TxTypes
<1>1. HandlerInv /\ BufLen \in Nat
  BY BufLenAssumption DEF IInv
<1>2. CASE Shift
  <2>1. /\ UNCHANGED <<fc, accepted, txBuf, txStart, txEnd, pc>>
        /\ ~tx.trdy /\ tx'.trdy /\ tx'.data = tx.data /\ sent' = tx.data
    BY <1>2 DEF Shift
  <2>2. /\ Taken' = Taken
        /\ \A i \in Slot : Pending(txStart, i)' = Pending(txStart, i)
        /\ Succ(txEnd)' = Succ(txEnd) /\ Pending(txStart, txEnd)' = Pending(txStart, txEnd)
    BY <2>1 DEF Taken, Pending, Succ
  <2>3. QED
    BY <2>1, <2>2 DEF TxInv
<1>3. CASE TxIrq
  <2>1. CASE UNCHANGED <<tx, txStart>>
    BY <1>3, <2>1, TxFrame DEF TxIrq
  <2>2. CASE /\ txStart # txEnd
             /\ MayTransmit
             /\ WriteTxData(txBuf[txStart])
             /\ txStart' = Succ(txStart)
    <3>1. /\ UNCHANGED <<fc, accepted, sent, txBuf, txEnd, pc>>
          /\ tx'.trdy = FALSE /\ tx'.data = txBuf[txStart]
          /\ isr = "tx"
      BY <1>3, <2>2 DEF TxIrq, WriteTxData
    <3>2. Pending(txStart, txStart) = 0 /\ Pending(txStart, txEnd) > 0
      BY <2>2, PendingFacts
    <3>3. txBuf[txStart] = Taken + 1
      BY <3>2 DEF TxInv
    <3>4. /\ \A i \in Slot : Pending(txStart, i)' = Pending(Succ(txStart), i)
          /\ Pending(txStart, txEnd)' = Pending(Succ(txStart), txEnd)
      BY <2>2, <3>1 DEF Pending
    <3>5. Pending(Succ(txStart), txEnd) = Pending(txStart, txEnd) - 1
      BY <2>2, AdvanceStart
    <3>6. Taken' = Taken + 1
      BY <3>1, <3>4, <3>5 DEF Taken
    <3>7. \A i \in Slot : Pending(txStart, i)' < Pending(txStart, txEnd)' =>
             txBuf'[i] = Taken' + 1 + Pending(txStart, i)'
      <4>1. SUFFICES ASSUME NEW i \in Slot, Pending(Succ(txStart), i) < Pending(Succ(txStart), txEnd)
                     PROVE  txBuf[i] = Taken' + 1 + Pending(Succ(txStart), i)
        BY <3>1, <3>4
      <4>2. Pending(txStart, i) = Pending(Succ(txStart), i) + 1
        BY <2>2, <4>1, AdvanceStart
      <4>3. Pending(Succ(txStart), i) \in 0 .. BufLen - 1
        BY SuccSlot, PendingFacts
      <4>4. Pending(txStart, i) < Pending(txStart, txEnd)
        BY <3>5, <4>1, <4>2, <4>3
      <4>5. txBuf[i] = Taken + 1 + Pending(txStart, i)
        BY <4>4 DEF TxInv
      <4>6. QED
        BY <3>6, <4>2, <4>3, <4>5
    <3>8. pc \in {"wrStore", "wrAdvance"} => Succ(txEnd)' # txStart'
      <4>1. Succ(txEnd) # Succ(txStart)
        BY <2>2, AdvanceStart
      <4>2. Succ(txEnd)' = Succ(txEnd)
        BY <3>1 DEF Succ
      <4>3. QED
        BY <2>2, <4>1, <4>2
    <3>9. ~fc => tx.trdy
      BY <1>1, <3>1 DEF HandlerInv
    <3>10. sent < Taken' /\ (~fc => sent + 1 = Taken')
      BY <3>6, <3>9 DEF TxInv
    <3>11. QED
      BY <3>1, <3>3, <3>6, <3>7, <3>8, <3>10 DEF TxInv
  <2>3. QED
    BY <1>3, <2>1, <2>2 DEF TxIrq
<1>4. CASE WrStore
  <2>1. /\ UNCHANGED <<fc, tx, sent, accepted, txStart, txEnd>>
        /\ txBuf' = [txBuf EXCEPT ![txEnd] = accepted + 1]
        /\ pc = "wrStore" /\ pc' = "wrAdvance"
    BY <1>4 DEF WrStore, Proceed
  <2>2. /\ Taken' = Taken
        /\ \A i \in Slot : Pending(txStart, i)' = Pending(txStart, i)
        /\ Succ(txEnd)' = Succ(txEnd) /\ Pending(txStart, txEnd)' = Pending(txStart, txEnd)
    BY <2>1 DEF Taken, Pending, Succ
  <2>3. \A i \in Slot : Pending(txStart, i) < Pending(txStart, txEnd) => txBuf'[i] = txBuf[i]
    BY <2>1
  <2>4. txBuf'[txEnd] = accepted + 1
    BY <2>1
  <2>5. QED
    BY <2>1, <2>2, <2>3, <2>4 DEF TxInv
<1>5. CASE WrAdvance
  <2>1. /\ UNCHANGED <<fc, tx, sent, txBuf, txStart>>
        /\ txEnd' = Succ(txEnd) /\ accepted' = accepted + 1
        /\ pc = "wrAdvance" /\ pc' = "wrTest"
    BY <1>5 DEF WrAdvance, Proceed
  <2>2. /\ Succ(txEnd) # txStart /\ txBuf[txEnd] = accepted + 1
    BY <2>1 DEF TxInv
  <2>3. Pending(txStart, txEnd)' = Pending(txStart, txEnd) + 1
    BY <2>1, <2>2, PendingFacts DEF Pending
  <2>4. Taken' = Taken
    BY <2>1, <2>3 DEF Taken
  <2>5. \A i \in Slot : Pending(txStart, i)' = Pending(txStart, i)
    BY <2>1 DEF Pending
  <2>6. \A i \in Slot : Pending(txStart, i) < Pending(txStart, txEnd) + 1 =>
           txBuf[i] = Taken + 1 + Pending(txStart, i)
    <3>1. SUFFICES ASSUME NEW i \in Slot, Pending(txStart, i) = Pending(txStart, txEnd)
                   PROVE  txBuf[i] = Taken + 1 + Pending(txStart, i)
      <4>1. \A i \in Slot : Pending(txStart, i) \in Int
        BY PendingFacts
      <4>2. QED
        BY <4>1 DEF TxInv
    <3>2. i = txEnd
      BY <3>1, PendingInjective
    <3>3. QED
      BY <2>2, <3>2 DEF Taken
  <2>7. QED
    BY <2>1, <2>3, <2>4, <2>5, <2>6 DEF TxInv
<1>6. CASE SwData
  <2>1. /\ UNCHANGED <<fc, sent, txBuf, txStart, txEnd>>
        /\ tx'.trdy = FALSE /\ tx'.data = accepted + 1
        /\ accepted' = accepted + 1
        /\ pc = "swData" /\ pc' \in {"swStatus", "idle"}
    BY <1>6 DEF SwData, WriteTxData, Proceed
  <2>2. tx.trdy /\ txStart = txEnd
    <3>1. tx.trdy
      BY <1>1, <2>1 DEF HandlerInv
    <3>2. small
      BY <1>1, <2>1 DEF HandlerInv, Polling
    <3>3. QED
      BY <1>1, <3>1, <3>2 DEF HandlerInv
  <2>3. Pending(txStart, txEnd) = 0 /\ Pending(txStart, txEnd)' = 0
    <3>1. Pending(txStart, txEnd) = 0
      BY <2>2, PendingFacts
    <3>2. Pending(txStart, txEnd)' = Pending(txStart, txEnd)
      BY <2>1 DEF Pending
    <3>3. QED
      BY <3>1, <3>2
  <2>4. Taken = accepted /\ Taken' = accepted + 1
    BY <2>1, <2>3 DEF Taken
  <2>5. \A i \in Slot : ~(Pending(txStart, i)' < 0)
    BY <2>1, PendingFacts DEF Pending
  <2>6. QED
    BY <2>1, <2>2, <2>3, <2>4, <2>5 DEF TxInv
<1>7. CASE CharArrives \/ CtsChange \/ Irq \/ IrqClear \/ RxIrqError \/ RxIrq
  BY <1>7, TxFrame DEF CharArrives, CtsChange, Irq, IrqClear, RxIrqError, RxIrq
<1>8. CASE Call
  BY <1>8, TxFrame DEF Call, CallRead, CallWrite, CallClose, Start
<1>9. CASE \/ RdTest \/ RdCopy \/ RdAdvance \/ RdMask \/ RdEmpty \/ RdEnable \/ RdExit
           \/ WrEnable \/ WrExit \/ Close
  BY <1>9, TxFrame DEF RdTest, RdCopy, RdAdvance, RdMask, RdEmpty, RdEnable, RdExit,
     WrEnable, WrExit, Close, Proceed
<1>10. CASE WrTest \/ WrSpin
  BY <1>10, TxFrame DEF WrTest, WrSpin, Proceed, Full
<1>11. CASE SrStatus \/ SrClear \/ SrData \/ SwStatus
  BY <1>11, TxFrame DEF SrStatus, SrClear, SrData, SwStatus, Again, Proceed
<1>12. QED
  BY <1>2, <1>3, <1>4, <1>5, <1>6, <1>7, <1>8, <1>9, <1>10, <1>11
     DEF Next, Handler, FastStep, SmallStep

\* The receive side, as it is.
LEMMA RxTypes ==
    ASSUME IInv
    PROVE  /\ rxStart \in 0 .. BufLen /\ rxEnd \in Slot /\ First \in Slot
           /\ rxBuf \in [Slot -> Nat] /\ arrived \in Nat /\ delivered \in Nat
           /\ rx.data \in Nat /\ BufLen \in Nat
           /\ \A i \in Slot : Order(i) \in 0 .. BufLen - 1
           /\ RxInv /\ HandlerInv
<1> USE BufLenAssumption
<1>1. /\ rxStart \in 0 .. BufLen /\ rxEnd \in Slot
      /\ rxBuf \in [Slot -> Nat] /\ arrived \in Nat /\ delivered \in Nat
      /\ rx \in UartState /\ RxInv /\ HandlerInv
  BY DEF IInv, TypeOK
<1>2. First \in Slot
  BY <1>1 DEF First, Slot
<1>3. \A i \in Slot : Order(i) \in 0 .. BufLen - 1
  BY <1>1, PendingFacts DEF Order
<1>4. rx.data \in Nat
  BY <1>1 DEF UartState, Character
<1>5. QED
  BY <1>1, <1>2, <1>3, <1>4

Between == {"rdCopy", "rdAdvance", "rdMask"}

\* A step that touches neither the ring nor what was delivered.
LEMMA RxFrame ==
    ASSUME IInv, UNCHANGED <<arrived, delivered, rxBuf, rxStart, rxEnd>>,
           rx'.data = rx.data, rx'.rrdy = rx.rrdy,
           \/ pc' = pc
           \/ pc \notin Between /\ pc' \notin Between
    PROVE  RxInv'
<1>1. RxInv
  BY DEF IInv
<1>2. First' = First /\ \A i \in Slot : Order(i)' = Order(i)
  BY DEF First, Order, Pending
<1>3. Order(First)' = Order(First)
  BY DEF First, Order, Pending
<1>4. QED
  BY <1>1, <1>2, <1>3 DEF RxInv, Between

\* The handler stores a character, whatever the caller is doing: when the ring
\* overflows the oldest ones are gone, and the order is kept.
LEMMA RxIrqStep == ASSUME IInv, RxIrq PROVE RxInv'
<1> USE DEF build, core, rxRing, txRing, handler, call, counts
<1> USE RxTypes
<1>1. /\ UNCHANGED <<rxStart, delivered, pc>> /\ isr = "rx"
      /\ rxBuf' = [rxBuf EXCEPT ![rxEnd] = rx.data] /\ rxEnd' = Succ(rxEnd)
      /\ ReadRxData
  BY DEF RxIrq
<1>2. /\ rx'.rrdy = FALSE
      /\ \/ rx'.data = rx.data /\ arrived' = arrived
         \/ rx'.data = arrived' /\ arrived' = arrived + 1
  BY <1>1, ReadRxDataFacts
<1>3. rx.rrdy
  BY <1>1 DEF HandlerInv
<1>4. /\ delivered < rx.data /\ rx.data <= arrived
      /\ \A i \in Slot : rxBuf[i] < rx.data /\ rxBuf[i] \in Nat
  BY <1>3 DEF RxInv
<1>5. /\ rxBuf'[rxEnd] = rx.data
      /\ \A i \in Slot : i # rxEnd => rxBuf'[i] = rxBuf[i]
  BY <1>1
<1>6. First' = First
  BY <1>1 DEF First
<1> DEFINE O(i) == Pending(rxEnd, i)
           O2(i) == Pending(Succ(rxEnd), i)
<1>7. /\ O2(rxEnd) = BufLen - 1
      /\ \A i \in Slot : i # rxEnd => O2(i) = O(i) - 1
      /\ \A i \in Slot : O(i) \in 0 .. BufLen - 1 /\ O2(i) \in 0 .. BufLen - 1
  BY PendingFacts, SuccSlot
<1>8. /\ \A i \in Slot : Order(i) = O(i) /\ Order(i)' = O2(i)
      /\ Order(First)' = O2(First)
  BY <1>1, <1>6 DEF Order, Pending
<1> HIDE DEF O, O2
<1>9. /\ rxStart' = BufLen => pc' = "rdMask"
      /\ delivered' <= arrived' /\ rx'.data <= arrived'
      /\ \A i \in Slot : rxBuf'[i] <= arrived'
  <2>1. \A i \in Slot : rxBuf'[i] <= rx.data
    BY <1>4, <1>5
  <2>2. QED
    BY <1>1, <1>2, <1>4, <1>5, <2>1 DEF RxInv
<1>10. ASSUME NEW i \in Slot, NEW j \in Slot, O2(i) < O2(j)
       PROVE  rxBuf'[i] = 0 \/ rxBuf'[i] < rxBuf'[j]
  <2>1. i # rxEnd
    BY <1>7, <1>10
  <2>2. CASE j = rxEnd
    BY <1>4, <1>5, <2>1, <2>2
  <2>3. CASE j # rxEnd
    <3>1. O(i) < O(j)
      BY <1>7, <1>10, <2>1, <2>3
    <3>2. QED
      BY <1>5, <1>8, <2>1, <2>3, <3>1 DEF RxInv
  <2>4. QED
    BY <2>2, <2>3
<1>11. pc' = "rdCopy" => delivered' < rxBuf'[First]
  BY <1>1, <1>4, <1>5 DEF RxInv
<1>12. ASSUME NEW i \in Slot
       PROVE  IF pc' = "rdAdvance"
              THEN O2(First) < O2(i) => delivered' < rxBuf'[i]
              ELSE First # rxEnd' /\ O2(First) <= O2(i) => delivered' < rxBuf'[i]
  <2>1. CASE i = rxEnd
    BY <1>1, <1>4, <1>5, <2>1
  <2>2. CASE i # rxEnd
    <3>1. First = rxEnd => ~(O2(First) <= O2(i))
      BY <1>7, <2>2
    <3>2. First # rxEnd /\ O2(First) <= O2(i) => O(First) <= O(i)
      BY <1>7, <2>2
    <3>3. First # rxEnd /\ O2(First) < O2(i) => O(First) < O(i)
      BY <1>7, <2>2
    <3>4. O2(First) < O2(i) => O2(First) <= O2(i)
      BY <1>7
    <3>5. QED
      BY <1>1, <1>5, <1>8, <2>2, <3>1, <3>2, <3>3, <3>4 DEF RxInv
  <2>3. QED
    BY <2>1, <2>2
<1>13. QED
  BY <1>2, <1>6, <1>8, <1>9, <1>10, <1>11, <1>12 DEF RxInv

LEMMA RxStep == ASSUME IInv, Next PROVE RxInv'
<1> USE DEF build, core, rxRing, txRing, handler, call, counts, At, Arm
<1> USE RxTypes
<1>0. rxStart # BufLen => First = rxStart
  BY DEF First
<1>1. CASE CharArrives
  <2>1. /\ UNCHANGED <<delivered, rxBuf, rxStart, rxEnd, pc>>
        /\ arrived' = arrived + 1 /\ rx'.data = arrived + 1
    BY <1>1, ArriveFacts DEF CharArrives
  <2>2. /\ First' = First /\ Order(First)' = Order(First)
        /\ \A i \in Slot : Order(i)' = Order(i)
    BY <2>1 DEF First, Order, Pending
  <2>3. \A i \in Slot : rxBuf[i] <= arrived /\ rxBuf[i] \in Nat
    BY DEF RxInv
  <2>4. QED
    BY <2>1, <2>2, <2>3 DEF RxInv
<1>2. CASE RxIrq
  BY <1>2, RxIrqStep
<1>3. CASE IrqClear \/ SrClear
  <2>1. rx'.data = rx.data /\ rx'.rrdy = rx.rrdy
    BY <1>3, ClearFacts DEF IrqClear, SrClear
  <2>2. UNCHANGED <<arrived, delivered, rxBuf, rxStart, rxEnd>>
    BY <1>3 DEF IrqClear, SrClear
  <2>3. pc' = pc \/ (pc \notin Between /\ pc' \notin Between)
    BY <1>3 DEF IrqClear, SrClear, Again, Proceed, Between
  <2>4. QED
    BY <2>1, <2>2, <2>3, RxFrame
<1>4. CASE Shift \/ CtsChange \/ Irq \/ RxIrqError \/ TxIrq
  BY <1>4, RxFrame DEF Shift, CtsChange, Irq, RxIrqError, TxIrq
<1>5. CASE Call
  BY <1>5, RxFrame DEF Call, CallRead, CallWrite, CallClose, Start, Between
<1>6. CASE \/ RdEmpty \/ RdEnable \/ RdExit
           \/ WrTest \/ WrEnable \/ WrSpin \/ WrStore \/ WrAdvance \/ WrExit \/ Close
  BY <1>6, RxFrame DEF RdEmpty, RdEnable, RdExit, WrTest, WrEnable, WrSpin, WrStore, WrAdvance,
     WrExit, Close, Proceed, Between
<1>7. CASE SrStatus \/ SwStatus \/ SwData
  BY <1>7, RxFrame DEF SrStatus, SwStatus, SwData, Proceed, Between
<1>8. CASE RdTest
  <2>1. CASE pc' # "rdCopy"
    BY <1>8, <2>1, RxFrame DEF RdTest, Proceed, Between
  <2>2. CASE pc' = "rdCopy"
    <3>1. /\ UNCHANGED <<rx, arrived, delivered, rxBuf, rxStart, rxEnd>>
          /\ pc = "rdTest" /\ rxStart # rxEnd
      BY <1>8, <2>2 DEF RdTest, Proceed
    <3>2. rxStart # BufLen /\ First = rxStart
      BY <1>0, <3>1 DEF RxInv
    <3>3. delivered < rxBuf[First]
      BY <3>1, <3>2 DEF RxInv
    <3>4. /\ First' = First /\ Order(First)' = Order(First)
          /\ \A i \in Slot : Order(i)' = Order(i)
      BY <3>1 DEF First, Order, Pending
    <3>5. QED
      BY <2>2, <3>1, <3>2, <3>3, <3>4 DEF RxInv
  <2>3. QED
    BY <2>1, <2>2
<1>9. CASE RdCopy
  <2>1. /\ UNCHANGED <<rx, arrived, rxBuf, rxStart, rxEnd>>
        /\ pc = "rdCopy" /\ pc' = "rdAdvance" /\ delivered' = rxBuf[rxStart]
    BY <1>9 DEF RdCopy, Proceed
  <2>2. rxStart # BufLen /\ First = rxStart
    BY <1>0, <2>1 DEF RxInv
  <2>3. delivered < delivered' /\ delivered' <= arrived /\ (rx.rrdy => delivered' < rx.data)
    BY <2>1, <2>2 DEF RxInv
  <2>4. \A i \in Slot : Order(First) < Order(i) => delivered' < rxBuf[i]
    <3>1. rxBuf[First] # 0
      BY <2>1, <2>2, <2>3
    <3>2. QED
      BY <2>1, <2>2, <3>1 DEF RxInv
  <2>5. /\ First' = First /\ Order(First)' = Order(First)
        /\ \A i \in Slot : Order(i)' = Order(i)
    BY <2>1 DEF First, Order, Pending
  <2>6. QED
    BY <2>1, <2>2, <2>3, <2>4, <2>5 DEF RxInv
<1>10. CASE RdAdvance
  <2>1. /\ UNCHANGED <<rx, arrived, delivered, rxBuf, rxEnd>> /\ pc = "rdAdvance"
        /\ \/ rxStart' = Succ(rxStart) /\ pc' = "rdTest"
           \/ rxStart' = rxStart + 1 /\ pc' = "rdMask"
    BY <1>10 DEF RdAdvance, Proceed
  <2>2. rxStart # BufLen /\ First = rxStart /\ rxStart \in Slot
    BY <1>0, <2>1 DEF RxInv, Slot
  <2>3. First' = Succ(First)
    BY <2>1, <2>2, BufLenAssumption DEF First, Succ, Slot
  <2>4. rxStart' = BufLen => pc' = "rdMask"
    BY <2>1, <2>2, SuccSlot DEF Slot
  <2>5. Succ(First) # rxEnd => Order(Succ(First)) = Order(First) + 1
    BY PendingFacts DEF Order
  <2>6. /\ Order(First)' = Order(Succ(First))
        /\ \A i \in Slot : Order(i)' = Order(i)
    BY <2>1, <2>3 DEF Order, Pending
  <2>7. \A i \in Slot : Succ(First) # rxEnd /\ Order(Succ(First)) <= Order(i) => delivered < rxBuf[i]
    BY <2>1, <2>5 DEF RxInv
  <2>8. QED
    BY <2>1, <2>3, <2>4, <2>6, <2>7 DEF RxInv
<1>11. CASE RdMask
  <2>1. /\ UNCHANGED <<rx, arrived, delivered, rxBuf, rxEnd>> /\ pc = "rdMask" /\ pc' = "rdTest"
        /\ rxStart' = First
    BY <1>11 DEF RdMask, Proceed, First
  <2>0. First \in Slot
    BY RxTypes
  <2>a. rxStart' # BufLen
    BY <2>0, <2>1, BufLenAssumption DEF Slot
  <2>b. First' = First
    BY <2>1, <2>a DEF First
  <2>2. First' = First /\ rxStart' # BufLen
    BY <2>a, <2>b
  <2>3. /\ Order(First)' = Order(First)
        /\ \A i \in Slot : Order(i)' = Order(i)
    BY <2>1, <2>2 DEF Order, Pending
  <2>4. QED
    BY <2>1, <2>2, <2>3 DEF RxInv
<1>12. CASE SrData
  <2>1. /\ UNCHANGED <<rxBuf, rxStart, rxEnd>> /\ pc = "srData" /\ ReadRxData
        /\ delivered' \in {delivered, rx.data} /\ pc' \in {"srStatus", "idle"}
    BY <1>12 DEF SrData, Again, Proceed
  <2>2. rx.rrdy /\ rxStart = rxEnd
    BY <2>1 DEF HandlerInv, Polling
  <2>3. /\ rx'.rrdy = FALSE
        /\ \/ rx'.data = rx.data /\ arrived' = arrived
           \/ rx'.data = arrived' /\ arrived' = arrived + 1
    BY <2>1, ReadRxDataFacts
  <2>4. rxStart # BufLen /\ First' = rxEnd' /\ rxStart' # BufLen
    BY <2>1, <2>2 DEF RxInv, First
  <2>5. delivered' <= arrived' /\ rx'.data <= arrived' /\ \A i \in Slot : rxBuf[i] <= arrived'
    BY <2>1, <2>3 DEF RxInv
  <2>6. \A i \in Slot : Order(i)' = Order(i)
    BY <2>1 DEF Order, Pending
  <2>7. QED
    BY <2>1, <2>3, <2>4, <2>5, <2>6 DEF RxInv
<1>13. QED
  BY <1>1, <1>2, <1>3, <1>4, <1>5, <1>6, <1>7, <1>8, <1>9, <1>10, <1>11, <1>12
     DEF Next, Handler, FastStep, SmallStep

\* Every step keeps the invariant.
LEMMA NextInv == IInv /\ [Next]_vars => IInv'
<1>1. ASSUME IInv, Next PROVE IInv'
  BY <1>1, TypeStep, HandlerStep, BoundStep, TxStep, RxStep DEF IInv
<1>2. ASSUME IInv, UNCHANGED vars PROVE IInv'
  <2>1. UNCHANGED <<small, fc, rx, fe, tx, cts, dcts, ctrl, rxBuf, rxStart, rxEnd, txBuf, txStart,
                    txEnd, isr, status, pc, len, block, count, arrived, delivered, accepted,
                    sent, turns>>
    BY <1>2 DEF vars, build, core, rxRing, txRing, handler, call, counts
  <2>a. TypeOK'
    BY <1>2, <2>1 DEF IInv, TypeOK
  <2>b. HandlerInv'
    BY <1>2, <2>1, Zenon DEF IInv, HandlerInv
  <2>c. Spent' = Spent
    BY <2>1, Zenon DEF Spent
  <2>d. BoundInv'
    BY <1>2, <2>1, <2>c DEF IInv, BoundInv
  <2>2. TypeOK' /\ HandlerInv' /\ BoundInv'
    BY <2>a, <2>b, <2>d
  <2>3. TxInv'
    BY <1>2, <2>1, TxFrame
  <2>4. RxInv'
    BY <1>2, <2>1, RxFrame
  <2>5. QED
    BY <2>2, <2>3, <2>4 DEF IInv
<1>3. QED
  BY <1>1, <1>2

\* The rings, the core and the places in the code always fit together: what write()
\* took is in the ring or on the line, and what read() will give next is newer than
\* what it gave.
THEOREM DriverSound == Spec => []IInv
<1>1. QED
  BY InitInv, NextInv, PTL DEF Spec

\* Whatever the interrupts do, characters leave in the order in which write() took
\* them, none twice, and without flow control none is left out.
THEOREM TxRefinement == Spec => ImplementsTxQueue
<1>1. Init => TxQueue!Init
  BY BuildAssumption DEF Init, TxQueue!Init
<1>2. ASSUME IInv, [Next]_vars PROVE [TxQueue!Next]_(TxQueue!queueVars)
  <2> USE DEF build, core, rxRing, txRing, handler, call, counts, At
  <2>1. CASE Shift
    <3>1. ~tx.trdy /\ sent' = tx.data /\ accepted' = accepted /\ fc' = fc
      BY <2>1 DEF Shift
    <3>2. /\ tx.data = Taken /\ sent < Taken /\ (~fc => sent + 1 = Taken)
          /\ Taken <= accepted /\ sent \in Nat /\ accepted \in Nat /\ Taken \in Nat
      BY <1>2, <3>1, TxTypes, BufLenAssumption DEF TxInv, Taken
    <3>3. TxQueue!Leave
      BY <3>1, <3>2 DEF TxQueue!Leave
    <3>4. QED
      BY <3>3 DEF TxQueue!Next
  <2>2. CASE WrAdvance \/ SwData
    <3>1. accepted' = accepted + 1 /\ UNCHANGED <<sent, fc>>
      BY <2>2 DEF WrAdvance, SwData
    <3>2. QED
      BY <3>1 DEF TxQueue!Next, TxQueue!Enter
  <2>3. CASE UNCHANGED <<accepted, sent, fc>>
    BY <2>3 DEF TxQueue!queueVars
  <2>4. CASE CharArrives \/ CtsChange \/ Handler
    BY <2>3, <2>4 DEF CharArrives, CtsChange, Handler, Irq, IrqClear, RxIrqError, RxIrq, TxIrq
  <2>5. CASE Call
    BY <2>3, <2>5 DEF Call, CallRead, CallWrite, CallClose, Start
  <2>6. CASE FastStep
    BY <2>2, <2>3, <2>6 DEF FastStep, RdTest, RdCopy, RdAdvance, RdMask, RdEmpty, RdEnable, RdExit,
       WrTest, WrEnable, WrSpin, WrStore, WrExit, Close
  <2>7. CASE SmallStep
    BY <2>2, <2>3, <2>7 DEF SmallStep, SrStatus, SrClear, SrData, SwStatus
  <2>8. CASE UNCHANGED vars
    BY <2>3, <2>8 DEF vars
  <2>9. QED
    BY <1>2, <2>1, <2>4, <2>5, <2>6, <2>7, <2>8 DEF Next
<1>3. QED
  BY <1>1, <1>2, DriverSound, PTL DEF Spec, ImplementsTxQueue, TxQueue!Spec

\* read() gives characters in the order of their arrival, none twice, however the
\* handler cuts into it and however often the ring overflows.
THEOREM RxRefinement == Spec => ImplementsRxQueue
<1>1. Init => RxQueue!Init
  BY DEF Init, RxQueue!Init
<1>2. ASSUME IInv, [Next]_vars PROVE [RxQueue!Next]_(RxQueue!queueVars)
  <2> USE DEF build, core, rxRing, txRing, handler, call, counts, At
  <2> USE <1>2, RxTypes
  <2>1. CASE RdCopy
    <3>1. arrived' = arrived /\ delivered' = rxBuf[rxStart] /\ pc = "rdCopy"
      BY <2>1 DEF RdCopy
    <3>2. rxStart # BufLen /\ First = rxStart
      BY <3>1 DEF RxInv, First
    <3>3. delivered < delivered' /\ delivered' <= arrived /\ delivered' \in Nat
      BY <3>1, <3>2 DEF RxInv
    <3>4. RxQueue!Leave
      BY <3>1, <3>3 DEF RxQueue!Leave
    <3>5. QED
      BY <3>4 DEF RxQueue!Next
  <2>2. CASE UNCHANGED <<arrived, delivered>>
    BY <2>2 DEF RxQueue!queueVars
  <2>3. CASE arrived' = arrived + 1 /\ UNCHANGED delivered
    BY <2>3 DEF RxQueue!Next, RxQueue!Enter
  <2>4. CASE SrData
    <3>1. /\ delivered' \in {delivered, rx.data} /\ ReadRxData /\ pc = "srData"
      BY <2>4 DEF SrData
    <3>2. arrived' \in {arrived, arrived + 1}
      BY <3>1, ReadRxDataFacts
    <3>3. delivered < rx.data /\ rx.data <= arrived
      BY <3>1 DEF HandlerInv, RxInv
    <3>4. CASE delivered' = delivered
      BY <2>2, <2>3, <3>2, <3>4
    <3>5. CASE delivered' = rx.data
      <4>1. RxQueue!Leave
        BY <3>2, <3>3, <3>5 DEF RxQueue!Leave
      <4>2. QED
        BY <4>1 DEF RxQueue!Next
    <3>6. QED
      BY <3>1, <3>4, <3>5
  <2>5. CASE RxIrq
    <3>1. arrived' \in {arrived, arrived + 1} /\ UNCHANGED delivered
      BY <2>5, ReadRxDataFacts DEF RxIrq
    <3>2. QED
      BY <2>2, <2>3, <3>1
  <2>6. CASE CharArrives \/ Shift \/ CtsChange \/ Irq \/ IrqClear \/ RxIrqError \/ TxIrq
    BY <2>2, <2>3, <2>6 DEF CharArrives, Shift, CtsChange, Irq, IrqClear, RxIrqError, TxIrq
  <2>7. CASE Call
    BY <2>2, <2>7 DEF Call, CallRead, CallWrite, CallClose, Start
  <2>8. CASE FastStep
    BY <2>1, <2>2, <2>8 DEF FastStep, RdTest, RdAdvance, RdMask, RdEmpty, RdEnable, RdExit,
       WrTest, WrEnable, WrSpin, WrStore, WrAdvance, WrExit, Close
  <2>9. CASE SmallStep
    BY <2>2, <2>4, <2>9 DEF SmallStep, SrStatus, SrClear, SwStatus, SwData
  <2>10. CASE UNCHANGED vars
    BY <2>2, <2>10 DEF vars
  <2>11. QED
    BY <1>2, <2>5, <2>6, <2>7, <2>8, <2>9, <2>10 DEF Next, Handler
<1>3. QED
  BY <1>1, <1>2, DriverSound, PTL DEF Spec, ImplementsRxQueue, RxQueue!Spec
=============================================================================
