--------------------------- MODULE PacedLinkProofs ---------------------------
(***************************************************************************)
(* Proofs about PacedLink, for every Bytes, MinPeriod, Period and Gap.     *)
(***************************************************************************)
EXTENDS PacedLink, TLAPS

\* What the UART operators do to the record, field by field.
LEMMA UartTypes ==
    ASSUME NEW u \in UartState, NEW b \in Character
    PROVE  /\ UartReset \in UartState
           /\ Arrive(u, b) \in UartState
           /\ ReadData(u) \in UartState
           /\ ArriveDuringRead(u, b) \in UartState
<1>1. UartReset \in UartState
  BY DEF UartReset, UartState, Character
<1>2. (u.roe \/ u.rrdy) \in BOOLEAN
  BY Zenon
<1>3. Arrive(u, b) \in UartState
  BY <1>2 DEF Arrive, UartState
<1>4. ReadData(u) \in UartState
  BY DEF ReadData, UartState
<1>5. ArriveDuringRead(u, b) \in UartState
  BY <1>2 DEF ArriveDuringRead, UartState
<1> QED BY <1>1, <1>3, <1>4, <1>5

\* The link starts with every variable in its type.
LEMMA TypeInit == Init => TypeOK
<1> USE LinkAssumption, GapAssumption
<1> SUFFICES ASSUME Init PROVE TypeOK
  OBVIOUS
<1>1. uart \in UartState
  BY DEF Init, LinkInit, UartReset, UartState, Character
<1>2. echo \in [label : 0 .. 3, value : Character]
  BY DEF Init, LinkInit, Character
<1>3. unread \in BOOLEAN /\ fresh \in BOOLEAN
  BY DEF Init
<1>4. /\ wire \in Bytes \cup {None}
      /\ pc \in {"delay", "drive", "echo"}
      /\ a \in Character
      /\ elapsed \in 0 .. Period
      /\ bus \in [Channels -> Character]
      /\ sinceSend \in 0 .. Gap
      /\ latest \in [Channels -> Character]
  BY DEF Init, LinkInit, Character
<1>5. QED
  BY <1>1, <1>2, <1>3, <1>4 DEF TypeOK, LinkTypeOK

\* Every action keeps the variables in their types.
LEMMA TypeStep == TypeOK /\ [Next]_vars => TypeOK'
<1> USE LinkAssumption, GapAssumption
<1> SUFFICES ASSUME TypeOK, [Next]_vars PROVE TypeOK'
  OBVIOUS
<1> USE DEF TypeOK, LinkTypeOK
<1>1. ASSUME NEW b \in Bytes, HostSend(b) PROVE TypeOK'
  BY <1>1 DEF HostSend, Send, Character
<1>2. CASE Arrival
  <2>1. uart' \in UartState
    BY <1>2, UartTypes DEF Arrival, Receive
  <2>2. unread' \in BOOLEAN /\ fresh' \in BOOLEAN
    BY <1>2 DEF Arrival
  <2>3. /\ wire' \in Bytes \cup {None}
        /\ UNCHANGED <<pc, a, elapsed, bus, echo, sinceSend, latest>>
    BY <1>2 DEF Arrival, Receive
  <2>4. QED
    BY <2>1, <2>2, <2>3
<1>3. CASE Poll
  <2>1. uart' \in UartState
    BY <1>3, UartTypes DEF Poll, Sample, SampleColliding
  <2>2. unread' \in BOOLEAN /\ fresh' \in BOOLEAN
    BY <1>3 DEF Poll
  <2>3. a' \in Character /\ pc' = "drive" /\ elapsed' \in 0 .. Period
    BY <1>3 DEF Poll, Sample, SampleColliding, ReadRxData, UartState
  <2>4. /\ wire' \in Bytes \cup {None}
        /\ UNCHANGED <<bus, echo, sinceSend, latest>>
    BY <1>3 DEF Poll, Sample, SampleColliding, ReadRxData
  <2>5. QED
    BY <2>1, <2>2, <2>3, <2>4
<1>4. CASE Act
  BY <1>4 DEF Act, Drive, Echo, Channels
<1>5. CASE Clock
  BY <1>5 DEF Clock, Tick
<1>6. CASE UNCHANGED vars
  BY <1>6 DEF vars
<1>7. QED
  BY <1>1, <1>2, <1>3, <1>4, <1>5, <1>6 DEF Next, Firmware

\* Whatever the pacing of the host, the variables keep their types: the
\* firmware only ever writes characters, to the three buses that exist.
THEOREM TypeCorrect == Safety => []TypeOK
<1>1. Init => TypeOK
  BY TypeInit
<1>2. TypeOK /\ [Next]_vars => TypeOK'
  BY TypeStep
<1>3. QED
  BY <1>1, <1>2, PTL DEF Safety

-----------------------------------------------------------------------------
\* Nothing is on its way out of reset.
LEMMA IInvInit == Init => IInv
<1> SUFFICES ASSUME Init PROVE IInv
  OBVIOUS
<1>1. TypeOK
  BY TypeInit
<1>2. Timing
  BY DEF Init, LinkInit, Timing
<1>3. OnePlace
  BY DEF Init, LinkInit, OnePlace, UartReset
<1>4. StaleIsShown
  BY DEF Init, LinkInit, StaleIsShown, UartReset
<1>5. LatestIsAhead
  BY DEF Init, LinkInit, LatestIsAhead
<1>6. NoOverrun
  BY DEF Init, LinkInit, NoOverrun, UartReset
<1>7. QED
  BY <1>1, <1>2, <1>3, <1>4, <1>5, <1>6 DEF IInv

\* A command goes out only when the previous one has been carried out.
LEMMA SendKeeps ==
    ASSUME Paced, IInv, NEW b \in Bytes, HostSend(b)
    PROVE  Timing' /\ OnePlace' /\ StaleIsShown' /\ LatestIsAhead' /\ NoOverrun'
<1> USE LinkAssumption, GapAssumption DEF HostSend, Send
<1>1. sinceSend > Period /\ elapsed \in 0 .. Period /\ sinceSend \in Nat
  BY DEF Paced, IInv, TypeOK, LinkTypeOK
<1>2. ~InFlight
  BY <1>1 DEF IInv, Timing, InFlight
<1>3. b # None
  BY DEF Character, None
<1>4. Timing'
  BY <1>1, <1>2 DEF Timing, InFlight
<1>5. OnePlace'
  BY <1>2 DEF IInv, OnePlace, InFlight
<1>6. StaleIsShown'
  BY <1>2 DEF IInv, StaleIsShown, InFlight
<1>7. LatestIsAhead'
  <2>1. latest' = After(wire)'
    BY <1>2 DEF IInv, LatestIsAhead, InFlight, After
  <2>2. wire' # None /\ ~unread' /\ ~(pc' = "drive" /\ fresh')
    BY <1>2, <1>3 DEF InFlight
  <2>3. QED
    BY <2>1, <2>2 DEF LatestIsAhead, InFlight
<1>8. NoOverrun'
  BY DEF IInv, NoOverrun
<1>9. QED
  BY <1>4, <1>5, <1>6, <1>7, <1>8

\* The character moves from the line to the data register, which was free.
LEMMA ArrivalKeeps ==
    ASSUME IInv, Arrival
    PROVE  Timing' /\ OnePlace' /\ StaleIsShown' /\ LatestIsAhead' /\ NoOverrun'
<1> USE DEF Arrival, Receive
<1>1. wire # None /\ ~unread /\ ~(pc = "drive" /\ fresh)
  BY DEF IInv, OnePlace
<1>2. uart'.data = wire /\ unread' /\ wire' = None
  BY DEF Arrive
<1>3. Timing'
  BY <1>1 DEF IInv, Timing
<1>4. OnePlace'
  BY <1>1, <1>2 DEF OnePlace
<1>5. StaleIsShown'
  BY <1>1, <1>2 DEF IInv, StaleIsShown
<1>6. LatestIsAhead'
  BY <1>1, <1>2 DEF IInv, LatestIsAhead, InFlight, After
<1>7. NoOverrun'
  BY <1>1 DEF IInv, NoOverrun, OnePlace, Arrive
<1>8. QED
  BY <1>3, <1>4, <1>5, <1>6, <1>7

\* The firmware's read takes the command over, or takes an old character again.
LEMMA PollKeeps ==
    ASSUME IInv, Poll
    PROVE  Timing' /\ OnePlace' /\ StaleIsShown' /\ LatestIsAhead' /\ NoOverrun'
<1> USE LinkAssumption
<1>1. /\ pc = "delay" /\ elapsed \in 0 .. Period /\ pc' = "drive" /\ a' = uart.data
      /\ elapsed' = 0 /\ fresh' = unread
      /\ UNCHANGED <<bus, latest, sinceSend>>
  BY DEF Poll, Sample, SampleColliding, ReadRxData, IInv, TypeOK, LinkTypeOK
<1>2. sinceSend \in Nat /\ uart \in UartState
  BY GapAssumption DEF IInv, TypeOK, LinkTypeOK
<1>3. CASE Sample /\ unread' = FALSE
  <2>1. wire' = wire /\ uart'.data = uart.data /\ ~uart'.rrdy /\ uart'.roe = uart.roe
    BY <1>2, <1>3 DEF Sample, ReadData, UartState
  <2>2. Timing'
    <3>1. wire' # None => sinceSend' = 0
      BY <1>1, <1>2, <2>1 DEF IInv, Timing
    <3>2. unread => sinceSend' <= Period
      BY <1>1, <1>2 DEF IInv, Timing
    <3>3. QED
      BY <1>1, <1>3, <3>1, <3>2 DEF Timing
  <2>3. OnePlace'
    BY <1>1, <1>3, <2>1 DEF IInv, OnePlace
  <2>4. StaleIsShown'
    BY <1>1, <1>3, <2>1 DEF IInv, StaleIsShown
  <2>5. LatestIsAhead'
    BY <1>1, <1>3, <2>1 DEF IInv, LatestIsAhead, InFlight, After
  <2>6. NoOverrun'
    BY <2>1 DEF IInv, NoOverrun
  <2>7. QED
    BY <2>2, <2>3, <2>4, <2>5, <2>6
<1>4. CASE SampleColliding /\ unread' = TRUE
  <2>1. /\ wire # None /\ wire' = None /\ ~unread
        /\ uart'.data = wire /\ ~uart'.rrdy /\ uart'.roe = (uart.roe \/ uart.rrdy)
    BY <1>4 DEF SampleColliding, ArriveDuringRead, IInv, OnePlace
  <2>2. Timing'
    <3>1. sinceSend' = 0
      BY <1>1, <1>2, <2>1 DEF IInv, Timing
    <3>2. QED
      BY <1>1, <2>1, <3>1 DEF Timing
  <2>3. OnePlace'
    BY <1>1, <1>4, <2>1 DEF OnePlace
  <2>4. StaleIsShown'
    BY <1>1, <1>4, <2>1 DEF IInv, StaleIsShown
  <2>5. LatestIsAhead'
    BY <1>1, <1>4, <2>1 DEF IInv, LatestIsAhead, InFlight, After
  <2>6. NoOverrun'
    BY <2>1 DEF IInv, NoOverrun, OnePlace
  <2>7. QED
    BY <2>2, <2>3, <2>4, <2>5, <2>6
<1>5. QED
  BY <1>3, <1>4 DEF Poll

\* The write to the bus carries the command out, or repeats one.
LEMMA ActKeeps ==
    ASSUME IInv, Act
    PROVE  Timing' /\ OnePlace' /\ StaleIsShown' /\ LatestIsAhead' /\ NoOverrun'
<1>1. UNCHANGED <<wire, uart, a, elapsed, sinceSend, latest, unread, fresh>>
  BY DEF Act, Drive, Echo
<1>2. pc' # "drive"
  BY DEF Act, Drive, Echo
<1>3. Timing' /\ OnePlace' /\ NoOverrun'
  BY <1>1, <1>2 DEF IInv, Timing, OnePlace, NoOverrun
<1>4. CASE Echo
  <2>1. bus' = bus /\ pc # "drive"
    BY <1>4 DEF Echo
  <2>2. StaleIsShown' /\ LatestIsAhead'
    BY <1>1, <1>2, <2>1 DEF IInv, StaleIsShown, LatestIsAhead, InFlight, After
  <2>3. QED
    BY <1>3, <2>2
<1>5. CASE Drive
  <2>1. bus' = After(a) /\ pc = "drive" /\ bus' \in [Channels -> Character]
    BY <1>5 DEF Drive, After, IInv, TypeOK, LinkTypeOK
  <2>2. CASE fresh
    <3>1. wire = None /\ ~unread /\ a = uart.data /\ latest = After(a)
      BY <2>1, <2>2 DEF IInv, OnePlace, LatestIsAhead
    <3>2. StaleIsShown'
      BY <1>1, <1>2, <2>1, <3>1 DEF StaleIsShown, After
    <3>3. LatestIsAhead'
      BY <1>1, <1>2, <2>1, <3>1 DEF LatestIsAhead, InFlight
    <3>4. QED
      BY <1>3, <3>2, <3>3
  <2>3. CASE ~fresh
    <3>1. Channel(a) \in Channels => bus[Channel(a)] = a
      BY <2>1, <2>3 DEF IInv, StaleIsShown
    <3>2. bus' = bus
      BY <2>1, <3>1 DEF After, IInv, TypeOK, LinkTypeOK
    <3>3. StaleIsShown' /\ LatestIsAhead'
      BY <1>1, <1>2, <2>3, <3>2
      DEF IInv, StaleIsShown, LatestIsAhead, InFlight, After
    <3>4. QED
      BY <1>3, <3>3
  <2>4. QED
    BY <2>2, <2>3
<1>6. QED
  BY <1>4, <1>5 DEF Act

\* A tick ages the command and brings the next read closer by the same amount.
LEMMA ClockKeeps ==
    ASSUME IInv, Clock
    PROVE  Timing' /\ OnePlace' /\ StaleIsShown' /\ LatestIsAhead' /\ NoOverrun'
<1>1. /\ pc = "delay" /\ pc' = pc /\ wire = None /\ wire' = None
      /\ UNCHANGED <<uart, a, bus, latest, unread, fresh>>
  BY DEF Clock, Tick
<1>2. elapsed \in 0 .. Period /\ elapsed' = elapsed + 1 /\ sinceSend \in 0 .. Gap
  BY DEF Clock, Tick, IInv, TypeOK, LinkTypeOK
<1>3. sinceSend' <= sinceSend + 1
  BY <1>2, GapAssumption DEF Clock
<1>4. Timing'
  <2>1. unread => sinceSend' <= elapsed'
    BY <1>2, <1>3, LinkAssumption, GapAssumption DEF IInv, Timing, Clock
  <2>2. QED
    BY <1>1, <2>1 DEF Timing
<1>5. OnePlace' /\ StaleIsShown' /\ LatestIsAhead' /\ NoOverrun'
  BY <1>1 DEF IInv, OnePlace, StaleIsShown, LatestIsAhead, NoOverrun, InFlight, After
<1>6. QED
  BY <1>4, <1>5

\* The invariant is inductive when the host waits longer than a loop period.
LEMMA IInvStep == ASSUME Paced, IInv, [Next]_vars PROVE IInv'
<1>1. TypeOK'
  BY TypeStep DEF IInv
<1>2. Timing' /\ OnePlace' /\ StaleIsShown' /\ LatestIsAhead' /\ NoOverrun'
  <2>1. CASE \E b \in Bytes : HostSend(b)
    BY <2>1, SendKeeps
  <2>2. CASE Arrival
    BY <2>2, ArrivalKeeps
  <2>3. CASE Poll
    BY <2>3, PollKeeps
  <2>4. CASE Act
    BY <2>4, ActKeeps
  <2>5. CASE Clock
    BY <2>5, ClockKeeps
  <2>6. CASE UNCHANGED vars
    BY <2>6 DEF vars, IInv, Timing, OnePlace, StaleIsShown, LatestIsAhead,
                NoOverrun, InFlight, After
  <2>7. QED
    BY <2>1, <2>2, <2>3, <2>4, <2>5, <2>6 DEF Next, Firmware
<1>3. QED
  BY <1>1, <1>2 DEF IInv

LEMMA Invariance == ASSUME Paced PROVE Safety => []IInv
<1>1. Init => IInv
  BY IInvInit
<1>2. IInv /\ [Next]_vars => IInv'
  BY IInvStep
<1>3. QED
  BY <1>1, <1>2, PTL DEF Safety

\* A loop period after a command the buses show what was asked for: with
\* nothing on its way, latest and bus agree.
THEOREM Settled == ASSUME Paced PROVE Safety => []SettledAfterPeriod
<1>1. IInv => SettledAfterPeriod
  <2> SUFFICES ASSUME IInv, sinceSend > Period, pc # "drive" PROVE bus = latest
    BY DEF SettledAfterPeriod
  <2>1. ~(sinceSend <= elapsed) /\ sinceSend # 0
    BY LinkAssumption, GapAssumption DEF IInv, TypeOK, LinkTypeOK
  <2>2. ~InFlight
    BY <2>1 DEF IInv, Timing, InFlight
  <2>3. QED
    BY <2>2 DEF IInv, LatestIsAhead
<1>2. QED
  BY <1>1, Invariance, PTL

\* The receive register is read before the next character can arrive.
THEOREM NeverOverrun == ASSUME Paced PROVE Safety => []NoOverrun
<1>1. IInv => NoOverrun
  BY DEF IInv
<1>2. QED
  BY <1>1, Invariance, PTL

\* A bus that changes takes the last command sent to it: a read of an old
\* character finds it on its bus already, and a new one is what was asked for.
THEOREM NeverReverts == ASSUME Paced PROVE Safety => NoRevert
<1> DEFINE Forward == \A c \in Channels : bus'[c] # bus[c] => bus'[c] = latest[c]
<1>1. ASSUME IInv, [Next]_vars PROVE [Forward]_vars
  <2>1. CASE UNCHANGED bus
    BY <2>1
  <2>2. CASE bus' # bus
    <3>1. Drive
      BY <1>1, <2>2 DEF Next, Firmware, HostSend, Send, Arrival, Receive, Poll, Sample,
         SampleColliding, ReadRxData, Act, Echo, Clock, Tick, vars
    <3>2. pc = "drive" /\ bus' = After(a)
      BY <1>1, <3>1 DEF Drive, After, IInv, TypeOK, LinkTypeOK
    <3>3. CASE fresh
      BY <1>1, <3>2, <3>3 DEF IInv, LatestIsAhead
    <3>4. CASE ~fresh
      BY <1>1, <3>2, <3>4 DEF IInv, StaleIsShown, After, TypeOK, LinkTypeOK
    <3>5. QED
      BY <3>3, <3>4
  <2>3. QED
    BY <2>1, <2>2
<1>2. QED
  BY <1>1, Invariance, PTL DEF Safety, NoRevert

-----------------------------------------------------------------------------
(* The link implements the light bank.  Its queue never holds more than    *)
(* the one command that is on its way, wherever that is.                   *)
Queue == InFirmware \o InUart \o OnWire

QueueIsOnTheWay ==
    /\ pc = "drive" /\ fresh => Queue = <<a>>
    /\ unread => Queue = <<uart.data>>
    /\ wire # None => Queue = <<wire>>
    /\ ~InFlight => Queue = <<>>

LEMMA QueueForms == IInv => QueueIsOnTheWay
<1> SUFFICES ASSUME IInv PROVE QueueIsOnTheWay
  OBVIOUS
<1>1. ASSUME pc = "drive", fresh PROVE Queue = <<a>>
  BY <1>1 DEF IInv, OnePlace, Queue, InFirmware, InUart, OnWire
<1>2. ASSUME unread PROVE Queue = <<uart.data>>
  <2>1. wire = None /\ ~(pc = "drive" /\ fresh)
    BY <1>2 DEF IInv, OnePlace
  <2>2. InFirmware = <<>> /\ InUart = <<uart.data>> /\ OnWire = <<>>
    BY <1>2, <2>1 DEF InFirmware, InUart, OnWire
  <2>3. QED
    BY <2>2 DEF Queue
<1>3. ASSUME wire # None PROVE Queue = <<wire>>
  <2>1. ~unread /\ ~(pc = "drive" /\ fresh)
    BY <1>3 DEF IInv, OnePlace
  <2>2. InFirmware = <<>> /\ InUart = <<>> /\ OnWire = <<wire>>
    BY <1>3, <2>1 DEF InFirmware, InUart, OnWire
  <2>3. QED
    BY <2>2 DEF Queue
<1>4. ASSUME ~InFlight PROVE Queue = <<>>
  BY <1>4 DEF InFlight, Queue, InFirmware, InUart, OnWire
<1>5. QED
  BY <1>1, <1>2, <1>3, <1>4 DEF QueueIsOnTheWay

\* One step of the link, seen at the bank: a command enters the empty queue,
\* it moves along, or the firmware's write takes it out.
LEMMA BankStep ==
    ASSUME Paced, IInv, [Next]_vars
    PROVE  [Bank!Next]_<<bus, Queue>>
<1>1. QueueIsOnTheWay /\ QueueIsOnTheWay'
  <2>1. IInv'
    BY IInvStep
  <2>2. QED
    BY <2>1, QueueForms, PTL
<1>2. ASSUME NEW b \in Bytes, HostSend(b) PROVE Bank!Command(b)
  <2>1. ~InFlight
    BY <1>2, LinkAssumption, GapAssumption
    DEF Paced, IInv, TypeOK, LinkTypeOK, Timing, InFlight, HostSend
  <2>2. wire' = b /\ b # None /\ bus' = bus
    BY <1>2, LinkAssumption DEF HostSend, Send, Character, None
  <2>3. Queue = <<>> /\ Queue' = <<b>>
    BY <1>1, <2>1, <2>2 DEF QueueIsOnTheWay
  <2>4. QED
    BY <2>2, <2>3 DEF Bank!Command, Queue
<1>3. CASE Arrival
  <2>1. wire # None /\ unread' /\ uart'.data = wire /\ bus' = bus
    BY <1>3 DEF Arrival, Receive, Arrive
  <2>2. QED
    BY <1>1, <2>1 DEF QueueIsOnTheWay
<1>4. CASE Poll
  <2>1. bus' = bus /\ pc # "drive" /\ pc' = "drive" /\ a' = uart.data /\ fresh' = unread
    BY <1>4 DEF Poll, Sample, SampleColliding, ReadRxData
  <2>2. CASE unread
    BY <1>1, <2>1, <2>2 DEF QueueIsOnTheWay
  <2>3. CASE ~unread /\ wire # None
    <3>1. CASE Sample /\ unread' = FALSE
      <4>1. wire' = wire
        BY <3>1 DEF Sample
      <4>2. QED
        BY <1>1, <2>1, <2>3, <4>1 DEF QueueIsOnTheWay
    <3>2. CASE SampleColliding /\ unread' = TRUE
      <4>1. unread' /\ uart'.data = wire
        BY <3>2 DEF SampleColliding, ArriveDuringRead
      <4>2. QED
        BY <1>1, <2>1, <2>3, <4>1 DEF QueueIsOnTheWay
    <3>3. QED
      BY <1>4, <3>1, <3>2 DEF Poll
  <2>4. CASE ~unread /\ wire = None
    <3>1. wire' = None /\ ~unread'
      BY <1>4, <2>4 DEF Poll, Sample, SampleColliding
    <3>2. ~InFlight /\ ~InFlight'
      BY <2>1, <2>4, <3>1 DEF InFlight
    <3>3. QED
      BY <1>1, <2>1, <3>2 DEF QueueIsOnTheWay
  <2>5. QED
    BY <2>2, <2>3, <2>4
<1>5. CASE Act
  <2>1. UNCHANGED <<wire, uart, unread, fresh>> /\ pc' # "drive"
    BY <1>5 DEF Act, Drive, Echo
  <2>2. CASE pc = "drive" /\ fresh
    <3>1. bus' = After(a)
      BY <1>5, <2>2 DEF Act, Drive, Echo, After, IInv, TypeOK, LinkTypeOK
    <3>2. wire = None /\ ~unread
      BY <2>2 DEF IInv, OnePlace
    <3>3. Queue = <<a>> /\ Queue' = <<>>
      BY <1>1, <2>1, <2>2, <3>2 DEF QueueIsOnTheWay, InFlight
    <3>4. Queue # <<>> /\ Head(Queue) = a /\ Tail(Queue) = <<>>
      BY <3>3
    <3>5. Bank!CarryOut
      BY <3>1, <3>3, <3>4 DEF Bank!CarryOut, After, Queue
    <3>6. QED
      BY <3>5 DEF Bank!Next
  <2>3. CASE ~(pc = "drive" /\ fresh)
    <3>1. bus' = bus
      BY <1>5, <2>3
      DEF Act, Drive, Echo, After, IInv, StaleIsShown, TypeOK, LinkTypeOK
    <3>2. Queue' = Queue
      BY <2>1, <2>3 DEF Queue, InFirmware, InUart, OnWire
    <3>3. QED
      BY <3>1, <3>2
  <2>4. QED
    BY <2>2, <2>3
<1>6. CASE Clock
  BY <1>6 DEF Clock, Tick, Queue, InFirmware, InUart, OnWire
<1>7. CASE UNCHANGED vars
  BY <1>7 DEF vars, Queue, InFirmware, InUart, OnWire
<1>8. QED
  BY <1>2, <1>3, <1>4, <1>5, <1>6, <1>7 DEF Next, Firmware, Bank!Next

\* Every behaviour of the paced link is one of the light bank, with the command
\* on its way as the queue (its fairness part is left to the model checker).
THEOREM Implementation == ASSUME Paced PROVE Safety => Bank!Safety
<1>1. Init => Bank!Init
  BY DEF Init, LinkInit, Bank!Init, InFirmware, InUart, OnWire
<1>2. ASSUME IInv, [Next]_vars PROVE [Bank!Next]_(Bank!bankVars)
  BY <1>2, BankStep DEF Bank!bankVars, Queue
<1>3. QED
  BY <1>1, <1>2, Invariance, PTL DEF Safety, Bank!Safety
=============================================================================
