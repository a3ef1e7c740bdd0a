------------------------- MODULE ControlWindowProofs -------------------------
(***************************************************************************)
(* Proofs about ControlWindow, for every Bytes, MinPeriod, Period, Buttons *)
(* and Items.                                                              *)
(***************************************************************************)
EXTENDS ControlWindow, TLAPS, SequenceTheorems

\* What the UART operators do to the record, field by field.
LEMMA UartTypes ==
    ASSUME NEW u \in UartState, NEW b \in Character
    PROVE  /\ UartReset \in UartState
           /\ Arrive(u, b) \in UartState
           /\ ReadData(u) \in UartState
           /\ ArriveDuringRead(u, b) \in UartState
<1>1. UartReset \in UartState
  BY DEF UartReset, UartState, Character
<1>2. (u.roe \/ u.rrdy) \in BOOLEAN
  BY Zenon
<1>3. Arrive(u, b) \in UartState
  BY <1>2 DEF Arrive, UartState
<1>4. ReadData(u) \in UartState
  BY DEF ReadData, UartState
<1>5. ArriveDuringRead(u, b) \in UartState
  BY <1>2 DEF ArriveDuringRead, UartState
<1> QED BY <1>1, <1>3, <1>4, <1>5

\* The window starts with every variable in its type.
LEMMA TypeInit == Init => TypeOK
<1> SUFFICES ASSUME Init PROVE TypeOK
  OBVIOUS
<1> USE LinkAssumption, WindowAssumption
<1>1. uart \in UartState
  BY DEF Init, LinkInit, UartReset, UartState, Character
<1>2. echo \in [label : 0 .. 3, value : Character]
  BY DEF Init, LinkInit, Character
<1>3. unread \in BOOLEAN /\ fresh \in BOOLEAN
  BY DEF Init
<1>4. byte \in [Channels -> Bytes]
  BY DEF Init
<1>5. /\ wire \in Bytes \cup {None}
      /\ pc \in {"delay", "drive", "echo"}
      /\ a \in Character
      /\ elapsed \in 0 .. Period
      /\ bus \in [Channels -> Character]
      /\ lastSent \in Bytes \cup {None}
  BY DEF Init, LinkInit, Character
<1>6. QED
  BY <1>1, <1>2, <1>3, <1>4, <1>5 DEF TypeOK, LinkTypeOK

\* Every action keeps the variables in their types.
LEMMA TypeStep == TypeOK /\ [Next]_vars => TypeOK'
<1> USE LinkAssumption, WindowAssumption
<1> SUFFICES ASSUME TypeOK, [Next]_vars PROVE TypeOK'
  OBVIOUS
<1> USE DEF TypeOK, LinkTypeOK
<1>1. ASSUME NEW c \in Buttons, Press(c) PROVE TypeOK'
  BY <1>1 DEF Press, Send
<1>2. ASSUME NEW c \in Buttons, NEW i \in Items, Choose(c, i) PROVE TypeOK'
  <2>1. Byte(c, Menu[i]) \in Bytes
    OBVIOUS
  <2>2. byte' \in [Channels -> Bytes]
    BY <1>2, <2>1 DEF Choose
  <2>3. unread' \in BOOLEAN /\ fresh' \in BOOLEAN
    BY <1>2 DEF Choose
  <2>4. QED
    BY <1>2, <2>2, <2>3 DEF Choose, linkVars
<1>3. CASE Arrival
  <2>1. uart' \in UartState
    BY <1>3, UartTypes DEF Arrival, Receive
  <2>2. unread' \in BOOLEAN /\ fresh' \in BOOLEAN
    BY <1>3 DEF Arrival
  <2>3. wire' \in Bytes \cup {None} /\ UNCHANGED <<pc, a, elapsed, bus, echo, byte, lastSent>>
    BY <1>3 DEF Arrival, Receive
  <2>4. QED
    BY <2>1, <2>2, <2>3
<1>4. CASE Poll
  <2>1. uart' \in UartState
    BY <1>4, UartTypes DEF Poll, Sample, SampleColliding
  <2>2. unread' \in BOOLEAN /\ fresh' \in BOOLEAN
    BY <1>4 DEF Poll
  <2>3. a' \in Character /\ pc' = "drive" /\ elapsed' \in 0 .. Period
    BY <1>4 DEF Poll, Sample, SampleColliding, ReadRxData, UartState
  <2>4. wire' \in Bytes \cup {None} /\ UNCHANGED <<bus, echo, byte, lastSent>>
    BY <1>4 DEF Poll, Sample, SampleColliding, ReadRxData
  <2>5. QED
    BY <2>1, <2>2, <2>3, <2>4
<1>5. CASE Act
  BY <1>5 DEF Act, Drive, Echo, Channels
<1>6. CASE Clock
  BY <1>6 DEF Clock, Tick
<1>7. CASE UNCHANGED vars
  BY <1>7 DEF vars
<1>8. QED
  BY <1>1, <1>2, <1>3, <1>4, <1>5, <1>6, <1>7 DEF Next, Firmware

\* Whatever the operator chooses and however fast he presses, the variables
\* keep their types: no menu entry makes more than one character.
THEOREM TypeCorrect == Safety => []TypeOK
<1>1. Init => TypeOK
  BY TypeInit
<1>2. TypeOK /\ [Next]_vars => TypeOK'
  BY TypeStep
<1>3. QED
  BY <1>1, <1>2, PTL DEF Safety

-----------------------------------------------------------------------------
\* The menus have codes of six bits, so that a character is of one channel.
LEMMA MenuCodes == \A i \in DOMAIN Menu : Menu[i] \in 0 .. 63
  BY DEF Menu

LEMMA ByteChannel ==
    ASSUME NEW c \in Channels, NEW k \in 0 .. 63
    PROVE  Channel(Byte(c, k)) = c
  BY DEF Channel, Byte, Channels

\* Nothing is on its way out of reset.
LEMMA IInvInit == Init => IInv
<1> SUFFICES ASSUME Init PROVE IInv
  OBVIOUS
<1>1. TypeOK
  BY TypeInit
<1>2. Newest
  BY DEF Init, LinkInit, Newest
<1>3. SeenShows
  BY DEF Init, LinkInit, SeenShows, UartReset, Channel, Channels
<1>4. OwnChannel
  <2>1. \A c \in Channels : Channel(Byte(c, 0)) = c
    BY ByteChannel
  <2>2. QED
    BY <2>1 DEF Init, OwnChannel
<1>5. QED
  BY <1>1, <1>2, <1>3, <1>4 DEF IInv

\* What the firmware's write does to the buses.
LEMMA DriveEffect ==
    ASSUME TypeOK, Drive
    PROVE  bus' = [c \in Channels |-> IF c = Channel(a) THEN a ELSE bus[c]]
  BY DEF Drive, TypeOK, LinkTypeOK

\* An old character is on its bus already.
LEMMA OldChangesNothing ==
    ASSUME IInv, Drive, ~fresh
    PROVE  bus' = bus
<1>1. Channel(a) \in Channels => bus[Channel(a)] = a
  BY DEF IInv, SeenShows, Drive
<1>2. QED
  BY <1>1, DriveEffect DEF IInv, TypeOK, LinkTypeOK

\* The last character sent stays the newest, and one that was seen shows,
\* without any assumption on the operator.
LEMMA NewestStep == ASSUME IInv, [Next]_vars PROVE Newest' /\ SeenShows'
<1> USE DEF Newest, SeenShows
<1>1. Newest /\ SeenShows
  BY DEF IInv
<1>2. ASSUME NEW c \in Buttons, Press(c) PROVE Newest' /\ SeenShows'
  <2>1. byte[c] \in Bytes /\ byte[c] # None
    BY LinkAssumption, WindowAssumption DEF IInv, TypeOK, Character, None
  <2>2. QED
    BY <1>1, <1>2, <2>1 DEF Press, Send
<1>3. ASSUME NEW c \in Buttons, NEW i \in Items, Choose(c, i) PROVE Newest' /\ SeenShows'
  BY <1>1, <1>3 DEF Choose, linkVars
<1>4. CASE Arrival
  <2>1. uart'.data = wire /\ wire # None /\ wire' = None /\ unread'
    BY <1>4 DEF Arrival, Receive, Arrive
  <2>2. QED
    BY <1>1, <1>4, <2>1 DEF Arrival, Receive
<1>5. CASE Poll
  <2>1. /\ pc = "delay" /\ pc' = "drive" /\ a' = uart.data /\ fresh' = unread
        /\ UNCHANGED <<bus, lastSent>>
    BY <1>5 DEF Poll, Sample, SampleColliding, ReadRxData
  <2>2. CASE Sample /\ unread' = FALSE
    <3>1. wire' = wire /\ uart'.data = uart.data
      BY <2>2 DEF Sample, ReadData, IInv, TypeOK, LinkTypeOK, UartState
    <3>2. QED
      BY <1>1, <2>1, <2>2, <3>1
  <2>3. CASE SampleColliding /\ unread' = TRUE
    <3>1. wire # None /\ wire' = None /\ uart'.data = wire
      BY <2>3 DEF SampleColliding, ArriveDuringRead
    <3>2. QED
      BY <1>1, <2>1, <2>3, <3>1
  <2>4. QED
    BY <1>5, <2>2, <2>3 DEF Poll
<1>6. CASE Act
  <2>1. UNCHANGED <<wire, uart, a, lastSent, unread, fresh>> /\ pc' # "drive"
    BY <1>6 DEF Act, Drive, Echo
  <2>2. CASE pc = "drive" /\ fresh /\ Drive
    <3>1. bus' = [c \in Channels |-> IF c = Channel(a) THEN a ELSE bus[c]]
      BY <2>2, DriveEffect DEF IInv
    <3>2. QED
      BY <1>1, <2>1, <2>2, <3>1
  <2>3. CASE Echo \/ ~fresh
    <3>1. bus' = bus
      BY <1>6, <2>3, OldChangesNothing DEF Act, Echo
    <3>2. ~(pc = "drive" /\ fresh)
      BY <2>3 DEF Echo
    <3>3. QED
      BY <1>1, <2>1, <3>1, <3>2
  <2>4. QED
    BY <1>6, <2>2, <2>3 DEF Act, Drive
<1>7. CASE Clock
  BY <1>1, <1>7 DEF Clock, Tick
<1>8. CASE UNCHANGED vars
  BY <1>1, <1>8 DEF vars
<1>9. QED
  BY <1>2, <1>3, <1>4, <1>5, <1>6, <1>7, <1>8 DEF Next, Firmware

\* No menu entry reaches another channel.
LEMMA OwnChannelStep == ASSUME IInv, [Next]_vars PROVE OwnChannel'
<1>1. ASSUME NEW c \in Buttons, Press(c) PROVE OwnChannel'
  BY <1>1, WindowAssumption DEF Press, OwnChannel, IInv
<1>2. ASSUME NEW c \in Buttons, NEW i \in Items, Choose(c, i) PROVE OwnChannel'
  <2>1. Channel(Byte(c, Menu[i])) = c
    BY MenuCodes, ByteChannel, WindowAssumption
  <2>2. QED
    BY <1>2, <2>1, WindowAssumption DEF Choose, OwnChannel, IInv, TypeOK
<1>3. CASE UNCHANGED <<byte, lastSent>>
  BY <1>3 DEF OwnChannel, IInv
<1>4. QED
  BY <1>1, <1>2, <1>3 DEF Next, Firmware, Arrival, Poll, Act, Clock, vars

LEMMA IInvStep == ASSUME IInv, [Next]_vars PROVE IInv'
  BY TypeStep, OwnChannelStep, NewestStep DEF IInv

LEMMA Invariance == Safety => []IInv
<1>1. Init => IInv
  BY IInvInit
<1>2. IInv /\ [Next]_vars => IInv'
  BY IInvStep
<1>3. QED
  BY <1>1, <1>2, PTL DEF Safety

\* Once the line is quiet the bus of the last button pressed shows what was
\* chosen for it, however many presses the register has swallowed before.
THEOREM LastShows == Safety => []QuietShowsLast
<1>1. IInv => QuietShowsLast
  <2> SUFFICES ASSUME IInv, Quiet, lastSent # None PROVE bus[Channel(lastSent)] = lastSent
    BY DEF QuietShowsLast
  <2>1. lastSent = uart.data /\ Channel(lastSent) \in Channels
    BY DEF IInv, Newest, Quiet, OwnChannel
  <2>2. QED
    BY <2>1 DEF IInv, SeenShows, Quiet
<1>2. QED
  BY <1>1, Invariance, PTL

-----------------------------------------------------------------------------
(* The window implements the lossy bank.                                   *)
Queue == InFirmware \o InUart \o OnWire

\* Three places, each with at most one character.
Slot == Character \cup {None}

LEMMA Places ==
    ASSUME TypeOK
    PROVE  /\ InFirmware \in Seq(Slot) /\ InUart \in Seq(Slot) /\ OnWire \in Seq(Slot)
<1>1. a \in Slot /\ uart.data \in Slot /\ wire \in Slot
  BY LinkAssumption DEF TypeOK, LinkTypeOK, UartState, Slot
<1>2. \A x \in Slot : <<x>> \in Seq(Slot)
  OBVIOUS
<1>3. <<>> \in Seq(Slot)
  OBVIOUS
<1>4. QED
  BY <1>1, <1>2, <1>3 DEF InFirmware, InUart, OnWire

\* Taking the first element off.
LEMMA HeadTailOfConcat ==
    ASSUME NEW S, NEW x \in S, NEW s \in Seq(S)
    PROVE  <<x>> \o s # <<>> /\ Head(<<x>> \o s) = x /\ Tail(<<x>> \o s) = s
<1> DEFINE q == <<x>> \o s
<1>1. q \in Seq(S) /\ Len(q) = 1 + Len(s) /\ q[1] = x
  <2>1. <<x>> \in Seq(S) /\ Len(<<x>>) = 1 /\ <<x>>[1] = x
    OBVIOUS
  <2>2. QED
    BY <2>1, ConcatProperties, LenProperties
<1>2. \A i \in 1 .. Len(s) : q[i + 1] = s[i]
  <2>1. <<x>> \in Seq(S) /\ Len(<<x>>) = 1 /\ Len(s) \in Nat
    OBVIOUS
  <2>2. \A j \in 1 .. 1 + Len(s) : q[j] = IF j <= 1 THEN <<x>>[j] ELSE s[j - 1]
    BY <2>1, ConcatProperties
  <2>3. QED
    BY <2>1, <2>2
<1>3. q # <<>>
  BY <1>1, EmptySeq
<1> HIDE DEF q
<1>4. Head(q) = x
  BY <1>1
<1>5. Tail(q) = s
  <2>1. Tail(q) \in Seq(S) /\ Len(Tail(q)) = Len(s)
    BY <1>1, <1>3, HeadTailProperties
  <2>2. \A i \in 1 .. Len(s) : Tail(q)[i] = s[i]
    BY <1>1, <1>2, <1>3, <2>1, HeadTailProperties
  <2>3. QED
    BY <2>1, <2>2, SeqEqual
<1>6. QED
  BY <1>3, <1>4, <1>5 DEF q

\* Taking the last element but one out.
LEMMA WithoutLastButOne ==
    ASSUME NEW S, NEW s \in Seq(S), NEW x \in S, NEW y \in S
    PROVE  LET q == (s \o <<x>>) \o <<y>>
           IN  Len(q) = Len(s) + 2 /\ Bank!Without(q, Len(s) + 1) = s \o <<y>>
<1> DEFINE r == s \o <<x>>
<1> DEFINE q == r \o <<y>>
<1> DEFINE n == Len(s)
<1>1. n \in Nat /\ <<x>> \in Seq(S) /\ <<y>> \in Seq(S)
  BY LenProperties
<1>2. Len(<<x>>) = 1 /\ Len(<<y>>) = 1 /\ <<y>>[1] = y
  OBVIOUS
<1>3. /\ r \in Seq(S) /\ Len(r) = n + 1
      /\ \A i \in 1 .. n : r[i] = s[i]
  BY <1>1, <1>2, ConcatProperties
<1> HIDE DEF r
<1>4. /\ q \in Seq(S) /\ Len(q) = n + 2
      /\ \A i \in 1 .. n : q[i] = s[i]
      /\ q[n + 2] = y
  <2>1. /\ q \in Seq(S) /\ Len(q) = Len(r) + 1
        /\ \A i \in 1 .. Len(r) + 1 : q[i] = IF i <= Len(r) THEN r[i] ELSE <<y>>[i - Len(r)]
    BY <1>1, <1>2, <1>3, ConcatProperties
  <2>2. QED
    BY <1>1, <1>2, <1>3, <2>1
<1> HIDE DEF q
<1>5. SubSeq(q, 1, n) = s
  <2>1. /\ SubSeq(q, 1, n) \in Seq(S) /\ Len(SubSeq(q, 1, n)) = n
        /\ \A i \in 1 .. n : SubSeq(q, 1, n)[i] = q[i]
    <3>1. \A i \in 1 .. n : q[i] \in S
      BY <1>1, <1>4, ElementOfSeq
    <3>2. /\ SubSeq(q, 1, n) \in Seq(S)
          /\ Len(SubSeq(q, 1, n)) = IF 1 <= n THEN n - 1 + 1 ELSE 0
          /\ \A i \in 1 .. n - 1 + 1 : SubSeq(q, 1, n)[i] = q[1 + i - 1]
      BY <1>1, <3>1, SubSeqProperties
    <3>3. QED
      BY <1>1, <3>2
  <2>2. \A i \in 1 .. n : SubSeq(q, 1, n)[i] = s[i]
    BY <1>1, <1>4, <2>1
  <2>3. QED
    BY <2>1, <2>2, SeqEqual
<1>6. SubSeq(q, n + 2, n + 2) = <<y>>
  <2> DEFINE u == SubSeq(q, n + 2, n + 2)
  <2>1. \A i \in n + 2 .. n + 2 : q[i] \in S
    BY <1>1, <1>4
  <2>2. /\ u \in Seq(S)
        /\ Len(u) = IF n + 2 <= n + 2 THEN n + 2 - (n + 2) + 1 ELSE 0
        /\ \A i \in 1 .. n + 2 - (n + 2) + 1 : u[i] = q[n + 2 + i - 1]
    BY <1>1, <2>1, SubSeqProperties
  <2> HIDE DEF u
  <2>3. u \in Seq(S) /\ Len(u) = 1 /\ u[1] = y
    BY <1>1, <1>4, <2>2
  <2>4. u = <<y>>
    BY <1>1, <1>2, <2>3, SeqEqual
  <2>5. QED
    BY <2>4 DEF u
<1> HIDE DEF n
<1>7. Bank!Without(q, n + 1) = s \o <<y>>
  <2>1. n + 1 - 1 = n /\ n + 1 + 1 = n + 2
    BY <1>1
  <2>2. Bank!Without(q, n + 1) = SubSeq(q, 1, n) \o SubSeq(q, n + 2, n + 2)
    BY <1>1, <1>4, <2>1 DEF Bank!Without
  <2>3. QED
    BY <1>5, <1>6, <2>2
<1>8. QED
  BY <1>4, <1>7 DEF n, q, r

\* A press puts its character at the end of the queue.
LEMMA PressIsCommand ==
    ASSUME IInv, NEW c \in Buttons, Press(c)
    PROVE  Bank!Command(byte[c]) /\ byte[c] \in Bytes
<1>1. byte[c] \in Bytes /\ byte[c] # None /\ byte[c] \in Slot
  <2>1. byte[c] \in Bytes /\ byte[c] \in Character
    BY LinkAssumption, WindowAssumption DEF IInv, TypeOK
  <2>2. QED
    BY <2>1 DEF Character, None, Slot
<1>2. OnWire = <<>> /\ OnWire' = <<byte[c]>> /\ InUart' = InUart /\ InFirmware' = InFirmware
  BY <1>1 DEF Press, Send, OnWire, InUart, InFirmware
<1>3. InFirmware \o InUart \in Seq(Slot)
  BY Places DEF IInv
<1>4. Queue' = Append(Queue, byte[c])
  <2>1. Queue = InFirmware \o InUart
    BY <1>2, <1>3, ConcatEmptySeq DEF Queue
  <2>2. Queue' = (InFirmware \o InUart) \o <<byte[c]>>
    BY <1>2 DEF Queue
  <2>3. QED
    BY <1>1, <1>3, <2>1, <2>2, AppendIsConcat
<1>5. QED
  BY <1>1, <1>4 DEF Bank!Command, Queue, Press, Send

\* A character that arrives before the last one was read takes its place.
LEMMA ArrivalLosesAtMostOne ==
    ASSUME IInv, Arrival
    PROVE  Bank!Lose \/ UNCHANGED <<bus, Queue>>
<1>1. /\ wire # None /\ OnWire = <<wire>> /\ OnWire' = <<>> /\ InUart' = <<wire>>
      /\ InFirmware' = InFirmware /\ bus' = bus
  BY DEF Arrival, Receive, Arrive, OnWire, InUart, InFirmware
<1>2. CASE ~unread
  <2>1. Queue = (InFirmware \o <<>>) \o <<wire>> /\ Queue' = (InFirmware \o <<wire>>) \o <<>>
    BY <1>1, <1>2 DEF Queue, InUart
  <2>2. InFirmware = <<>> \/ InFirmware = <<a>>
    BY DEF InFirmware
  <2>3. Queue' = Queue
    BY <2>1, <2>2
  <2>4. QED
    BY <1>1, <2>3
<1>3. CASE unread
  <2> DEFINE i == Len(InFirmware) + 1
  <2>1. Queue = (InFirmware \o <<uart.data>>) \o <<wire>> /\ Queue' = (InFirmware \o <<wire>>) \o <<>>
    BY <1>1, <1>3 DEF Queue, InUart
  <2>2. InFirmware \in Seq(Slot) /\ uart.data \in Slot /\ wire \in Slot
    BY Places, LinkAssumption DEF IInv, TypeOK, LinkTypeOK, UartState, Slot
  <2>3. Len(Queue) = Len(InFirmware) + 2 /\ Bank!Without(Queue, i) = InFirmware \o <<wire>>
    BY <2>1, <2>2, WithoutLastButOne
  <2>4. Queue' = InFirmware \o <<wire>>
    BY <2>1, <2>2, ConcatEmptySeq
  <2>5. i \in 1 .. Len(Queue) - 1
    BY <2>2, <2>3
  <2>6. QED
    BY <1>1, <2>3, <2>4, <2>5 DEF Bank!Lose, Queue
<1>4. QED
  BY <1>2, <1>3

\* The read moves the characters one place on.
LEMMA PollMovesOn ==
    ASSUME IInv, Poll
    PROVE  UNCHANGED <<bus, Queue>>
<1>1. /\ pc = "delay" /\ pc' = "drive" /\ a' = uart.data /\ fresh' = unread /\ bus' = bus
  BY DEF Poll, Sample, SampleColliding, ReadRxData
<1>2. InFirmware = <<>> /\ InFirmware' = InUart
  BY <1>1 DEF InFirmware, InUart
<1>3. InUart' \o OnWire' = OnWire
  <2>1. CASE Sample /\ unread' = FALSE
    BY <2>1 DEF Sample, InUart, OnWire
  <2>2. CASE SampleColliding /\ unread' = TRUE
    BY <2>2 DEF SampleColliding, ArriveDuringRead, InUart, OnWire
  <2>3. QED
    BY <2>1, <2>2 DEF Poll
<1>4. InUart' = <<>> \/ OnWire' = <<>>
  BY DEF Poll, Sample, SampleColliding, InUart, OnWire
<1>5. Queue = InUart \o OnWire
  BY <1>2, Places, ConcatEmptySeq DEF IInv, Queue
<1>6. Queue' = InUart \o OnWire
  <2>1. Queue' = (InUart \o InUart') \o OnWire'
    BY <1>2 DEF Queue
  <2>2. CASE InUart' = <<>>
    BY <1>3, <2>1, <2>2, Places, ConcatEmptySeq DEF IInv, InUart, OnWire
  <2>3. CASE OnWire' = <<>>
    BY <1>3, <2>1, <2>3, Places, ConcatEmptySeq DEF IInv, InUart, OnWire
  <2>4. QED
    BY <1>4, <2>2, <2>3
<1>7. QED
  BY <1>1, <1>5, <1>6

\* The write carries out the oldest command, or repeats the last one.
LEMMA ActCarriesOut ==
    ASSUME IInv, Act
    PROVE  Bank!CarryOut \/ UNCHANGED <<bus, Queue>>
<1>1. UNCHANGED <<wire, uart, a, unread, fresh>> /\ pc' # "drive"
  BY DEF Act, Drive, Echo
<1>2. InUart' = InUart /\ OnWire' = OnWire /\ InFirmware' = <<>>
  BY <1>1 DEF InUart, OnWire, InFirmware
<1>3. CASE pc = "drive" /\ fresh
  <2>1. bus' = [c \in Channels |-> IF c = Channel(a) THEN a ELSE bus[c]]
    BY <1>3, DriveEffect DEF Act, Echo, IInv
  <2>2. InFirmware = <<a>>
    BY <1>3 DEF InFirmware
  <2>3. Queue # <<>> /\ Head(Queue) = a /\ Tail(Queue) = Queue'
    <3> DEFINE rest == InUart \o OnWire
    <3>1. Queue = (<<a>> \o InUart) \o OnWire /\ Queue' = (<<>> \o InUart) \o OnWire
      BY <1>2, <2>2 DEF Queue
    <3>2. a \in Slot /\ <<a>> \in Seq(Slot)
      BY DEF IInv, TypeOK, LinkTypeOK, Slot
    <3>3. InUart \in Seq(Slot) /\ OnWire \in Seq(Slot) /\ rest \in Seq(Slot)
      BY Places, ConcatProperties DEF IInv
    <3>4. Queue = <<a>> \o rest /\ Queue' = rest
      BY <3>1, <3>2, <3>3, ConcatAssociative, ConcatEmptySeq
    <3>5. QED
      BY <3>2, <3>3, <3>4, HeadTailOfConcat
  <2>4. QED
    BY <2>1, <2>3 DEF Bank!CarryOut, Queue
<1>4. CASE ~(pc = "drive" /\ fresh)
  <2>1. bus' = bus
    BY <1>4, OldChangesNothing DEF Act, Drive, Echo
  <2>2. Queue' = Queue
    BY <1>2, <1>4 DEF Queue, InFirmware
  <2>3. QED
    BY <2>1, <2>2
<1>5. QED
  BY <1>3, <1>4

\* However fast the operator presses, every step of the window's link is a step
\* of the lossy bank: a command may be skipped, but none that is the last one,
\* and none overtakes another (the fairness part is left to the model checker).
THEOREM Implementation == Safety => Bank!LossySafety
<1>1. Init => Bank!Init
  BY DEF Init, LinkInit, Bank!Init, InFirmware, InUart, OnWire
<1>2. ASSUME IInv, [Next]_vars PROVE [Bank!LossyNext]_<<bus, Queue>>
  <2>1. ASSUME NEW c \in Buttons, Press(c) PROVE Bank!LossyNext
    BY <1>2, <2>1, PressIsCommand DEF Bank!LossyNext, Bank!Next
  <2>2. ASSUME NEW c \in Buttons, NEW i \in Items, Choose(c, i) PROVE UNCHANGED <<bus, Queue>>
    BY <2>2 DEF Choose, linkVars, Queue, InFirmware, InUart, OnWire
  <2>3. CASE Arrival
    BY <1>2, <2>3, ArrivalLosesAtMostOne DEF Bank!LossyNext
  <2>4. CASE Poll
    BY <1>2, <2>4, PollMovesOn
  <2>5. CASE Act
    BY <1>2, <2>5, ActCarriesOut DEF Bank!LossyNext, Bank!Next
  <2>6. CASE Clock
    BY <2>6 DEF Clock, Tick, Queue, InFirmware, InUart, OnWire
  <2>7. CASE UNCHANGED vars
    BY <2>7 DEF vars, Queue, InFirmware, InUart, OnWire
  <2>8. QED
    BY <1>2, <2>1, <2>2, <2>3, <2>4, <2>5, <2>6, <2>7 DEF Next, Firmware
<1>3. ASSUME IInv, [Next]_vars PROVE [Bank!LossyNext]_(Bank!bankVars)
  BY <1>2, <1>3 DEF Bank!bankVars, Queue
<1>4. QED
  BY <1>1, <1>3, Invariance, PTL DEF Safety, Bank!LossySafety
=============================================================================
