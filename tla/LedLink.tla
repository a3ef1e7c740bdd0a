------------------------------- MODULE LedLink -------------------------------
(***************************************************************************)
(* The command link of LIVIPS: a host writes one-byte commands to a serial *)
(* line, the UART core of the FPGA keeps the last one received, and the    *)
(* Nios II firmware (hello_world_small.c) copies it, once per loop, to one *)
(* of the three PIO buses that drive the LEDs.                             *)
(*                                                                         *)
(* The firmware does not look at RRDY: it reads RXDATA once per loop,      *)
(* whether or not something arrived, so a command that is overwritten      *)
(* between two reads is lost, and the last command is applied again and    *)
(* again.  What happens therefore depends on time.  Time is discrete, one  *)
(* Tick at a time; the delay loop makes the time between two reads         *)
(* MinPeriod..Period ticks, and the transfer of a character (87 us at      *)
(* 115200 baud) and the body of ledDemo take less than a tick.             *)
(*                                                                         *)
(* This module has the link only: who sends, and when, is in the modules   *)
(* that extend it.                                                         *)
(***************************************************************************)
EXTENDS UartCore

CONSTANTS
    Bytes,      \* the characters hosts send
    MinPeriod,  \* least and
    Period      \* greatest number of ticks from one read of RXDATA to the next

ASSUME LinkAssumption ==
    /\ Bytes \subseteq Character
    /\ MinPeriod \in Nat \ {0}
    /\ Period \in Nat
    /\ MinPeriod <= Period

VARIABLES
    wire,   \* the character on the line, or None
    uart,   \* receive registers of the core
    pc,     \* where the firmware is: "delay", "drive" or "echo"
    a,      \* ledDemo's local: the character it read last
    elapsed,\* ticks since the firmware read RXDATA
    bus,    \* the output registers of the three PIO cores
    echo    \* the last line printf sent back: its label and its number

linkVars == <<wire, uart, pc, a, elapsed, bus, echo>>

None == 256             \* not a character
Channels == 1 .. 3

\* a/64 selects the bus; the other six bits are the code the LED unit gets.
Channel(b) == b \div 64
Code(b) == b % 64

\* The channels whose LED is not off (code 0 is off).
Lit(buses) == {c \in Channels : Code(buses[c]) # 0}

LinkTypeOK ==
    /\ wire \in Bytes \cup {None}
    /\ uart \in UartState
    /\ pc \in {"delay", "drive", "echo"}
    /\ a \in Character
    /\ elapsed \in 0 .. Period
    /\ bus \in [Channels -> Character]
    /\ echo \in [label : 0 .. 3, value : Character]

\* Out of reset the buses and the UART registers are zero.
LinkInit ==
    /\ wire = None
    /\ uart = UartReset
    /\ pc = "delay"
    /\ a = 0
    /\ elapsed = Period         \* main calls ledDemo before its first delay
    /\ bus = [c \in Channels |-> 0]
    /\ echo = [label |-> 0, value |-> 0]

-----------------------------------------------------------------------------
(* The host writes one character; the write returns when it is on the line. *)
Send(b) ==
    /\ wire = None
    /\ wire' = b
    /\ UNCHANGED <<uart, pc, a, elapsed, bus, echo>>

\* The core has the whole character.
Receive ==
    /\ wire # None
    /\ uart' = Arrive(uart, wire)
    /\ wire' = None
    /\ UNCHANGED <<pc, a, elapsed, bus, echo>>

\* Mutant: only when RRDY is set.
ReadIfReady ==
    /\ pc = "delay" /\ elapsed >= MinPeriod /\ uart.rrdy
    /\ a' = uart.data /\ pc' = "drive" /\ elapsed' = 0
    /\ UNCHANGED <<bus, echo>>

\* delay() is over: ledDemo reads RXDATA, without a look at RRDY.
ReadRxData ==
    /\ pc = "delay"
    /\ elapsed >= MinPeriod
    /\ a' = uart.data
    /\ pc' = "drive"
    /\ elapsed' = 0
    /\ UNCHANGED <<bus, echo>>

Sample ==
    /\ ReadRxData
    /\ uart' = ReadData(uart)
    /\ wire' = wire

\* The read and the end of a character fall in the same clock cycle.
SampleColliding ==
    /\ wire # None
    /\ ReadRxData
    /\ uart' = ArriveDuringRead(uart, wire)
    /\ wire' = None

\* Mutants of Drive: buses 1 and 2 swapped; the other buses are cleared; code 0
\* is not written.
DriveOnly(select, next) ==
    /\ pc = "drive" /\ pc' = "delay"
    /\ bus' = IF select THEN next ELSE bus
    /\ UNCHANGED <<wire, uart, a, elapsed, echo>>

DriveSwapped ==
    DriveOnly(Channel(a) \in Channels,
              [bus EXCEPT ![CASE Channel(a) = 1 -> 2 [] Channel(a) = 2 -> 1 [] OTHER -> 3] = a])
DriveExclusive ==
    DriveOnly(Channel(a) \in Channels, [c \in Channels |-> IF c = Channel(a) THEN a ELSE 0])
DriveUnlessOff ==
    DriveOnly(Channel(a) \in Channels /\ Code(a) # 0, [bus EXCEPT ![Channel(a)] = a])

\* IOWR_ALTERA_AVALON_PIO_DATA on the bus a selects; a < 64 selects none.
Drive ==
    /\ pc = "drive"
    /\ \/ /\ Channel(a) \in Channels
          /\ bus' = [bus EXCEPT ![Channel(a)] = a]
          /\ pc' = "echo"
       \/ /\ Channel(a) \notin Channels
          /\ bus' = bus
          /\ pc' = "delay"
    /\ UNCHANGED <<wire, uart, a, elapsed, echo>>

\* printf after the write: buses 1 and 2 print "1 get", bus 3 "3 get".
Echo ==
    /\ pc = "echo"
    /\ echo' = [label |-> IF Channel(a) = 3 THEN 3 ELSE 1, value |-> a]
    /\ pc' = "delay"
    /\ UNCHANGED <<wire, uart, a, elapsed, bus>>

\* One tick of delay(), which never outlasts Period; a character takes less.
Tick ==
    /\ pc = "delay"
    /\ elapsed < Period
    /\ wire = None
    /\ elapsed' = elapsed + 1
    /\ UNCHANGED <<wire, uart, pc, a, bus, echo>>
=============================================================================
