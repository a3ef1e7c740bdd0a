---------------------------- MODULE ControlWindow ----------------------------
(***************************************************************************)
(* The LED control window (ledcontroll.m) on the command link of LedLink:  *)
(* per channel a popup menu, which chooses the character, and a button,    *)
(* which sends it.  Unlike the scripts, nothing keeps the operator from    *)
(* pressing buttons faster than the firmware reads.                        *)
(*                                                                         *)
(* lastSent, unread and fresh are history variables, as in PacedLink.      *)
(***************************************************************************)
EXTENDS LedLink, Sequences

CONSTANTS
    Buttons,    \* the channels whose controls the operator uses
    Items       \* the entries of the menus he chooses

\* The code of each entry, the same in the three menus: off first, then by
\* rising frequency, constant light last.
Menu ==
    <<0, 55, 47, 54, 46, 53, 45, 39, 52, 31, 44, 38, 30, 51, 23, 15, 37, 43, 22, 29,
      14, 36, 50, 21, 13, 28, 42, 20, 35, 12, 27, 19, 49, 11, 34, 41, 26, 18, 10, 33,
      25, 17, 48, 9, 40, 32, 24, 16, 8, 56>>

\* byte1, byte2 and byte3 of the window, with the code k.
Byte(c, k) == 64 * c + k

ASSUME WindowAssumption ==
    /\ Buttons \subseteq Channels
    /\ Items \subseteq DOMAIN Menu
    /\ {Byte(c, 0) : c \in Channels} \subseteq Bytes
    /\ {Byte(c, Menu[i]) : c \in Channels, i \in Items} \subseteq Bytes

VARIABLES
    byte,       \* per channel, the character its button sends
    lastSent,   \* the last character sent, or None
    unread,     \* a character reached the data register since it was last read
    fresh       \* the character in a was unread when it was read

vars == <<wire, uart, pc, a, elapsed, bus, echo, byte, lastSent, unread, fresh>>

TypeOK ==
    /\ LinkTypeOK
    /\ byte \in [Channels -> Bytes]
    /\ lastSent \in Bytes \cup {None}
    /\ unread \in BOOLEAN
    /\ fresh \in BOOLEAN

\* ledcontroll_OpeningFcn, on a board out of reset.
Init ==
    /\ LinkInit
    /\ byte = [c \in Channels |-> Byte(c, 0)]
    /\ lastSent = None
    /\ unread = FALSE
    /\ fresh = FALSE

-----------------------------------------------------------------------------
\* Mutant: every menu has the offset of the first.
ChooseForFirst(c, i) ==
    /\ byte' = [byte EXCEPT ![c] = Byte(1, Menu[i])]
    /\ UNCHANGED <<linkVars, lastSent, unread, fresh>>

\* popupmenuN_Callback.
Choose(c, i) ==
    /\ byte' = [byte EXCEPT ![c] = Byte(c, Menu[i])]
    /\ UNCHANGED <<linkVars, lastSent, unread, fresh>>

\* pushbuttonN_Callback.
Press(c) ==
    /\ Send(byte[c])
    /\ lastSent' = byte[c]
    /\ UNCHANGED <<byte, unread, fresh>>

Arrival ==
    /\ Receive
    /\ unread' = TRUE
    /\ UNCHANGED <<byte, lastSent, fresh>>

Poll ==
    /\ \/ Sample /\ unread' = FALSE
       \/ SampleColliding /\ unread' = TRUE
    /\ fresh' = unread
    /\ UNCHANGED <<byte, lastSent>>

Act == (Drive \/ Echo) /\ UNCHANGED <<byte, lastSent, unread, fresh>>

Clock == Tick /\ UNCHANGED <<byte, lastSent, unread, fresh>>

Firmware == Poll \/ Act

Next ==
    \/ Arrival \/ Firmware \/ Clock
    \/ \E c \in Buttons : Press(c) \/ \E i \in Items : Choose(c, i)

Safety == Init /\ [][Next]_vars

(***************************************************************************)
(* The board goes on.  Clock is strongly fair because a character on the   *)
(* line only delays the next tick: buttons pressed again and again do not  *)
(* stop time.  Nothing is assumed of the operator.                         *)
(***************************************************************************)
Spec == Safety /\ WF_vars(Arrival) /\ WF_vars(Firmware) /\ SF_vars(Clock)

-----------------------------------------------------------------------------
\* Where a character can be on its way to its bus.
OnWire == IF wire = None THEN <<>> ELSE <<wire>>
InUart == IF unread THEN <<uart.data>> ELSE <<>>
InFirmware == IF pc = "drive" /\ fresh THEN <<a>> ELSE <<>>

Bank == INSTANCE LossyBank WITH pending <- InFirmware \o InUart \o OnWire

(***************************************************************************)
(* However fast the buttons are pressed, the link is a light bank that may *)
(* skip commands: it reorders and repeats none, and never skips the last.  *)
(***************************************************************************)
ImplementsLossyBank == Bank!LossySpec

(***************************************************************************)
(* The last button pressed wins: its light comes on as chosen, unless      *)
(* another press follows.                                                  *)
(***************************************************************************)
LastPressWins ==
    \A b \in Bytes : lastSent = b ~> (bus[Channel(b)] = b \/ lastSent # b)

(***************************************************************************)
(* When no character is on its way, the bus of the last command shows it.  *)
(***************************************************************************)
Quiet == wire = None /\ ~unread /\ ~(pc = "drive" /\ fresh)

QuietShowsLast == Quiet /\ lastSent # None => bus[Channel(lastSent)] = lastSent

-----------------------------------------------------------------------------
\* The characters on their way end with the last one sent, and those that were
\* seen before show on their buses.
Newest ==
    lastSent # None => lastSent = IF wire # None THEN wire ELSE uart.data

SeenShows ==
    /\ pc = "drive" /\ ~unread => a = uart.data
    /\ ~unread /\ ~(pc = "drive" /\ fresh) /\ Channel(uart.data) \in Channels
         => bus[Channel(uart.data)] = uart.data
    /\ pc = "drive" /\ ~fresh /\ Channel(a) \in Channels => bus[Channel(a)] = a
    /\ lastSent = None => wire = None /\ ~unread

\* Each button sends to its own channel.
OwnChannel ==
    /\ \A c \in Channels : Channel(byte[c]) = c
    /\ lastSent # None => Channel(lastSent) \in Channels

IInv == TypeOK /\ OwnChannel /\ Newest /\ SeenShows
=============================================================================
