---------------------------- MODULE UartSettings ----------------------------
(* TIOCMGET and TIOCMSET of the UART driver (altera_avalon_uart_ioctl.c): a  *)
(* copy of the termios structure and the core's divisor.  Of the structure,  *)
(* c_cflag stands for everything but the two speeds.                         *)
EXTENDS Integers

CONSTANTS Freq,    \* of the core's clock
          Baud,    \* the speed it was built with
          Speeds,  \* those asked for: 0, which divides by zero, is not
          Flags,   \* values of c_cflag
          Built    \* the one the core was built with

ASSUME SettingsAssumption ==
    /\ Freq \in Nat /\ Speeds \subseteq 1 .. Freq /\ Baud \in Speeds /\ Built \in Flags

Termios == [c_cflag : Flags, c_ispeed : Speeds, c_ospeed : Speeds]
BaudDivisor(speed) == (Freq \div speed) - 1

\* A port whose speed can be set, or cannot: ALT_AVALON_UART_FB.
Ports ==
    [termios : {[c_cflag |-> Built, c_ispeed |-> Baud, c_ospeed |-> Baud]},
     fixed : BOOLEAN, divisor : {BaudDivisor(Baud)}]

WithSpeed(t, speed) == [t EXCEPT !.c_ispeed = speed, !.c_ospeed = speed]

\* What a request returns, what becomes of the port, and of its argument.
Answer(rc, port, term) == [rc |-> rc, port |-> port, term |-> term]

\* Mutant: the speed of a request that is refused stays.
SetKeepsSpeed(port, term) ==
    LET wanted == IF port.fixed THEN port.termios ELSE WithSpeed(port.termios, term.c_ispeed)
    IN IF term # wanted THEN Answer("EIO", [port EXCEPT !.termios = wanted], term)
       ELSE Answer("ok", [port EXCEPT !.termios = wanted, !.divisor = BaudDivisor(wanted.c_ispeed)], term)

TiocmSet(port, term) ==
    LET wanted == IF port.fixed THEN port.termios ELSE WithSpeed(port.termios, term.c_ispeed)
    IN IF term # wanted
       THEN Answer("EIO", [port EXCEPT !.termios = WithSpeed(@, port.termios.c_ispeed)], term)
       ELSE Answer("ok", [port EXCEPT !.termios = wanted, !.divisor = BaudDivisor(wanted.c_ispeed)], term)

TiocmGet(port) == Answer("ok", port, port.termios)

\* altera_avalon_uart_ioctl
UartIoctl(port, req, term) ==
    CASE req = "TIOCMGET" -> TiocmGet(port)
      [] req = "TIOCMSET" -> TiocmSet(port, term)
      [] OTHER -> Answer("ENOTTY", port, term)
=============================================================================
