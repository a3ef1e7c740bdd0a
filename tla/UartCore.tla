------------------------------ MODULE UartCore ------------------------------
(***************************************************************************)
(* The receive side of the RS-232 core of the FPGA (nios_led_rs232.v): one *)
(* holding register and its two flags, no FIFO.  The record has            *)
(*   data  rx_data: the last character received, kept after it is read     *)
(*   rrdy  rx_char_ready: a character arrived since the last RXDATA read   *)
(*   roe   rx_overrun: a character arrived while rrdy was still set;       *)
(*         sticky until the status register is written                     *)
(* Each operator is the effect of one clock edge on the record.            *)
(***************************************************************************)
EXTENDS Integers

\* A character is eight bits (data width of the core).
Character == 0 .. 255

UartState == [data : Character, rrdy : BOOLEAN, roe : BOOLEAN]

\* reset_n = 0.
UartReset == [data |-> 0, rrdy |-> FALSE, roe |-> FALSE]

\* Mutant: a character that is not read yet is kept instead of the new one.
ArriveUnlessReady(u, b) ==
    IF u.rrdy THEN [u EXCEPT !.roe = TRUE] ELSE [data |-> b, rrdy |-> TRUE, roe |-> u.roe]

\* got_new_char: the shift register holds a whole character.
Arrive(u, b) == [data |-> b, rrdy |-> TRUE, roe |-> u.roe \/ u.rrdy]

\* The CPU reads RXDATA (rx_rd_strobe_onset); the data register is kept.
ReadData(u) == [u EXCEPT !.rrdy = FALSE]

\* Mutant: the character that arrives during a read is dropped.
DropDuringRead(u, b) == [u EXCEPT !.rrdy = FALSE]

(***************************************************************************)
(* Both in the same clock cycle.  The CPU gets the old character (readdata *)
(* is latched from rx_data before the edge), rx_data takes the new one,    *)
(* and clearing rx_char_ready has priority over setting it: the new        *)
(* character is in the data register with RRDY clear.                      *)
(***************************************************************************)
ArriveDuringRead(u, b) ==
    [data |-> b, rrdy |-> FALSE, roe |-> u.roe \/ u.rrdy]
=============================================================================
