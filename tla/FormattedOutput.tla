--------------------------- MODULE FormattedOutput ---------------------------
(* The two printfs of the HAL: alt_printf (alt_printf.c) and the one of the  *)
(* logging port, alt_log_private_printf, with the echo of write() that uses  *)
(* it (alt_log_printf.c).  A text is a sequence of characters.  The          *)
(* arguments are a sequence: numbers of one word, characters and texts.      *)
EXTENDS Integers, Sequences, SequencesExt

CONSTANTS Nibbles,   \* of four bits each in a word: eight
          EchoLen    \* ALT_LOG_WRITE_ECHO_LEN, 15

ASSUME OutputAssumption == Nibbles \in Nat \ {0} /\ EchoLen \in Nat \ {0, 1}

\* The place values of a word's digits.
Sixteens[i \in 0 .. Nibbles] == IF i = 0 THEN 1 ELSE 16 * Sixteens[i - 1]
WordSize == Sixteens[Nibbles]

Decimals == <<"0", "1", "2", "3", "4", "5", "6", "7", "8", "9">>
DecimalOf(c) == CHOOSE k \in 0 .. 9 : Decimals[k + 1] = c
Digit(d, upper) ==
    IF d < 10 THEN Decimals[d + 1]
    ELSE (IF upper THEN <<"A", "B", "C", "D", "E", "F">> ELSE <<"a", "b", "c", "d", "e", "f">>)[d - 9]
Repeated(c, n) == [i \in 1 .. n |-> c]

Emit(s, text) == [s EXCEPT !.out = @ \o text]
Pop(s) == [s EXCEPT !.args = Tail(@)]

-----------------------------------------------------------------------------
(* alt_log_private_printf: a character of the format at a time.             *)

LogStart(args) ==
    [state |-> "chars", zero |-> FALSE, base |-> 10, signed |-> TRUE, upper |-> FALSE,
     before |-> -1, after |-> -1, args |-> args, out |-> <<>>]

\* Mutant: leading zeros, once asked for, are kept for the next number.
DirectiveKeepsZero(s) ==
    [LogStart(s.args) EXCEPT !.state = "first", !.out = s.out, !.zero = s.zero]

Directive(s) == [LogStart(s.args) EXCEPT !.state = "first", !.out = s.out]

\* The number of digits, and the place value of the first.
Places(v, base) ==
    LET places[n \in 0 .. v] ==
            IF n \div base = 0 THEN [digits |-> 1, p |-> 1]
            ELSE LET q == places[n \div base] IN [digits |-> q.digits + 1, p |-> q.p * base]
    IN places[v]

\* A digit a turn, until the place value is 0: the first one has as many factors
\* of the base as there are digits but one, so that many turns.
Numeral(v, places, base, upper) ==
    LET turn[i \in 0 .. places.digits] ==
            IF i = 0 THEN [v |-> v, p |-> places.p, text |-> <<>>]
            ELSE LET t == turn[i - 1]
                 IN [v |-> t.v % t.p, p |-> t.p \div base, text |-> Append(t.text, Digit(t.v \div t.p, upper))]
    IN turn[places.digits].text

\* doIntegerPrint: the sign bit is stripped by a complement of one word.
LogInteger(s) ==
    LET v == Head(s.args)
        sign == s.signed /\ v >= WordSize \div 2
        mag == IF sign THEN (WordSize - v) % WordSize ELSE v
        places == Places(mag, s.base)
        minus == IF sign THEN <<"-">> ELSE <<>>
        pad == s.before - places.digits - Len(minus)
        number == Numeral(mag, places, s.base, s.upper)
    IN Emit(Pop(s), IF s.zero THEN minus \o Repeated("0", pad) \o number
                    ELSE Repeated(" ", pad) \o minus \o number)

Letter(s, c) ==
    CASE c \in {"d", "i"} -> LogInteger(s)
      [] c = "u" -> LogInteger([s EXCEPT !.signed = FALSE])
      [] c = "o" -> LogInteger([s EXCEPT !.signed = FALSE, !.base = 8])
      [] c = "x" -> LogInteger([s EXCEPT !.signed = FALSE, !.base = 16])
      [] c = "X" -> LogInteger([s EXCEPT !.signed = FALSE, !.base = 16, !.upper = TRUE])
      [] c = "c" -> Emit(Pop(s), Repeated(" ", s.before - 1) \o <<Head(s.args)>>)
      [] c = "s" -> Emit(Pop(s), Repeated(" ", s.before - Len(Head(s.args))) \o Head(s.args))
      [] OTHER -> s

\* int and long have one size: the l changes nothing.
OtherFmtChar(s, c) ==
    CASE c = "." -> [s EXCEPT !.after = 0]
      [] c \in ToSet(Decimals) /\ s.after < 0 ->
            [s EXCEPT !.before = (IF @ < 0 THEN 0 ELSE @ * 10) + DecimalOf(c)]
      [] c \in ToSet(Decimals) /\ s.after >= 0 -> [s EXCEPT !.after = @ * 10 + DecimalOf(c)]
      [] c = "l" -> s
      [] OTHER -> [Letter(s, c) EXCEPT !.state = "chars"]

LogChar(s, c) ==
    CASE s.state = "chars" /\ c = "%" -> Directive(s)
      [] s.state = "chars" /\ c # "%" -> Emit(s, <<c>>)
      [] s.state = "first" /\ c = "0" -> [s EXCEPT !.zero = TRUE, !.state = "other"]
      [] s.state = "first" /\ c = "%" -> [Emit(s, <<c>>) EXCEPT !.state = "chars"]
      [] OTHER -> OtherFmtChar([s EXCEPT !.state = "other"], c)

LogText(fmt, args) ==
    LET run[n \in 0 .. Len(fmt)] == IF n = 0 THEN LogStart(args) ELSE LogChar(run[n - 1], fmt[n])
    IN run[Len(fmt)].out

\* ALT_LOG_WRITE_ON_FLAG_SETTING, by ALT_LOG_FLAGS.
WriteOn(level) == level \in {2, 3}

\* How many characters of a text are to be echoed.
EchoLength(text) == IF EchoLen > Len(text) THEN Len(text) ELSE EchoLen

\* alt_log_write: a copy of the start of what write() was given, the end of the
\* line written over its last character, then the Ctrl-D that would end the
\* terminal replaced.  (A text has no null character.)
Echo(text) ==
    LET length == EchoLength(text)
        line == [SubSeq(text, 1, length) EXCEPT ![length] = "\n"] \o <<"\r">>
    IN IF length < 2 THEN <<>>
       ELSE [i \in 1 .. length + 1 |-> IF i <= length /\ line[i] = "^D" THEN "D" ELSE line[i]]

-----------------------------------------------------------------------------
(* alt_printf.                                                              *)

Nibble(v, i) == (v \div Sixteens[i]) % 16

\* The digits from the first that is not zero.
Hex(v) ==
    IF v = 0 THEN <<"0">>
    ELSE LET first == CHOOSE i \in 0 .. Nibbles - 1 :
                          Nibble(v, i) # 0 /\ \A j \in i + 1 .. Nibbles - 1 : Nibble(v, j) = 0
         IN [k \in 1 .. first + 1 |-> Digit(Nibble(v, first + 1 - k), FALSE)]

AltChar(s, c) ==
    CASE ~s.percent /\ c # "%" -> Emit(s, <<c>>)
      [] ~s.percent /\ c = "%" -> [s EXCEPT !.percent = TRUE]
      [] s.percent /\ c = "%" -> [Emit(s, <<c>>) EXCEPT !.percent = FALSE]
      [] s.percent /\ c = "c" -> [Emit(Pop(s), <<Head(s.args)>>) EXCEPT !.percent = FALSE]
      [] s.percent /\ c = "s" -> [Emit(Pop(s), Head(s.args)) EXCEPT !.percent = FALSE]
      [] s.percent /\ c = "x" -> [Emit(Pop(s), Hex(Head(s.args))) EXCEPT !.percent = FALSE]
      [] OTHER -> [s EXCEPT !.percent = FALSE]

AltStart(args) == [percent |-> FALSE, args |-> args, out |-> <<>>]

AltText(fmt, args) ==
    LET run[n \in 0 .. Len(fmt)] == IF n = 0 THEN AltStart(args) ELSE AltChar(run[n - 1], fmt[n])
    IN run[Len(fmt)].out
=============================================================================
