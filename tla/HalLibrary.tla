------------------------------ MODULE HalLibrary ------------------------------
(* Library routines of the HAL: a call is made and returns.  They are        *)
(* functions of their arguments, but for the settings of a UART.             *)
EXTENDS FormattedOutput, TimeOfDay, CacheFlush, UartSettings

CONSTANTS Numbers,   \* arguments of %d and the like
          Texts,     \* arguments of %s and of write()
          Widths,    \* what a directive has between % and its letter
          MaxSec,    \* bound: the times that are set
          MaxTicks,  \* bound: the ticks since reset
          MaxAddress \* bound: the start and the length of a region

ASSUME LibraryAssumption ==
    {MaxSec, MaxTicks, MaxAddress} \subseteq Nat /\ MaxAddress < Bypass

\* Numbers are words, texts sequences of characters, and widths have digits and l.
ASSUME FormatAssumption ==
    /\ Numbers \subseteq 0 .. WordSize - 1 /\ Texts \subseteq Seq(STRING)
    /\ Widths \subseteq Seq(ToSet(Decimals) \cup {"l"})

VARIABLES
    call,  \* the call under way, with its result
    port   \* the UART's settings

libraryVars == <<call, port>>

Idle == [routine |-> "none"]
LibraryInit == call = Idle /\ port \in Ports

\* Directives with the arguments they take; the first have no argument.
NumberLetters == {"d", "i", "u", "o", "x", "X"}
Of(fmt, args) == [fmt |-> fmt, args |-> args]
Literals == {Of(<<"x">>, <<>>), Of(<<"0">>, <<>>), Of(<<"%", "%">>, <<>>)}
Taking(w, letter, arg) == Of(<<"%">> \o w \o <<letter>>, <<arg>>)
Numeric(widths, letters) == {Taking(w, c, v) : w \in widths, c \in letters, v \in Numbers}
Textual(widths) == {Taking(w, "s", t) : w \in widths, t \in Texts}
Single(widths) == {Taking(w, "c", c) : w \in widths, c \in {"x", "%"}}

Small == Literals \cup Numeric({<<>>}, {"x"}) \cup Textual({<<>>}) \cup Single({<<>>})
Directives == Literals \cup Numeric(Widths, NumberLetters) \cup Textual(Widths) \cup Single(Widths)

\* The second directive of a format: it has a width now and then.
Followers == Small \cup Numeric({<<"4">>}, {"d"})

\* alt_log_printf_proc.
Log ==
    /\ call = Idle /\ UNCHANGED port
    /\ \E a \in Directives, b \in Followers :
          call' = [routine |-> "log", first |-> a, second |-> b,
                   text |-> LogText(a.fmt \o b.fmt, a.args \o b.args)]

AltPrintf ==
    /\ call = Idle /\ UNCHANGED port
    /\ \E a, b \in Small :
          call' = [routine |-> "alt_printf", first |-> a, second |-> b,
                   text |-> AltText(a.fmt \o b.fmt, a.args \o b.args)]

LogWrite ==
    /\ call = Idle /\ UNCHANGED port
    /\ \E t \in Texts, level \in -1 .. 3 :
          call' = [routine |-> "alt_log_write", of |-> t, level |-> level,
                   text |-> IF WriteOn(level) THEN Echo(t) ELSE <<>>]

\* settimeofday() at one tick and gettimeofday() at a later one.
Clock ==
    /\ call = Idle /\ UNCHANGED port
    /\ \E sec \in 0 .. MaxSec, usec \in 0 .. US - 1, n \in 0 .. MaxTicks, m \in 0 .. MaxTicks :
          LET t == [sec |-> sec, usec |-> usec]
          IN /\ n <= m
             /\ call' = [routine |-> "time", t |-> t, set |-> n, get |-> m,
                         time |-> GetTime(SetTime(t, n), m)]

Usleep ==
    /\ call = Idle /\ UNCHANGED port
    /\ \E us \in 0 .. Modulus - 1, reloaded \in BOOLEAN :
          call' = [routine |-> "usleep", us |-> us, turns |-> Slept(us, reloaded)]

\* A call that flushes a region if it does not fail, and returns a pointer.
Cleaned(routine, rc, pointer, instr, start, len) ==
    [routine |-> routine, rc |-> rc, pointer |-> pointer, instr |-> instr, start |-> start, len |-> len,
     lines |-> IF rc = "ok" THEN FlushedLines(instr, start, len) ELSE {}]

Flush ==
    /\ call = Idle /\ UNCHANGED port
    /\ \E instr \in Instructions, start \in 0 .. MaxAddress, len \in 0 .. MaxAddress :
          call' = Cleaned("flush", "ok", start, instr, start, len)

\* alt_remap_uncached of a block, and alt_uncached_malloc.
Uncache ==
    /\ call = Idle /\ UNCHANGED port
    /\ \E instr \in DataInstructions, start \in 0 .. MaxAddress, len \in 0 .. MaxAddress :
          \E pointer \in {Uncached(start), UncachedBlock(start)} :
              call' = Cleaned("uncache", "ok", pointer, instr, start, len)

\* alt_erase_flash_block and alt_write_flash_block: nothing is flushed when the
\* driver fails.
FlashBlock ==
    /\ call = Idle /\ UNCHANGED port
    /\ \E rc \in {"ok", "EIO"}, instr \in DataInstructions,
          start \in 0 .. MaxAddress, len \in 0 .. MaxAddress :
          call' = Cleaned("flash", rc, start, instr, start, len)

\* The call remembers the port it found.
Ioctl ==
    /\ call = Idle
    /\ \E req \in {"TIOCMGET", "TIOCMSET", "TIOCEXCL"}, term \in Termios :
          LET result == UartIoctl(port, req, term)
          IN /\ port' = result.port
             /\ call' = [routine |-> "ioctl", term |-> result.term, rc |-> result.rc, found |-> port]

Resumed == call # Idle /\ call' = Idle /\ UNCHANGED port

LibraryNext ==
    \/ Log \/ AltPrintf \/ LogWrite \/ Clock \/ Usleep
    \/ Flush \/ Uncache \/ FlashBlock \/ Ioctl \/ Resumed

LibrarySpec == LibraryInit /\ [][LibraryNext]_libraryVars

-----------------------------------------------------------------------------
(* What a directive stands for, as the C standard says it.                  *)

ValueOfDigit(c) == CHOOSE d \in 0 .. 15 : c \in {Digit(d, TRUE), Digit(d, FALSE)}

ValueOf(digits, base) ==
    LET value[i \in 0 .. Len(digits)] ==
            IF i = 0 THEN 0 ELSE value[i - 1] * base + ValueOfDigit(digits[i])
    IN value[Len(digits)]

WidthOf(fmt) ==
    LET width[i \in 0 .. Len(fmt)] ==
            IF i = 0 THEN 0
            ELSE IF fmt[i] \in ToSet(Decimals) THEN width[i - 1] * 10 + DecimalOf(fmt[i])
            ELSE width[i - 1]
    IN width[Len(fmt)]

IsNumeral(digits, v, letter) ==
    LET base == CASE letter \in {"d", "i", "u"} -> 10 [] letter = "o" -> 8 [] OTHER -> 16
    IN /\ digits # <<>> /\ (Len(digits) > 1 => digits[1] # "0")
       /\ \A i \in DOMAIN digits : \E d \in 0 .. base - 1 : digits[i] = Digit(d, letter = "X")
       /\ ValueOf(digits, base) = v

IsNumber(fmt, v, text) ==
    LET letter == Last(fmt)
        zero == fmt[2] = "0"
        minus == letter \in {"d", "i"} /\ v >= WordSize \div 2
        mag == IF minus THEN WordSize - v ELSE v
        sign == IF minus THEN <<"-">> ELSE <<>>
    IN \E pad \in 0 .. Len(text) :
          LET head == IF zero THEN sign \o Repeated("0", pad) ELSE Repeated(" ", pad) \o sign
          IN /\ IsPrefix(head, text)
             /\ IsNumeral(SubSeq(text, Len(head) + 1, Len(text)), mag, letter)
             /\ Len(text) >= WidthOf(fmt)
             /\ pad > 0 => Len(text) = WidthOf(fmt)

IsPadded(fmt, arg, text) ==
    \E pad \in 0 .. Len(text) :
        /\ text = Repeated(" ", pad) \o arg
        /\ Len(text) >= WidthOf(fmt) /\ (pad > 0 => Len(text) = WidthOf(fmt))

Means(d, text) ==
    CASE d.args = <<>> -> text = <<Last(d.fmt)>>
      [] d.args # <<>> /\ Last(d.fmt) = "s" -> IsPadded(d.fmt, d.args[1], text)
      [] d.args # <<>> /\ Last(d.fmt) = "c" -> IsPadded(d.fmt, d.args, text)
      [] OTHER -> IsNumber(d.fmt, d.args[1], text)

Echoed(c) == IF c = "^D" THEN "D" ELSE c

\* With the echo of write() on, every character but the last of those that are to
\* be echoed is in the line, a Ctrl-D as D, and then the line ends; it fits in its
\* buffer.  Nothing is echoed otherwise, nor of a single character.
EchoRight ==
    call.routine = "alt_log_write" =>
        LET length == EchoLength(call.of)
        IN IF WriteOn(call.level) /\ length > 1
           THEN /\ Len(call.text) = length + 1 /\ "^D" \notin ToSet(call.text)
                /\ \A i \in 1 .. length - 1 : call.text[i] = Echoed(call.of[i])
                /\ call.text[length] = "\n" /\ call.text[length + 1] = "\r"
           ELSE call.text = <<>>

\* alt_log_printf.c:437-439: the first ALT_LOG_WRITE_ECHO_LEN characters are echoed.
\* Not so: the end of the line takes the place of the last one.
EchoesFirst ==
    call.routine = "alt_log_write" /\ WriteOn(call.level) =>
        \A i \in 1 .. EchoLength(call.of) :
            i <= Len(call.text) /\ call.text[i] = Echoed(call.of[i])

\* Both printfs print what the directives stand for, one after the other: the
\* digits, the padding, the sign of the least number, and no directive leaves
\* anything behind for the next.  So does the echo of write().
TextRight ==
    /\ EchoRight
    /\ call.routine \in {"log", "alt_printf"} =>
          \E n \in 0 .. Len(call.text) :
              /\ Means(call.first, SubSeq(call.text, 1, n))
              /\ Means(call.second, SubSeq(call.text, n + 1, Len(call.text)))

Micros(t) == t.sec * US + t.usec

\* The clock runs on from what was set, by the tick, with its microseconds
\* below a second: as long as a tick is a whole number of microseconds and the
\* product in settimeofday() fits in a word.
TimeKept ==
    call.routine = "time" /\ US % Rate = 0 /\ call.set * Tick < Modulus =>
        /\ Micros(call.time) = Micros(call.t) + (call.get - call.set) * Tick
        /\ call.time.usec \in 0 .. US - 1

\* The cycles that usleep()'s loops take are those of the time asked for, or more,
\* whatever the compiler makes of the register: less the cycles of a second that
\* the truncated PerUs does not count.  Where a microsecond is a whole number of
\* turns that is none; at 50 MHz and 9 cycles a turn it is one in ten.
SleepWithinRounding ==
    call.routine = "usleep" =>
        call.turns * LoopCycles * US >= call.us * (CpuFreq - (CpuFreq % (LoopCycles * US)))

\* alt_busy_sleep.c:28-34: the delay is calibrated.  Not so: with the fraction of a
\* turn that PerUs drops, usleep() may be shorter than asked.
SleepsLongEnough ==
    call.routine = "usleep" => call.turns * LoopCycles * US >= call.us * CpuFreq

\* Every line the region touches is flushed, wherever in a line it starts and
\* however long it is, and no line but those and the next one: before a pointer
\* that bypasses the cache is given out, which leads back to the block, and after
\* a block of flash was erased or written.
RegionFlushed ==
    call.routine \in {"flush", "uncache", "flash"} /\ call.rc = "ok" =>
        LET region == call.start .. call.start + call.len - 1
            behind == call.start + call.len
            Lines(S) == {LineOf(call.instr, a) : a \in S}
        IN /\ Cached(call.pointer) = call.start
           /\ Lines(region) \subseteq call.lines
           /\ call.lines \subseteq Lines(region \cup {call.start, behind, behind + Line(call.instr) - 1})

\* After any sequence of requests, refused ones in between, the settings the
\* driver reports are those of the hardware, and a request was carried out as a
\* whole or not at all; one that is answered leaves its argument as they are.
SettingsKept ==
    /\ port.termios.c_ispeed = port.termios.c_ospeed
    /\ port.divisor = BaudDivisor(port.termios.c_ispeed)
    /\ call.routine = "ioctl" =>
          IF call.rc = "ok" THEN port.termios = call.term ELSE port = call.found
=============================================================================
