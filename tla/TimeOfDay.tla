------------------------------ MODULE TimeOfDay ------------------------------
(* Time of day from the system clock's ticks (alt_gettod.c, alt_settod.c)    *)
(* and the delay loop of usleep (alt_busy_sleep.c).                          *)
EXTENDS Integers

CONSTANTS Modulus,    \* 2^32
          US,         \* ALT_US: microseconds in a second
          Rate,       \* alt_ticks_per_second()
          CpuFreq,    \* ALT_CPU_FREQ: cycles in a second
          LoopCycles, \* cycles_per_loop: 9 for the CPU "tiny", 3 for the others
          IntMax      \* INT_MAX

\* alt_busy_sleep's turns in a microsecond: a truncated quotient.
PerUs == CpuFreq \div (LoopCycles * US)

\* A CPU so slow that the quotient is zero would be divided by it.
ASSUME TimeAssumption ==
    /\ {Modulus, US, Rate, CpuFreq, LoopCycles, IntMax} \subseteq Nat \ {0}
    /\ Rate <= US /\ 2 * US < Modulus /\ IntMax < Modulus
    /\ LoopCycles * US <= CpuFreq /\ PerUs <= IntMax

Tick == US \div Rate

\* settimeofday(t) at tick n: alt_resettime.  The product has one word.
SetTime(t, n) ==
    [sec |-> t.sec - (n \div Rate), usec |-> t.usec - (((n * Tick) % Modulus) % US)]

\* Each of the two loops turns at most once: usec is more than -US and less
\* than 2 * US.
Borrowed(t) ==
    IF t.usec >= 0 THEN t
    ELSE IF t.sec <= 0 THEN [sec |-> 0, usec |-> 0]
    ELSE [sec |-> t.sec - 1, usec |-> t.usec + US]

\* Mutant: a full second is not carried.
CarriedAbove(t) == IF t.usec <= US THEN t ELSE [sec |-> t.sec + 1, usec |-> t.usec - US]

Carried(t) == IF t.usec < US THEN t ELSE [sec |-> t.sec + 1, usec |-> t.usec - US]

\* gettimeofday() at tick n.  The product has two words here.
GetTime(reset, n) ==
    Carried(Borrowed([sec |-> reset.sec + (n \div Rate), usec |-> reset.usec + ((n * Tick) % US)]))

-----------------------------------------------------------------------------
(* alt_busy_sleep.  A loop that counts down from n and tests for 0 at its    *)
(* end turns n times, and Modulus times for 0.                                  *)

Turns(n) == IF n = 0 THEN Modulus ELSE n
Chunk == IntMax \div PerUs

\* Mutant: one long loop, however many there should be.
OneLongLoop(big, reloaded) == IntMax

\* The assembly counts an input operand down: from the second long loop on the
\* register has INT_MAX or, when the compiler takes it for unchanged, 0.
LongLoops(big, reloaded) == IntMax + (big - 1) * (IF reloaded THEN IntMax ELSE Modulus)

Slept(us, reloaded) ==
    LET big == us \div Chunk
    IN IF big = 0 THEN (IF us = 0 THEN 1 ELSE us * PerUs)
       ELSE LongLoops(big, reloaded) + Turns((us - big * Chunk) * PerUs)
=============================================================================
