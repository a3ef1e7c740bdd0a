----------------------------- MODULE CacheFlush -----------------------------
(* The loops that flush a region from a cache: alt_dcache_flush (by address  *)
(* with flushda, by line with flushd), alt_dcache_flush_no_writeback         *)
(* (initda, by address) and alt_icache_flush (flushi, by line); and the      *)
(* addresses of memory that bypass the data cache.                           *)
EXTENDS Integers

CONSTANTS DLine, DSize,   \* NIOS2_DCACHE_LINE_SIZE, NIOS2_DCACHE_SIZE
          ILine, ISize,   \* NIOS2_ICACHE_LINE_SIZE, NIOS2_ICACHE_SIZE
          Bypass          \* BYPASS_DCACHE_MASK, one bit

ASSUME CacheAssumption ==
    /\ {DLine, DSize, ILine, ISize, Bypass} \subseteq Nat \ {0}
    /\ DSize % DLine = 0 /\ ISize % ILine = 0

\* alt_dcache_flush is one of the two.
DataInstructions == {"flushda", "flushd"}
Instructions == {"flushda", "flushd", "initda", "flushi"}
Line(instr) == IF instr = "flushi" THEN ILine ELSE DLine
Size(instr) == IF instr = "flushi" THEN ISize ELSE DSize
ByLine(instr) == instr \in {"flushd", "flushi"}

\* A region longer than the cache is cut short where lines are flushed whatever
\* they hold.
Length(instr, len) == IF ByLine(instr) /\ len > Size(instr) THEN Size(instr) ELSE len

\* Mutant: no line more when the region does not start at the start of one.
AlignedOnly(instr, start, len) ==
    {a \in start .. start + Length(instr, len) - 1 : (a - start) % Line(instr) = 0}

\* The operands of the instruction.
Flushed(instr, start, len) ==
    LET line == Line(instr)
        turns == (Length(instr, len) + line - 1) \div line
        last == IF start % line = 0 THEN turns - 1 ELSE turns
    IN {start + k * line : k \in 0 .. last}

\* What an address has in common with those flushed with it: the line of
\* memory it is in, or the line of the cache.
LineOf(instr, a) ==
    LET l == a \div Line(instr)
    IN IF ByLine(instr) THEN l % (Size(instr) \div Line(instr)) ELSE l

FlushedLines(instr, start, len) == {LineOf(instr, a) : a \in Flushed(instr, start, len)}

\* alt_remap_uncached and alt_remap_cached set and clear the bit.
Bypassing(ptr) == (ptr \div Bypass) % 2 = 1
Uncached(ptr) == IF Bypassing(ptr) THEN ptr ELSE ptr + Bypass
Cached(ptr) == IF Bypassing(ptr) THEN ptr - Bypass ELSE ptr

\* alt_uncached_malloc: without a block it is the null pointer.
UncachedBlock(ptr) == IF ptr = 0 THEN 0 ELSE Uncached(ptr)
=============================================================================
