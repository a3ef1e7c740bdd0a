------------------------------- MODULE MulDiv -------------------------------
(* The multiply and divide instructions of a Nios II without the hardware,   *)
(* emulated in the exception handler (alt_exception_muldiv.S): the loops of  *)
(* the division and of the two multiplications, one turn a step, and what is *)
(* done with their results.  Variables are named for the registers.  A word  *)
(* has W bits; Pow2[i] is 2^i and Word is 2^W.                               *)
EXTENDS Integers

CONSTANTS W, Pow2

ASSUME WordAssumption ==
    /\ W \in Nat \ {0} /\ Pow2 \in [0 .. W -> Nat \ {0}]
    /\ Pow2[0] = 1 /\ \A i \in 0 .. W - 1 : Pow2[i + 1] = 2 * Pow2[i]

Word == Pow2[W]
Top == Pow2[W - 1]
Words == 0 .. Word - 1

Negative(x) == x >= Top
Negated(x) == (Word - x) % Word
Magnitude(x) == IF Negative(x) THEN Negated(x) ELSE x
Lsl(x) == (2 * x) % Word
Msb(x) == IF Negative(x) THEN 1 ELSE 0

Ops == {"div", "divu", "mul", "mulxuu", "mulxsu", "mulxss"}

VARIABLES
    pc, op,
    a, b,        \* the operands, as they were fetched
    r3,          \* dividend and quotient, or the multiplicand
    r6,          \* divisor, or the multiplier, shifted left
    r9,          \* the low product, and the result
    r10, r12,    \* the high product; the multiplier, shifted right
    r13, r14,    \* remainder; turns left
    r17          \* the quotient is to be negated

vars == <<pc, op, a, b, r3, r6, r9, r10, r12, r13, r14, r17>>

Init ==
    /\ pc = "idle" /\ op = "mul"
    /\ a = 0 /\ b = 0 /\ r3 = 0 /\ r6 = 0 /\ r9 = 0 /\ r10 = 0 /\ r12 = 0 /\ r13 = 0 /\ r14 = 0
    /\ r17 = FALSE

-----------------------------------------------------------------------------
\* The exception: the operands are on the stack.  A division of two numbers
\* with a sign is one of their magnitudes.
Divide(o, x, y) ==
    /\ pc = "idle" /\ o \in {"div", "divu"}
    /\ op' = o /\ a' = x /\ b' = y
    /\ r3' = IF o = "div" THEN Magnitude(x) ELSE x
    /\ r6' = IF o = "div" THEN Magnitude(y) ELSE y
    /\ r17' = (o = "div" /\ Negative(x) # Negative(y))
    /\ r13' = 0 /\ r14' = W
    /\ pc' = "divide"
    /\ UNCHANGED <<r9, r10, r12>>

\* muli comes here as mul, with its immediate for y.
Multiply(o, x, y) ==
    /\ pc = "idle" /\ o \in Ops \ {"div", "divu"}
    /\ op' = o /\ a' = x /\ b' = y
    /\ r3' = x /\ r6' = y /\ r12' = y
    /\ r9' = 0 /\ r10' = 0 /\ r14' = W
    /\ pc' = "multiply"
    /\ UNCHANGED <<r13, r17>>

\* A turn of the division: remainder and dividend move left by a bit, the
\* divisor is taken away when it goes.
DivideLoop ==
    /\ pc = "divide" /\ r14 > 0
    /\ LET rem == (Lsl(r13) + Msb(r3)) % Word
       IN IF rem < r6 THEN r13' = rem /\ r3' = Lsl(r3)
          ELSE r13' = rem - r6 /\ r3' = Lsl(r3) + 1
    /\ r14' = r14 - 1
    /\ UNCHANGED <<pc, op, a, b, r6, r9, r10, r12, r17>>

DivideEnd ==
    /\ pc = "divide" /\ r14 = 0
    /\ r9' = IF r17 THEN Negated(r3) ELSE r3
    /\ pc' = "done"
    /\ UNCHANGED <<op, a, b, r3, r6, r10, r12, r13, r14, r17>>

\* Mutant: the carry out of the sum is lost.
SumWithoutCarry(x) == ((r10 + x) % Word) \div 2

\* The high product with a partial product, moved right: the carry out of the
\* sum comes in at the top.
HalfSum(x) == (r10 + x) \div 2

\* A turn of both multiplications.
MultiplyLoop ==
    /\ pc = "multiply" /\ r14 > 0
    /\ r10' = HalfSum(IF r12 % 2 = 1 THEN r3 ELSE 0)
    /\ r9' = (Lsl(r9) + (IF Negative(r6) THEN r3 ELSE 0)) % Word
    /\ r6' = Lsl(r6)
    /\ r12' = r12 \div 2
    /\ r14' = r14 - 1
    /\ UNCHANGED <<pc, op, a, b, r3, r13, r17>>

\* The high product of numbers with a sign comes from that of numbers without.
Minus(x, y) == (x - y) % Word
SignedUnsigned == IF Negative(r3) THEN Minus(r10, b) ELSE r10
SignedSigned == IF Negative(b) THEN Minus(SignedUnsigned, r3) ELSE SignedUnsigned

MultiplyEnd ==
    /\ pc = "multiply" /\ r14 = 0
    /\ r9' = CASE op = "mul" -> r9
               [] op = "mulxuu" -> r10
               [] op = "mulxsu" -> SignedUnsigned
               [] OTHER -> SignedSigned
    /\ pc' = "done"
    /\ UNCHANGED <<op, a, b, r3, r6, r10, r12, r13, r14, r17>>

\* The result is in the destination, the registers are restored, and the
\* program goes on behind the instruction.
Resume ==
    /\ pc = "done" /\ pc' = "idle" /\ op' = "mul"
    /\ a' = 0 /\ b' = 0 /\ r3' = 0 /\ r6' = 0 /\ r9' = 0 /\ r10' = 0 /\ r12' = 0 /\ r13' = 0 /\ r14' = 0
    /\ r17' = FALSE

Next ==
    \/ \E o \in Ops, x \in Words, y \in Words : Divide(o, x, y) \/ Multiply(o, x, y)
    \/ DivideLoop \/ DivideEnd \/ MultiplyLoop \/ MultiplyEnd \/ Resume

Spec == Init /\ [][Next]_vars

-----------------------------------------------------------------------------
(* What the instructions are, as the emulation's header says: "The          *)
(* emulations match the instructions".  A quotient by 0 is not defined.      *)

Signed(x) == IF Negative(x) THEN x - Word ELSE x
Sign(x) == IF x < 0 THEN -1 ELSE 1
Abs(x) == Sign(x) * x

Instruction(o, x, y) ==
    CASE o = "divu" -> x \div y
      [] o = "div" -> (Sign(Signed(x)) * Sign(Signed(y)) * (Abs(Signed(x)) \div Abs(Signed(y)))) % Word
      [] o = "mul" -> (x * y) % Word
      [] o = "mulxuu" -> (x * y) \div Word
      [] o = "mulxsu" -> ((Signed(x) * y) \div Word) % Word
      [] OTHER -> ((Signed(x) * Signed(y)) \div Word) % Word

\* The result of every emulated instruction, for all operands, the least number
\* and the largest divisor included.
Exact == pc = "done" /\ (op \in {"div", "divu"} => b # 0) => r9 = Instruction(op, a, b)

-----------------------------------------------------------------------------
(* The inductive invariant: what the loops keep.                            *)

Left == Pow2[r14]
Done == Pow2[W - r14]

TypeOK ==
    /\ pc \in {"idle", "divide", "multiply", "done"} /\ op \in Ops
    /\ a \in Words /\ b \in Words
    /\ r3 \in Words /\ r6 \in Words /\ r9 \in Words /\ r10 \in Words /\ r12 \in Words
    /\ r13 \in Words /\ r14 \in 0 .. W /\ r17 \in BOOLEAN

Powers == Left * Done = Word /\ Left > 0 /\ Done > 0

Dividend == IF op = "div" THEN Magnitude(a) ELSE a
Divisor == IF op = "div" THEN Magnitude(b) ELSE b

\* r3 holds what is left of the dividend above the digits of the quotient, and
\* the dividend's digits so far are the divisor times those, and the remainder.
DivideKeeps ==
    pc = "divide" =>
        /\ op \in {"div", "divu"} /\ r6 = Divisor
        /\ r17 <=> (op = "div" /\ Negative(a) # Negative(b))
        /\ b # 0 => \E low, quot \in Words :
              /\ low < Left /\ quot < Done /\ r13 < r6
              /\ r3 = low * Done + quot
              /\ Dividend = (r6 * quot + r13) * Left + low

\* The multiplier's high digits are in the low product.
LowKeeps ==
    pc = "multiply" => \E high, rest \in Words :
        /\ rest < Left /\ b = high * Left + rest /\ r6 = rest * Done
        /\ r9 = (a * high) % Word

\* The multiplier's low digits are in the high product.
HighKeeps ==
    pc = "multiply" => \E low \in Words :
        /\ low < Done /\ b = r12 * Done + low
        /\ r10 = (a * low) \div Done

MultiplyKeeps == pc = "multiply" => op \in Ops \ {"div", "divu"} /\ r3 = a

IInv == TypeOK /\ Powers /\ DivideKeeps /\ MultiplyKeeps /\ LowKeeps /\ HighKeeps /\ Exact
=============================================================================
