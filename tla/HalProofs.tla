------------------------------ MODULE HalProofs ------------------------------
(***************************************************************************)
(* Proofs about the parts of the HAL that run on their own: the emulation  *)
(* of multiply and divide, for words of any width; profiling, for any      *)
(* functions and handlers; the exception handler, for any program; the     *)
(* start, for any memory layout.                                           *)
(***************************************************************************)
EXTENDS Exceptions, Startup, Profiler, FiniteSetTheorems, SequenceTheorems,
        WellFoundedInduction, TLAPS

-----------------------------------------------------------------------------
(* Arithmetic.                                                              *)

\* The one multiple of d nearer to 0 than d is 0.
LEMMA SmallProduct ==
    ASSUME NEW k \in Int, NEW d \in Int, d > 0, k * d < d, k * d > -d
    PROVE  k = 0
  BY SMT

\* What quotient and remainder are.
LEMMA DivMod ==
    ASSUME NEW n \in Int, NEW d \in Int, d > 0
    PROVE  /\ n \div d \in Int /\ n % d \in Int /\ 0 <= n % d /\ n % d < d
           /\ n = ((n \div d) * d) + (n % d)
  BY SMT

\* Only quotient and remainder are.
LEMMA DivUnique ==
    ASSUME NEW n \in Int, NEW d \in Int, d > 0,
           NEW q \in Int, NEW r \in Int, 0 <= r, r < d, n = q * d + r
    PROVE  n \div d = q /\ n % d = r
<1> DEFINE p == n \div d
<1> DEFINE s == n % d
<1>1. p \in Int /\ s \in Int /\ 0 <= s /\ s < d /\ n = p * d + s
  BY DivMod
<1> HIDE DEF p, s
<1>2. (p - q) * d = r - s
  BY <1>1, SMT
<1>3. p - q = 0
  BY <1>1, <1>2, SmallProduct
<1>4. p = q /\ s = r
  BY <1>1, <1>3, SMT
<1>5. QED
  BY <1>4 DEF p, s

\* Products of whole numbers.
LEMMA Products ==
    ASSUME NEW x \in Int, NEW y \in Int, NEW z \in Int
    PROVE  /\ x * y \in Int /\ x * y = y * x
           /\ (x + y) * z = x * z + y * z /\ (x - y) * z = x * z - y * z
           /\ z * (x + y) = z * x + z * y /\ z * (x - y) = z * x - z * y
           /\ (x * y) * z = x * (y * z)
           /\ (2 * x) * y = 2 * (x * y) /\ x * (2 * y) = 2 * (x * y)
  BY SMT

\* A product with a factor that is not negative grows with the other.
LEMMA ProductGrows ==
    ASSUME NEW x \in Int, NEW y \in Int, NEW z \in Nat, x <= y
    PROVE  x * z <= y * z
<1>1. (y - x) \in Nat
  OBVIOUS
<1>2. (y - x) * z \in Nat
  BY <1>1, SMT
<1>3. QED
  BY <1>2, Products, SMT

-----------------------------------------------------------------------------
(* Words.                                                                   *)

\* A word is two halves.
LEMMA WordTypes ==
    /\ W \in Nat /\ W > 0 /\ Word = 2 * Top /\ Top \in Nat /\ Word \in Nat /\ Word > 0
    /\ \A i \in 0 .. W : Pow2[i] \in Nat
    /\ \A i \in 0 .. W - 1 : Pow2[i + 1] = 2 * Pow2[i]
<1>1. W \in Nat /\ W > 0 /\ W - 1 \in 0 .. W - 1 /\ W - 1 + 1 = W
  BY WordAssumption
<1>2. Pow2[W - 1 + 1] = 2 * Pow2[W - 1]
  BY <1>1, WordAssumption
<1>3. \A i \in 0 .. W : Pow2[i] \in Nat /\ Pow2[i] > 0
  BY WordAssumption
<1>4. QED
  BY <1>1, <1>2, <1>3, WordAssumption DEF Word, Top

\* Nothing is shifted out of a word below its half.
LEMMA Shifted ==
    ASSUME NEW x \in Words, Word > 0
    PROVE  /\ Lsl(x) = IF Negative(x) THEN 2 * x - Word ELSE 2 * x
           /\ Lsl(x) \in Words
<1>1. CASE Negative(x)
  <2>1. 2 * x = 1 * Word + (2 * x - Word) /\ 0 <= 2 * x - Word /\ 2 * x - Word < Word
    BY <1>1, WordTypes DEF Negative, Words
  <2>2. (2 * x) % Word = 2 * x - Word
    BY <2>1, DivUnique, WordTypes DEF Words
  <2>3. QED
    BY <1>1, <2>1, <2>2, WordTypes DEF Lsl, Words
<1>2. CASE ~Negative(x)
  <2>1. 2 * x = 0 * Word + 2 * x /\ 0 <= 2 * x /\ 2 * x < Word
    BY <1>2, WordTypes DEF Negative, Words
  <2>2. (2 * x) % Word = 2 * x
    BY <2>1, DivUnique, WordTypes DEF Words
  <2>3. QED
    BY <1>2, <2>1, <2>2, WordTypes DEF Lsl, Words
<1>3. QED
  BY <1>1, <1>2

\* The magnitude of a word is the magnitude of the number that it stands for.
LEMMA MagnitudeIsAbs ==
    ASSUME NEW x \in Words
    PROVE  /\ Magnitude(x) \in Words /\ Magnitude(x) = Abs(Signed(x))
           /\ Sign(Signed(x)) = (IF Negative(x) THEN -1 ELSE 1)
           /\ (Magnitude(x) = 0) <=> (x = 0)
<1>1. CASE Negative(x)
  <2>1. Word - x = 0 * Word + (Word - x) /\ 0 <= Word - x /\ Word - x < Word /\ x > 0 /\ x \in Nat
    BY <1>1, WordTypes DEF Negative, Words
  <2>2. (Word - x) % Word = Word - x
    BY <2>1, DivUnique, WordTypes
  <2>3. Signed(x) = x - Word /\ x - Word < 0 /\ Magnitude(x) = Word - x
    BY <1>1, <2>1, <2>2, WordTypes DEF Signed, Magnitude, Negated, Words
  <2>4. QED
    BY <1>1, <2>1, <2>3, WordTypes DEF Abs, Sign, Words
<1>2. CASE ~Negative(x)
  <2>1. Signed(x) = x /\ Magnitude(x) = x /\ x \in Nat
    BY <1>2 DEF Signed, Magnitude, Words
  <2>2. QED
    BY <1>2, <2>1 DEF Abs, Sign, Words
<1>3. QED
  BY <1>1, <1>2

\* A remainder is a word.
LEMMA ModWord ==
    ASSUME NEW n \in Int, Word > 0
    PROVE  n % Word \in Words
<1>1. n % Word \in Int /\ 0 <= n % Word /\ n % Word < Word
  BY DivMod, WordTypes
<1>2. QED
  BY <1>1, WordTypes DEF Words

-----------------------------------------------------------------------------
(* One turn of a loop.                                                      *)

\* A turn moves one bit from what is left to what is done.
LEMMA OneTurn ==
    ASSUME TypeOK, Powers, r14 > 0, r14' = r14 - 1
    PROVE  /\ Left = 2 * Left' /\ Done' = 2 * Done /\ Left' * Done' = Word
           /\ Left' \in Nat /\ Left' > 0 /\ Done \in Nat /\ Done > 0 /\ r14' \in 0 .. W
           /\ Left \in Nat /\ Left * Done = Word /\ Left' * Done = Top
<1>1. r14 \in 0 .. W /\ r14 - 1 \in 0 .. W - 1 /\ W - r14 \in 0 .. W - 1 /\ r14 - 1 + 1 = r14
  BY WordTypes DEF TypeOK
<1>2. Pow2[r14] = 2 * Pow2[r14 - 1] /\ Pow2[W - r14 + 1] = 2 * Pow2[W - r14]
  BY <1>1, WordTypes
<1>3. W - (r14 - 1) = W - r14 + 1
  BY <1>1, WordTypes
<1>4. Left = 2 * Left' /\ Done' = 2 * Done
  BY <1>2, <1>3 DEF Left, Done
<1>5. Left' \in Nat /\ Done \in Nat /\ Left \in Nat
  BY <1>1, WordTypes DEF Left, Done
<1>6. Left > 0 /\ Done > 0 /\ Left * Done = Word
  BY DEF Powers
<1>7. Left' * Done' = 2 * (Left' * Done) /\ Left * Done = 2 * (Left' * Done) /\ Left' * Done \in Int
  BY <1>4, <1>5, Products
<1>8. Left' > 0
  <2>1. \A x \in Nat, y \in Nat : y = 2 * x /\ y > 0 => x > 0
    OBVIOUS
  <2>2. Left = 2 * Left' /\ Left > 0
    BY <1>4, <1>6
  <2>3. QED
    BY <1>5, <2>1, <2>2, Zenon
<1>9. Left' * Done' = Word
  BY <1>6, <1>7
<1>10. Left' * Done = Top
  BY <1>6, <1>7, WordTypes
<1>11. r14' \in 0 .. W
  BY <1>1, WordTypes
<1>12. QED
  BY <1>4, <1>5, <1>6, <1>8, <1>9, <1>10, <1>11

\* What is left has a bit at the top of the word when it is at least a half.
LEMMA TopBit ==
    ASSUME NEW P \in Nat, P > 0, NEW Q \in Nat, Q > 0, P * Q = Top,
           NEW low \in Nat, low < 2 * P, NEW rest \in Nat, rest < Q,
           NEW x \in Words, x = low * Q + rest
    PROVE  /\ Negative(x) <=> low >= P
           /\ Lsl(x) = (IF low >= P THEN low - P ELSE low) * (2 * Q) + 2 * rest
<1>1. low * Q \in Int /\ P * Q \in Int /\ Word = 2 * Top /\ Word > 0 /\ Top \in Nat
  <2>1. low * Q \in Int /\ P * Q \in Int
    BY Products
  <2>2. x \in Nat /\ x < Word
    BY WordTypes DEF Words
  <2>3. QED
    BY <2>1, <2>2, WordTypes
<1>2. CASE low >= P
  <2>1. P * Q <= low * Q
    BY <1>2, ProductGrows
  <2>2. Negative(x)
    BY <1>1, <2>1 DEF Negative
  <2>3. Lsl(x) = 2 * x - Word
    BY <1>1, <2>2, Shifted
  <2>4. (low - P) * (2 * Q) = 2 * (low * Q) - 2 * (P * Q)
    <3>1. (low - P) * (2 * Q) = 2 * ((low - P) * Q)
      BY Products
    <3>2. (low - P) * Q = low * Q - P * Q
      BY Products
    <3>3. QED
      BY <1>1, <3>1, <3>2
  <2>5. QED
    BY <1>1, <1>2, <2>2, <2>3, <2>4
<1>3. CASE low < P
  <2>1. (low + 1) * Q <= P * Q
    BY <1>3, ProductGrows
  <2>2. (low + 1) * Q = low * Q + Q
    BY Products
  <2>3. ~Negative(x)
    BY <1>1, <2>1, <2>2 DEF Negative
  <2>4. Lsl(x) = 2 * x
    BY <1>1, <2>3, Shifted
  <2>5. low * (2 * Q) = 2 * (low * Q)
    BY Products
  <2>6. QED
    BY <1>1, <1>3, <2>3, <2>4, <2>5
<1>4. QED
  BY <1>2, <1>3

-----------------------------------------------------------------------------
(* The division.                                                            *)

\* A turn in numbers: n is the dividend, d the divisor, P and D the weights of
\* what is left and of what is done after and before the turn.
LEMMA DivisionTurn ==
    ASSUME NEW n \in Nat, NEW d \in Nat, NEW P \in Nat, P > 0, NEW D \in Nat, D > 0,
           NEW low \in Nat, low < 2 * P, NEW quot \in Nat, quot < D,
           NEW r \in Nat, r < d, n = (d * quot + r) * (2 * P) + low, n < (2 * P) * D,
           NEW bit \in 0 .. 1, bit = (IF low >= P THEN 1 ELSE 0),
           NEW digit \in 0 .. 1, digit = (IF 2 * r + bit < d THEN 0 ELSE 1)
    PROVE  LET rest == IF low >= P THEN low - P ELSE low
               q == 2 * quot + digit
               r1 == IF digit = 0 THEN 2 * r + bit ELSE 2 * r + bit - d
           IN /\ rest \in Nat /\ rest < P /\ q \in Nat /\ q < 2 * D /\ r1 \in Nat /\ r1 < d
              /\ r < D /\ n = (d * q + r1) * P + rest
<1> DEFINE rest == IF low >= P THEN low - P ELSE low
<1> DEFINE q == 2 * quot + digit
<1> DEFINE r1 == IF digit = 0 THEN 2 * r + bit ELSE 2 * r + bit - d
<1> DEFINE x == d * quot + r
<1>1. d * quot \in Nat /\ x \in Nat /\ x >= r
  <2>1. d * quot \in Nat
    BY SMT
  <2>2. QED
    BY <2>1
<1>2. rest \in Nat /\ rest < P /\ low = (IF bit = 1 THEN P ELSE 0) + rest
  OBVIOUS
<1>3. q \in Nat /\ q < 2 * D /\ r1 \in Nat /\ r1 < d
  OBVIOUS
<1>4. r < D
  <2>1. CASE x >= D
    <3>1. D * (2 * P) <= x * (2 * P)
      BY <1>1, <2>1, ProductGrows
    <3>2. D * (2 * P) = (2 * P) * D /\ x * (2 * P) \in Int /\ (2 * P) * D \in Int
      BY <1>1, Products
    <3>3. n = x * (2 * P) + low
      OBVIOUS
    <3> HIDE DEF x
    <3>4. QED
      BY <3>1, <3>2, <3>3
  <2>2. CASE x < D
    <3> HIDE DEF x
    <3>1. QED
      BY <1>1, <2>2
  <2> HIDE DEF x
  <2>3. QED
    BY <1>1, <2>1, <2>2
<1>5. d * q + r1 = 2 * x + bit
  <2>1. CASE digit = 0
    <3>1. d * (2 * quot) = 2 * (d * quot)
      BY Products
    <3>2. q = 2 * quot /\ r1 = 2 * r + bit
      BY <2>1
    <3>3. d * q = 2 * (d * quot)
      BY <3>1, <3>2
    <3> HIDE DEF q, r1
    <3>4. QED
      BY <1>1, <3>2, <3>3
  <2>2. CASE digit = 1
    <3>1. d * (2 * quot + 1) = d * (2 * quot) + d * 1 /\ d * (2 * quot) = 2 * (d * quot) /\ d * 1 = d
      BY Products
    <3>2. q = 2 * quot + 1 /\ r1 = 2 * r + bit - d
      BY <2>2
    <3>3. d * q = 2 * (d * quot) + d
      BY <3>1, <3>2
    <3> HIDE DEF q, r1
    <3>4. QED
      BY <1>1, <3>2, <3>3
  <2>3. QED
    BY <2>1, <2>2
<1> HIDE DEF q, r1, rest
<1>6. n = x * (2 * P) + low
  OBVIOUS
<1> HIDE DEF x
<1>7. (d * q + r1) * P = 2 * (x * P) + (IF bit = 1 THEN P ELSE 0)
  <2>1. (2 * x + bit) * P = (2 * x) * P + bit * P /\ (2 * x) * P = 2 * (x * P)
    BY <1>1, Products
  <2>2. bit * P = IF bit = 1 THEN P ELSE 0
    <3>1. bit = 0 \/ bit = 1
      OBVIOUS
    <3>2. QED
      BY <3>1
  <2>3. QED
    BY <1>5, <2>1, <2>2
<1>8. x * (2 * P) = 2 * (x * P) /\ x * P \in Int
  BY <1>1, Products
<1>9. n = (d * q + r1) * P + rest
  <2> DEFINE high == IF bit = 1 THEN P ELSE 0
  <2>1. high \in Int /\ x * P \in Int /\ rest \in Int /\ low \in Int
    BY <1>2, <1>8
  <2>2. low = high + rest /\ (d * q + r1) * P = 2 * (x * P) + high /\ n = 2 * (x * P) + low
    BY <1>2, <1>6, <1>7, <1>8
  <2> HIDE DEF high
  <2>3. 2 * (x * P) + low = (2 * (x * P) + high) + rest
    BY <2>1, <2>2
  <2>4. QED
    BY <2>2, <2>3, Zenon
<1>10. QED
  BY <1>2, <1>3, <1>4, <1>9 DEF rest, q, r1

\* A factor is at most the product.
LEMMA FactorBound ==
    ASSUME NEW x \in Nat, NEW y \in Nat, y > 0
    PROVE  x <= x * y /\ x <= y * x
<1>1. 1 * x <= y * x
  BY ProductGrows
<1>2. y * x = x * y /\ 1 * x = x
  BY Products
<1>3. QED
  BY <1>1, <1>2

\* A word is a number.
LEMMA WordIsNat ==
    ASSUME NEW x \in Words
    PROVE  x \in Nat /\ x < Word /\ Word > 0 /\ Word \in Nat
  BY WordTypes DEF Words

\* The step of the division's loop.
LEMMA DivideLoopKeeps ==
    ASSUME IInv, DivideLoop
    PROVE  IInv'
<1> DEFINE rem == (Lsl(r13) + Msb(r3)) % Word
<1>1. /\ pc = "divide" /\ r14 > 0 /\ r14' = r14 - 1
      /\ pc' = "divide" /\ op' = op /\ a' = a /\ b' = b /\ r6' = r6 /\ r9' = r9 /\ r10' = r10
      /\ r12' = r12 /\ r17' = r17
  BY DEF DivideLoop
<1>2. /\ r3' = (IF rem < r6 THEN Lsl(r3) ELSE Lsl(r3) + 1)
      /\ r13' = (IF rem < r6 THEN rem ELSE rem - r6)
  BY DEF DivideLoop
<1>3. /\ Left = 2 * Left' /\ Done' = 2 * Done /\ Left' * Done' = Word
      /\ Left' \in Nat /\ Left' > 0 /\ Done \in Nat /\ Done > 0 /\ r14' \in 0 .. W
      /\ Left \in Nat /\ Left * Done = Word /\ Left' * Done = Top
  BY <1>1, OneTurn DEF IInv
<1>4. /\ a \in Words /\ b \in Words /\ r3 \in Words /\ r6 \in Words /\ r13 \in Words
      /\ r9 \in Words /\ r10 \in Words /\ r12 \in Words
  BY DEF IInv, TypeOK
<1>5. Word > 0 /\ Word \in Nat /\ Word = 2 * Top /\ Top \in Nat
  BY <1>4, WordIsNat, WordTypes
<1>6. rem \in Words
  <2>1. Lsl(r13) \in Words /\ Msb(r3) \in Int
    BY <1>4, <1>5, Shifted DEF Msb
  <2>2. Lsl(r13) + Msb(r3) \in Int
    BY <2>1 DEF Words
  <2>3. QED
    BY <2>2, <1>5, ModWord
<1>7. r13' \in Words
  <2> HIDE DEF rem
  <2>1. r6 \in Nat /\ rem \in Nat /\ rem < Word
    BY <1>4, <1>6, WordIsNat
  <2>2. QED
    BY <1>2, <1>5, <2>1 DEF Words
<1>8. r3' \in Words
  <2>1. /\ Lsl(r3) = (IF Negative(r3) THEN 2 * r3 - Word ELSE 2 * r3)
        /\ Lsl(r3) \in Words
    BY <1>4, <1>5, Shifted
  <2>2. r3 \in Nat /\ Lsl(r3) \in Nat /\ Lsl(r3) < Word
    BY <1>4, <2>1, WordIsNat
  <2>3. Lsl(r3) + 1 < Word
    <3>1. CASE Negative(r3)
      BY <1>5, <2>1, <2>2, <3>1
    <3>2. CASE ~Negative(r3)
      BY <1>5, <2>1, <2>2, <3>2
    <3>3. QED
      BY <3>1, <3>2
  <2> HIDE DEF rem
  <2>4. QED
    BY <1>2, <1>5, <2>1, <2>2, <2>3 DEF Words
<1>9. TypeOK'
  BY <1>1, <1>3, <1>4, <1>7, <1>8 DEF IInv, TypeOK, Words, Word
<1>10. Powers'
  <2>1. Done' > 0
    <3>1. \A x \in Nat : x > 0 => 2 * x > 0
      OBVIOUS
    <3>2. QED
      BY <1>3, <3>1, Zenon
  <2>2. Left' * Done' = Word /\ Left' > 0 /\ Word' = Word
    BY <1>3 DEF Word
  <2>3. QED
    BY <2>1, <2>2 DEF Powers
<1>11. ASSUME b # 0
       PROVE  \E low, quot \in Words :
                 /\ low < Left' /\ quot < Done' /\ r13' < r6
                 /\ r3' = low * Done' + quot
                 /\ Dividend = (r6 * quot + r13') * Left' + low
  <2>1. PICK low \in Words, quot \in Words :
           /\ low < Left /\ quot < Done /\ r13 < r6
           /\ r3 = low * Done + quot
           /\ Dividend = (r6 * quot + r13) * Left + low
    BY <1>1, <1>11 DEF IInv, DivideKeeps
  <2> DEFINE P == Left'
  <2> DEFINE D == Done
  <2> DEFINE bit == IF low >= P THEN 1 ELSE 0
  <2> DEFINE digit == IF 2 * r13 + bit < r6 THEN 0 ELSE 1
  <2> DEFINE rest == IF low >= P THEN low - P ELSE low
  <2> DEFINE q == 2 * quot + digit
  <2> DEFINE r1 == IF digit = 0 THEN 2 * r13 + bit ELSE 2 * r13 + bit - r6
  <2>2. low \in Nat /\ quot \in Nat /\ r6 \in Nat /\ r13 \in Nat
    BY <1>4, WordIsNat
  <2>3. Dividend \in Nat /\ Dividend < Word
    <3>1. Dividend \in Words
      BY <1>4, MagnitudeIsAbs DEF Dividend
    <3>2. QED
      BY <3>1, WordIsNat
  <2>4. Negative(r3) <=> low >= P
    BY <1>3, <1>4, <2>1, <2>2, TopBit, ZenonT(60)
  <2>5. Lsl(r3) = rest * (2 * D) + 2 * quot
    BY <1>3, <1>4, <2>1, <2>2, TopBit
  <2>6. low < 2 * P /\ Dividend = (r6 * quot + r13) * (2 * P) + low /\ Dividend < (2 * P) * D
    BY <1>3, <2>1, <2>3
  <2>7. bit \in 0 .. 1 /\ digit \in 0 .. 1
    OBVIOUS
  <2>8. P \in Nat /\ P > 0 /\ D \in Nat /\ D > 0 /\ quot < D /\ r13 < r6
    BY <1>3, <2>1
  <2> HIDE DEF P, D
  <2>9. /\ rest \in Nat /\ rest < P /\ q \in Nat /\ q < 2 * D /\ r1 \in Nat /\ r1 < r6
        /\ r13 < D /\ Dividend = (r6 * q + r1) * P + rest
    BY <2>2, <2>3, <2>6, <2>7, <2>8, DivisionTurn
  <2>10. Msb(r3) = bit
    BY <2>4 DEF Msb
  <2>11. rem = 2 * r13 + bit
    <3>1. D <= Top
      <4>1. D <= P * D
        BY <2>8, FactorBound
      <4>2. P * D = Top
        BY <1>3 DEF P, D
      <4>3. QED
        BY <4>1, <4>2
    <3>2. r13 < Top
      BY <1>5, <2>2, <2>8, <2>9, <3>1
    <3>3. Lsl(r13) = 2 * r13
      BY <1>4, <1>5, <2>2, <3>2, Shifted DEF Negative
    <3>4. 2 * r13 + bit \in Nat /\ 2 * r13 + bit < Word
      BY <1>5, <2>2, <2>7, <3>2
    <3>5. (2 * r13 + bit) % Word = 2 * r13 + bit
      <4>1. \A x \in Nat : x < Word => x = 0 * Word + x
        BY <1>5
      <4>2. QED
        BY <1>5, <3>4, <4>1, DivUnique
    <3>6. QED
      BY <2>10, <3>3, <3>5
  <2>12. r13' = r1
    <3>1. rem < r6 <=> digit = 0
      BY <2>11
    <3> HIDE DEF rem, digit, bit
    <3>2. r13' = (IF digit = 0 THEN rem ELSE rem - r6)
      BY <1>2, <3>1, Zenon
    <3>3. CASE digit = 0
      BY <2>11, <3>2, <3>3
    <3>4. CASE digit # 0
      BY <2>2, <2>7, <2>11, <3>2, <3>4
    <3>5. QED
      BY <3>3, <3>4
  <2>13. r3' = Lsl(r3) + digit
    <3>1. Lsl(r3) \in Words
      BY <1>4, <1>5, Shifted
    <3>2. Lsl(r3) \in Nat
      BY <3>1, WordIsNat
    <3>3. QED
      BY <1>2, <2>11, <3>2
  <2> HIDE DEF bit, digit, rest, r1, rem
  <2>14. r3' = rest * (2 * D) + q
    <3>1. rest * (2 * D) \in Int
      BY <2>8, <2>9, Products
    <3>2. QED
      BY <2>2, <2>5, <2>7, <2>13, <3>1
  <2> HIDE DEF q
  <2>15. P <= Word /\ 2 * D <= Word
    <3>1. P * (2 * D) = Word /\ 2 * D \in Nat /\ 2 * D > 0
      BY <1>3, <2>8 DEF P, D
    <3>2. QED
      BY <2>8, <3>1, FactorBound
  <2>16. rest \in Words /\ q \in Words
    BY <1>5, <2>8, <2>9, <2>15 DEF Words
  <2>17. Done' = 2 * D /\ Left' = P
    BY <1>3 DEF P, D
  <2>18. /\ rest < Left' /\ q < Done' /\ r13' < r6
         /\ r3' = rest * Done' + q
         /\ Dividend = (r6 * q + r13') * Left' + rest
    BY <2>9, <2>12, <2>14, <2>17
  <2>19. QED
    BY <2>16, <2>18
<1>12. DivideKeeps'
  <2>1. Dividend' = Dividend /\ Divisor' = Divisor /\ Words' = Words
    BY <1>1 DEF Dividend, Divisor, Magnitude, Negated, Negative, Word, Top, Words
  <2>2. /\ op \in {"div", "divu"} /\ r6 = Divisor
        /\ r17 <=> (op = "div" /\ Negative(a) # Negative(b))
    BY <1>1 DEF IInv, DivideKeeps
  <2>3. Negative(a)' = Negative(a) /\ Negative(b)' = Negative(b)
    BY <1>1 DEF Negative, Top
  <2>4. /\ op' \in {"div", "divu"} /\ r6' = Divisor'
    BY <1>1, <2>1, <2>2
  <2>5. r17' <=> (op' = "div" /\ Negative(a)' # Negative(b)')
    BY <1>1, <2>2, <2>3, Zenon
  <2>6. b' # 0 => \E low, quot \in Words' :
                 /\ low < Left' /\ quot < Done' /\ r13' < r6'
                 /\ r3' = low * Done' + quot
                 /\ Dividend' = (r6' * quot + r13') * Left' + low
    BY <1>1, <1>11, <2>1, Zenon
  <2>7. QED
    BY <2>4, <2>5, <2>6, Zenon DEF DivideKeeps
<1>13. MultiplyKeeps' /\ LowKeeps' /\ HighKeeps' /\ Exact'
  BY <1>1 DEF MultiplyKeeps, LowKeeps, HighKeeps, Exact
<1>14. QED
  BY <1>9, <1>10, <1>12, <1>13, Zenon DEF IInv

\* What the instructions promise of numbers without a sign, and the emulation
\* gets by turning the sign of the quotient.
LEMMA NegatedMod ==
    ASSUME NEW x \in Words
    PROVE  Negated(x) = (-x) % Word /\ x % Word = x
<1>1. x \in Nat /\ x < Word /\ Word > 0 /\ Word \in Nat
  BY WordIsNat
<1>2. x % Word = x
  <2>1. x = 0 * Word + x
    BY <1>1
  <2>2. QED
    BY <1>1, <2>1, DivUnique
<1>3. CASE x = 0
  <2>1. \A y \in Int : -y = 0 - y
    OBVIOUS
  <2>2. -x = 0 - x
    BY <1>1, <2>1
  <2>3. Word = 1 * Word + 0 /\ 0 = 0 * Word + 0
    BY <1>1
  <2>4. Word % Word = 0 /\ 0 % Word = 0
    BY <1>1, <2>3, DivUnique
  <2>5. Word - x = Word /\ 0 - x = 0
    BY <1>1, <1>3
  <2>6. QED
    BY <1>2, <2>2, <2>4, <2>5, Zenon DEF Negated
<1>4. CASE x > 0
  <2>1. Word - x = 0 * Word + (Word - x) /\ -x = (-1) * Word + (Word - x)
    BY <1>1
  <2>2. (Word - x) % Word = Word - x /\ (-x) % Word = Word - x
    BY <1>1, <1>4, <2>1, DivUnique
  <2>3. QED
    BY <1>2, <2>2 DEF Negated
<1>5. QED
  BY <1>1, <1>3, <1>4

\* The end of a loop: all of the word is done.
LEMMA AllDone ==
    ASSUME Powers, r14 = 0
    PROVE  Left = 1 /\ Done = Word /\ Word \in Nat /\ Word > 0
<1>1. Left = 1 /\ Done = Word
  BY WordTypes, WordAssumption DEF Left, Done, Word
<1>2. QED
  BY <1>1, WordTypes DEF Powers

\* The quotient of the division.
LEMMA DivideEndKeeps ==
    ASSUME IInv, DivideEnd
    PROVE  IInv'
<1>1. /\ pc = "divide" /\ r14 = 0 /\ r9' = (IF r17 THEN Negated(r3) ELSE r3) /\ pc' = "done"
      /\ op' = op /\ a' = a /\ b' = b /\ r3' = r3 /\ r6' = r6 /\ r10' = r10
      /\ r12' = r12 /\ r13' = r13 /\ r14' = r14 /\ r17' = r17
  BY DEF DivideEnd
<1>2. Left = 1 /\ Done = Word /\ Word \in Nat /\ Word > 0
  BY <1>1, AllDone DEF IInv
<1>3. /\ a \in Words /\ b \in Words /\ r3 \in Words /\ r6 \in Words /\ r13 \in Words
  BY DEF IInv, TypeOK
<1>4. TypeOK'
  <2>1. Negated(r3) \in Words
    <3>1. r3 \in Nat
      BY <1>3, WordIsNat
    <3>2. Word - r3 \in Int
      BY <1>2, <3>1
    <3>3. QED
      BY <1>2, <3>2, ModWord DEF Negated
  <2>2. r9' \in Words
    BY <1>1, <1>3, <2>1
  <2>3. QED
    BY <1>1, <2>2 DEF IInv, TypeOK, Words, Word
<1>5. Powers'
  BY <1>1 DEF IInv, Powers, Left, Done, Word
<1>6. DivideKeeps' /\ MultiplyKeeps' /\ LowKeeps' /\ HighKeeps'
  BY <1>1 DEF DivideKeeps, MultiplyKeeps, LowKeeps, HighKeeps
<1>7. /\ op \in {"div", "divu"} /\ r6 = Divisor
      /\ r17 <=> (op = "div" /\ Negative(a) # Negative(b))
  BY <1>1 DEF IInv, DivideKeeps
<1>8. ASSUME b # 0
      PROVE  r3 = Dividend \div Divisor
  <2>1. PICK low \in Words, quot \in Words :
           /\ low < Left /\ quot < Done /\ r13 < r6
           /\ r3 = low * Done + quot
           /\ Dividend = (r6 * quot + r13) * Left + low
    BY <1>1, <1>8 DEF IInv, DivideKeeps
  <2>2. low \in Nat /\ quot \in Nat /\ r6 \in Nat /\ r13 \in Nat
    BY <1>3, <2>1, WordIsNat
  <2>3. low = 0
    BY <1>2, <2>1, <2>2
  <2>4. r3 = quot
    BY <1>2, <2>1, <2>2, <2>3
  <2>5. Dividend = quot * r6 + r13
    <3>1. r6 * quot = quot * r6 /\ r6 * quot \in Int
      BY <2>2, Products
    <3>2. Dividend = (r6 * quot + r13) * 1 + 0
      BY <1>2, <2>1, <2>3
    <3>3. QED
      BY <2>2, <3>1, <3>2
  <2>6. Dividend \div r6 = quot
    <3>1. quot * r6 + r13 \in Int
      BY <2>2
    <3>2. r6 > 0
      BY <2>1, <2>2
    <3>3. QED
      BY <2>1, <2>2, <2>5, <3>1, <3>2, DivUnique
  <2>7. QED
    BY <1>7, <2>4, <2>6
<1>9. ASSUME b # 0
      PROVE  r9' = Instruction(op, a, b)
  <2>1. CASE op = "divu"
    <3>1. ~r17
      BY <1>7, <2>1
    <3>2. r9' = a \div b
      BY <1>1, <1>8, <1>9, <2>1, <3>1 DEF Dividend, Divisor
    <3>3. QED
      BY <2>1, <3>2 DEF Instruction
  <2>2. CASE op = "div"
    <3> DEFINE q == Abs(Signed(a)) \div Abs(Signed(b))
    <3>1. r3 = q
      BY <1>3, <1>8, <1>9, <2>2, MagnitudeIsAbs DEF Dividend, Divisor
    <3>2. Instruction(op, a, b) = (Sign(Signed(a)) * Sign(Signed(b)) * q) % Word
      BY <2>2 DEF Instruction
    <3>3. Sign(Signed(a)) = (IF Negative(a) THEN -1 ELSE 1) /\ Sign(Signed(b)) = (IF Negative(b) THEN -1 ELSE 1)
      BY <1>3, MagnitudeIsAbs
    <3> HIDE DEF q
    <3>4. r3 \in Nat /\ Negated(r3) = (-r3) % Word /\ r3 % Word = r3
      BY <1>3, WordIsNat, NegatedMod
    <3>5. CASE Negative(a) # Negative(b)
      <4>1. r17
        BY <1>7, <2>2, <3>5
      <4>2. Sign(Signed(a)) * Sign(Signed(b)) = -1
        BY <3>3, <3>5 DEF Negative
      <4>3. Sign(Signed(a)) * Sign(Signed(b)) * q = -r3
        BY <3>1, <3>4, <4>2
      <4>4. QED
        BY <1>1, <3>2, <3>4, <4>1, <4>3
    <3>6. CASE Negative(a) = Negative(b)
      <4>1. ~r17
        BY <1>7, <3>6
      <4>2. Sign(Signed(a)) * Sign(Signed(b)) = 1
        BY <3>3, <3>6 DEF Negative
      <4>3. Sign(Signed(a)) * Sign(Signed(b)) * q = r3
        BY <3>1, <3>4, <4>2
      <4>4. QED
        BY <1>1, <3>2, <3>4, <4>1, <4>3
    <3>7. QED
      BY <3>5, <3>6
  <2>3. QED
    BY <1>7, <2>1, <2>2
<1>10. Exact'
  <2>1. Instruction(op, a, b)' = Instruction(op, a, b)
    BY <1>1 DEF Instruction, Word, Signed, Negative, Top, Abs, Sign
  <2>2. QED
    BY <1>1, <1>7, <1>9, <2>1 DEF Exact
<1>11. QED
  BY <1>4, <1>5, <1>6, <1>10, Zenon DEF IInv

-----------------------------------------------------------------------------
(* The multiplications.                                                     *)

\* Multiples of the word do not count.
LEMMA ModSame ==
    ASSUME NEW m \in Nat, m > 0, NEW n \in Int, NEW k \in Int, NEW u \in Int, u = n + k * m
    PROVE  u % m = n % m
<1> DEFINE q == n \div m
<1> DEFINE r == n % m
<1>1. q \in Int /\ r \in Int /\ 0 <= r /\ r < m /\ n = q * m + r
  BY DivMod
<1> HIDE DEF q, r
<1>2. (q + k) * m = q * m + k * m /\ q * m \in Int /\ k * m \in Int
  BY <1>1, Products
<1> DEFINE km == k * m
<1> DEFINE qm == q * m
<1> DEFINE sm == (q + k) * m
<1>3. u = n + km /\ n = qm + r /\ sm = qm + km /\ km \in Int /\ qm \in Int
  BY <1>1, <1>2
<1> HIDE DEF km, qm, sm
<1>4. u = sm + r
  BY <1>1, <1>3
<1>5. u % m = r
  <2>1. q + k \in Int /\ u = (q + k) * m + r
    BY <1>1, <1>4 DEF sm
  <2> DEFINE p == q + k
  <2>2. p \in Int /\ u = p * m + r
    BY <2>1
  <2> HIDE DEF p
  <2>3. QED
    BY <1>1, <2>2, DivUnique
<1>6. QED
  BY <1>5 DEF r

\* A turn of the low product in numbers: what is n modulo the word m is doubled,
\* the bits that go out are k, and y is added.
LEMMA LowTurn ==
    \A m \in Nat : m > 0 =>
        \A n \in Int : \A k \in Int : \A y \in Int : \A s \in Int :
            s = (2 * (n % m) - k * m) + y => \E p \in Int : (2 * n) + y = s + p * m
<1> SUFFICES ASSUME NEW m \in Nat, m > 0, NEW n \in Int, NEW k \in Int, NEW y \in Int,
                    NEW s \in Int, s = (2 * (n % m) - k * m) + y
             PROVE  \E p \in Int : (2 * n) + y = s + p * m
  OBVIOUS
<1> DEFINE q == n \div m
<1> DEFINE r == n % m
<1>1. q \in Int /\ r \in Int /\ n = q * m + r
  BY DivMod
<1>2. s = 2 * r - k * m + y
  OBVIOUS
<1> HIDE DEF q, r
<1>3. (2 * q + k) * m = 2 * (q * m) + k * m /\ q * m \in Int /\ k * m \in Int
  <2>1. (2 * q + k) * m = (2 * q) * m + k * m /\ (2 * q) * m = 2 * (q * m)
    BY <1>1, Products
  <2>2. QED
    BY <1>1, <2>1, Products
<1> DEFINE km == k * m
<1> DEFINE qm == q * m
<1> DEFINE sm == (2 * q + k) * m
<1>4. s = 2 * r - km + y /\ n = qm + r /\ sm = 2 * qm + km /\ km \in Int /\ qm \in Int
  BY <1>1, <1>2, <1>3
<1> HIDE DEF km, qm, sm
<1>5. (2 * n) + y = s + sm
  BY <1>1, <1>4
<1>6. 2 * q + k \in Int
  BY <1>1
<1>7. QED
  BY <1>5, <1>6 DEF sm

\* A turn of the high product in numbers.  The high product is x * low without
\* the digits of weight below D; a partial product is added for the next bit of
\* the multiplier y, and the sum moves right.
LEMMA HighTurn ==
    ASSUME NEW D \in Nat, D > 0, NEW x \in Nat, NEW y \in Nat, NEW low \in Nat, low < D,
           NEW r \in Nat, r = (x * low) \div D, NEW b0 \in Nat, b0 = y * D + low
    PROVE  LET bit == y % 2
               s == r + (IF bit = 1 THEN x ELSE 0)
               l == low + (IF bit = 1 THEN D ELSE 0)
           IN /\ y \div 2 \in Nat /\ l \in Nat /\ l < 2 * D /\ b0 = (y \div 2) * (2 * D) + l
              /\ s \div 2 \in Nat /\ s \div 2 <= s /\ s \div 2 = (x * l) \div (2 * D)
              /\ 2 * (s \div 2) <= s
<1> DEFINE bit == y % 2
<1> DEFINE half == y \div 2
<1> DEFINE z == IF bit = 1 THEN x ELSE 0
<1> DEFINE d == IF bit = 1 THEN D ELSE 0
<1> DEFINE s == r + z
<1> DEFINE l == low + d
<1>1. half \in Nat /\ bit \in 0 .. 1 /\ y = half * 2 + bit
  OBVIOUS
<1>2. z \in Nat /\ d \in Nat /\ s \in Nat /\ l \in Nat /\ l < 2 * D
  <2>1. CASE bit = 1
    BY <2>1
  <2>2. CASE bit # 1
    BY <2>2
  <2>3. QED
    BY <2>1, <2>2
<1> DEFINE h == s \div 2
<1> DEFINE t == s % 2
<1>3. h \in Nat /\ t \in 0 .. 1 /\ s = 2 * h + t /\ h <= s
  <2> HIDE DEF s
  <2>1. QED
    BY <1>2
<1> DEFINE n == x * low
<1> DEFINE lost == n % D
<1>4. n \in Int /\ lost \in Int /\ 0 <= lost /\ lost < D /\ n = r * D + lost
  <2>1. n \in Int
    BY Products
  <2> HIDE DEF n
  <2>2. lost \in Int /\ 0 <= lost /\ lost < D /\ n = (n \div D) * D + lost
    BY <2>1, DivMod
  <2>3. r = n \div D
    BY DEF n
  <2>4. QED
    BY <2>1, <2>2, <2>3
<1>5. bit * D = d /\ x * d = z * D
  <2>1. bit = 0 \/ bit = 1
    BY <1>1
  <2>2. CASE bit = 0
    BY <2>2
  <2>3. CASE bit = 1
    BY <2>3
  <2>4. QED
    BY <2>1, <2>2, <2>3
<1>6. x * l = x * low + x * d
  <2> HIDE DEF d
  <2>1. QED
    BY <1>2, Products
<1> HIDE DEF bit, half, z, d, s, l, h, t, n, lost
<1>7. b0 = half * (2 * D) + l
  <2>1. (half * 2 + bit) * D = (half * 2) * D + bit * D /\ half * 2 \in Int
    BY <1>1, Products
  <2>2. (half * 2) * D = half * (2 * D)
    BY <1>1, Products
  <2>3. half * (2 * D) \in Int /\ y * D \in Int
    BY <1>1, Products
  <2>4. y * D = half * (2 * D) + d
    BY <1>1, <1>5, <2>1, <2>2
  <2>5. l = low + d
    BY DEF l
  <2> DEFINE yD == y * D
  <2> DEFINE hD == half * (2 * D)
  <2>6. b0 = yD + low /\ yD = hD + d /\ yD \in Int /\ hD \in Int
    BY <2>3, <2>4
  <2> HIDE DEF yD, hD
  <2>7. b0 = hD + l
    BY <1>2, <2>5, <2>6
  <2>8. QED
    BY <2>7 DEF hD
<1>8. x * l = h * (2 * D) + (t * D + lost)
  <2>1. s * D = r * D + z * D
    BY <1>2, Products DEF s
  <2>2. x * l = s * D + lost
    <3>1. r * D \in Int /\ z * D \in Int
      BY <1>2, Products
    <3>2. x * l = n + z * D
      BY <1>5, <1>6 DEF n
    <3>3. QED
      BY <1>4, <2>1, <3>1, <3>2
  <2>3. s * D = (2 * h) * D + t * D /\ (2 * h) * D = h * (2 * D)
    <3>1. (2 * h + t) * D = (2 * h) * D + t * D /\ (2 * h) * D = 2 * (h * D) /\ h * (2 * D) = 2 * (h * D)
      BY <1>3, Products
    <3>2. QED
      BY <1>3, <3>1
  <2>4. h * (2 * D) \in Int /\ t * D \in Int
    BY <1>3, Products
  <2>5. QED
    BY <1>4, <2>2, <2>3, <2>4
<1>9. t * D + lost \in Int /\ 0 <= t * D + lost /\ t * D + lost < 2 * D
  <2>1. t = 0 \/ t = 1
    BY <1>3
  <2>2. CASE t = 0
    BY <1>4, <2>2
  <2>3. CASE t = 1
    BY <1>4, <2>3
  <2>4. QED
    BY <2>1, <2>2, <2>3
<1>10. (x * l) \div (2 * D) = h
  <2> DEFINE rem == t * D + lost
  <2>1. x * l \in Int /\ 2 * D \in Int /\ 2 * D > 0
    BY <1>2, Products
  <2>2. rem \in Int /\ 0 <= rem /\ rem < 2 * D /\ x * l = h * (2 * D) + rem
    BY <1>8, <1>9
  <2> HIDE DEF rem
  <2>3. QED
    BY <1>3, <2>1, <2>2, DivUnique
<1>11. half \in Nat /\ h \in Nat /\ h <= s /\ 2 * h <= s /\ l \in Nat /\ l < 2 * D
  BY <1>1, <1>2, <1>3
<1>12. QED
  BY <1>7, <1>10, <1>11 DEF bit, half, z, d, s, l, h

\* The step of the loop of both multiplications.
LEMMA MultiplyLoopKeeps ==
    ASSUME IInv, MultiplyLoop
    PROVE  IInv'
<1> DEFINE bit == IF Negative(r6) THEN 1 ELSE 0
<1> DEFINE sum == Lsl(r9) + (IF Negative(r6) THEN r3 ELSE 0)
<1> DEFINE add == IF r12 % 2 = 1 THEN r3 ELSE 0
<1>1. /\ pc = "multiply" /\ r14 > 0 /\ r14' = r14 - 1
      /\ pc' = "multiply" /\ op' = op /\ a' = a /\ b' = b /\ r3' = r3 /\ r13' = r13 /\ r17' = r17
  BY DEF MultiplyLoop
<1>2. r6' = Lsl(r6) /\ r12' = r12 \div 2 /\ r9' = sum % Word /\ r10' = (r10 + add) \div 2
  BY DEF MultiplyLoop, HalfSum
<1>3. /\ Left = 2 * Left' /\ Done' = 2 * Done /\ Left' * Done' = Word
      /\ Left' \in Nat /\ Left' > 0 /\ Done \in Nat /\ Done > 0 /\ r14' \in 0 .. W
      /\ Left \in Nat /\ Left * Done = Word /\ Left' * Done = Top
  BY <1>1, OneTurn DEF IInv
<1>4. /\ a \in Words /\ b \in Words /\ r3 \in Words /\ r6 \in Words /\ r13 \in Words
      /\ r9 \in Words /\ r10 \in Words /\ r12 \in Words
  BY DEF IInv, TypeOK
<1>5. Word > 0 /\ Word \in Nat /\ Word = 2 * Top /\ Top \in Nat
  BY <1>4, WordIsNat, WordTypes
<1>6. /\ a \in Nat /\ b \in Nat /\ r3 \in Nat /\ r6 \in Nat /\ r9 \in Nat /\ r10 \in Nat /\ r12 \in Nat
      /\ b < Word /\ r3 < Word /\ r10 < Word /\ r12 < Word
  BY <1>4, WordIsNat
<1>7. op \in Ops \ {"div", "divu"} /\ r3 = a
  BY <1>1 DEF IInv, MultiplyKeeps
<1>8. Lsl(r6) \in Words /\ Lsl(r9) \in Words /\ Lsl(r9) \in Nat
  BY <1>4, <1>5, Shifted, WordIsNat
<1>9. sum \in Nat /\ sum % Word \in Words
  <2>1. sum \in Nat
    BY <1>6, <1>8
  <2> HIDE DEF sum
  <2>2. QED
    BY <1>5, <2>1, ModWord
<1> HIDE DEF sum
<1>10. PICK low \in Words : low < Done /\ b = r12 * Done + low /\ r10 = (a * low) \div Done
  BY <1>1 DEF IInv, HighKeeps
<1>11. low \in Nat
  BY <1>10, WordIsNat
<1> DEFINE l == low + (IF r12 % 2 = 1 THEN Done ELSE 0)
<1> DEFINE h == (r10 + add) \div 2
<1>12. /\ l \in Nat /\ l < 2 * Done /\ b = (r12 \div 2) * (2 * Done) + l
       /\ h \in Nat /\ 2 * h <= r10 + add /\ h = (a * l) \div (2 * Done)
  BY <1>3, <1>6, <1>7, <1>10, <1>11, HighTurn
<1>13. 2 * Done <= Word
  <2>1. Done' \in Nat /\ Done' > 0
    BY <1>3
  <2>2. Done' <= Left' * Done'
    BY <1>3, <2>1, FactorBound
  <2>3. QED
    BY <1>3, <2>2
<1>14. h \in Words
  <2>1. add \in Nat /\ add < Word
    BY <1>5, <1>6
  <2> HIDE DEF add, h
  <2>2. QED
    BY <1>5, <1>6, <1>12, <2>1 DEF Words
<1>15. r12 \div 2 \in Words
  <2>1. r12 \div 2 \in Nat /\ r12 \div 2 <= r12
    BY <1>6
  <2>2. QED
    BY <1>5, <1>6, <2>1 DEF Words
<1>16. l \in Words
  <2> HIDE DEF l
  <2>1. QED
    BY <1>3, <1>5, <1>12, <1>13 DEF Words
<1>17. TypeOK'
  <2>1. r9' \in Words /\ r10' \in Words /\ r6' \in Words /\ r12' \in Words
    BY <1>2, <1>8, <1>9, <1>14, <1>15
  <2>2. Words' = Words
    BY DEF Words, Word
  <2>3. QED
    BY <1>1, <1>3, <2>1, <2>2 DEF IInv, TypeOK
<1>18. Powers'
  <2>1. Done' > 0
    <3>1. \A x \in Nat : x > 0 => 2 * x > 0
      OBVIOUS
    <3>2. QED
      BY <1>3, <3>1, Zenon
  <2>2. Left' * Done' = Word /\ Left' > 0 /\ Word' = Word
    BY <1>3 DEF Word
  <2>3. QED
    BY <2>1, <2>2 DEF Powers
<1>19. HighKeeps'
  <2>1. l < Done' /\ b = (r12 \div 2) * Done' + l /\ h = (a * l) \div Done'
    BY <1>3, <1>12
  <2>2. r10' = h /\ r12' = r12 \div 2
    BY <1>2
  <2> HIDE DEF l, h
  <2>3. l < Done' /\ b' = r12' * Done' + l /\ r10' = (a' * l) \div Done'
    BY <1>1, <2>1, <2>2
  <2>4. Words' = Words
    BY DEF Words, Word
  <2>5. \E x \in Words' : x < Done' /\ b' = r12' * Done' + x /\ r10' = (a' * x) \div Done'
    BY <1>16, <2>3, <2>4, Zenon
  <2>6. QED
    BY <2>5, Zenon DEF HighKeeps
<1>20. LowKeeps'
  <2>1. PICK high \in Words, rest \in Words :
           rest < Left /\ b = high * Left + rest /\ r6 = rest * Done /\ r9 = (a * high) % Word
    BY <1>1 DEF IInv, LowKeeps
  <2>2. high \in Nat /\ rest \in Nat
    BY <2>1, WordIsNat
  <2> DEFINE P == Left'
  <2> DEFINE rest1 == IF rest >= P THEN rest - P ELSE rest
  <2> DEFINE high1 == 2 * high + bit
  <2>3. (Negative(r6) <=> rest >= P) /\ Lsl(r6) = rest1 * (2 * Done) + 2 * 0
    <3>1. P \in Nat /\ P > 0 /\ P * Done = Top /\ rest < 2 * P
      BY <1>3, <2>1
    <3>2. r6 = rest * Done + 0 /\ 0 \in Nat /\ 0 < Done
      <4>1. rest * Done \in Int
        BY <1>3, <2>2, Products
      <4>2. QED
        BY <1>3, <2>1, <4>1
    <3> HIDE DEF P
    <3>3. QED
      BY <1>3, <1>4, <2>2, <3>1, <3>2, TopBit
  <2>4. Lsl(r6) = rest1 * Done'
    <3>1. rest1 * (2 * Done) \in Int
      BY <1>3, <2>2, Products
    <3>2. QED
      BY <1>3, <2>3, <3>1
  <2>5. P \in Nat /\ P > 0 /\ Left = 2 * P /\ Left' = P
    BY <1>3
  <2> HIDE DEF P
  <2>6. rest1 \in Nat /\ rest1 < P /\ rest = (IF bit = 1 THEN P ELSE 0) + rest1 /\ rest1 <= rest
    BY <2>1, <2>2, <2>3, <2>5
  <2>7. bit \in 0 .. 1 /\ high1 \in Nat
    BY <2>2
  <2>8. b = high1 * P + rest1
    <3>1. high1 * P = (2 * high) * P + bit * P /\ (2 * high) * P = 2 * (high * P)
      BY <2>2, <2>5, <2>7, Products
    <3>2. high * (2 * P) = 2 * (high * P) /\ high * P \in Int
      BY <2>2, <2>5, Products
    <3>3. bit * P = IF bit = 1 THEN P ELSE 0
      <4>1. bit = 0 \/ bit = 1
        OBVIOUS
      <4>2. QED
        BY <2>5, <4>1
    <3> DEFINE c == IF bit = 1 THEN P ELSE 0
    <3> DEFINE hP == high * P
    <3> DEFINE h1P == high1 * P
    <3>4. /\ h1P = 2 * hP + c /\ b = 2 * hP + rest /\ rest = c + rest1
          /\ c \in Int /\ hP \in Int
      BY <2>1, <2>5, <2>6, <3>1, <3>2, <3>3
    <3> HIDE DEF c, hP, h1P, rest1
    <3>5. b = h1P + rest1
      BY <2>2, <2>6, <3>4
    <3>6. QED
      BY <3>5 DEF h1P
  <2>9. high1 \in Words
    <3>1. high1 <= high1 * P
      BY <2>5, <2>7, FactorBound
    <3>2. high1 * P \in Int
      BY <2>5, <2>7, Products
    <3> HIDE DEF high1, rest1
    <3>3. high1 < Word
      BY <1>5, <1>6, <2>6, <2>7, <2>8, <3>1, <3>2
    <3>4. QED
      BY <1>5, <2>7, <3>3 DEF Words
  <2>10. rest1 \in Words
    <3> HIDE DEF rest1
    <3>1. rest < Word
      BY <2>1, WordIsNat
    <3>2. QED
      BY <1>5, <2>2, <2>6, <3>1 DEF Words
  <2>11. r9' = (a * high1) % Word
    <3> DEFINE carry == Msb(r9)
    <3> DEFINE prod == a * high
    <3> DEFINE part == IF bit = 1 THEN a ELSE 0
    <3>1. carry \in Int /\ carry * Word = (IF Negative(r9) THEN Word ELSE 0)
      BY <1>5 DEF Msb
    <3>2. Lsl(r9) = 2 * r9 - carry * Word
      <4>1. Lsl(r9) = (IF Negative(r9) THEN 2 * r9 - Word ELSE 2 * r9)
        BY <1>4, <1>5, Shifted
      <4>2. QED
        BY <1>5, <1>6, <3>1, <4>1
    <3>3. sum = 2 * (prod % Word) - carry * Word + part
      BY <1>7, <2>1, <3>2 DEF sum
    <3>4. prod \in Int /\ part \in Int /\ sum \in Int
      BY <1>6, <1>9, <2>2, Products
    <3> HIDE DEF carry
    <3>5. a * high1 = 2 * prod + part
      <4>1. a * (2 * high + bit) = a * (2 * high) + a * bit /\ a * (2 * high) = 2 * (a * high)
        BY <1>6, <2>2, <2>7, Products
      <4>2. a * bit = part
        <5>1. bit = 0 \/ bit = 1
          OBVIOUS
        <5>2. QED
          BY <1>6, <5>1
      <4>3. QED
        BY <4>1, <4>2
    <3> HIDE DEF prod, part
    <3>6. sum % Word = (2 * prod + part) % Word
      <4>0. Word \in Nat /\ Word > 0
        BY <1>5
      <4> DEFINE turns == carry
      <4>a. turns \in Int /\ sum = (2 * (prod % Word) - turns * Word) + part
        BY <3>1, <3>3
      <4> HIDE DEF turns
      <4>1. PICK over \in Int : (2 * prod) + part = sum + over * Word
        <5>1. \A n \in Int : \A k \in Int : \A y \in Int : \A s \in Int :
                 s = (2 * (n % Word) - k * Word) + y => \E p \in Int : (2 * n) + y = s + p * Word
          BY <4>0, LowTurn, Zenon
        <5>2. prod \in Int /\ turns \in Int /\ part \in Int /\ sum \in Int
          BY <3>4, <4>a
        <5>3. \A k \in Int : \A y \in Int : \A s \in Int :
                 s = (2 * (prod % Word) - k * Word) + y => \E p \in Int : (2 * prod) + y = s + p * Word
          BY <5>1, <5>2, Zenon
        <5>4. \A y \in Int : \A s \in Int :
                 s = (2 * (prod % Word) - turns * Word) + y => \E p \in Int : (2 * prod) + y = s + p * Word
          BY <5>2, <5>3, Zenon
        <5>5. \A s \in Int :
                 s = (2 * (prod % Word) - turns * Word) + part => \E p \in Int : (2 * prod) + part = s + p * Word
          BY <5>2, <5>4, Zenon
        <5>6. QED
          BY <4>a, <5>2, <5>5, Zenon
      <4> DEFINE twice == (2 * prod) + part
      <4>2. twice \in Int /\ twice = sum + over * Word
        BY <3>4, <4>1
      <4> HIDE DEF twice
      <4>3. twice % Word = sum % Word
        BY <3>4, <4>0, <4>2, ModSame
      <4>4. QED
        BY <4>3 DEF twice
    <3>7. QED
      BY <1>2, <3>5, <3>6, Zenon
  <2> HIDE DEF rest1, high1
  <2>12. /\ rest1 < Left' /\ b' = high1 * Left' + rest1 /\ r6' = rest1 * Done'
         /\ r9' = (a' * high1) % Word'
    BY <1>1, <1>2, <2>4, <2>5, <2>6, <2>8, <2>11 DEF Word
  <2>13. Words' = Words
    BY DEF Words, Word
  <2>14. \E x, y \in Words' : y < Left' /\ b' = x * Left' + y /\ r6' = y * Done' /\ r9' = (a' * x) % Word'
    BY <2>9, <2>10, <2>12, <2>13, Zenon
  <2>15. QED
    BY <2>14, Zenon DEF LowKeeps
<1>21. DivideKeeps' /\ MultiplyKeeps' /\ Exact'
  BY <1>1, <1>7 DEF DivideKeeps, MultiplyKeeps, Exact
<1>22. QED
  BY <1>17, <1>18, <1>19, <1>20, <1>21, Zenon DEF IInv

\* A word that stands for less than 0 stands for a word less.
LEMMA HighOfSigned ==
    ASSUME NEW m \in Nat, m > 0, NEW u \in Int, NEW y \in Int
    PROVE  ((u - m) * y) \div m = ((u * y) \div m) - y
<1> DEFINE n == u * y
<1> DEFINE q == n \div m
<1> DEFINE r == n % m
<1>1. n \in Int /\ q \in Int /\ r \in Int /\ 0 <= r /\ r < m /\ n = q * m + r
  <2>1. n \in Int
    BY Products
  <2> HIDE DEF n
  <2>2. QED
    BY <2>1, DivMod
<1>2. (u - m) * y = n - m * y
  BY Products
<1> HIDE DEF n, q, r
<1>3. (q - y) * m = q * m - y * m /\ y * m = m * y /\ q * m \in Int /\ y * m \in Int
  BY <1>1, Products
<1> DEFINE v == (u - m) * y
<1> DEFINE p == q - y
<1> DEFINE qm == q * m
<1> DEFINE ym == y * m
<1> DEFINE pm == p * m
<1>4. v = n - ym /\ pm = qm - ym /\ n = qm + r /\ qm \in Int /\ ym \in Int /\ p \in Int
  BY <1>1, <1>2, <1>3
<1> HIDE DEF v, p, qm, ym, pm
<1>5. v \in Int /\ v = pm + r
  BY <1>1, <1>4
<1>6. v \div m = p
  BY <1>1, <1>4, <1>5, DivUnique DEF pm
<1>7. QED
  BY <1>6 DEF v, p, q, n

\* The high product of operands with signs, from that of operands without.
LEMMA SignedHigh ==
    ASSUME NEW x \in Words, NEW y \in Words, NEW h \in Words, h = (x * y) \div Word
    PROVE  LET su == IF Negative(x) THEN Minus(h, y) ELSE h
           IN /\ su \in Words /\ su = ((Signed(x) * y) \div Word) % Word
              /\ (IF Negative(y) THEN Minus(su, x) ELSE su) = ((Signed(x) * Signed(y)) \div Word) % Word
<1> DEFINE su == IF Negative(x) THEN Minus(h, y) ELSE h
<1> DEFINE full == (Signed(x) * y) \div Word
<1>1. x \in Nat /\ y \in Nat /\ h \in Nat /\ Word \in Nat /\ Word > 0 /\ h % Word = h
  BY WordIsNat, NegatedMod
<1>2. Signed(x) \in Int /\ Signed(y) \in Int
  BY <1>1 DEF Signed
<1>3. full = (IF Negative(x) THEN h - y ELSE h)
  <2>1. CASE Negative(x)
    <3>1. Signed(x) = x - Word
      BY <2>1 DEF Signed
    <3>2. ((x - Word) * y) \div Word = ((x * y) \div Word) - y
      BY <1>1, HighOfSigned
    <3>3. QED
      BY <2>1, <3>1, <3>2, Zenon
  <2>2. CASE ~Negative(x)
    BY <2>2 DEF Signed
  <2>3. QED
    BY <2>1, <2>2
<1>4. full \in Int
  BY <1>1, <1>3
<1>5. su = full % Word
  BY <1>1, <1>3 DEF Minus
<1>6. su \in Words
  <2> HIDE DEF full, su
  <2>1. full % Word \in Words
    BY <1>1, <1>4, ModWord
  <2>2. QED
    BY <1>5, <2>1
<1>7. su = ((Signed(x) * y) \div Word) % Word
  BY <1>5
<1> DEFINE both == (Signed(x) * Signed(y)) \div Word
<1>8. both = (IF Negative(y) THEN full - Signed(x) ELSE full)
  <2>1. CASE Negative(y)
    <3>1. Signed(y) = y - Word
      BY <2>1 DEF Signed
    <3>2. ((y - Word) * Signed(x)) \div Word = ((y * Signed(x)) \div Word) - Signed(x)
      BY <1>1, <1>2, HighOfSigned
    <3>3. (y - Word) * Signed(x) = Signed(x) * (y - Word) /\ y * Signed(x) = Signed(x) * y
      <4>1. y - Word \in Int /\ y \in Int
        BY <1>1
      <4>2. QED
        BY <1>2, <4>1, Products
    <3>4. (Signed(x) * (y - Word)) \div Word = ((Signed(x) * y) \div Word) - Signed(x)
      BY <3>2, <3>3, Zenon
    <3>5. QED
      BY <2>1, <3>1, <3>4, Zenon
  <2>2. CASE ~Negative(y)
    <3>1. Signed(y) = y
      BY <2>2 DEF Signed
    <3>2. QED
      BY <2>2, <3>1, Zenon
  <2>3. QED
    BY <2>1, <2>2
<1> HIDE DEF su, full
<1>9. (IF Negative(y) THEN Minus(su, x) ELSE su) = both % Word
  <2>1. CASE Negative(y)
    <3> DEFINE u == su - x
    <3> DEFINE v == full - Signed(x)
    <3>1. \E k \in Int : v = u + k * Word
      <4> DEFINE q == full \div Word
      <4>1. q \in Int /\ su \in Int /\ full = q * Word + su
        BY <1>1, <1>4, <1>5, DivMod
      <4> HIDE DEF q
      <4>2. CASE Negative(x)
        <5>1. Signed(x) = x - Word
          BY <4>2 DEF Signed
        <5>2. (q + 1) * Word = q * Word + 1 * Word /\ 1 * Word = Word /\ q * Word \in Int
          BY <1>1, <4>1, Products
        <5> DEFINE qW == q * Word
        <5> DEFINE pW == (q + 1) * Word
        <5>3. pW = qW + Word /\ full = qW + su /\ qW \in Int
          BY <4>1, <5>2
        <5> HIDE DEF qW, pW
        <5>4. v = u + pW
          BY <1>1, <4>1, <5>1, <5>3
        <5>5. v = u + (q + 1) * Word /\ q + 1 \in Int
          BY <4>1, <5>4 DEF pW
        <5>6. QED
          BY <5>5
      <4>3. CASE ~Negative(x)
        <5>1. Signed(x) = x
          BY <4>3 DEF Signed
        <5>2. q * Word \in Int
          BY <1>1, <4>1, Products
        <5> DEFINE qW == q * Word
        <5>3. full = qW + su /\ qW \in Int
          BY <4>1, <5>2
        <5> HIDE DEF qW
        <5>4. v = u + qW
          BY <1>1, <4>1, <5>1, <5>3
        <5>5. QED
          BY <4>1, <5>4 DEF qW
      <4>4. QED
        BY <4>2, <4>3
    <3>2. PICK k \in Int : v = u + k * Word
      BY <3>1
    <3>3. su \in Int
      BY <1>6, WordIsNat
    <3>4. u \in Int /\ v \in Int
      BY <1>1, <1>2, <1>4, <3>3
    <3> HIDE DEF u, v
    <3>5. v % Word = u % Word
      BY <1>1, <3>2, <3>4, ModSame
    <3>6. QED
      BY <1>8, <2>1, <3>5, Zenon DEF u, v, Minus
  <2>2. CASE ~Negative(y)
    BY <1>5, <1>8, <2>2, Zenon
  <2>3. QED
    BY <2>1, <2>2
<1>10. QED
  BY <1>6, <1>7, <1>9, Zenon DEF su

\* The four products.
LEMMA MultiplyEndKeeps ==
    ASSUME IInv, MultiplyEnd
    PROVE  IInv'
<1>1. /\ pc = "multiply" /\ r14 = 0 /\ pc' = "done"
      /\ op' = op /\ a' = a /\ b' = b /\ r3' = r3 /\ r6' = r6 /\ r10' = r10
      /\ r12' = r12 /\ r13' = r13 /\ r14' = r14 /\ r17' = r17
      /\ r9' = (CASE op = "mul" -> r9
                  [] op = "mulxuu" -> r10
                  [] op = "mulxsu" -> SignedUnsigned
                  [] OTHER -> SignedSigned)
  BY DEF MultiplyEnd
<1>2. Left = 1 /\ Done = Word /\ Word \in Nat /\ Word > 0
  BY <1>1, AllDone DEF IInv
<1>3. /\ a \in Words /\ b \in Words /\ r9 \in Words /\ r10 \in Words /\ r12 \in Words
  BY DEF IInv, TypeOK
<1>4. a \in Nat /\ b \in Nat /\ r12 \in Nat /\ b < Word
  BY <1>3, WordIsNat
<1>5. op \in Ops \ {"div", "divu"} /\ r3 = a
  BY <1>1 DEF IInv, MultiplyKeeps
<1>6. r9 = (a * b) % Word
  <2>1. PICK high \in Words, rest \in Words :
           rest < Left /\ b = high * Left + rest /\ r9 = (a * high) % Word
    BY <1>1 DEF IInv, LowKeeps
  <2>2. high \in Nat /\ rest \in Nat
    BY <2>1, WordIsNat
  <2>3. rest = 0 /\ b = high * 1 + rest
    BY <1>2, <2>1, <2>2
  <2>4. b = high
    BY <2>2, <2>3
  <2>5. QED
    BY <2>1, <2>4
<1>7. r10 = (a * b) \div Word
  <2>1. PICK low \in Words : low < Done /\ b = r12 * Done + low /\ r10 = (a * low) \div Done
    BY <1>1 DEF IInv, HighKeeps
  <2>2. low \in Nat
    BY <2>1, WordIsNat
  <2>3. b = r12 * Word + low /\ b = 0 * Word + b
    BY <1>2, <1>4, <2>1
  <2>4. b \div Word = r12 /\ b % Word = low
    BY <1>2, <1>4, <2>1, <2>2, <2>3, DivUnique
  <2>5. b % Word = b
    BY <1>3, NegatedMod
  <2>6. QED
    BY <1>2, <2>1, <2>4, <2>5
<1>8. /\ SignedUnsigned \in Words /\ SignedUnsigned = ((Signed(a) * b) \div Word) % Word
      /\ SignedSigned = ((Signed(a) * Signed(b)) \div Word) % Word
  <2>1. /\ SignedUnsigned = (IF Negative(a) THEN Minus(r10, b) ELSE r10)
        /\ SignedSigned = (IF Negative(b) THEN Minus(SignedUnsigned, a) ELSE SignedUnsigned)
    BY <1>5 DEF SignedUnsigned, SignedSigned
  <2>2. QED
    BY <1>3, <1>7, <2>1, SignedHigh
<1>9. SignedSigned \in Words
  <2>1. SignedUnsigned - a \in Int
    <3>1. SignedUnsigned \in Nat
      BY <1>8, WordIsNat
    <3>2. QED
      BY <1>4, <3>1
  <2>2. Minus(SignedUnsigned, a) \in Words
    BY <1>2, <2>1, ModWord DEF Minus
  <2>3. QED
    BY <1>5, <1>8, <2>2 DEF SignedSigned
<1>10. r9' \in Words
  BY <1>1, <1>3, <1>8, <1>9
<1>11. TypeOK'
  BY <1>1, <1>10 DEF IInv, TypeOK, Words, Word
<1>12. Powers'
  BY <1>1 DEF IInv, Powers, Left, Done, Word
<1>13. DivideKeeps' /\ MultiplyKeeps' /\ LowKeeps' /\ HighKeeps'
  BY <1>1 DEF DivideKeeps, MultiplyKeeps, LowKeeps, HighKeeps
<1>14. r9' = Instruction(op, a, b)
  <2>1. CASE op = "mul"
    BY <1>1, <1>6, <2>1 DEF Instruction
  <2>2. CASE op = "mulxuu"
    BY <1>1, <1>7, <2>2 DEF Instruction
  <2>3. CASE op = "mulxsu"
    BY <1>1, <1>8, <2>3 DEF Instruction
  <2>4. CASE op = "mulxss"
    BY <1>1, <1>8, <2>4 DEF Instruction
  <2>5. QED
    BY <1>5, <2>1, <2>2, <2>3, <2>4 DEF Ops
<1>15. Exact'
  <2>1. Instruction(op, a, b)' = Instruction(op, a, b)
    BY <1>1 DEF Instruction, Word, Signed, Negative, Top, Abs, Sign
  <2>2. QED
    BY <1>1, <1>14, <2>1 DEF Exact
<1>16. QED
  BY <1>11, <1>12, <1>13, <1>15, Zenon DEF IInv

-----------------------------------------------------------------------------
(* The exception, and the way back.                                         *)

\* Before the first turn all of the word is left.
LEMMA NothingDone ==
    ASSUME Word > 0, r14' = W
    PROVE  Left' = Word /\ Done' = 1 /\ Powers' /\ r14' \in 0 .. W /\ Word \in Nat
<1>1. Left' = Word /\ Done' = 1
  BY WordTypes, WordAssumption DEF Left, Done, Word
<1>2. Word \in Nat /\ Word' = Word
  BY WordTypes DEF Word
<1>3. QED
  BY <1>1, <1>2, WordTypes DEF Powers

\* A division begins.
LEMMA DivideKeepsIt ==
    ASSUME IInv, NEW o \in Ops, NEW x \in Words, NEW y \in Words, Divide(o, x, y)
    PROVE  IInv'
<1>1. /\ o \in {"div", "divu"} /\ op' = o /\ a' = x /\ b' = y /\ pc' = "divide"
      /\ r3' = (IF o = "div" THEN Magnitude(x) ELSE x)
      /\ r6' = (IF o = "div" THEN Magnitude(y) ELSE y)
      /\ r13' = 0 /\ r14' = W /\ r9' = r9 /\ r10' = r10 /\ r12' = r12
  BY DEF Divide
<1>2. r17' = (o = "div" /\ Negative(x) # Negative(y))
  BY DEF Divide
<1>3. Word > 0
  BY WordIsNat
<1>4. Left' = Word /\ Done' = 1 /\ Powers' /\ r14' \in 0 .. W /\ Word \in Nat
  BY <1>1, <1>3, NothingDone
<1>5. Magnitude(x) \in Words /\ Magnitude(y) \in Words
  BY MagnitudeIsAbs
<1>6. r3' \in Words /\ r6' \in Words /\ r13' \in Words /\ Words' = Words
  BY <1>1, <1>3, <1>4, <1>5 DEF Words, Word
<1>7. r17' \in BOOLEAN
  BY <1>2
<1>8. TypeOK'
  <2>1. r9 \in Words /\ r10 \in Words /\ r12 \in Words
    BY DEF IInv, TypeOK
  <2>2. QED
    BY <1>1, <1>4, <1>6, <1>7, <2>1 DEF TypeOK
<1>9. Dividend' = r3' /\ Divisor' = r6'
  BY <1>1 DEF Dividend, Divisor, Magnitude, Negated, Negative, Word, Top
<1>10. ASSUME y # 0
       PROVE  \E low, quot \in Words' :
                 /\ low < Left' /\ quot < Done' /\ r13' < r6'
                 /\ r3' = low * Done' + quot
                 /\ Dividend' = (r6' * quot + r13') * Left' + low
  <2>1. r3' \in Nat /\ r6' \in Nat /\ r3' < Word /\ 0 \in Words
    BY <1>3, <1>4, <1>6, WordIsNat DEF Words
  <2>2. r6' # 0
    BY <1>1, <1>10, MagnitudeIsAbs
  <2>3. r3' = r3' * 1 + 0 /\ r6' * 0 = 0 /\ (r6' * 0 + 0) * Word = 0
    <3>1. \A v \in Int : v * 0 = 0 /\ v = v * 1 + 0 /\ (0 + 0) * v = 0
      OBVIOUS
    <3>2. r6' \in Int /\ r3' \in Int /\ Word \in Int
      BY <1>4, <2>1
    <3>3. QED
      BY <3>1, <3>2, Zenon
  <2>4. (r6' * 0 + r13') * Left' + r3' = r3'
    BY <1>1, <1>4, <2>1, <2>3
  <2>5. /\ r3' < Left' /\ 0 < Done' /\ r13' < r6'
        /\ r3' = r3' * Done' + 0
        /\ Dividend' = (r6' * 0 + r13') * Left' + r3'
    BY <1>1, <1>4, <1>9, <2>1, <2>2, <2>3, <2>4
  <2>6. QED
    BY <1>6, <2>1, <2>5, Zenon
<1>11. DivideKeeps'
  <2>1. Negative(a)' = Negative(x) /\ Negative(b)' = Negative(y)
    BY <1>1 DEF Negative, Top
  <2>2. r17' <=> (op' = "div" /\ Negative(a)' # Negative(b)')
    BY <1>1, <1>2, <2>1, Zenon
  <2>3. op' \in {"div", "divu"} /\ r6' = Divisor'
    BY <1>1, <1>9
  <2>4. b' # 0 => \E low, quot \in Words' :
                 /\ low < Left' /\ quot < Done' /\ r13' < r6'
                 /\ r3' = low * Done' + quot
                 /\ Dividend' = (r6' * quot + r13') * Left' + low
    BY <1>1, <1>10, Zenon
  <2>5. QED
    BY <2>2, <2>3, <2>4, Zenon DEF DivideKeeps
<1>12. MultiplyKeeps' /\ LowKeeps' /\ HighKeeps' /\ Exact'
  BY <1>1 DEF MultiplyKeeps, LowKeeps, HighKeeps, Exact
<1>13. QED
  BY <1>4, <1>8, <1>11, <1>12, Zenon DEF IInv

\* A multiplication begins.
LEMMA MultiplyKeepsIt ==
    ASSUME IInv, NEW o \in Ops, NEW x \in Words, NEW y \in Words, Multiply(o, x, y)
    PROVE  IInv'
<1>1. /\ o \in Ops \ {"div", "divu"} /\ op' = o /\ a' = x /\ b' = y /\ pc' = "multiply"
      /\ r3' = x /\ r6' = y /\ r12' = y /\ r9' = 0 /\ r10' = 0 /\ r14' = W
      /\ r13' = r13 /\ r17' = r17
  BY DEF Multiply
<1>2. Word > 0
  BY WordIsNat
<1>3. Left' = Word /\ Done' = 1 /\ Powers' /\ r14' \in 0 .. W /\ Word \in Nat
  BY <1>1, <1>2, NothingDone
<1>4. 0 \in Words /\ Words' = Words /\ Word' = Word
  BY <1>2, <1>3 DEF Words, Word
<1>5. TypeOK'
  <2>1. r13 \in Words /\ r17 \in BOOLEAN
    BY DEF IInv, TypeOK
  <2>2. QED
    BY <1>1, <1>3, <1>4, <2>1 DEF TypeOK
<1>6. x \in Nat /\ y \in Nat /\ y < Word
  BY WordIsNat
<1>7. x * 0 = 0 /\ 0 % Word = 0 /\ 0 \div 1 = 0 /\ y = 0 * Word + y /\ y = y * 1 + 0 /\ y = y * 1
  <2>1. 0 = 0 * Word + 0
    BY <1>3
  <2>2. 0 % Word = 0
    BY <1>2, <1>3, <2>1, DivUnique
  <2>3. QED
    BY <1>3, <1>6, <2>2
<1>8. LowKeeps'
  <2>1. y < Left' /\ b' = 0 * Left' + y /\ r6' = y * Done' /\ r9' = (a' * 0) % Word'
    BY <1>1, <1>3, <1>4, <1>6, <1>7
  <2>2. QED
    BY <1>4, <2>1, Zenon DEF LowKeeps
<1>9. HighKeeps'
  <2>1. 0 < Done' /\ b' = r12' * Done' + 0 /\ r10' = (a' * 0) \div Done'
    BY <1>1, <1>3, <1>6, <1>7
  <2>2. QED
    BY <1>4, <2>1, Zenon DEF HighKeeps
<1>10. MultiplyKeeps' /\ DivideKeeps' /\ Exact'
  BY <1>1 DEF MultiplyKeeps, DivideKeeps, Exact
<1>11. QED
  BY <1>3, <1>5, <1>8, <1>9, <1>10, Zenon DEF IInv

\* Every register at 0: what the first state is, and the state between two
\* exceptions.
AtRest ==
    /\ pc = "idle" /\ op = "mul"
    /\ a = 0 /\ b = 0 /\ r3 = 0 /\ r6 = 0 /\ r9 = 0 /\ r10 = 0 /\ r12 = 0 /\ r13 = 0 /\ r14 = 0
    /\ r17 = FALSE

\* The invariant holds at rest.
LEMMA RestKeeps ==
    ASSUME AtRest, Word > 0
    PROVE  IInv
<1>1. /\ pc = "idle" /\ op = "mul"
      /\ a = 0 /\ b = 0 /\ r3 = 0 /\ r6 = 0 /\ r9 = 0 /\ r10 = 0 /\ r12 = 0 /\ r13 = 0 /\ r14 = 0
      /\ r17 = FALSE
  BY DEF AtRest
<1>2. 0 \in Words /\ Word \in Nat /\ 0 \in 0 .. W
  BY WordTypes DEF Words
<1>3. TypeOK
  BY <1>1, <1>2 DEF TypeOK, Ops
<1>4. Left = 1 /\ Done = Word
  BY <1>1, WordTypes, WordAssumption DEF Left, Done, Word
<1>5. Powers
  BY <1>2, <1>4 DEF Powers
<1>6. DivideKeeps /\ MultiplyKeeps /\ LowKeeps /\ HighKeeps /\ Exact
  BY <1>1 DEF DivideKeeps, MultiplyKeeps, LowKeeps, HighKeeps, Exact
<1>7. QED
  BY <1>3, <1>5, <1>6 DEF IInv

\* A step of the emulation keeps the invariant.
LEMMA Invariance ==
    Spec => []IInv
<1>1. Word > 0
  BY WordTypes
<1>2. Init => IInv
  BY <1>1, RestKeeps, Zenon DEF Init, AtRest
<1>3. IInv /\ [Next]_vars => IInv'
  <2> SUFFICES ASSUME IInv, [Next]_vars
               PROVE  IInv'
    OBVIOUS
  <2>1. ASSUME NEW o \in Ops, NEW x \in Words, NEW y \in Words, Divide(o, x, y)
        PROVE  IInv'
    BY <2>1, DivideKeepsIt
  <2>2. ASSUME NEW o \in Ops, NEW x \in Words, NEW y \in Words, Multiply(o, x, y)
        PROVE  IInv'
    BY <2>2, MultiplyKeepsIt
  <2>3. CASE DivideLoop
    BY <2>3, DivideLoopKeeps
  <2>4. CASE DivideEnd
    BY <2>4, DivideEndKeeps
  <2>5. CASE MultiplyLoop
    BY <2>5, MultiplyLoopKeeps
  <2>6. CASE MultiplyEnd
    BY <2>6, MultiplyEndKeeps
  <2>7. CASE Resume
    <3>1. AtRest => IInv
      BY <1>1, RestKeeps
    <3>2. (AtRest => IInv)'
      BY <3>1, RestKeeps, <1>1, PTL
    <3>3. AtRest'
      BY <2>7 DEF Resume, AtRest
    <3>4. QED
      BY <3>2, <3>3
  <2>8. CASE UNCHANGED vars
    BY <2>8 DEF vars, IInv, TypeOK, Powers, DivideKeeps, MultiplyKeeps, LowKeeps, HighKeeps, Exact,
                Left, Done, Dividend, Divisor, Words, Word, Instruction, Signed, Negative, Top,
                Magnitude, Negated
  <2>9. QED
    BY <2>1, <2>2, <2>3, <2>4, <2>5, <2>6, <2>7, <2>8 DEF Next
<1>4. QED
  BY <1>2, <1>3, PTL DEF Spec

\* For words of any width: the emulation gives every multiply and divide
\* instruction, with signs and without, the result that it has in hardware.
THEOREM ExactTheorem == Spec => []Exact
<1>1. IInv => Exact
  BY DEF IInv
<1>2. QED
  BY <1>1, Invariance, PTL

-----------------------------------------------------------------------------
(* Profiling: what the operations on the memory do.                         *)

ArcRecord == [from_pc : {g.from_pc : g \in AllArcs}, count : Nat]
EntryRecord == [self_pc : {g.self_pc : g \in AllArcs}, arcs : Seq(ArcRecord)]
Memory == [entries : Seq(EntryRecord), need_init : BOOLEAN, slab : 0 .. SlabRecords,
           heap : 0 .. HeapRecords, started : Nat, wild : BOOLEAN]
Linked(m) == \A e \in DOMAIN m.entries : m.entries[e].arcs # <<>>
NewArcRecord(g) == [from_pc |-> g.from_pc, count |-> 1]
CountOf(m, e, k) == m.entries[e].arcs[k].count

\* sbrk gives memory or does not.
LEMMA SbrkKeeps ==
    ASSUME NEW m \in Memory, NEW size \in Nat
    PROVE  /\ Sbrk(m, size) \in Memory /\ Sbrk(m, size).entries = m.entries
           /\ Sbrk(m, size).need_init = m.need_init /\ Sbrk(m, size).started = m.started
<1>1. HeapRecords \in Nat
  BY ProfilerAssumption
<1>2. CASE size <= m.heap
  BY <1>1, <1>2 DEF Sbrk, Memory
<1>3. CASE ~(size <= m.heap)
  BY <1>3 DEF Sbrk, Memory
<1>4. QED
  BY <1>2, <1>3

\* Taking a record changes no list.
LEMMA AllocateKeeps ==
    ASSUME NEW m \in Memory
    PROVE  /\ Allocate(m) \in Memory /\ Allocate(m).entries = m.entries
           /\ Allocate(m).need_init = m.need_init /\ Allocate(m).started = m.started
<1>1. SlabRecords \in Nat /\ SlabRecords > 0
  BY ProfilerAssumption
<1>2. CASE m.slab > 0
  BY <1>1, <1>2 DEF Allocate, Memory
<1>3. CASE ~(m.slab > 0)
  <2> DEFINE s == Sbrk(m, SlabRecords)
  <2>1. /\ s \in Memory /\ s.entries = m.entries
        /\ s.need_init = m.need_init /\ s.started = m.started
    BY <1>1, SbrkKeeps
  <2>2. Allocate(m) = [s EXCEPT !.slab = SlabRecords - 1]
    BY <1>3 DEF Allocate
  <2> HIDE DEF s
  <2>3. QED
    BY <1>1, <2>1, <2>2 DEF Memory
<1>4. QED
  BY <1>2, <1>3

\* The calls of the constants are pairs.
LEMMA CallTypes ==
    /\ \A g \in AllArcs : g \in [self_pc : {h.self_pc : h \in AllArcs}, from_pc : {h.from_pc : h \in AllArcs}]
    /\ \A g, h \in AllArcs : g.self_pc = h.self_pc /\ g.from_pc = h.from_pc => g = h
<1>1. \A g \in AllArcs : g \in [self_pc : {h.self_pc : h \in AllArcs}, from_pc : {h.from_pc : h \in AllArcs}]
  BY ProfilerAssumption
<1>2. \A g \in AllArcs : g = [self_pc |-> g.self_pc, from_pc |-> g.from_pc]
  BY <1>1
<1>3. ASSUME NEW g \in AllArcs, NEW h \in AllArcs, g.self_pc = h.self_pc, g.from_pc = h.from_pc
      PROVE  g = h
  BY <1>2, <1>3
<1>4. QED
  BY <1>1, <1>3

\* A new arc is the last of its list.
LEMMA NewArcEffect ==
    ASSUME NEW m \in Memory, NEW g \in AllArcs, NEW e \in DOMAIN m.entries
    PROVE  LET r == NewArc(m, e, g)
           IN /\ r \in Memory /\ r.need_init = m.need_init /\ r.started = m.started
              /\ DOMAIN r.entries = DOMAIN m.entries /\ Len(r.entries) = Len(m.entries)
              /\ \A i \in DOMAIN m.entries : r.entries[i].self_pc = m.entries[i].self_pc
              /\ \A i \in DOMAIN m.entries \ {e} : r.entries[i] = m.entries[i]
              /\ r.entries[e].arcs = Append(m.entries[e].arcs, NewArcRecord(g))
<1> DEFINE s == Allocate(m)
<1> DEFINE n == NewArcRecord(g)
<1> DEFINE r == NewArc(m, e, g)
<1>1. /\ s \in Memory /\ s.entries = m.entries
      /\ s.need_init = m.need_init /\ s.started = m.started
  BY AllocateKeeps
<1>2. r = [s EXCEPT !.entries[e].arcs = Append(@, n)]
  BY DEF NewArc, NewArcRecord
<1>3. n \in ArcRecord
  BY CallTypes DEF NewArcRecord, ArcRecord
<1> HIDE DEF s, n, r
<1>4. r = [s EXCEPT !.entries = [m.entries EXCEPT ![e] = [m.entries[e] EXCEPT !.arcs = Append(@, n)]]]
  BY <1>1, <1>2 DEF Memory
<1> DEFINE x == [m.entries[e] EXCEPT !.arcs = Append(@, n)]
<1>5. m.entries \in Seq(EntryRecord) /\ m.entries[e] \in EntryRecord
  BY DEF Memory
<1>6. m.entries[e].arcs \in Seq(ArcRecord) /\ Append(m.entries[e].arcs, n) \in Seq(ArcRecord)
  BY <1>3, <1>5 DEF EntryRecord
<1>7. /\ x \in EntryRecord /\ x.self_pc = m.entries[e].self_pc
      /\ x.arcs = Append(m.entries[e].arcs, n)
  BY <1>5, <1>6 DEF EntryRecord
<1> HIDE DEF x
<1> DEFINE t == [m.entries EXCEPT ![e] = x]
<1>8. /\ t \in Seq(EntryRecord) /\ DOMAIN t = DOMAIN m.entries /\ Len(t) = Len(m.entries)
      /\ t[e] = x /\ \A i \in DOMAIN m.entries \ {e} : t[i] = m.entries[i]
  BY <1>5, <1>7
<1>9. r = [s EXCEPT !.entries = t]
  BY <1>4 DEF x
<1> HIDE DEF t
<1>10. /\ r \in Memory /\ r.entries = t /\ r.need_init = m.need_init /\ r.started = m.started
  BY <1>1, <1>8, <1>9 DEF Memory
<1>11. QED
  BY <1>7, <1>8, <1>10 DEF r, n

\* A new entry is the last, and has no arc yet.
LEMMA NewEntryEffect ==
    ASSUME NEW m \in Memory, NEW g \in AllArcs
    PROVE  LET r == NewEntry(m, g)
               last == Len(m.entries) + 1
           IN /\ r \in Memory /\ r.need_init = m.need_init /\ r.started = m.started
              /\ DOMAIN r.entries = DOMAIN m.entries \cup {last} /\ last \notin DOMAIN m.entries
              /\ \A i \in DOMAIN m.entries : r.entries[i] = m.entries[i]
              /\ r.entries[last] = [self_pc |-> g.self_pc, arcs |-> <<>>]
<1> DEFINE s == Allocate(m)
<1> DEFINE n == [self_pc |-> g.self_pc, arcs |-> <<>>]
<1> DEFINE r == NewEntry(m, g)
<1>1. /\ s \in Memory /\ s.entries = m.entries
      /\ s.need_init = m.need_init /\ s.started = m.started
  BY AllocateKeeps
<1>2. r = [s EXCEPT !.entries = Append(m.entries, n)]
  BY <1>1 DEF NewEntry
<1>3. n \in EntryRecord
  BY CallTypes DEF EntryRecord
<1> HIDE DEF s, n, r
<1>4. m.entries \in Seq(EntryRecord)
  BY DEF Memory
<1> DEFINE t == Append(m.entries, n)
<1>5. /\ t \in Seq(EntryRecord) /\ DOMAIN t = DOMAIN m.entries \cup {Len(m.entries) + 1}
      /\ Len(m.entries) + 1 \notin DOMAIN m.entries
      /\ \A i \in DOMAIN m.entries : t[i] = m.entries[i]
      /\ t[Len(m.entries) + 1] = n
  BY <1>3, <1>4
<1> HIDE DEF t
<1>6. r = [s EXCEPT !.entries = t]
  BY <1>2 DEF t
<1>7. /\ r \in Memory /\ r.entries = t /\ r.need_init = m.need_init /\ r.started = m.started
  BY <1>1, <1>5, <1>6 DEF Memory
<1>8. QED
  BY <1>5, <1>7 DEF r, n

\* r is m with one more arc, number k of entry e, for the call g.
Grown(m, r, g, e, k) ==
    /\ r \in Memory /\ Linked(r)
    /\ \A h \in AllArcs :
          EntriesOf(r, h) = EntriesOf(m, h) \cup (IF h.self_pc = g.self_pc THEN {e} ELSE {})
    /\ \A h \in AllArcs : \A i \in EntriesOf(r, h) :
          Copies(r, i, h) = (IF i \in DOMAIN m.entries THEN Copies(m, i, h) ELSE {})
                            \cup (IF i = e /\ h.from_pc = g.from_pc THEN {k} ELSE {})
    /\ \A h \in AllArcs : \A i \in EntriesOf(m, h) : \A j \in Copies(m, i, h) :
          CountOf(r, i, j) = CountOf(m, i, j)
    /\ CountOf(r, e, k) = 1
    /\ e \in Nat \ {0} /\ k \in Nat \ {0}
    /\ e \notin DOMAIN m.entries => k = 1 /\ \A i \in DOMAIN m.entries : i < e
    /\ e \in DOMAIN m.entries =>
          m.entries[e].self_pc = g.self_pc /\ \A j \in DOMAIN m.entries[e].arcs : j < k

\* The critical section of __mcount_record adds one arc, to the entry that was
\* found or to a new one.
LEMMA AddArcGrows ==
    ASSUME NEW m \in Memory, Linked(m), NEW g \in AllArcs,
           NEW fn, fn # NULL => fn \in EntriesOf(m, g)
    PROVE  LET r == AddArc(m, g, fn)
               e == IF fn = NULL THEN Len(m.entries) + 1 ELSE fn
               k == IF fn = NULL THEN 1 ELSE Len(m.entries[fn].arcs) + 1
           IN /\ Grown(m, r, g, e, k)
              /\ r.need_init = m.need_init /\ r.started = m.started
<1> DEFINE r == AddArc(m, g, fn)
<1> DEFINE last == Len(m.entries) + 1
<1> DEFINE n == NewArcRecord(g)
<1>1. m.entries \in Seq(EntryRecord) /\ Len(m.entries) \in Nat /\ DOMAIN m.entries = 1 .. Len(m.entries)
  BY DEF Memory
<1>2. \A i \in DOMAIN m.entries : m.entries[i] \in EntryRecord /\ m.entries[i].arcs \in Seq(ArcRecord)
  <2>1. ASSUME NEW i \in DOMAIN m.entries
        PROVE  m.entries[i] \in EntryRecord
    BY <1>1
  <2>2. ASSUME NEW i \in DOMAIN m.entries
        PROVE  m.entries[i].arcs \in Seq(ArcRecord)
    BY <2>1 DEF EntryRecord
  <2>3. QED
    BY <2>1, <2>2
<1>3. n.from_pc = g.from_pc /\ n.count = 1
  BY DEF NewArcRecord
<1>4. CASE fn # NULL
  <2> DEFINE k == Len(m.entries[fn].arcs) + 1
  <2>1. fn \in DOMAIN m.entries /\ m.entries[fn].self_pc = g.self_pc
    BY <1>4 DEF EntriesOf
  <2>2. r = NewArc(m, fn, g)
    BY <1>4 DEF AddArc
  <2>3. /\ r \in Memory /\ r.need_init = m.need_init /\ r.started = m.started
        /\ DOMAIN r.entries = DOMAIN m.entries
        /\ \A i \in DOMAIN m.entries : r.entries[i].self_pc = m.entries[i].self_pc
        /\ \A i \in DOMAIN m.entries \ {fn} : r.entries[i] = m.entries[i]
        /\ r.entries[fn].arcs = Append(m.entries[fn].arcs, n)
    BY <2>1, <2>2, NewArcEffect
  <2> HIDE DEF r, n
  <2>4. /\ k \in Nat /\ k > 0 /\ DOMAIN m.entries[fn].arcs = 1 .. k - 1
        /\ DOMAIN r.entries[fn].arcs = 1 .. k
        /\ \A j \in 1 .. k - 1 : r.entries[fn].arcs[j] = m.entries[fn].arcs[j]
        /\ r.entries[fn].arcs[k] = n
    BY <1>2, <2>1, <2>3
  <2> HIDE DEF k
  <2>5. \A h \in AllArcs : EntriesOf(r, h) = EntriesOf(m, h)
    BY <2>3 DEF EntriesOf
  <2>6. \A h \in AllArcs : h.self_pc = g.self_pc => fn \in EntriesOf(m, h)
    BY <2>1 DEF EntriesOf
  <2>7. ASSUME NEW h \in AllArcs, NEW i \in EntriesOf(r, h)
        PROVE  /\ i \in DOMAIN m.entries
               /\ Copies(r, i, h) = Copies(m, i, h)
                                    \cup (IF i = fn /\ h.from_pc = g.from_pc THEN {k} ELSE {})
    <3>1. i \in DOMAIN m.entries
      BY <2>3 DEF EntriesOf
    <3>2. CASE i # fn
      BY <2>3, <3>1, <3>2 DEF Copies
    <3>3. CASE i = fn
      <4>1. CASE h.from_pc = g.from_pc
        <5>1. k \in Copies(r, fn, h)
          BY <1>3, <2>4, <4>1 DEF Copies
        <5>2. Copies(r, fn, h) = Copies(m, fn, h) \cup {k}
          BY <2>4, <5>1 DEF Copies
        <5>3. QED
          BY <3>1, <3>3, <4>1, <5>2
      <4>2. CASE h.from_pc # g.from_pc
        <5>1. k \notin Copies(r, fn, h)
          BY <1>3, <2>4, <4>2 DEF Copies
        <5>2. Copies(r, fn, h) = Copies(m, fn, h)
          BY <2>4, <5>1 DEF Copies
        <5>3. QED
          BY <3>1, <3>3, <4>2, <5>2
      <4>3. QED
        BY <4>1, <4>2
    <3>4. QED
      BY <3>1, <3>2, <3>3
  <2>8. ASSUME NEW h \in AllArcs, NEW i \in EntriesOf(m, h), NEW j \in Copies(m, i, h)
        PROVE  CountOf(r, i, j) = CountOf(m, i, j)
    <3>1. i \in DOMAIN m.entries /\ j \in DOMAIN m.entries[i].arcs
      BY DEF EntriesOf, Copies
    <3>2. r.entries[i].arcs[j] = m.entries[i].arcs[j]
      BY <2>3, <2>4, <3>1
    <3>3. QED
      BY <3>2 DEF CountOf
  <2>9. Linked(r)
    <3>1. ASSUME NEW i \in DOMAIN r.entries PROVE r.entries[i].arcs # <<>>
      <4>1. CASE i # fn
        BY <2>3, <4>1 DEF Linked
      <4>2. CASE i = fn
        BY <2>4, <4>2
      <4>3. QED
        BY <4>1, <4>2
    <3>2. QED
      BY <3>1 DEF Linked
  <2>10. CountOf(r, fn, k) = 1
    BY <1>3, <2>4 DEF CountOf
  <2>11. \A h \in AllArcs :
            EntriesOf(r, h) = EntriesOf(m, h) \cup (IF h.self_pc = g.self_pc THEN {fn} ELSE {})
    BY <2>5, <2>6
  <2>12. fn \in Nat \ {0} /\ \A j \in DOMAIN m.entries[fn].arcs : j < k
    BY <1>1, <2>1, <2>4
  <2>13. \A h \in AllArcs : \A i \in EntriesOf(r, h) :
            Copies(r, i, h) = (IF i \in DOMAIN m.entries THEN Copies(m, i, h) ELSE {})
                              \cup (IF i = fn /\ h.from_pc = g.from_pc THEN {k} ELSE {})
    BY <2>7
  <2>14. k \in Nat \ {0}
    BY <2>4
  <2>15. Grown(m, r, g, fn, k)
    BY <2>1, <2>3, <2>8, <2>9, <2>10, <2>11, <2>12, <2>13, <2>14, Zenon DEF Grown
  <2>16. QED
    BY <1>4, <2>3, <2>15 DEF r, k
<1>5. CASE fn = NULL
  <2> DEFINE s == NewEntry(m, g)
  <2>1. /\ s \in Memory /\ s.need_init = m.need_init /\ s.started = m.started
        /\ DOMAIN s.entries = DOMAIN m.entries \cup {last} /\ last \notin DOMAIN m.entries
        /\ \A i \in DOMAIN m.entries : s.entries[i] = m.entries[i]
        /\ s.entries[last] = [self_pc |-> g.self_pc, arcs |-> <<>>]
    BY NewEntryEffect
  <2>2. r = NewArc(s, last, g)
    BY <1>5 DEF AddArc
  <2> HIDE DEF s
  <2>3. /\ r \in Memory /\ r.need_init = m.need_init /\ r.started = m.started
        /\ DOMAIN r.entries = DOMAIN s.entries
        /\ \A i \in DOMAIN s.entries : r.entries[i].self_pc = s.entries[i].self_pc
        /\ \A i \in DOMAIN s.entries \ {last} : r.entries[i] = s.entries[i]
        /\ r.entries[last].arcs = Append(s.entries[last].arcs, n)
    <3> HIDE DEF last, n, r
    <3>1. last \in DOMAIN s.entries
      BY <2>1
    <3>2. QED
      BY <2>1, <2>2, <3>1, NewArcEffect DEF n
  <2> HIDE DEF r, n
  <2>4. DOMAIN r.entries[last].arcs = {1} /\ r.entries[last].arcs[1] = n
    <3>1. s.entries[last].arcs = <<>>
      BY <2>1
    <3>2. r.entries[last].arcs = <<n>>
      BY <2>3, <3>1
    <3>3. QED
      BY <3>2
  <2>5. /\ DOMAIN r.entries = DOMAIN m.entries \cup {last} /\ last \notin DOMAIN m.entries
        /\ \A i \in DOMAIN m.entries : r.entries[i] = m.entries[i]
        /\ r.entries[last].self_pc = g.self_pc
    BY <2>1, <2>3
  <2>6. last \in Nat \ {0} /\ \A i \in DOMAIN m.entries : i < last
    BY <1>1
  <2> HIDE DEF last
  <2>7. ASSUME NEW h \in AllArcs
        PROVE  EntriesOf(r, h) = EntriesOf(m, h) \cup (IF h.self_pc = g.self_pc THEN {last} ELSE {})
    BY <2>5 DEF EntriesOf
  <2>8. ASSUME NEW h \in AllArcs, NEW i \in EntriesOf(r, h)
        PROVE  Copies(r, i, h) = (IF i \in DOMAIN m.entries THEN Copies(m, i, h) ELSE {})
                                 \cup (IF i = last /\ h.from_pc = g.from_pc THEN {1} ELSE {})
    <3>1. i \in DOMAIN m.entries \cup {last}
      BY <2>5 DEF EntriesOf
    <3>2. CASE i # last
      BY <2>5, <3>1, <3>2 DEF Copies
    <3>3. CASE i = last
      BY <1>3, <2>4, <2>5, <3>3 DEF Copies
    <3>4. QED
      BY <3>2, <3>3
  <2>9. ASSUME NEW h \in AllArcs, NEW i \in EntriesOf(m, h), NEW j \in Copies(m, i, h)
        PROVE  CountOf(r, i, j) = CountOf(m, i, j)
    BY <2>5 DEF EntriesOf, CountOf
  <2>10. Linked(r)
    <3>1. ASSUME NEW i \in DOMAIN r.entries PROVE r.entries[i].arcs # <<>>
      <4>1. CASE i # last
        BY <2>5, <4>1 DEF Linked
      <4>2. CASE i = last
        BY <2>4, <4>2
      <4>3. QED
        BY <4>1, <4>2
    <3>2. QED
      BY <3>1 DEF Linked
  <2>11. CountOf(r, last, 1) = 1
    BY <1>3, <2>4 DEF CountOf
  <2>12. 1 \in Nat \ {0}
    OBVIOUS
  <2>13. Grown(m, r, g, last, 1)
    BY <2>3, <2>5, <2>6, <2>7, <2>8, <2>9, <2>10, <2>11, <2>12, Zenon DEF Grown
  <2>14. QED
    BY <1>5, <2>3, <2>13 DEF r, last
<1>6. QED
  BY <1>4, <1>5

\* r is m with n for the count of one arc.
Recounted(m, r, e, k, n) ==
    /\ r \in Memory /\ Linked(r)
    /\ \A h \in AllArcs : EntriesOf(r, h) = EntriesOf(m, h)
    /\ \A h \in AllArcs : \A i \in EntriesOf(m, h) : Copies(r, i, h) = Copies(m, i, h)
    /\ \A h \in AllArcs : \A i \in EntriesOf(m, h) : \A j \in Copies(m, i, h) :
          CountOf(r, i, j) = IF i = e /\ j = k THEN n ELSE CountOf(m, i, j)

\* Storing a count changes that count.
LEMMA CountedRecounts ==
    ASSUME NEW m \in Memory, Linked(m), NEW e \in DOMAIN m.entries,
           NEW k \in DOMAIN m.entries[e].arcs, NEW n \in Nat
    PROVE  LET r == Counted(m, e, k, n)
           IN Recounted(m, r, e, k, n) /\ r.need_init = m.need_init /\ r.started = m.started
<1> DEFINE r == Counted(m, e, k, n)
<1>1. m.entries \in Seq(EntryRecord) /\ m.entries[e] \in EntryRecord
  BY DEF Memory
<1>2. m.entries[e].arcs \in Seq(ArcRecord) /\ m.entries[e].arcs[k] \in ArcRecord
  BY <1>1 DEF EntryRecord
<1> DEFINE x == [m.entries[e].arcs[k] EXCEPT !.count = n]
<1> DEFINE y == [m.entries[e].arcs EXCEPT ![k] = x]
<1> DEFINE z == [m.entries[e] EXCEPT !.arcs = y]
<1> DEFINE t == [m.entries EXCEPT ![e] = z]
<1>3. r = [m EXCEPT !.entries = t]
  BY DEF Counted
<1>4. x \in ArcRecord /\ x.from_pc = m.entries[e].arcs[k].from_pc /\ x.count = n
  BY <1>2 DEF ArcRecord
<1> HIDE DEF x
<1>5. /\ y \in Seq(ArcRecord) /\ DOMAIN y = DOMAIN m.entries[e].arcs /\ Len(y) = Len(m.entries[e].arcs)
      /\ y[k] = x /\ \A j \in DOMAIN y \ {k} : y[j] = m.entries[e].arcs[j]
  BY <1>2, <1>4
<1> HIDE DEF y
<1>6. z \in EntryRecord /\ z.self_pc = m.entries[e].self_pc /\ z.arcs = y
  BY <1>1, <1>5 DEF EntryRecord
<1> HIDE DEF z
<1>7. /\ t \in Seq(EntryRecord) /\ DOMAIN t = DOMAIN m.entries
      /\ t[e] = z /\ \A i \in DOMAIN t \ {e} : t[i] = m.entries[i]
  BY <1>1, <1>6
<1> HIDE DEF t, r
<1>8. r \in Memory /\ r.entries = t /\ r.need_init = m.need_init /\ r.started = m.started
  BY <1>3, <1>7 DEF Memory
<1>9. \A h \in AllArcs : EntriesOf(r, h) = EntriesOf(m, h)
  BY <1>6, <1>7, <1>8 DEF EntriesOf
<1>10. ASSUME NEW h \in AllArcs, NEW i \in EntriesOf(m, h)
       PROVE  /\ Copies(r, i, h) = Copies(m, i, h)
              /\ \A j \in Copies(m, i, h) :
                    CountOf(r, i, j) = IF i = e /\ j = k THEN n ELSE CountOf(m, i, j)
  <2>1. i \in DOMAIN m.entries
    BY DEF EntriesOf
  <2>2. CASE i # e
    BY <1>7, <1>8, <2>1, <2>2 DEF Copies, CountOf
  <2>3. CASE i = e
    BY <1>4, <1>5, <1>6, <1>7, <1>8, <2>3 DEF Copies, CountOf
  <2>4. QED
    BY <2>2, <2>3
<1>11. Linked(r)
  <2>1. ASSUME NEW i \in DOMAIN r.entries PROVE r.entries[i].arcs # <<>>
    <3>1. CASE i # e
      BY <1>7, <1>8, <3>1 DEF Linked
    <3>2. CASE i = e
      BY <1>2, <1>5, <1>6, <1>7, <1>8, <3>2
    <3>3. QED
      BY <3>1, <3>2
  <2>2. QED
    BY <2>1 DEF Linked
<1>12. Recounted(m, r, e, k, n)
  BY <1>8, <1>9, <1>10, <1>11, Zenon DEF Recounted
<1>13. QED
  BY <1>8, <1>12 DEF r

\* Every set of natural numbers that is not empty has a least element.
LEMMA LeastElement ==
    ASSUME NEW S, S \subseteq Nat, S # {}
    PROVE  \E m \in S : \A n \in S : m <= n
<1>1. \E m \in S : \A n \in S : <<n, m>> \notin OpToRel(<, Nat)
  BY NatLessThanWellFounded, WFMin, Zenon
<1>2. PICK m \in S : \A n \in S : <<n, m>> \notin OpToRel(<, Nat)
  BY <1>1
<1>3. ASSUME NEW n \in S PROVE m <= n
  <2>1. <<n, m>> \notin {ss \in Nat \X Nat : ss[1] < ss[2]}
    BY <1>2 DEF OpToRel
  <2>2. QED
    BY <2>1
<1>4. QED
  BY <1>2, <1>3

\* The newest node is the one nearest to the head.
LEMMA NewestIs ==
    ASSUME NEW n \in Nat, NEW S \in SUBSET (1 .. n)
    PROVE  /\ S = {} => Newest(S) = NULL
           /\ S # {} => Newest(S) \in S /\ \A y \in S : y <= Newest(S)
           /\ Newest(S) = NULL => S = {}
<1>1. CASE S = {}
  BY <1>1 DEF Newest
<1>2. CASE S # {}
  <2> DEFINE T == {u \in 1 .. n : \A y \in S : y <= u}
  <2>1. PICK w \in S : w \in 1 .. n
    BY <1>2
  <2>2. n \in T /\ T \subseteq Nat
    BY <2>1
  <2>3. PICK u \in T : \A v \in T : u <= v
    <3> HIDE DEF T
    <3>1. QED
      BY <2>2, LeastElement
  <2>4. u \in 1 .. n /\ \A y \in S : y <= u
    BY <2>3
  <2>5. u \in S
    <3>1. SUFFICES ASSUME u \notin S PROVE FALSE
      OBVIOUS
    <3>2. ASSUME NEW y \in S PROVE y <= u - 1
      <4>1. y \in 1 .. n /\ y # u /\ y <= u
        BY <2>4, <3>1
      <4>2. QED
        BY <2>4, <4>1
    <3>3. u - 1 \in 1 .. n
      BY <2>1, <2>4, <3>2
    <3>4. u - 1 \in T
      BY <3>2, <3>3
    <3>5. u <= u - 1
      BY <2>3, <3>4
    <3>6. QED
      BY <2>4, <3>5
  <2>6. \E x \in S : \A y \in S : x >= y
    BY <2>4, <2>5
  <2>7. Max(S) \in S /\ \A y \in S : Max(S) >= y
    BY <2>6, Zenon DEF Max
  <2>8. Newest(S) = Max(S)
    BY <1>2 DEF Newest
  <2>9. Max(S) # NULL
    BY <2>7 DEF NULL
  <2> HIDE DEF T
  <2>10. \A y \in S : y <= Max(S)
    BY <2>7
  <2>11. QED
    BY <1>2, <2>7, <2>8, <2>9, <2>10
<1>3. QED
  BY <1>1, <1>2

\* A set of numbers of which no three are in a row has at most two.
LEMMA TwoElements ==
    ASSUME NEW S \in SUBSET Nat, \A i, j, k \in S : ~(i < j /\ j < k)
    PROVE  Cardinality(S) <= 2
<1>1. CASE S = {}
  BY <1>1, FS_EmptySet
<1>2. CASE S # {}
  <2>1. PICK x \in S : TRUE
    BY <1>2
  <2>2. PICK y \in S : y # x \/ S = {x}
    BY <2>1
  <2>3. S = {x} \cup {y}
    <3>1. ASSUME NEW z \in S, z # x, z # y, x # y PROVE FALSE
      <4>1. x \in Nat /\ y \in Nat /\ z \in Nat
        OBVIOUS
      <4>2. \/ x < y /\ y < z
            \/ x < z /\ z < y
            \/ y < x /\ x < z
            \/ y < z /\ z < x
            \/ z < x /\ x < y
            \/ z < y /\ y < x
        BY <3>1, <4>1
      <4>3. QED
        BY <4>2
    <3>2. QED
      BY <2>2, <3>1
  <2>4. IsFiniteSet({x}) /\ Cardinality({x}) = 1
    BY FS_Singleton
  <2>5. Cardinality({x} \cup {y}) \in {1, 2}
    BY <2>4, FS_AddElement
  <2>6. QED
    BY <2>3, <2>5
<1>3. QED
  BY <1>1, <1>2

\* A set with no two elements has at most one.
LEMMA OneElement ==
    ASSUME NEW S, \A j, k \in S : j = k
    PROVE  Cardinality(S) <= 1
<1>1. CASE S = {}
  BY <1>1, FS_EmptySet
<1>2. CASE S # {}
  <2>1. PICK x \in S : TRUE
    BY <1>2
  <2>2. S = {x}
    BY <2>1
  <2>3. QED
    BY <2>2, FS_Singleton
<1>3. QED
  BY <1>1, <1>2

\* The lists' nodes are numbered.
LEMMA Nodes ==
    ASSUME NEW m \in Memory, NEW g \in AllArcs
    PROVE  /\ EntriesOf(m, g) \in SUBSET (1 .. Len(m.entries)) /\ Len(m.entries) \in Nat
           /\ \A e \in EntriesOf(m, g) :
                 /\ e \in DOMAIN m.entries
                 /\ Len(m.entries[e].arcs) \in Nat
                 /\ DOMAIN m.entries[e].arcs = 1 .. Len(m.entries[e].arcs)
                 /\ \A k \in DOMAIN m.entries[e].arcs : CountOf(m, e, k) \in Nat
                 /\ \A h \in AllArcs : Copies(m, e, h) \in SUBSET DOMAIN m.entries[e].arcs
<1>1. m.entries \in Seq(EntryRecord) /\ DOMAIN m.entries = 1 .. Len(m.entries)
  BY DEF Memory
<1>2. ASSUME NEW e \in EntriesOf(m, g)
      PROVE  e \in DOMAIN m.entries /\ m.entries[e].arcs \in Seq(ArcRecord)
  <2>1. e \in DOMAIN m.entries
    BY DEF EntriesOf
  <2>2. m.entries[e] \in EntryRecord
    BY <1>1, <2>1
  <2>3. QED
    BY <2>1, <2>2 DEF EntryRecord
<1>3. ASSUME NEW e \in EntriesOf(m, g), NEW k \in DOMAIN m.entries[e].arcs
      PROVE  CountOf(m, e, k) \in Nat
  <2>1. m.entries[e].arcs[k] \in ArcRecord
    BY <1>2
  <2>2. QED
    BY <2>1 DEF ArcRecord, CountOf
<1>4. QED
  BY <1>1, <1>2, <1>3 DEF EntriesOf, Copies

\* What a lookup returns is there, and the newest of its kind.
LEMMA Lookups ==
    ASSUME NEW m \in Memory, NEW g \in AllArcs
    PROVE  /\ EntryOf(m, g) = NULL => EntriesOf(m, g) = {}
           /\ EntriesOf(m, g) = {} => EntryOf(m, g) = NULL
           /\ EntryOf(m, g) # NULL => EntryOf(m, g) \in EntriesOf(m, g)
           /\ \A e \in EntriesOf(m, g) : e <= EntryOf(m, g)
           /\ \A e \in EntriesOf(m, g) :
                 /\ ArcOf(m, e, g) = NULL => Copies(m, e, g) = {}
                 /\ Copies(m, e, g) = {} => ArcOf(m, e, g) = NULL
                 /\ ArcOf(m, e, g) # NULL => ArcOf(m, e, g) \in Copies(m, e, g)
<1>1. /\ EntryOf(m, g) = NULL => EntriesOf(m, g) = {}
      /\ EntriesOf(m, g) = {} => EntryOf(m, g) = NULL
      /\ EntryOf(m, g) # NULL => EntryOf(m, g) \in EntriesOf(m, g)
      /\ \A e \in EntriesOf(m, g) : e <= EntryOf(m, g)
  BY Nodes, NewestIs DEF EntryOf
<1>2. ASSUME NEW e \in EntriesOf(m, g)
      PROVE  /\ ArcOf(m, e, g) = NULL => Copies(m, e, g) = {}
             /\ Copies(m, e, g) = {} => ArcOf(m, e, g) = NULL
             /\ ArcOf(m, e, g) # NULL => ArcOf(m, e, g) \in Copies(m, e, g)
  <2>1. Copies(m, e, g) \in SUBSET (1 .. Len(m.entries[e].arcs)) /\ Len(m.entries[e].arcs) \in Nat
    BY Nodes
  <2>2. QED
    BY <2>1, NewestIs DEF ArcOf
<1>3. QED
  BY <1>1, <1>2

\* A counted call is an arc's copy and a number up to its count.
LEMMA InCounts ==
    ASSUME NEW m, NEW h
    PROVE  /\ \A e, k, n : <<e, k, n>> \in Counts(m, h) <=>
                 e \in EntriesOf(m, h) /\ k \in Copies(m, e, h) /\ n \in 1 .. CountOf(m, e, k)
           /\ \A x \in Counts(m, h) : \E e, k, n : x = <<e, k, n>>
<1>1. \A x : x \in Counts(m, h) <=>
          \E e \in EntriesOf(m, h) : \E k \in Copies(m, e, h) :
             \E n \in 1 .. CountOf(m, e, k) : x = <<e, k, n>>
  <2> DEFINE Copied(e, k) == {<<e, k, n>> : n \in 1 .. m.entries[e].arcs[k].count}
  <2> DEFINE Within(e) == UNION {Copied(e, k) : k \in Copies(m, e, h)}
  <2>1. Counts(m, h) = UNION {Within(e) : e \in EntriesOf(m, h)}
    BY Zenon DEF Counts
  <2>2. \A e : \A x : x \in Within(e) <=> \E k \in Copies(m, e, h) : x \in Copied(e, k)
    BY Zenon
  <2>3. \A e, k, x : x \in Copied(e, k) <=> \E n \in 1 .. CountOf(m, e, k) : x = <<e, k, n>>
    BY Zenon DEF CountOf
  <2> HIDE DEF Within, Copied
  <2>4. \A x : x \in Counts(m, h) <=> \E e \in EntriesOf(m, h) : x \in Within(e)
    BY <2>1, Zenon
  <2>5. ASSUME NEW x, x \in Counts(m, h)
        PROVE  \E e \in EntriesOf(m, h) : \E k \in Copies(m, e, h) :
                  \E n \in 1 .. CountOf(m, e, k) : x = <<e, k, n>>
    <3>1. PICK e \in EntriesOf(m, h) : x \in Within(e)
      BY <2>4, <2>5
    <3>2. PICK k \in Copies(m, e, h) : x \in Copied(e, k)
      BY <2>2, <3>1
    <3>3. QED
      BY <2>3, <3>2
  <2>6. ASSUME NEW e \in EntriesOf(m, h), NEW k \in Copies(m, e, h), NEW n \in 1 .. CountOf(m, e, k)
        PROVE  <<e, k, n>> \in Counts(m, h)
    <3>1. <<e, k, n>> \in Copied(e, k)
      BY <2>3
    <3>2. <<e, k, n>> \in Within(e)
      BY <2>2, <3>1
    <3>3. QED
      BY <2>4, <3>2
  <2>7. QED
    BY <2>5, <2>6
<1>2. QED
  BY <1>1

\* Nothing is lost from m to r.
Grows(m, r) ==
    /\ \A h \in AllArcs : EntriesOf(m, h) \subseteq EntriesOf(r, h)
    /\ \A h \in AllArcs : \A i \in EntriesOf(m, h) :
          /\ Copies(m, i, h) \subseteq Copies(r, i, h)
          /\ \A j \in Copies(m, i, h) : CountOf(m, i, j) <= CountOf(r, i, j)

\* r is m with one more call of g counted.
Records(m, r, g) ==
    /\ r \in Memory /\ Linked(r) /\ Grows(m, r)
    /\ \E x : x \notin Counts(m, g) /\ Counts(r, g) = Counts(m, g) \cup {x}
    /\ \A h \in AllArcs \ {g} : Counts(r, h) = Counts(m, h)

\* A copy of an arc is one of a single call.
LEMMA CopyOfOne ==
    ASSUME NEW m \in Memory, NEW g \in AllArcs, NEW h \in AllArcs,
           NEW i \in EntriesOf(m, g), NEW j \in Copies(m, i, g),
           i \in EntriesOf(m, h), j \in Copies(m, i, h)
    PROVE  g = h
  BY CallTypes DEF EntriesOf, Copies

\* A new arc counts one call.
LEMMA GrownRecords ==
    ASSUME NEW m \in Memory, NEW r, NEW g \in AllArcs, NEW e, NEW k, Grown(m, r, g, e, k)
    PROVE  Records(m, r, g)
<1>1. /\ r \in Memory /\ Linked(r)
      /\ \A h \in AllArcs :
            EntriesOf(r, h) = EntriesOf(m, h) \cup (IF h.self_pc = g.self_pc THEN {e} ELSE {})
      /\ \A h \in AllArcs : \A i \in EntriesOf(r, h) :
            Copies(r, i, h) = (IF i \in DOMAIN m.entries THEN Copies(m, i, h) ELSE {})
                              \cup (IF i = e /\ h.from_pc = g.from_pc THEN {k} ELSE {})
      /\ \A h \in AllArcs : \A i \in EntriesOf(m, h) : \A j \in Copies(m, i, h) :
            CountOf(r, i, j) = CountOf(m, i, j)
      /\ CountOf(r, e, k) = 1
      /\ e \in DOMAIN m.entries =>
            m.entries[e].self_pc = g.self_pc /\ \A j \in DOMAIN m.entries[e].arcs : j < k
      /\ k \in Nat
  BY Zenon DEF Grown
<1>2. \A h \in AllArcs : EntriesOf(m, h) \subseteq DOMAIN m.entries
  BY DEF EntriesOf
<1>3. ASSUME NEW h \in AllArcs, NEW i \in EntriesOf(m, h)
      PROVE  /\ Copies(m, i, h) \subseteq Copies(r, i, h)
             /\ \A j \in Copies(m, i, h) : CountOf(m, i, j) <= CountOf(r, i, j)
  <2>1. Copies(m, i, h) \subseteq Copies(r, i, h)
    BY <1>1, <1>2
  <2>2. \A j \in Copies(m, i, h) : CountOf(m, i, j) \in Nat
    BY Nodes
  <2>3. QED
    BY <1>1, <2>1, <2>2
<1>4. <<e, k, 1>> \notin Counts(m, g)
  <2>1. SUFFICES ASSUME <<e, k, 1>> \in Counts(m, g) PROVE FALSE
    OBVIOUS
  <2>2. e \in EntriesOf(m, g) /\ k \in Copies(m, e, g)
    BY <2>1, InCounts
  <2>3. e \in DOMAIN m.entries /\ k \in DOMAIN m.entries[e].arcs
    BY <2>2 DEF EntriesOf, Copies
  <2>4. k < k
    BY <1>1, <2>3
  <2>5. QED
    BY <1>1, <2>4
<1>5. ASSUME NEW h \in AllArcs, NEW i, NEW j, NEW n
      PROVE  <<i, j, n>> \in Counts(r, h) <=>
                <<i, j, n>> \in Counts(m, h) \/ (h = g /\ i = e /\ j = k /\ n = 1)
  <2> DEFINE Here == i = e /\ j = k
  <2>1. h = g <=> h.self_pc = g.self_pc /\ h.from_pc = g.from_pc
    BY CallTypes
  <2>2. i \in EntriesOf(r, h) /\ j \in Copies(r, i, h) <=>
          \/ i \in EntriesOf(m, h) /\ j \in Copies(m, i, h)
          \/ h = g /\ Here
    <3>1. CASE i \in EntriesOf(m, h)
      <4>1. i \in EntriesOf(r, h) /\ i \in DOMAIN m.entries
        BY <1>1, <1>2, <3>1
      <4>2. Copies(r, i, h) = Copies(m, i, h) \cup (IF i = e /\ h.from_pc = g.from_pc THEN {k} ELSE {})
        BY <1>1, <4>1
      <4>3. i = e => h.self_pc = g.self_pc
        BY <1>1, <3>1, <4>1 DEF EntriesOf
      <4>4. QED
        BY <2>1, <3>1, <4>1, <4>2, <4>3
    <3>2. CASE i \notin EntriesOf(m, h)
      <4>1. i \in EntriesOf(r, h) <=> i = e /\ h.self_pc = g.self_pc
        BY <1>1, <3>2
      <4>2. i = e /\ h.self_pc = g.self_pc => i \notin DOMAIN m.entries
        BY <1>1, <3>2 DEF EntriesOf
      <4>3. i = e /\ h.self_pc = g.self_pc =>
              Copies(r, i, h) = IF h.from_pc = g.from_pc THEN {k} ELSE {}
        BY <1>1, <4>1, <4>2
      <4>4. QED
        BY <2>1, <3>2, <4>1, <4>3
    <3>3. QED
      BY <3>1, <3>2
  <2>3. CASE i \in EntriesOf(m, h) /\ j \in Copies(m, i, h)
    <3>1. CountOf(r, i, j) = CountOf(m, i, j)
      BY <1>1, <2>3
    <3>2. ~(h = g /\ Here)
      <4>1. Here => j \in DOMAIN m.entries[e].arcs /\ e \in DOMAIN m.entries
        BY <1>2, <2>3 DEF Copies
      <4>2. Here => k < k
        BY <1>1, <4>1
      <4>3. QED
        BY <1>1, <4>2
    <3>3. QED
      BY <2>2, <2>3, <3>1, <3>2, InCounts
  <2>4. CASE h = g /\ Here /\ ~(i \in EntriesOf(m, h) /\ j \in Copies(m, i, h))
    <3>1. CountOf(r, i, j) = 1
      BY <1>1, <2>4
    <3>2. <<i, j, n>> \in Counts(r, h) <=> n = 1
      BY <2>2, <2>4, <3>1, InCounts
    <3>3. <<i, j, n>> \notin Counts(m, h)
      BY <2>4, InCounts
    <3>4. QED
      BY <2>4, <3>2, <3>3
  <2>5. CASE ~(h = g /\ Here) /\ ~(i \in EntriesOf(m, h) /\ j \in Copies(m, i, h))
    BY <2>2, <2>5, InCounts
  <2>6. QED
    BY <2>3, <2>4, <2>5
<1>6. Counts(r, g) = Counts(m, g) \cup {<<e, k, 1>>}
  <2>1. \A x \in Counts(r, g) : x \in Counts(m, g) \/ x = <<e, k, 1>>
    BY <1>5, InCounts
  <2>2. \A x \in Counts(m, g) : x \in Counts(r, g)
    BY <1>5, InCounts
  <2>3. <<e, k, 1>> \in Counts(r, g)
    BY <1>5
  <2>4. QED
    BY <2>1, <2>2, <2>3
<1>7. ASSUME NEW h \in AllArcs \ {g} PROVE Counts(r, h) = Counts(m, h)
  <2>1. \A x \in Counts(r, h) : x \in Counts(m, h)
    BY <1>5, InCounts
  <2>2. \A x \in Counts(m, h) : x \in Counts(r, h)
    BY <1>5, InCounts
  <2>3. QED
    BY <2>1, <2>2
<1>8. \A h \in AllArcs : EntriesOf(m, h) \subseteq EntriesOf(r, h)
  BY <1>1
<1>9. \E x : x \notin Counts(m, g) /\ Counts(r, g) = Counts(m, g) \cup {x}
  BY <1>4, <1>6
<1>10. QED
  BY <1>1, <1>3, <1>7, <1>8, <1>9, Zenon DEF Records, Grows

\* Which calls are counted once a copy has n.
LEMMA Recount ==
    ASSUME NEW m \in Memory, NEW r, NEW g \in AllArcs, NEW e \in EntriesOf(m, g),
           NEW k \in Copies(m, e, g), NEW n \in Nat, Recounted(m, r, e, k, n)
    PROVE  /\ \A i, j, l : <<i, j, l>> \in Counts(r, g) <=>
                 IF i = e /\ j = k THEN l \in 1 .. n ELSE <<i, j, l>> \in Counts(m, g)
           /\ \A h \in AllArcs \ {g} : Counts(r, h) = Counts(m, h)
<1>1. /\ \A h \in AllArcs : EntriesOf(r, h) = EntriesOf(m, h)
      /\ \A h \in AllArcs : \A i \in EntriesOf(m, h) : Copies(r, i, h) = Copies(m, i, h)
      /\ \A h \in AllArcs : \A i \in EntriesOf(m, h) : \A j \in Copies(m, i, h) :
            CountOf(r, i, j) = IF i = e /\ j = k THEN n ELSE CountOf(m, i, j)
  BY Zenon DEF Recounted
<1>2. ASSUME NEW i, NEW j, NEW l
      PROVE  <<i, j, l>> \in Counts(r, g) <=>
                 IF i = e /\ j = k THEN l \in 1 .. n ELSE <<i, j, l>> \in Counts(m, g)
  <2>1. CASE i \in EntriesOf(m, g) /\ j \in Copies(m, i, g)
    BY <1>1, <2>1, InCounts
  <2>2. CASE ~(i \in EntriesOf(m, g) /\ j \in Copies(m, i, g))
    BY <1>1, <2>2, InCounts
  <2>3. QED
    BY <2>1, <2>2
<1>3. ASSUME NEW h \in AllArcs \ {g}
      PROVE  Counts(r, h) = Counts(m, h)
  <2>1. ASSUME NEW i, NEW j, NEW l
        PROVE  <<i, j, l>> \in Counts(r, h) <=> <<i, j, l>> \in Counts(m, h)
    <3>1. CASE i \in EntriesOf(m, h) /\ j \in Copies(m, i, h)
      <4>1. ~(i = e /\ j = k)
        BY <3>1, CopyOfOne
      <4>2. CountOf(r, i, j) = CountOf(m, i, j)
        BY <1>1, <3>1, <4>1
      <4>3. QED
        BY <1>1, <3>1, <4>2, InCounts
    <3>2. CASE ~(i \in EntriesOf(m, h) /\ j \in Copies(m, i, h))
      BY <1>1, <3>2, InCounts
    <3>3. QED
      BY <3>1, <3>2
  <2>2. \A x \in Counts(r, h) : x \in Counts(m, h)
    BY <2>1, InCounts
  <2>3. \A x \in Counts(m, h) : x \in Counts(r, h)
    BY <2>1, InCounts
  <2>4. QED
    BY <2>2, <2>3
<1>4. QED
  BY <1>2, <1>3

\* Adding one to the count of a copy counts one call.
LEMMA RecountedRecords ==
    ASSUME NEW m \in Memory, NEW r, NEW g \in AllArcs, NEW e \in EntriesOf(m, g),
           NEW k \in Copies(m, e, g), Recounted(m, r, e, k, CountOf(m, e, k) + 1)
    PROVE  Records(m, r, g)
<1> DEFINE n == CountOf(m, e, k)
<1>1. n \in Nat
  BY Nodes
<1> DEFINE x == <<e, k, n + 1>>
<1>2. /\ r \in Memory /\ Linked(r)
      /\ \A h \in AllArcs : EntriesOf(r, h) = EntriesOf(m, h)
      /\ \A h \in AllArcs : \A i \in EntriesOf(m, h) : Copies(r, i, h) = Copies(m, i, h)
      /\ \A h \in AllArcs : \A i \in EntriesOf(m, h) : \A j \in Copies(m, i, h) :
            CountOf(r, i, j) = IF i = e /\ j = k THEN n + 1 ELSE CountOf(m, i, j)
  BY Zenon DEF Recounted
<1>3. \A h \in AllArcs : \A i \in EntriesOf(m, h) : \A j \in Copies(m, i, h) : CountOf(m, i, j) \in Nat
  BY Nodes
<1>4. /\ \A i, j, l : <<i, j, l>> \in Counts(r, g) <=>
            IF i = e /\ j = k THEN l \in 1 .. n + 1 ELSE <<i, j, l>> \in Counts(m, g)
      /\ \A h \in AllArcs \ {g} : Counts(r, h) = Counts(m, h)
  <2> HIDE DEF n
  <2>1. Recounted(m, r, e, k, n + 1)
    BY DEF n
  <2>2. n + 1 \in Nat
    BY <1>1
  <2>3. QED
    BY <2>1, <2>2, Recount, Zenon
<1>5. \A l : <<e, k, l>> \in Counts(m, g) <=> l \in 1 .. n
  BY InCounts
<1> HIDE DEF n
<1>6. x \notin Counts(m, g)
  BY <1>1, <1>5
<1>7. Counts(r, g) = Counts(m, g) \cup {x}
  <2>1. \A l : l \in 1 .. n + 1 <=> l \in 1 .. n \/ l = n + 1
    BY <1>1
  <2>2. \A i, j, l : <<i, j, l>> \in Counts(r, g) <=> <<i, j, l>> \in Counts(m, g) \/ <<i, j, l>> = x
    BY <1>4, <1>5, <2>1
  <2> HIDE DEF x
  <2>3. \A y \in Counts(r, g) : y \in Counts(m, g) \/ y = x
    BY <2>2, InCounts
  <2>4. \A y \in Counts(m, g) : y \in Counts(r, g)
    BY <2>2, InCounts
  <2>5. x \in Counts(r, g)
    BY <2>2 DEF x
  <2>6. QED
    BY <2>3, <2>4, <2>5
<1>8. \A h \in AllArcs : \A i \in EntriesOf(m, h) :
          /\ Copies(m, i, h) \subseteq Copies(r, i, h)
          /\ \A j \in Copies(m, i, h) : CountOf(m, i, j) <= CountOf(r, i, j)
  BY <1>1, <1>2, <1>3 DEF n
<1>9. \A h \in AllArcs : EntriesOf(m, h) \subseteq EntriesOf(r, h)
  BY <1>2
<1>10. \E y : y \notin Counts(m, g) /\ Counts(r, g) = Counts(m, g) \cup {y}
  BY <1>6, <1>7
<1>11. QED
  BY <1>2, <1>4, <1>8, <1>9, <1>10, Zenon DEF Records, Grows

\* For the calls of h's function the two memories have the same lists.
SameLists(m, r, h) ==
    \A u \in SameFunction(h) :
        /\ EntriesOf(r, u) = EntriesOf(m, u)
        /\ \A i \in EntriesOf(m, u) : Copies(r, i, u) = Copies(m, i, u)

\* Then what is said of those lists is the same.
LEMMA ListsDecide ==
    ASSUME NEW m \in Memory, NEW r, NEW h \in AllArcs, SameLists(m, r, h)
    PROVE  /\ AtMostTwo(m, h) => AtMostTwo(r, h)
           /\ \A f : f.call = h /\ Room(m, f) => Room(r, f)
<1>1. \A u \in SameFunction(h) :
          /\ EntriesOf(r, u) = EntriesOf(m, u) /\ EntriesOf(m, u) = EntriesOf(m, h)
          /\ \A i \in EntriesOf(m, h) : Copies(r, i, u) = Copies(m, i, u)
  BY DEF SameLists, SameFunction, EntriesOf
<1>2. h \in SameFunction(h)
  BY DEF SameFunction
<1>3. EntriesOf(r, h) = EntriesOf(m, h) /\ EntryOf(r, h) = EntryOf(m, h)
  BY <1>1, <1>2 DEF EntryOf
<1>4. \A u \in SameFunction(h) : \A i \in EntriesOf(m, h) : Once(m, i, u) <=> Once(r, i, u)
  BY <1>1 DEF Once
<1>5. AtMostTwo(m, h) => AtMostTwo(r, h)
  BY <1>1, <1>2, <1>3, <1>4, Zenon DEF AtMostTwo
<1>6. ASSUME NEW f, f.call = h, Room(m, f)
      PROVE  Room(r, f)
  <2>1. CASE f.fn_entry = NULL
    <3>1. \A d, e \in EntriesOf(m, h) : d = e /\ \A u \in SameFunction(h) : Once(m, e, u)
      BY <1>6, <2>1 DEF Room
    <3>2. \A d, e \in EntriesOf(r, h) : d = e /\ \A u \in SameFunction(h) : Once(r, e, u)
      BY <1>3, <1>4, <3>1
    <3>3. QED
      BY <1>6, <2>1, <3>2 DEF Room
  <2>2. CASE f.fn_entry # NULL
    <3>1. /\ f.fn_entry = EntryOf(m, h)
          /\ f.pc \notin {"arc", "load", "store"} => Once(m, f.fn_entry, h)
      BY <1>6, <2>2 DEF Room
    <3>2. Once(m, f.fn_entry, h) => Once(r, f.fn_entry, h)
      <4>1. f.fn_entry \in EntriesOf(m, h)
        BY <2>2, <3>1, Lookups
      <4>2. QED
        BY <1>2, <1>4, <4>1
    <3>3. QED
      BY <1>3, <1>6, <2>2, <3>1, <3>2 DEF Room
  <2>3. QED
    BY <2>1, <2>2
<1>7. QED
  BY <1>5, <1>6

\* What a new arc for g in entry e finds: the entry is the newest and has no
\* copy but one; for a new entry there is no entry but one, of single copies.
Space(m, g, e) ==
    IF e \in DOMAIN m.entries
    THEN e = EntryOf(m, g) /\ Once(m, e, g)
    ELSE \A c, d \in EntriesOf(m, g) : c = d /\ \A u \in SameFunction(g) : Once(m, c, u)

\* A new arc leaves the lists of other functions alone.
LEMMA GrownElsewhere ==
    ASSUME NEW m \in Memory, NEW r, NEW g \in AllArcs, NEW e, NEW k, Grown(m, r, g, e, k),
           NEW h \in AllArcs, h.self_pc # g.self_pc
    PROVE  SameLists(m, r, h)
<1>1. /\ \A u \in AllArcs :
            EntriesOf(r, u) = EntriesOf(m, u) \cup (IF u.self_pc = g.self_pc THEN {e} ELSE {})
      /\ \A u \in AllArcs : \A i \in EntriesOf(r, u) :
            Copies(r, i, u) = (IF i \in DOMAIN m.entries THEN Copies(m, i, u) ELSE {})
                              \cup (IF i = e /\ u.from_pc = g.from_pc THEN {k} ELSE {})
      /\ e \in DOMAIN m.entries => m.entries[e].self_pc = g.self_pc
  BY Zenon DEF Grown
<1>2. ASSUME NEW u \in SameFunction(h)
      PROVE  EntriesOf(r, u) = EntriesOf(m, u)
  BY <1>1 DEF SameFunction
<1>3. ASSUME NEW u \in SameFunction(h), NEW i \in EntriesOf(m, u)
      PROVE  Copies(r, i, u) = Copies(m, i, u)
  <2>1. i \in DOMAIN m.entries /\ m.entries[i].self_pc = h.self_pc /\ u \in AllArcs
    BY DEF EntriesOf, SameFunction
  <2>2. i # e
    BY <1>1, <2>1
  <2>3. QED
    BY <1>1, <1>2, <2>1, <2>2
<1>4. QED
  BY <1>2, <1>3 DEF SameLists

\* What a new arc does to the lists of its function.
Extended(m, r, g, e, k, h) ==
    /\ EntriesOf(m, h) = EntriesOf(m, g) /\ EntriesOf(r, h) = EntriesOf(m, g) \cup {e}
    /\ EntriesOf(m, g) \subseteq Nat /\ e \in Nat
    /\ \A i \in EntriesOf(m, g) :
          /\ Copies(m, i, h) \subseteq Nat
          /\ i # e \/ h # g => Copies(r, i, h) = Copies(m, i, h)
          /\ i = e /\ h = g =>
                Copies(r, i, h) = Copies(m, i, h) \cup {k} /\ \A j \in Copies(m, i, h) : j < k
    /\ e \in DOMAIN m.entries => e \in EntriesOf(m, g)
    /\ e \notin DOMAIN m.entries =>
          (\A i \in EntriesOf(m, g) : i < e) /\ Copies(r, e, h) \subseteq {k}
    /\ k \in Nat

\* It is the newest arc of the newest entry.
LEMMA GrownHere ==
    ASSUME NEW m \in Memory, NEW r, NEW g \in AllArcs, NEW e, NEW k, Grown(m, r, g, e, k),
           NEW h \in SameFunction(g)
    PROVE  Extended(m, r, g, e, k, h)
<1>1. /\ \A u \in AllArcs :
            EntriesOf(r, u) = EntriesOf(m, u) \cup (IF u.self_pc = g.self_pc THEN {e} ELSE {})
      /\ \A u \in AllArcs : \A i \in EntriesOf(r, u) :
            Copies(r, i, u) = (IF i \in DOMAIN m.entries THEN Copies(m, i, u) ELSE {})
                              \cup (IF i = e /\ u.from_pc = g.from_pc THEN {k} ELSE {})
      /\ e \in Nat \ {0} /\ k \in Nat \ {0}
      /\ e \notin DOMAIN m.entries => k = 1 /\ \A i \in DOMAIN m.entries : i < e
      /\ e \in DOMAIN m.entries =>
            m.entries[e].self_pc = g.self_pc /\ \A j \in DOMAIN m.entries[e].arcs : j < k
  BY Zenon DEF Grown
<1>2. h \in AllArcs /\ h.self_pc = g.self_pc /\ (h = g <=> h.from_pc = g.from_pc)
  BY CallTypes DEF SameFunction
<1>3. EntriesOf(m, h) = EntriesOf(m, g) /\ EntriesOf(m, g) \subseteq DOMAIN m.entries
  BY <1>2 DEF EntriesOf
<1>4. EntriesOf(r, h) = EntriesOf(m, g) \cup {e}
  BY <1>1, <1>2, <1>3
<1>5. EntriesOf(m, g) \subseteq Nat
  BY Nodes
<1>6. ASSUME NEW i \in EntriesOf(m, g)
      PROVE  /\ Copies(m, i, h) \subseteq Nat
             /\ i # e \/ h # g => Copies(r, i, h) = Copies(m, i, h)
             /\ i = e /\ h = g =>
                   Copies(r, i, h) = Copies(m, i, h) \cup {k} /\ \A j \in Copies(m, i, h) : j < k
  <2>1. Copies(m, i, h) \subseteq DOMAIN m.entries[i].arcs /\ DOMAIN m.entries[i].arcs \subseteq Nat
    BY <1>2, Nodes
  <2>2. Copies(r, i, h) = Copies(m, i, h)
                          \cup (IF i = e /\ h.from_pc = g.from_pc THEN {k} ELSE {})
    BY <1>1, <1>2, <1>3, <1>4
  <2>3. i = e => \A j \in Copies(m, i, h) : j < k
    BY <1>1, <1>3, <2>1
  <2>4. QED
    BY <1>2, <2>1, <2>2, <2>3
<1>7. e \in DOMAIN m.entries => e \in EntriesOf(m, g)
  BY <1>1 DEF EntriesOf
<1>8. ASSUME e \notin DOMAIN m.entries
      PROVE  (\A i \in EntriesOf(m, g) : i < e) /\ Copies(r, e, h) \subseteq {k}
  <2>1. e \in EntriesOf(r, h)
    BY <1>4
  <2>2. Copies(r, e, h) = {} \cup (IF h.from_pc = g.from_pc THEN {k} ELSE {})
    BY <1>1, <1>2, <1>8, <2>1
  <2>3. QED
    BY <1>1, <1>3, <1>8, <2>2
<1>9. e \in Nat /\ k \in Nat
  BY <1>1
<1>10. QED
  BY <1>3, <1>4, <1>5, <1>6, <1>7, <1>8, <1>9, Zenon DEF Extended

\* Where there is space, there are no more than two afterwards.
LEMMA SpaceKeepsFew ==
    ASSUME NEW m \in Memory, NEW r, NEW g \in AllArcs, NEW e, NEW k, Grown(m, r, g, e, k),
           NEW h \in SameFunction(g), Space(m, g, e), AtMostTwo(m, h)
    PROVE  AtMostTwo(r, h)
<1> DEFINE E == EntriesOf(m, g)
<1>1. /\ EntriesOf(m, h) = E /\ EntriesOf(r, h) = E \cup {e} /\ E \subseteq Nat /\ e \in Nat
      /\ \A i \in E :
            /\ Copies(m, i, h) \subseteq Nat
            /\ i # e \/ h # g => Copies(r, i, h) = Copies(m, i, h)
            /\ i = e /\ h = g =>
                  Copies(r, i, h) = Copies(m, i, h) \cup {k} /\ \A j \in Copies(m, i, h) : j < k
      /\ e \in DOMAIN m.entries => e \in E
      /\ e \notin DOMAIN m.entries =>
            (\A i \in E : i < e) /\ Copies(r, e, h) \subseteq {k}
      /\ k \in Nat
  <2>1. Extended(m, r, g, e, k, h)
    BY GrownHere
  <2>2. QED
    BY <2>1, Zenon DEF Extended
<1>2. /\ \A c, d, i \in E : ~(c < d /\ d < i)
      /\ \A d, i \in E : d < i => Once(m, d, h)
      /\ \A i \in E : \A x, y, z \in Copies(m, i, h) : ~(x < y /\ y < z)
  BY <1>1, Zenon DEF AtMostTwo
<1> HIDE DEF E
<1>3. CASE e \in DOMAIN m.entries
  <2>1. e \in E /\ Once(m, e, g) /\ (\A d \in E : d <= e) /\ EntriesOf(r, h) = E
    BY <1>1, <1>3, Lookups DEF Space, E
  <2>2. ASSUME NEW d \in E, NEW i \in E, d < i
        PROVE  Once(r, d, h)
    <3>1. d # e
      BY <1>1, <2>1, <2>2
    <3>2. Copies(r, d, h) = Copies(m, d, h)
      BY <1>1, <3>1
    <3>3. QED
      BY <1>2, <2>2, <3>2 DEF Once
  <2>3. ASSUME NEW i \in E, NEW x \in Copies(r, i, h), NEW y \in Copies(r, i, h),
               NEW z \in Copies(r, i, h), x < y, y < z
        PROVE  FALSE
    <3>1. CASE i # e \/ h # g
      BY <1>1, <1>2, <2>3, <3>1
    <3>2. CASE i = e /\ h = g
      <4>1. \A u, v \in Copies(m, i, h) : u = v
        BY <2>1, <3>2 DEF Once
      <4>2. /\ Copies(r, i, h) = Copies(m, i, h) \cup {k} /\ (\A j \in Copies(m, i, h) : j < k)
            /\ Copies(m, i, h) \subseteq Nat
        BY <1>1, <3>2
      <4>3. x \in Nat /\ y \in Nat /\ z \in Nat
        BY <1>1, <4>2
      <4>4. x # k /\ y # k
        BY <1>1, <2>3, <4>2, <4>3
      <4>5. x = y
        BY <4>1, <4>2, <4>4
      <4>6. QED
        BY <2>3, <4>3, <4>5
    <3>3. QED
      BY <3>1, <3>2
  <2>4. QED
    BY <1>2, <2>1, <2>2, <2>3, Zenon DEF AtMostTwo
<1>4. CASE e \notin DOMAIN m.entries
  <2>1. \A c, d \in E : c = d /\ \A u \in SameFunction(g) : Once(m, c, u)
    BY <1>4, Zenon DEF Space, E
  <2>2. \A i \in E : i < e /\ i # e
    BY <1>1, <1>4
  <2>3. \A i \in E : Copies(r, i, h) = Copies(m, i, h) /\ Once(r, i, h)
    <3>1. \A i \in E : Copies(r, i, h) = Copies(m, i, h)
      BY <1>1, <2>2
    <3>2. \A i \in E : Once(m, i, h)
      BY <2>1
    <3>3. QED
      BY <3>1, <3>2 DEF Once
  <2>4. ASSUME NEW c \in E \cup {e}, NEW d \in E \cup {e}, NEW i \in E \cup {e}, c < d, d < i
        PROVE  FALSE
    <3>1. c \in Nat /\ d \in Nat /\ i \in Nat /\ c # e /\ d # e
      <4>1. c \in Nat /\ d \in Nat /\ i \in Nat /\ c <= e /\ d <= e /\ i <= e
        <5>1. ASSUME NEW x \in E \cup {e} PROVE x \in Nat /\ x <= e
          <6>1. CASE x = e
            BY <1>1, <6>1
          <6>2. CASE x \in E
            BY <1>1, <2>2, <6>2
          <6>3. QED
            BY <6>1, <6>2
        <5>2. QED
          BY <5>1
      <4>2. QED
        BY <1>1, <2>4, <4>1
    <3>2. c = d
      BY <2>1, <3>1
    <3>3. QED
      BY <2>4, <3>1, <3>2
  <2>5. ASSUME NEW d \in E \cup {e}, NEW i \in E \cup {e}, d < i
        PROVE  Once(r, d, h)
    <3>1. d # e
      BY <1>1, <2>2, <2>5
    <3>2. QED
      BY <2>3, <3>1
  <2>6. ASSUME NEW i \in E \cup {e}, NEW x \in Copies(r, i, h), NEW y \in Copies(r, i, h),
               NEW z \in Copies(r, i, h), x < y, y < z
        PROVE  FALSE
    <3>1. x = y /\ x \in Nat
      <4>1. CASE i = e
        BY <1>1, <1>4, <4>1
      <4>2. CASE i \in E
        BY <1>1, <2>3, <4>2 DEF Once
      <4>3. QED
        BY <4>1, <4>2
    <3>2. QED
      BY <2>6, <3>1
  <2>7. EntriesOf(r, h) = E \cup {e}
    BY <1>1
  <2>8. QED
    BY <2>4, <2>5, <2>6, <2>7, Zenon DEF AtMostTwo
<1>5. QED
  BY <1>3, <1>4

\* A new arc for which no other was there.
Fresh(m, g, e) ==
    IF e \in DOMAIN m.entries THEN e = EntryOf(m, g) /\ Copies(m, e, g) = {} ELSE EntriesOf(m, g) = {}

\* There is space for it.
LEMMA FreshHasSpace ==
    ASSUME NEW m, NEW g, NEW e, Fresh(m, g, e)
    PROVE  Space(m, g, e)
<1>1. CASE e \in DOMAIN m.entries
  BY <1>1 DEF Fresh, Space, Once
<1>2. CASE e \notin DOMAIN m.entries
  BY <1>2 DEF Fresh, Space
<1>3. QED
  BY <1>1, <1>2

\* It takes no room from a call of the same function under way.
LEMMA FreshKeepsRoom ==
    ASSUME NEW m \in Memory, NEW r, NEW g \in AllArcs, NEW e, NEW k, Grown(m, r, g, e, k),
           Fresh(m, g, e), NEW f, f.call \in AllArcs, f.call.self_pc = g.self_pc, Room(m, f)
    PROVE  Room(r, f)
<1> DEFINE h == f.call
<1>1. h \in SameFunction(g) /\ SameFunction(h) = SameFunction(g)
  BY DEF SameFunction
<1>2. \A u \in SameFunction(g) : Extended(m, r, g, e, k, u)
  BY GrownHere
<1> DEFINE E == EntriesOf(m, g)
<1>3. EntriesOf(m, h) = E /\ EntriesOf(r, h) = E \cup {e}
  BY <1>1, <1>2, Zenon DEF Extended
<1>4. /\ e \in DOMAIN m.entries => e \in E /\ Copies(m, e, g) = {}
      /\ e \notin DOMAIN m.entries => E = {}
  <2>1. h \in SameFunction(g)
    BY <1>1
  <2>2. e \in DOMAIN m.entries => e \in E
    BY <1>2, <2>1, Zenon DEF Extended
  <2>3. QED
    BY <2>2 DEF Fresh
<1>5. \A u \in SameFunction(g) : \A i \in E : i # e \/ u # g => Copies(r, i, u) = Copies(m, i, u)
  BY <1>2, Zenon DEF Extended
<1>6. \A i \in E : i = e => Copies(r, i, g) \subseteq {k}
  <2>1. g \in SameFunction(g)
    BY DEF SameFunction
  <2>2. Extended(m, r, g, e, k, g)
    BY <1>2, <2>1
  <2>3. e \in E => e \in DOMAIN m.entries
    BY DEF EntriesOf
  <2>4. QED
    BY <1>4, <2>2, <2>3 DEF Extended
<1>7. e \notin DOMAIN m.entries => \A u \in SameFunction(g) : Copies(r, e, u) \subseteq {k}
  BY <1>2, Zenon DEF Extended
<1> HIDE DEF h, E
<1>8. CASE f.fn_entry = NULL
  <2>1. \A c, d \in E : c = d /\ \A u \in SameFunction(g) : Once(m, d, u)
    BY <1>1, <1>3, <1>8 DEF Room, h
  <2>2. ASSUME NEW c \in EntriesOf(r, h), NEW d \in EntriesOf(r, h)
        PROVE  c = d
    BY <1>3, <1>4, <2>1
  <2>3. ASSUME NEW d \in EntriesOf(r, h), NEW u \in SameFunction(g)
        PROVE  Once(r, d, u)
    <3>1. CASE e \notin DOMAIN m.entries
      <4>1. d = e
        BY <1>3, <1>4, <3>1
      <4>2. Copies(r, d, u) \subseteq {k}
        BY <1>7, <3>1, <4>1
      <4>3. QED
        BY <4>2 DEF Once
    <3>2. CASE e \in DOMAIN m.entries
      <4>1. d \in E /\ d = e
        BY <1>3, <1>4, <2>1, <3>2
      <4>2. CASE u = g
        BY <1>6, <4>1, <4>2 DEF Once
      <4>3. CASE u # g
        <5>1. Copies(r, d, u) = Copies(m, d, u)
          BY <1>5, <4>1, <4>3
        <5>2. QED
          BY <2>1, <4>1, <5>1 DEF Once
      <4>4. QED
        BY <4>2, <4>3
    <3>3. QED
      BY <3>1, <3>2
  <2>4. QED
    BY <1>1, <1>8, <2>2, <2>3 DEF Room, h
<1>9. CASE f.fn_entry # NULL
  <2>1. f.fn_entry = EntryOf(m, h) /\ (f.pc \notin {"arc", "load", "store"} => Once(m, f.fn_entry, h))
    BY <1>9 DEF Room, h
  <2>2. h \in AllArcs
    BY DEF h
  <2>3. f.fn_entry \in E
    BY <1>3, <1>9, <2>1, <2>2, Lookups
  <2>4. EntriesOf(r, h) = EntriesOf(m, h)
    BY <1>3, <1>4, <2>3
  <2>5. EntryOf(r, h) = EntryOf(m, h)
    BY <2>4 DEF EntryOf
  <2>6. Once(m, f.fn_entry, h) => Once(r, f.fn_entry, h)
    <3>1. CASE f.fn_entry = e /\ h = g
      BY <1>6, <2>3, <3>1 DEF Once
    <3>2. CASE ~(f.fn_entry = e /\ h = g)
      BY <1>1, <1>5, <2>3, <3>2 DEF Once
    <3>3. QED
      BY <3>1, <3>2
  <2>7. QED
    BY <1>9, <2>1, <2>5, <2>6 DEF Room, h
<1>10. QED
  BY <1>8, <1>9

\* Two memories of the same lists.
LEMMA SameEntries ==
    ASSUME NEW m, NEW r, r.entries = m.entries
    PROVE  /\ Linked(m) => Linked(r)
           /\ \A h : /\ EntriesOf(r, h) = EntriesOf(m, h) /\ EntryOf(r, h) = EntryOf(m, h)
                     /\ Counts(r, h) = Counts(m, h)
                     /\ AtMostTwo(m, h) <=> AtMostTwo(r, h)
                     /\ Known(r, h) <=> Known(m, h)
           /\ \A e, h : Copies(r, e, h) = Copies(m, e, h) /\ ArcOf(r, e, h) = ArcOf(m, e, h)
           /\ \A e, k : CountOf(r, e, k) = CountOf(m, e, k)
           /\ \A f : /\ Room(m, f) <=> Room(r, f)
                     /\ FrameInv(m, f) <=> FrameInv(r, f)
<1>1. \A e, k : CountOf(r, e, k) = CountOf(m, e, k)
  BY DEF CountOf
<1>2. \A e, h : Copies(r, e, h) = Copies(m, e, h) /\ ArcOf(r, e, h) = ArcOf(m, e, h)
  BY DEF Copies, ArcOf
<1>3. \A h : EntriesOf(r, h) = EntriesOf(m, h) /\ EntryOf(r, h) = EntryOf(m, h)
  BY DEF EntriesOf, EntryOf
<1>4. \A h : \A x : x \in Counts(r, h) <=> x \in Counts(m, h)
  <2>1. ASSUME NEW h, NEW e, NEW k, NEW n
        PROVE  <<e, k, n>> \in Counts(r, h) <=> <<e, k, n>> \in Counts(m, h)
    BY <1>1, <1>2, <1>3, InCounts
  <2>2. QED
    BY <2>1, InCounts
<1>5. \A h : Counts(r, h) = Counts(m, h)
  BY <1>4
<1>6. \A e, h : Once(m, e, h) <=> Once(r, e, h)
  BY <1>2 DEF Once
<1>7. \A h : AtMostTwo(m, h) <=> AtMostTwo(r, h)
  BY <1>2, <1>3, <1>6, Zenon DEF AtMostTwo
<1>8. \A f : Room(m, f) <=> Room(r, f)
  <2>1. ASSUME NEW f PROVE Room(m, f) <=> Room(r, f)
    <3>1. CASE f.fn_entry = NULL
      BY <1>3, <1>6, <3>1 DEF Room
    <3>2. CASE f.fn_entry # NULL
      BY <1>3, <1>6, <3>2 DEF Room
    <3>3. QED
      BY <3>1, <3>2
  <2>2. QED
    BY <2>1
<1>9. \A f : FrameInv(m, f) <=> FrameInv(r, f)
  BY <1>2, <1>3 DEF FrameInv
<1>10. Linked(m) => Linked(r)
  BY DEF Linked
<1>11. \A h : Known(r, h) <=> Known(m, h)
  BY <1>2, <1>3, Zenon DEF Known
<1>12. QED
  BY <1>1, <1>2, <1>3, <1>5, <1>7, <1>8, <1>9, <1>10, <1>11, Zenon

\* A call from end to end counts it, and leaves few copies and room.
LEMMA RecordedKeeps ==
    ASSUME NEW m \in Memory, Linked(m), NEW g \in AllArcs
    PROVE  LET r == Recorded(m, g)
           IN /\ Records(m, r, g) /\ r.need_init = m.need_init /\ r.started = m.started
              /\ \A h \in AllArcs : AtMostTwo(m, h) => AtMostTwo(r, h)
              /\ \A f : f.call \in AllArcs /\ Room(m, f) => Room(r, f)
              /\ \A h \in AllArcs : h.self_pc # g.self_pc => SameLists(m, r, h)
              /\ EntriesOf(m, g) = {} =>
                    \A c, d \in EntriesOf(r, g) : c = d /\ \A u \in SameFunction(g) : Once(r, c, u)
              /\ EntriesOf(m, g) # {} =>
                    /\ EntriesOf(r, g) = EntriesOf(m, g)
                    /\ \A u \in SameFunction(g) \ {g} : \A i \in EntriesOf(m, g) :
                          Copies(r, i, u) = Copies(m, i, u)
<1> DEFINE r == Recorded(m, g)
<1> DEFINE fn == EntryOf(m, g)
<1> DEFINE arc == IF fn = NULL THEN NULL ELSE ArcOf(m, fn, g)
<1>1. /\ fn = NULL <=> EntriesOf(m, g) = {}
      /\ fn # NULL => fn \in EntriesOf(m, g)
      /\ fn # NULL => (ArcOf(m, fn, g) = NULL <=> Copies(m, fn, g) = {})
      /\ fn # NULL /\ ArcOf(m, fn, g) # NULL => ArcOf(m, fn, g) \in Copies(m, fn, g)
  BY Lookups
<1>2. r = IF arc # NULL THEN Counted(m, fn, arc, CountOf(m, fn, arc) + 1) ELSE AddArc(m, g, fn)
  BY DEF Recorded, CountOf
<1> HIDE DEF fn, r
<1>3. CASE arc # NULL
  <2>1. fn # NULL /\ fn \in EntriesOf(m, g) /\ arc \in Copies(m, fn, g)
    BY <1>1, <1>3
  <2>2. fn \in DOMAIN m.entries /\ arc \in DOMAIN m.entries[fn].arcs
    BY <2>1 DEF EntriesOf, Copies
  <2> HIDE DEF arc
  <2>3. CountOf(m, fn, arc) + 1 \in Nat
    BY <2>1, <2>2, Nodes
  <2>4. /\ Recounted(m, r, fn, arc, CountOf(m, fn, arc) + 1)
        /\ r.need_init = m.need_init /\ r.started = m.started
    BY <1>2, <1>3, <2>2, <2>3, CountedRecounts
  <2>5. Records(m, r, g)
    BY <2>1, <2>4, RecountedRecords
  <2>6. /\ \A h \in AllArcs : EntriesOf(r, h) = EntriesOf(m, h)
        /\ \A h \in AllArcs : \A i \in EntriesOf(m, h) : Copies(r, i, h) = Copies(m, i, h)
    BY <2>4, Zenon DEF Recounted
  <2>7. \A h \in AllArcs : SameLists(m, r, h)
    BY <2>6 DEF SameLists, SameFunction
  <2>8. /\ \A h \in AllArcs : AtMostTwo(m, h) => AtMostTwo(r, h)
        /\ \A f : f.call \in AllArcs /\ Room(m, f) => Room(r, f)
    BY <2>7, ListsDecide
  <2>9. \A u \in SameFunction(g) : EntriesOf(m, u) = EntriesOf(m, g) /\ u \in AllArcs
    BY DEF SameFunction, EntriesOf
  <2>10. QED
    BY <2>1, <2>4, <2>5, <2>6, <2>7, <2>8, <2>9 DEF r
<1>4. CASE arc = NULL
  <2>1. r = AddArc(m, g, fn)
    BY <1>2, <1>4
  <2>2. PICK e, k : /\ Grown(m, r, g, e, k)
                    /\ e = IF fn = NULL THEN Len(m.entries) + 1 ELSE fn
                    /\ r.need_init = m.need_init /\ r.started = m.started
    BY <1>1, <2>1, AddArcGrows
  <2>3. fn # NULL => Copies(m, fn, g) = {} /\ e \in DOMAIN m.entries
    BY <1>1, <1>4, <2>2 DEF EntriesOf
  <2>4. fn = NULL => e \notin DOMAIN m.entries
    <3>1. m.entries \in Seq(EntryRecord)
      BY DEF Memory
    <3>2. QED
      BY <2>2, <3>1
  <2>5. Fresh(m, g, e)
    BY <1>1, <2>2, <2>3, <2>4 DEF Fresh, fn
  <2>6. Records(m, r, g)
    BY <2>2, GrownRecords
  <2>7. \A h \in AllArcs : h.self_pc # g.self_pc => SameLists(m, r, h)
    BY <2>2, GrownElsewhere
  <2>8. ASSUME NEW h \in AllArcs, AtMostTwo(m, h) PROVE AtMostTwo(r, h)
    <3>1. CASE h.self_pc = g.self_pc
      <4>1. h \in SameFunction(g)
        BY <3>1 DEF SameFunction
      <4>2. QED
        BY <2>2, <2>5, <2>8, <4>1, FreshHasSpace, SpaceKeepsFew
    <3>2. CASE h.self_pc # g.self_pc
      BY <2>7, <2>8, <3>2, ListsDecide
    <3>3. QED
      BY <3>1, <3>2
  <2>9. ASSUME NEW f, f.call \in AllArcs, Room(m, f) PROVE Room(r, f)
    <3>1. CASE f.call.self_pc = g.self_pc
      BY <2>2, <2>5, <2>9, <3>1, FreshKeepsRoom
    <3>2. CASE f.call.self_pc # g.self_pc
      BY <2>7, <2>9, <3>2, ListsDecide
    <3>3. QED
      BY <3>1, <3>2
  <2>10. \A u \in SameFunction(g) : Extended(m, r, g, e, k, u)
    BY <2>2, GrownHere
  <2>11. g \in SameFunction(g)
    BY DEF SameFunction
  <2>12. EntriesOf(r, g) = EntriesOf(m, g) \cup {e}
    BY <2>10, <2>11 DEF Extended
  <2>13. ASSUME EntriesOf(m, g) = {}, NEW c \in EntriesOf(r, g), NEW d \in EntriesOf(r, g),
                NEW u \in SameFunction(g)
         PROVE  c = d /\ Once(r, c, u)
    <3>1. c = e /\ d = e /\ e \notin DOMAIN m.entries
      BY <1>1, <2>4, <2>12, <2>13
    <3>2. Copies(r, e, u) \subseteq {k}
      BY <2>10, <3>1 DEF Extended
    <3>3. QED
      BY <3>1, <3>2 DEF Once
  <2>14. ASSUME EntriesOf(m, g) # {}
         PROVE  /\ EntriesOf(r, g) = EntriesOf(m, g)
                /\ \A u \in SameFunction(g) \ {g} : \A i \in EntriesOf(m, g) :
                      Copies(r, i, u) = Copies(m, i, u)
    <3>1. EntriesOf(r, g) = EntriesOf(m, g)
      BY <1>1, <2>2, <2>12, <2>14
    <3>2. ASSUME NEW u \in SameFunction(g) \ {g}, NEW i \in EntriesOf(m, g)
          PROVE  Copies(r, i, u) = Copies(m, i, u)
      <4>1. Extended(m, r, g, e, k, u)
        BY <2>10
      <4>2. QED
        BY <4>1 DEF Extended
    <3>3. QED
      BY <3>1, <3>2
  <2>15. EntriesOf(m, g) = {} =>
            \A c, d \in EntriesOf(r, g) : c = d /\ \A u \in SameFunction(g) : Once(r, c, u)
    BY <2>11, <2>13
  <2>16. QED
    BY <2>2, <2>6, <2>7, <2>8, <2>9, <2>14, <2>15 DEF r
<1>5. QED
  BY <1>3, <1>4

\* From m to r, n more calls of h are counted.
CountsGrow(m, r, h, n) ==
    /\ Counts(m, h) \subseteq Counts(r, h)
    /\ IsFiniteSet(Counts(m, h)) =>
          IsFiniteSet(Counts(r, h)) /\ Cardinality(Counts(r, h)) = Cardinality(Counts(m, h)) + n

\* A call that is recorded counts one.
LEMMA RecordsCount ==
    ASSUME NEW m, NEW r, NEW g \in AllArcs, Records(m, r, g), NEW h \in AllArcs
    PROVE  CountsGrow(m, r, h, IF h = g THEN 1 ELSE 0)
<1>1. CASE h = g
  <2>1. PICK x : x \notin Counts(m, g) /\ Counts(r, g) = Counts(m, g) \cup {x}
    BY Zenon DEF Records
  <2>2. ASSUME IsFiniteSet(Counts(m, g))
        PROVE  /\ IsFiniteSet(Counts(r, g))
               /\ Cardinality(Counts(r, g)) = Cardinality(Counts(m, g)) + 1
    BY <2>1, <2>2, FS_AddElement
  <2>3. QED
    BY <1>1, <2>1, <2>2 DEF CountsGrow
<1>2. CASE h # g
  <2>1. Counts(r, h) = Counts(m, h)
    BY <1>2 DEF Records
  <2>2. IsFiniteSet(Counts(m, h)) => Cardinality(Counts(m, h)) \in Nat
    BY FS_CardinalityType
  <2>3. QED
    BY <1>2, <2>1, <2>2 DEF CountsGrow
<1>3. QED
  BY <1>1, <1>2

\* What is recorded stays.
LEMMA GrowsOn ==
    ASSUME NEW m \in Memory, NEW r \in Memory, NEW s \in Memory, Grows(m, r), Grows(r, s)
    PROVE  Grows(m, s)
<1>1. \A h \in AllArcs : EntriesOf(m, h) \subseteq EntriesOf(r, h) /\ EntriesOf(r, h) \subseteq EntriesOf(s, h)
  BY DEF Grows
<1>2. ASSUME NEW h \in AllArcs, NEW i \in EntriesOf(m, h)
      PROVE  /\ Copies(m, i, h) \subseteq Copies(s, i, h)
             /\ \A j \in Copies(m, i, h) : CountOf(m, i, j) <= CountOf(s, i, j)
  <2>1. /\ Copies(m, i, h) \subseteq Copies(r, i, h)
        /\ \A j \in Copies(m, i, h) : CountOf(m, i, j) <= CountOf(r, i, j)
    BY DEF Grows
  <2>2. i \in EntriesOf(r, h) /\ i \in EntriesOf(s, h)
    BY <1>1
  <2>3. /\ Copies(r, i, h) \subseteq Copies(s, i, h)
        /\ \A j \in Copies(r, i, h) : CountOf(r, i, j) <= CountOf(s, i, j)
    BY <2>2 DEF Grows
  <2>4. ASSUME NEW j \in Copies(m, i, h)
        PROVE  CountOf(m, i, j) <= CountOf(s, i, j)
    <3>1. j \in Copies(r, i, h) /\ j \in Copies(s, i, h)
      BY <2>1, <2>3
    <3>2. CountOf(m, i, j) \in Nat /\ CountOf(r, i, j) \in Nat /\ CountOf(s, i, j) \in Nat
      BY <2>2, <3>1, Nodes
    <3>3. CountOf(m, i, j) <= CountOf(r, i, j) /\ CountOf(r, i, j) <= CountOf(s, i, j)
      BY <2>1, <2>3, <3>1
    <3>4. QED
      BY <3>2, <3>3
  <2>5. QED
    BY <2>1, <2>3, <2>4
<1>3. QED
  BY <1>1, <1>2, Zenon DEF Grows

\* What a call of a handler does to the memory.
LEMMA HandledKeeps ==
    ASSUME NEW m \in Memory, Linked(m), NEW g \in IrqArcs, timer \in BOOLEAN
    PROVE  LET r == Handled(m, g)
           IN /\ r \in Memory /\ Linked(r) /\ Grows(m, r)
              /\ r.need_init = (m.need_init /\ ~Starts(m, g))
              /\ r.started = m.started + (IF Starts(m, g) THEN 1 ELSE 0)
              /\ \A h \in AllArcs :
                    CountsGrow(m, r, h, IF h = g \/ (h = AlarmStart /\ Starts(m, g)) THEN 1 ELSE 0)
              /\ \A h \in AllArcs : AtMostTwo(m, h) => AtMostTwo(r, h)
              /\ \A f : /\ f.call \in AllArcs /\ Room(m, f)
                        /\ Starts(m, g) => f.call.self_pc # AlarmStart.self_pc
                        => Room(r, f)
<1> DEFINE r == Handled(m, g)
<1>1. g \in AllArcs /\ AlarmStart \in AllArcs /\ g # AlarmStart
  BY ProfilerAssumption DEF AllArcs
<1>2. CASE ~Starts(m, g)
  <2>1. r = Recorded(m, g)
    BY <1>2 DEF Handled
  <2>2. /\ Records(m, r, g) /\ r.need_init = m.need_init /\ r.started = m.started
        /\ \A h \in AllArcs : AtMostTwo(m, h) => AtMostTwo(r, h)
        /\ \A f : f.call \in AllArcs /\ Room(m, f) => Room(r, f)
    BY <1>1, <2>1, RecordedKeeps
  <2>3. \A h \in AllArcs : CountsGrow(m, r, h, IF h = g THEN 1 ELSE 0)
    BY <1>1, <2>2, RecordsCount
  <2>4. m.need_init \in BOOLEAN /\ m.started \in Nat
    BY DEF Memory
  <2>5. r \in Memory /\ Linked(r) /\ Grows(m, r)
    BY <2>2, Zenon DEF Records
  <2> HIDE DEF r
  <2>6. QED
    BY <1>2, <2>2, <2>3, <2>4, <2>5 DEF r
<1>3. CASE Starts(m, g)
  <2> DEFINE p == Sbrk([m EXCEPT !.need_init = FALSE], HistRecords)
  <2> DEFINE q == Recorded(p, AlarmStart)
  <2> DEFINE s == [q EXCEPT !.started = @ + 1]
  <2> DEFINE fn == EntryOf(m, g)
  <2>1. /\ p \in Memory /\ p.entries = m.entries /\ p.need_init = FALSE /\ p.started = m.started
    <3> DEFINE z == [m EXCEPT !.need_init = FALSE]
    <3>1. z \in Memory /\ z.entries = m.entries /\ z.need_init = FALSE /\ z.started = m.started
      BY DEF Memory
    <3>2. HistRecords \in Nat
      BY ProfilerAssumption
    <3> HIDE DEF z
    <3>3. QED
      BY <3>1, <3>2, SbrkKeeps DEF z
  <2>2. r = AddArc(s, g, fn)
    BY <1>3 DEF Handled, Sampling
  <2>3. Linked(p)
    BY <2>1, SameEntries
  <2> HIDE DEF p, fn, r
  <2>4. /\ Records(p, q, AlarmStart) /\ q.need_init = FALSE /\ q.started = m.started
        /\ \A h \in AllArcs : AtMostTwo(p, h) => AtMostTwo(q, h)
        /\ \A f : f.call \in AllArcs /\ Room(p, f) => Room(q, f)
        /\ \A h \in AllArcs : h.self_pc # AlarmStart.self_pc => SameLists(p, q, h)
        /\ EntriesOf(p, AlarmStart) = {} =>
              \A c, d \in EntriesOf(q, AlarmStart) :
                 c = d /\ \A u \in SameFunction(AlarmStart) : Once(q, c, u)
        /\ EntriesOf(p, AlarmStart) # {} =>
              /\ EntriesOf(q, AlarmStart) = EntriesOf(p, AlarmStart)
              /\ \A u \in SameFunction(AlarmStart) \ {AlarmStart} : \A i \in EntriesOf(p, AlarmStart) :
                    Copies(q, i, u) = Copies(p, i, u)
    BY <1>1, <2>1, <2>3, RecordedKeeps
  <2> HIDE DEF q
  <2>5. q \in Memory /\ Linked(q) /\ Grows(p, q)
    BY <2>4, Zenon DEF Records
  <2>6. s \in Memory /\ s.entries = q.entries /\ s.need_init = FALSE /\ s.started = m.started + 1
    BY <2>4, <2>5 DEF Memory
  <2> HIDE DEF s
  <2>7. Linked(s)
    BY <2>5, <2>6, SameEntries
  <2>8. /\ fn = NULL <=> EntriesOf(m, g) = {}
        /\ fn # NULL => fn \in EntriesOf(m, g) /\ Copies(m, fn, g) = {}
    BY <1>1, <1>3, Lookups DEF Starts, Known, fn
  <2>9. /\ \A h : EntriesOf(p, h) = EntriesOf(m, h) /\ EntriesOf(s, h) = EntriesOf(q, h)
        /\ \A i, h : Copies(p, i, h) = Copies(m, i, h) /\ Copies(s, i, h) = Copies(q, i, h)
    BY <2>1, <2>6, SameEntries
  <2>10. EntriesOf(m, g) \subseteq EntriesOf(s, g)
    BY <1>1, <2>5, <2>9 DEF Grows
  <2>11. fn # NULL => fn \in EntriesOf(s, g)
    BY <2>8, <2>10
  <2>12. PICK e, k : /\ Grown(s, r, g, e, k)
                     /\ e = IF fn = NULL THEN Len(s.entries) + 1 ELSE fn
                     /\ r.need_init = s.need_init /\ r.started = s.started
    BY <1>1, <2>2, <2>6, <2>7, <2>11, AddArcGrows
  <2>13. e \in DOMAIN s.entries <=> fn # NULL
    <3>1. s.entries \in Seq(EntryRecord)
      BY <2>6 DEF Memory
    <3>2. fn = NULL => e \notin DOMAIN s.entries
      BY <2>12, <3>1
    <3>3. fn # NULL => e \in DOMAIN s.entries
      BY <2>11, <2>12 DEF EntriesOf
    <3>4. QED
      BY <3>2, <3>3
  <2>14. g \in SameFunction(g)
    BY <1>1 DEF SameFunction
  <2>15. ASSUME g.self_pc # AlarmStart.self_pc
         PROVE  Fresh(s, g, e)
    <3>1. SameLists(p, q, g)
      BY <1>1, <2>4, <2>15
    <3>2. EntriesOf(s, g) = EntriesOf(m, g) /\ \A i \in EntriesOf(m, g) : Copies(s, i, g) = Copies(m, i, g)
      BY <2>9, <2>14, <3>1 DEF SameLists
    <3>3. EntryOf(s, g) = fn
      BY <3>2 DEF EntryOf, fn
    <3>4. QED
      BY <2>8, <2>12, <2>13, <3>2, <3>3 DEF Fresh
  <2>16. ASSUME g.self_pc = AlarmStart.self_pc
         PROVE  Space(s, g, e)
    <3>1. /\ \A x : EntriesOf(x, g) = EntriesOf(x, AlarmStart)
          /\ SameFunction(g) = SameFunction(AlarmStart)
      BY <2>16 DEF EntriesOf, SameFunction
    <3>2. CASE fn = NULL
      <4>1. EntriesOf(p, AlarmStart) = {}
        BY <2>8, <2>9, <3>1, <3>2
      <4>2. \A c, d \in EntriesOf(q, AlarmStart) :
               c = d /\ \A u \in SameFunction(AlarmStart) : Once(q, c, u)
        BY <2>4, <4>1
      <4>3. \A c, u : Once(s, c, u) <=> Once(q, c, u)
        BY <2>9 DEF Once
      <4>4. \A c, d \in EntriesOf(s, g) : c = d /\ \A u \in SameFunction(g) : Once(s, c, u)
        BY <2>9, <3>1, <4>2, <4>3
      <4>5. QED
        BY <2>13, <3>2, <4>4 DEF Space
    <3>3. CASE fn # NULL
      <4>1. EntriesOf(p, AlarmStart) = EntriesOf(m, g) /\ EntriesOf(p, AlarmStart) # {}
        BY <2>8, <2>9, <3>1, <3>3
      <4>2. EntriesOf(s, g) = EntriesOf(m, g)
        BY <2>4, <2>9, <3>1, <4>1
      <4>3. Copies(s, fn, g) = {}
        <5>1. g \in SameFunction(AlarmStart) \ {AlarmStart}
          BY <1>1, <2>14, <3>1
        <5>2. fn \in EntriesOf(p, AlarmStart)
          BY <2>8, <3>3, <4>1
        <5>3. Copies(q, fn, g) = Copies(p, fn, g)
          BY <2>4, <5>1, <5>2
        <5>4. QED
          BY <2>8, <2>9, <3>3, <5>3
      <4>4. EntryOf(s, g) = fn
        BY <4>2 DEF EntryOf, fn
      <4>5. e = fn /\ e \in DOMAIN s.entries
        BY <2>12, <2>13, <3>3
      <4>6. Once(s, e, g)
        BY <4>3, <4>5 DEF Once
      <4>7. QED
        BY <4>4, <4>5, <4>6 DEF Space
    <3>4. QED
      BY <3>2, <3>3
  <2>17. Space(s, g, e)
    BY <2>15, <2>16, FreshHasSpace
  <2>18. Records(s, r, g)
    BY <1>1, <2>6, <2>12, GrownRecords
  <2>19. r \in Memory /\ Linked(r) /\ Grows(s, r)
    BY <2>18, Zenon DEF Records
  <2>20. Grows(m, r)
    <3>1. Grows(m, p) /\ Grows(q, s)
      <4>1. \A x \in Memory : \A h \in AllArcs : \A i \in EntriesOf(x, h) : \A j \in Copies(x, i, h) :
               CountOf(x, i, j) \in Nat
        BY Nodes
      <4>2. \A x, y \in Memory : y.entries = x.entries => Grows(x, y)
        <5>1. ASSUME NEW x \in Memory, NEW y \in Memory, y.entries = x.entries PROVE Grows(x, y)
          <6>1. /\ \A h : EntriesOf(y, h) = EntriesOf(x, h)
                /\ \A i, h : Copies(y, i, h) = Copies(x, i, h)
                /\ \A i, j : CountOf(y, i, j) = CountOf(x, i, j)
            BY <5>1, SameEntries
          <6>2. QED
            BY <4>1, <6>1 DEF Grows
        <5>2. QED
          BY <5>1
      <4>3. QED
        BY <2>1, <2>5, <2>6, <4>2
    <3>2. Grows(m, q)
      BY <2>1, <2>5, <3>1, GrowsOn
    <3>3. Grows(m, s)
      BY <2>5, <2>6, <3>1, <3>2, GrowsOn
    <3>4. QED
      BY <2>6, <2>19, <3>3, GrowsOn
  <2>21. ASSUME NEW h \in AllArcs
         PROVE  CountsGrow(m, r, h, IF h = g \/ h = AlarmStart THEN 1 ELSE 0)
    <3>1. CountsGrow(p, q, h, IF h = AlarmStart THEN 1 ELSE 0)
      BY <1>1, <2>4, RecordsCount
    <3>2. CountsGrow(s, r, h, IF h = g THEN 1 ELSE 0)
      BY <1>1, <2>18, RecordsCount
    <3>3. Counts(p, h) = Counts(m, h) /\ Counts(s, h) = Counts(q, h)
      BY <2>1, <2>6, SameEntries
    <3>4. \A S : IsFiniteSet(S) => Cardinality(S) \in Nat
      BY FS_CardinalityType
    <3>5. QED
      BY <1>1, <3>1, <3>2, <3>3, <3>4 DEF CountsGrow
  <2>22. ASSUME NEW h \in AllArcs, AtMostTwo(m, h) PROVE AtMostTwo(r, h)
    <3>1. AtMostTwo(s, h)
      <4>1. AtMostTwo(p, h)
        BY <2>1, <2>22, SameEntries
      <4>2. AtMostTwo(q, h)
        BY <2>4, <4>1
      <4>3. QED
        BY <2>6, <4>2, SameEntries
    <3>2. CASE h.self_pc = g.self_pc
      <4>1. h \in SameFunction(g)
        BY <3>2 DEF SameFunction
      <4>2. QED
        BY <1>1, <2>6, <2>12, <2>17, <3>1, <4>1, SpaceKeepsFew
    <3>3. CASE h.self_pc # g.self_pc
      <4>1. SameLists(s, r, h)
        BY <1>1, <2>6, <2>12, <3>3, GrownElsewhere
      <4>2. QED
        BY <2>6, <3>1, <4>1, ListsDecide
    <3>4. QED
      BY <3>2, <3>3
  <2>23. ASSUME NEW f, f.call \in AllArcs, Room(m, f), f.call.self_pc # AlarmStart.self_pc
         PROVE  Room(r, f)
    <3>1. Room(s, f)
      <4>1. Room(p, f)
        BY <2>1, <2>23, SameEntries
      <4>2. Room(q, f)
        BY <2>4, <2>23, <4>1
      <4>3. QED
        BY <2>6, <4>2, SameEntries
    <3>2. CASE f.call.self_pc = g.self_pc
      <4>1. Fresh(s, g, e)
        BY <2>15, <2>23, <3>2
      <4>2. QED
        BY <1>1, <2>6, <2>12, <2>23, <3>1, <3>2, <4>1, FreshKeepsRoom
    <3>3. CASE f.call.self_pc # g.self_pc
      <4>1. SameLists(s, r, f.call)
        BY <1>1, <2>6, <2>12, <2>23, <3>3, GrownElsewhere
      <4>2. QED
        BY <2>6, <2>23, <3>1, <4>1, ListsDecide
    <3>4. QED
      BY <3>2, <3>3
  <2>24. r.need_init = FALSE /\ r.started = m.started + 1 /\ m.need_init \in BOOLEAN
    BY <2>6, <2>12 DEF Memory
  <2>25. QED
    BY <1>3, <2>19, <2>20, <2>21, <2>22, <2>23, <2>24 DEF r
<1>4. QED
  BY <1>2, <1>3

FrameRecord == [pc : Pcs, call : AllArcs, fn_entry : Nat, arc : Nat, count : Nat]
Below == {stack[i] : i \in 1 .. Len(stack) - 1}

\* The running call and the one below it.
LEMMA TopOf ==
    ASSUME ProfilerTypes, stack # <<>>
    PROVE  /\ top \in FrameRecord /\ Len(stack) \in {1, 2} /\ stack \in Seq(FrameRecord)
           /\ Frames = Below \cup {top} /\ Below \subseteq FrameRecord
           /\ Len(stack) = 1 => Below = {}
           /\ Len(stack) = 2 => Below = {stack[1]}
<1>1. stack \in Seq(FrameRecord) /\ Len(stack) <= 2
  BY DEF ProfilerTypes, FrameRecord
<1>2. Len(stack) \in {1, 2} /\ DOMAIN stack = 1 .. Len(stack)
  <2>1. Len(stack) \in Nat \ {0}
    BY <1>1, EmptySeq
  <2>2. Len(stack) \in {1, 2}
    <3>1. \A n \in Nat \ {0} : n <= 2 => n \in {1, 2}
      OBVIOUS
    <3>2. QED
      BY <1>1, <2>1, <3>1, Zenon
  <2>3. DOMAIN stack = 1 .. Len(stack)
    BY <1>1, LenProperties
  <2>4. QED
    BY <2>2, <2>3
<1> HIDE DEF FrameRecord
<1>3. top \in FrameRecord /\ \A i \in 1 .. Len(stack) : stack[i] \in FrameRecord
  BY <1>1, <1>2 DEF top
<1>4. Frames = Below \cup {top} /\ Below \subseteq FrameRecord
  BY <1>2, <1>3 DEF Frames, Below, top
<1>5. Len(stack) = 1 => Below = {}
  BY DEF Below
<1>6. Len(stack) = 2 => Below = {stack[1]}
  BY DEF Below
<1>7. QED
  BY <1>1, <1>2, <1>3, <1>4, <1>5, <1>6

\* The running call goes on.
LEMMA GotoStack ==
    ASSUME ProfilerTypes, stack # <<>>, NEW f \in FrameRecord, Goto(f)
    PROVE  /\ stack' \in Seq(FrameRecord) /\ Len(stack') = Len(stack) /\ stack' # <<>>
           /\ top' = f /\ Frames' = Below \cup {f}
           /\ stack'[1] = IF Len(stack) = 1 THEN f ELSE stack[1]
<1>1. /\ Len(stack) \in {1, 2} /\ stack \in Seq(FrameRecord)
      /\ Len(stack) = 1 => Below = {}
      /\ Len(stack) = 2 => Below = {stack[1]}
  BY TopOf
<1>2. stack' = [stack EXCEPT ![Len(stack)] = f]
  BY DEF Goto
<1> HIDE DEF FrameRecord
<1>3. /\ stack' \in Seq(FrameRecord) /\ Len(stack') = Len(stack) /\ DOMAIN stack' = 1 .. Len(stack)
      /\ stack'[Len(stack)] = f /\ \A i \in 1 .. Len(stack) : i # Len(stack) => stack'[i] = stack[i]
  BY <1>1, <1>2, SMTT(60)
<1>4. top' = f
  BY <1>3 DEF top
<1>5. Frames' = {stack'[i] : i \in 1 .. Len(stack)}
  BY <1>3 DEF Frames
<1>6. CASE Len(stack) = 1
  <2>1. Frames' = {f}
    BY <1>3, <1>5, <1>6
  <2>2. QED
    BY <1>1, <1>3, <1>4, <1>6, <2>1
<1>7. CASE Len(stack) = 2
  <2>1. stack'[1] = stack[1] /\ stack'[2] = f
    BY <1>3, <1>7
  <2>2. Frames' = {stack[1], f}
    BY <1>5, <1>7, <2>1
  <2>3. QED
    BY <1>1, <1>3, <1>4, <1>7, <2>1, <2>2
<1>8. QED
  BY <1>1, <1>6, <1>7

\* The running call is through.
LEMMA ReturnStack ==
    ASSUME ProfilerTypes, stack # <<>>, stack' = Front(stack)
    PROVE  /\ stack' \in Seq(FrameRecord) /\ Len(stack') = Len(stack) - 1 /\ Frames' = Below
           /\ stack' # <<>> => Len(stack) = 2 /\ stack'[1] = stack[1] /\ top' = stack[1]
<1>1. /\ Len(stack) \in {1, 2} /\ stack \in Seq(FrameRecord)
      /\ Len(stack) = 1 => Below = {}
      /\ Len(stack) = 2 => Below = {stack[1]}
  BY TopOf
<1>2. stack' = SubSeq(stack, 1, Len(stack) - 1)
  BY DEF Front
<1> HIDE DEF FrameRecord
<1>3. /\ stack' \in Seq(FrameRecord) /\ Len(stack') = Len(stack) - 1
      /\ \A i \in 1 .. Len(stack) - 1 : stack'[i] = stack[i]
  <2>1. \A i \in 1 .. Len(stack) - 1 : stack[i] \in FrameRecord
    BY <1>1
  <2> DEFINE n == Len(stack) - 1
  <2>2. n \in Int /\ 1 \in Int
    BY <1>1
  <2> HIDE DEF n
  <2>3. \A i \in 1 .. n : stack[i] \in FrameRecord
    BY <2>1 DEF n
  <2>4. /\ SubSeq(stack, 1, n) \in Seq(FrameRecord)
        /\ Len(SubSeq(stack, 1, n)) = IF 1 <= n THEN n - 1 + 1 ELSE 0
        /\ \A i \in 1 .. n - 1 + 1 : SubSeq(stack, 1, n)[i] = stack[1 + i - 1]
    BY <2>2, <2>3, SubSeqProperties
  <2>5. stack' = SubSeq(stack, 1, n)
    BY <1>2 DEF n
  <2>6. Len(stack') = n /\ \A i \in 1 .. n : stack'[i] = stack[i]
    <3>1. n \in {0, 1}
      BY <1>1 DEF n
    <3>2. Len(stack') = n
      BY <2>4, <2>5, <3>1
    <3>3. ASSUME NEW i \in 1 .. n PROVE stack'[i] = stack[i]
      <4>1. i \in 1 .. n - 1 + 1 /\ 1 + i - 1 = i
        BY <3>1
      <4>2. QED
        BY <2>4, <2>5, <4>1
    <3>4. QED
      BY <3>2, <3>3
  <2>7. QED
    BY <2>4, <2>5, <2>6 DEF n
<1>4. Frames' = {stack'[i] : i \in 1 .. Len(stack) - 1}
  BY <1>1, <1>3 DEF Frames
<1>5. CASE Len(stack) = 1
  <2>1. Frames' = {} /\ stack' = <<>>
    BY <1>3, <1>4, <1>5
  <2>2. QED
    BY <1>1, <1>3, <1>5, <2>1
<1>6. CASE Len(stack) = 2
  <2>1. stack'[1] = stack[1] /\ Frames' = {stack[1]}
    BY <1>3, <1>4, <1>6
  <2>2. top' = stack[1]
    BY <1>3, <1>6, <2>1 DEF top
  <2>3. QED
    BY <1>1, <1>3, <1>6, <2>1, <2>2
<1>7. QED
  BY <1>1, <1>5, <1>6

\* Nobody in mcount.
LEMMA EmptyStack ==
    ASSUME stack = <<>>
    PROVE  Frames = {} /\ Undone = {}
  BY DEF Frames, Undone

\* What the call f will undo.
UndoneBy(m, f) ==
    IF f.pc = "store" THEN {<<f.fn_entry, f.arc, n>> : n \in f.count + 1 .. CountOf(m, f.fn_entry, f.arc)}
    ELSE {}

\* It is the running one.
LEMMA UndoneIs == stack # <<>> => Undone = UndoneBy(mem, top)
  BY DEF Undone, UndoneBy, CountOf

\* The globals of the two kinds.
LEMMA GlobalsMemory ==
    ASSUME NEW m
    PROVE  m \in Globals <=> m \in Memory /\ m.started \in 0 .. 2
  BY DEF Globals, Memory, EntryRecord, ArcRecord

\* Of an interrupted function there are few entries and copies.
LEMMA FewFromTwo ==
    ASSUME NEW m \in Memory, NEW h \in AllArcs, AtMostTwo(m, h)
    PROVE  /\ Cardinality(EntriesOf(m, h)) <= 2
           /\ \A e \in EntriesOf(m, h) :
                 Cardinality(Copies(m, e, h)) <= IF e = EntryOf(m, h) THEN 2 ELSE 1
<1>1. /\ \A c, d, i \in EntriesOf(m, h) : ~(c < d /\ d < i)
      /\ \A d, i \in EntriesOf(m, h) : d < i => Once(m, d, h)
      /\ \A i \in EntriesOf(m, h) : \A x, y, z \in Copies(m, i, h) : ~(x < y /\ y < z)
  BY Zenon DEF AtMostTwo
<1>2. EntriesOf(m, h) \in SUBSET Nat
  BY Nodes
<1>3. Cardinality(EntriesOf(m, h)) <= 2
  BY <1>1, <1>2, TwoElements
<1>4. ASSUME NEW e \in EntriesOf(m, h)
      PROVE  Cardinality(Copies(m, e, h)) <= IF e = EntryOf(m, h) THEN 2 ELSE 1
  <2>1. Copies(m, e, h) \in SUBSET Nat
    BY Nodes
  <2>2. CASE e = EntryOf(m, h)
    BY <1>1, <2>1, <2>2, TwoElements
  <2>3. CASE e # EntryOf(m, h)
    <3>1. EntryOf(m, h) \in EntriesOf(m, h) /\ e < EntryOf(m, h)
      BY <1>2, <2>3, Lookups
    <3>2. \A x, y \in Copies(m, e, h) : x = y
      BY <1>1, <3>1 DEF Once
    <3>3. QED
      BY <2>3, <3>2, OneElement
  <2>4. QED
    BY <2>2, <2>3
<1>5. QED
  BY <1>3, <1>4

-----------------------------------------------------------------------------
(* Profiling: the steps.                                                    *)

InAlarm == {"entry", "arc", "load", "store", "record", "add"}

\* The invariant, in the terms of the lemmas.
LEMMA InvSays ==
    ASSUME ProfilerInv
    PROVE  /\ ProfilerTypes /\ mem \in Memory /\ mem.started \in 0 .. 2 /\ Linked(mem)
           /\ mainCalls \in [AllArcs -> Nat] /\ irqCalls \in [AllArcs -> Nat]
           /\ timer \in BOOLEAN /\ recorded \in BOOLEAN
           /\ \A h \in OneAtATime : AtMostTwo(mem, h)
           /\ \A f \in Frames : FrameInv(mem, f)
           /\ \A f \in Frames : f.call \in OneAtATime /\ f.pc # "entry" => Room(mem, f)
           /\ \A h \in AllArcs :
                 /\ IsFiniteSet(Counts(mem, h))
                 /\ mainCalls[h] <= Cardinality(Counts(mem, h) \ Undone)
                 /\ Cardinality(Counts(mem, h)) <= mainCalls[h] + irqCalls[h]
           /\ stack # <<>> => stack[1].call \in Arcs
           /\ Len(stack) = 2 =>
                 /\ stack[1].pc = "start" /\ ~mem.need_init
                 /\ top.call = AlarmStart /\ top.pc \in InAlarm
           /\ SamplerInv /\ OneAtATime \subseteq AllArcs
<1>1. /\ ProfilerTypes /\ AtLeastOneArc /\ StackInv /\ (\A f \in Frames : FrameInv(mem, f))
      /\ SamplerInv /\ CopiesInv /\ CountInv
  BY DEF ProfilerInv
<1>2. mem \in Globals /\ mainCalls \in [AllArcs -> Nat] /\ irqCalls \in [AllArcs -> Nat]
      /\ timer \in BOOLEAN /\ recorded \in BOOLEAN
  BY <1>1 DEF ProfilerTypes
<1>3. mem \in Memory /\ mem.started \in 0 .. 2
  BY <1>2, GlobalsMemory
<1>4. Linked(mem)
  BY <1>1 DEF AtLeastOneArc, Linked
<1>5. /\ \A h \in OneAtATime : AtMostTwo(mem, h)
      /\ \A f \in Frames : f.call \in OneAtATime /\ f.pc # "entry" => Room(mem, f)
  BY <1>1 DEF CopiesInv
<1>6. \A h \in AllArcs :
          /\ IsFiniteSet(Counts(mem, h))
          /\ mainCalls[h] <= Cardinality(Counts(mem, h) \ Undone)
          /\ Cardinality(Counts(mem, h)) <= mainCalls[h] + irqCalls[h]
  BY <1>1 DEF CountInv
<1>7. /\ stack # <<>> => stack[1].call \in Arcs
      /\ Len(stack) = 2 =>
            /\ stack[1].pc = "start" /\ ~mem.need_init
            /\ top.call = AlarmStart /\ top.pc \in InAlarm
  BY <1>1 DEF StackInv, top, InAlarm
<1>8. OneAtATime \subseteq AllArcs
  BY DEF OneAtATime
<1>9. QED
  BY <1>1, <1>2, <1>3, <1>4, <1>5, <1>6, <1>7, <1>8

\* What has to be shown of a step.
LEMMA InvHolds ==
    ASSUME ProfilerTypes', Linked(mem'), StackInv', SamplerInv', CountInv',
           \A f \in Frames' : FrameInv(mem', f),
           \A h \in OneAtATime : AtMostTwo(mem', h),
           \A f \in Frames' : f.call \in OneAtATime /\ f.pc # "entry" => Room(mem', f)
    PROVE  ProfilerInv'
<1>1. AtLeastOneArc'
  BY DEF AtLeastOneArc, Linked
<1>2. CopiesInv'
  BY DEF CopiesInv
<1>3. mem' \in Memory
  BY GlobalsMemory DEF ProfilerTypes
<1>4. FewCopies'
  <2>1. ASSUME NEW h \in OneAtATime
        PROVE  /\ Cardinality(EntriesOf(mem', h)) <= 2
               /\ \A e \in EntriesOf(mem', h) :
                     Cardinality(Copies(mem', e, h)) <= IF e = EntryOf(mem', h) THEN 2 ELSE 1
    <3>1. h \in AllArcs /\ AtMostTwo(mem', h)
      BY DEF OneAtATime
    <3>2. QED
      BY <1>3, <3>1, FewFromTwo
  <2>2. QED
    BY <2>1 DEF FewCopies
<1>5. QED
  BY <1>1, <1>2, <1>4 DEF ProfilerInv

\* The running call goes on, without touching the lists.
LEMMA GoesOn ==
    ASSUME ProfilerInv, stack # <<>>, NEW f \in FrameRecord, Goto(f), f.call = top.call,
           top.pc # "store", mem' \in Globals, mem'.entries = mem.entries,
           UNCHANGED <<timer, history>>, FrameInv(mem, f),
           f.pc = "store" => f.count = CountOf(mem, f.fn_entry, f.arc),
           f.call \in OneAtATime => Room(mem, f),
           Len(stack) = 2 => ~mem'.need_init /\ f.pc \in InAlarm,
           SamplerInv'
    PROVE  ProfilerInv'
<1>1. /\ top \in FrameRecord /\ Len(stack) \in {1, 2} /\ Frames = Below \cup {top}
      /\ Below \subseteq FrameRecord
  BY InvSays, TopOf
<1>2. /\ stack' \in Seq(FrameRecord) /\ Len(stack') = Len(stack) /\ stack' # <<>>
      /\ top' = f /\ Frames' = Below \cup {f}
      /\ stack'[1] = IF Len(stack) = 1 THEN f ELSE stack[1]
  BY InvSays, GotoStack
<1>3. timer' = timer /\ mainCalls' = mainCalls /\ irqCalls' = irqCalls /\ recorded' = recorded
  BY DEF history
<1>4. ProfilerTypes'
  BY <1>1, <1>2, <1>3, InvSays DEF ProfilerTypes, FrameRecord
<1>5. Linked(mem')
  BY InvSays, SameEntries
<1>6. StackInv'
  <2>1. CASE Len(stack) = 1
    <3>1. stack'[1].call \in Arcs
      BY <1>2, <2>1, InvSays DEF top
    <3>2. QED
      BY <1>2, <2>1, <3>1 DEF StackInv
  <2>2. CASE Len(stack) = 2
    <3>1. stack'[1] = stack[1] /\ stack'[2] = f
      BY <1>2, <2>2 DEF top
    <3>2. QED
      BY <1>2, <2>2, <3>1, InvSays DEF StackInv, InAlarm
  <2>3. QED
    BY <1>1, <2>1, <2>2
<1>7. \A g \in Frames' : FrameInv(mem', g)
  <2>1. \A g \in Frames' : FrameInv(mem, g)
    BY <1>1, <1>2, InvSays
  <2>2. QED
    BY <2>1, SameEntries
<1>8. /\ \A h \in OneAtATime : AtMostTwo(mem', h)
      /\ \A g \in Frames' : g.call \in OneAtATime /\ g.pc # "entry" => Room(mem', g)
  <2>1. \A g \in Frames' : g.call \in OneAtATime /\ g.pc # "entry" => Room(mem, g)
    BY <1>1, <1>2, InvSays
  <2>2. QED
    BY <2>1, InvSays, SameEntries
<1>9. CountInv'
  <2>1. Undone = {}
    BY DEF Undone
  <2>2. \A e, k : CountOf(mem', e, k) = CountOf(mem, e, k)
    BY SameEntries
  <2>3. Undone' = {}
    <3>1. CASE f.pc # "store"
      BY <1>2, <3>1 DEF Undone
    <3>2. CASE f.pc = "store"
      <4>1. Undone' = {<<f.fn_entry, f.arc, n>> :
                         n \in f.count + 1 .. CountOf(mem', f.fn_entry, f.arc)}
        BY <1>2, <3>2 DEF Undone, CountOf
      <4>2. f.count \in Nat /\ CountOf(mem', f.fn_entry, f.arc) = f.count
        BY <2>2, <3>2 DEF FrameRecord
      <4>3. f.count + 1 .. f.count = {}
        BY <4>2
      <4>4. QED
        BY <4>1, <4>2, <4>3
    <3>3. QED
      BY <3>1, <3>2
  <2>4. \A h : Counts(mem', h) = Counts(mem, h)
    BY SameEntries
  <2>5. QED
    BY <1>3, <2>1, <2>3, <2>4, InvSays DEF CountInv
<1>10. QED
  BY <1>4, <1>5, <1>6, <1>7, <1>8, <1>9, InvHolds

\* The step of a call that has nothing to do with the sampler.
LEMMA SamplerLeft ==
    ASSUME ProfilerInv, stack # <<>>, NEW f, Frames' = Below \cup {f},
           UNCHANGED <<mem, timer, history>>,
           top.pc \in {"entry", "arc", "load", "record"}, f.pc \in {"arc", "load", "store", "record"}
    PROVE  SamplerInv'
<1>1. Frames = Below \cup {top} /\ SamplerInv
  BY InvSays, TopOf
<1>2. mem' = mem /\ timer' = timer /\ recorded' = recorded
  BY DEF history
<1>3. Starting' <=> Starting
  BY <1>1 DEF Starting
<1>4. (\E g \in Frames : g.pc = "stopped") <=> (\E g \in Frames' : g.pc = "stopped")
  BY <1>1
<1>5. \A g \in Frames' : g \in Frames \/ g.pc \in {"arc", "load", "store", "record"}
  BY <1>1
<1>6. QED
  BY <1>1, <1>2, <1>3, <1>4, <1>5 DEF SamplerInv

\* mcount looks for the function.
LEMMA FindEntryKeeps ==
    ASSUME ProfilerInv, FindEntry
    PROVE  ProfilerInv'
<1> DEFINE e == EntryOf(mem, top.call)
<1> DEFINE f == [top EXCEPT !.fn_entry = e, !.pc = IF e = NULL THEN "record" ELSE "arc"]
<1>1. stack # <<>> /\ top.pc = "entry" /\ Goto(f) /\ UNCHANGED <<mem, timer, history>>
  BY DEF FindEntry, At
<1>2. top \in FrameRecord /\ Frames = Below \cup {top}
  BY <1>1, InvSays, TopOf
<1>3. top.call \in AllArcs
  BY <1>2 DEF FrameRecord
<1>4. /\ e = NULL => EntriesOf(mem, top.call) = {}
      /\ e # NULL => e \in EntriesOf(mem, top.call)
      /\ e \in Nat
  <2>1. /\ e = NULL => EntriesOf(mem, top.call) = {}
        /\ e # NULL => e \in EntriesOf(mem, top.call)
    BY <1>3, InvSays, Lookups
  <2>2. EntriesOf(mem, top.call) \subseteq Nat
    BY <1>3, InvSays, Nodes
  <2>3. QED
    BY <2>1, <2>2 DEF NULL
<1>5. /\ f \in FrameRecord /\ f.call = top.call /\ f.fn_entry = e
      /\ f.pc = IF e = NULL THEN "record" ELSE "arc"
  BY <1>2, <1>4 DEF FrameRecord, Pcs
<1>6. e = EntryOf(mem, top.call)
  OBVIOUS
<1> HIDE DEF f, e
<1>7. FrameInv(mem, f)
  BY <1>4, <1>5 DEF FrameInv
<1>8. Room(mem, f)
  BY <1>4, <1>5, <1>6 DEF Room
<1>9. SamplerInv'
  BY <1>1, <1>5, InvSays, GotoStack, SamplerLeft
<1>10. mem' \in Globals /\ mem'.entries = mem.entries /\ mem'.need_init = mem.need_init
  BY <1>1 DEF ProfilerInv, ProfilerTypes
<1>11. QED
  BY <1>1, <1>5, <1>7, <1>8, <1>9, <1>10, InvSays, GoesOn DEF InAlarm

\* It looks for the arc.
LEMMA FindArcKeeps ==
    ASSUME ProfilerInv, FindArc
    PROVE  ProfilerInv'
<1> DEFINE k == ArcOf(mem, top.fn_entry, top.call)
<1> DEFINE f == [top EXCEPT !.arc = k, !.pc = IF k = NULL THEN "record" ELSE "load"]
<1>1. stack # <<>> /\ top.pc = "arc" /\ Goto(f) /\ UNCHANGED <<mem, timer, history>>
  BY DEF FindArc, At
<1>2. top \in FrameRecord /\ top \in Frames
  BY <1>1, InvSays, TopOf
<1>3. top.call \in AllArcs
  BY <1>2 DEF FrameRecord
<1>4. top.fn_entry # NULL /\ top.fn_entry \in EntriesOf(mem, top.call)
  BY <1>1, <1>2, InvSays DEF FrameInv
<1>5. /\ k = NULL => Copies(mem, top.fn_entry, top.call) = {}
      /\ k # NULL => k \in Copies(mem, top.fn_entry, top.call)
      /\ k \in Nat
  <2>1. /\ k = NULL => Copies(mem, top.fn_entry, top.call) = {}
        /\ k # NULL => k \in Copies(mem, top.fn_entry, top.call)
    BY <1>3, <1>4, InvSays, Lookups
  <2>2. Copies(mem, top.fn_entry, top.call) \subseteq Nat
    BY <1>3, <1>4, InvSays, Nodes
  <2>3. QED
    BY <2>1, <2>2 DEF NULL
<1>6. /\ f \in FrameRecord /\ f.call = top.call /\ f.fn_entry = top.fn_entry /\ f.arc = k
      /\ f.pc = IF k = NULL THEN "record" ELSE "load"
  BY <1>2, <1>5 DEF FrameRecord, Pcs
<1> HIDE DEF f, k
<1>7. FrameInv(mem, f)
  BY <1>4, <1>5, <1>6 DEF FrameInv
<1>8. top.call \in OneAtATime => Room(mem, f)
  <2>1. top.call \in OneAtATime => top.fn_entry = EntryOf(mem, top.call)
    BY <1>1, <1>2, <1>4, InvSays DEF Room
  <2>2. QED
    BY <1>4, <1>5, <1>6, <2>1 DEF Room, Once
<1>9. SamplerInv'
  BY <1>1, <1>6, InvSays, GotoStack, SamplerLeft
<1>10. mem' \in Globals /\ mem'.entries = mem.entries /\ mem'.need_init = mem.need_init
  BY <1>1 DEF ProfilerInv, ProfilerTypes
<1>11. QED
  BY <1>1, <1>6, <1>7, <1>8, <1>9, <1>10, InvSays, GoesOn DEF InAlarm

\* It loads the arc's count.
LEMMA LoadCountKeeps ==
    ASSUME ProfilerInv, LoadCount
    PROVE  ProfilerInv'
<1> DEFINE n == CountOf(mem, top.fn_entry, top.arc)
<1> DEFINE f == [top EXCEPT !.count = n, !.pc = "store"]
<1>1. stack # <<>> /\ top.pc = "load" /\ Goto(f) /\ UNCHANGED <<mem, timer, history>>
  BY DEF LoadCount, At, CountOf
<1>2. top \in FrameRecord /\ top \in Frames
  BY <1>1, InvSays, TopOf
<1>3. top.call \in AllArcs
  BY <1>2 DEF FrameRecord
<1>4. /\ top.fn_entry # NULL /\ top.fn_entry \in EntriesOf(mem, top.call)
      /\ top.arc \in Copies(mem, top.fn_entry, top.call)
  BY <1>1, <1>2, InvSays DEF FrameInv
<1>5. n \in Nat
  BY <1>3, <1>4, InvSays, Nodes
<1>6. /\ f \in FrameRecord /\ f.call = top.call /\ f.fn_entry = top.fn_entry /\ f.arc = top.arc
      /\ f.pc = "store" /\ f.count = n
  BY <1>2, <1>5 DEF FrameRecord, Pcs
<1> HIDE DEF f
<1>7. FrameInv(mem, f)
  BY <1>4, <1>5, <1>6 DEF FrameInv, CountOf
<1>8. top.call \in OneAtATime => Room(mem, f)
  <2>1. top.call \in OneAtATime => top.fn_entry = EntryOf(mem, top.call)
    BY <1>1, <1>2, <1>4, InvSays DEF Room
  <2>2. QED
    BY <1>4, <1>6, <2>1 DEF Room
<1>9. SamplerInv'
  BY <1>1, <1>6, InvSays, GotoStack, SamplerLeft
<1>10. mem' \in Globals /\ mem'.entries = mem.entries /\ mem'.need_init = mem.need_init
  BY <1>1 DEF ProfilerInv, ProfilerTypes
<1>11. f.pc = "store" => f.count = CountOf(mem, f.fn_entry, f.arc)
  BY <1>6
<1>12. QED
  BY <1>1, <1>6, <1>7, <1>8, <1>9, <1>10, <1>11, InvSays, GoesOn DEF InAlarm

Finding == {"entry", "arc", "load", "store"}

\* What the step of the call that starts the sampler leaves.
LEMMA PcMoved ==
    ASSUME ProfilerInv, stack # <<>>, NEW p \in Pcs, Goto([top EXCEPT !.pc = p]),
           top.pc \notin Finding, p \notin Finding, mem' \in Globals, mem'.entries = mem.entries,
           UNCHANGED <<timer, history>>,
           Len(stack) = 2 => ~mem'.need_init /\ p \in InAlarm
    PROVE  /\ SamplerInv' => ProfilerInv'
           /\ Frames = Below \cup {top}
           /\ Len(stack) = 1 => Below = {}
           /\ \E f : f.pc = p /\ Frames' = Below \cup {f}
<1> DEFINE f == [top EXCEPT !.pc = p]
<1>1. /\ top \in FrameRecord /\ Frames = Below \cup {top} /\ (Len(stack) = 1 => Below = {})
      /\ top \in Frames
  BY InvSays, TopOf
<1>2. /\ f \in FrameRecord /\ f.call = top.call /\ f.fn_entry = top.fn_entry /\ f.arc = top.arc
      /\ f.count = top.count /\ f.pc = p
  BY <1>1 DEF FrameRecord
<1>3. Goto(f)
  OBVIOUS
<1> HIDE DEF f
<1>4. FrameInv(mem, f)
  <2>1. FrameInv(mem, top)
    BY <1>1, InvSays
  <2>2. QED
    BY <1>2, <2>1 DEF FrameInv, Finding
<1>5. f.call \in OneAtATime => Room(mem, f)
  <2>1. f.call \in OneAtATime => Room(mem, top)
    BY <1>1, <1>2, InvSays DEF Finding
  <2>2. top.pc \notin {"arc", "load", "store"} /\ f.pc \notin {"arc", "load", "store"}
    BY <1>2 DEF Finding
  <2>3. Room(mem, top) => Room(mem, f)
    BY <1>2, <2>2 DEF Room
  <2>4. QED
    BY <2>1, <2>3
<1>6. top.pc # "store" /\ f.pc # "store"
  BY <1>2 DEF Finding
<1>7. Frames' = Below \cup {f}
  BY <1>2, <1>3, InvSays, GotoStack
<1>8. SamplerInv' => ProfilerInv'
  BY <1>2, <1>3, <1>4, <1>5, <1>6, GoesOn
<1>9. QED
  BY <1>1, <1>2, <1>7, <1>8

\* __mcount_record tests pcsample_need_init.
LEMMA TestInitKeeps ==
    ASSUME ProfilerInv, TestInit
    PROVE  ProfilerInv'
<1> DEFINE p == IF mem.need_init THEN "clear" ELSE "add"
<1>1. /\ stack # <<>> /\ top.pc = "record" /\ Goto([top EXCEPT !.pc = p])
      /\ mem' = mem /\ timer' = timer /\ recorded' = recorded /\ UNCHANGED <<timer, history>>
  BY DEF TestInit, At, history
<1>2. p \in Pcs /\ p \notin Finding
  BY DEF Pcs, Finding
<1>3. mem \in Globals /\ SamplerInv
  BY InvSays, GlobalsMemory
<1>4. Len(stack) = 2 => ~mem.need_init /\ p \in InAlarm
  BY InvSays DEF InAlarm
<1> HIDE DEF p
<1>5. top.pc \notin Finding
  BY <1>1 DEF Finding
<1>6. /\ SamplerInv' => ProfilerInv'
      /\ Frames = Below \cup {top}
      /\ \E f : f.pc = p /\ Frames' = Below \cup {f}
  BY <1>1, <1>2, <1>3, <1>4, <1>5, PcMoved
<1>7. PICK f : f.pc = p /\ Frames' = Below \cup {f}
  BY <1>6
<1>8. Starting' <=> Starting
  BY <1>1, <1>6, <1>7 DEF Starting, p
<1>9. (\E g \in Frames : g.pc = "stopped") <=> (\E g \in Frames' : g.pc = "stopped")
  BY <1>1, <1>6, <1>7 DEF p
<1>10. SamplerInv'
  <2>1. \A g \in Frames' : g \in Frames \/ g.pc = p
    BY <1>6, <1>7
  <2>2. p = "clear" => mem.started = 0
    BY <1>3 DEF SamplerInv, p
  <2>3. p = "add" => ~timer \/ mem.started > 0 \/ Starting
    BY <1>3 DEF SamplerInv, p
  <2>4. p = "clear" \/ p = "add"
    BY DEF p
  <2>5. QED
    BY <1>1, <1>3, <1>8, <1>9, <2>1, <2>2, <2>3, <2>4 DEF SamplerInv
<1>11. QED
  BY <1>6, <1>10

\* It clears it.
LEMMA ClearInitKeeps ==
    ASSUME ProfilerInv, ClearInit
    PROVE  ProfilerInv'
<1> DEFINE p == IF timer THEN "histogram" ELSE "stopped"
<1>1. /\ stack # <<>> /\ top.pc = "clear" /\ Goto([top EXCEPT !.pc = p])
      /\ mem' = [mem EXCEPT !.need_init = FALSE]
      /\ timer' = timer /\ recorded' = recorded /\ UNCHANGED <<timer, history>>
  BY DEF ClearInit, At, history
<1>2. p \in Pcs /\ p \notin Finding
  BY DEF Pcs, Finding
<1>3. mem \in Globals /\ SamplerInv
  BY InvSays, GlobalsMemory
<1>4. /\ mem' \in Globals /\ mem'.entries = mem.entries
      /\ mem'.need_init = FALSE /\ mem'.started = mem.started /\ mem.started \in 0 .. 2
  BY <1>1, <1>3 DEF Globals
<1>5. Len(stack) = 1
  BY <1>1, InvSays, TopOf DEF InAlarm
<1>6. top.pc \notin Finding
  BY <1>1 DEF Finding
<1> HIDE DEF p
<1>7. /\ SamplerInv' => ProfilerInv'
      /\ Frames = Below \cup {top} /\ Below = {}
      /\ \E f : f.pc = p /\ Frames' = Below \cup {f}
  <2>1. Len(stack) = 2 => ~mem'.need_init /\ p \in InAlarm
    BY <1>5
  <2>2. /\ SamplerInv' => ProfilerInv'
        /\ Frames = Below \cup {top}
        /\ Len(stack) = 1 => Below = {}
        /\ \E f : f.pc = p /\ Frames' = Below \cup {f}
    BY <1>1, <1>2, <1>4, <1>6, <2>1, PcMoved
  <2>3. QED
    BY <1>5, <2>2
<1>8. PICK f : f.pc = p /\ Frames' = {f}
  BY <1>7
<1>9. Frames = {top}
  BY <1>7
<1>10. /\ mem.started <= 1 /\ ~Starting /\ (mem.started > 0 => timer)
       /\ recorded => timer /\ mem.started > 0
  BY <1>1, <1>3, <1>9 DEF SamplerInv, Starting
<1>11. Starting' <=> timer
  BY <1>8 DEF Starting, p
<1>12. p = IF timer THEN "histogram" ELSE "stopped"
  BY DEF p
<1>13. SamplerInv'
  BY <1>1, <1>4, <1>8, <1>10, <1>11, <1>12 DEF SamplerInv
<1>14. QED
  BY <1>7, <1>13

\* It takes memory for the histogram.
LEMMA HistogramKeeps ==
    ASSUME ProfilerInv, Histogram
    PROVE  ProfilerInv'
<1>1. /\ stack # <<>> /\ top.pc = "histogram" /\ Goto([top EXCEPT !.pc = "alarm"])
      /\ mem' = Sbrk(mem, HistRecords)
      /\ timer' = timer /\ recorded' = recorded /\ UNCHANGED <<timer, history>>
  BY DEF Histogram, At, history
<1>2. "alarm" \in Pcs /\ "alarm" \notin Finding /\ top.pc \notin Finding
  BY <1>1 DEF Pcs, Finding
<1>3. mem \in Memory /\ SamplerInv /\ mem.started \in 0 .. 2
  BY InvSays
<1>4. /\ mem' \in Globals /\ mem'.entries = mem.entries
      /\ mem'.need_init = mem.need_init /\ mem'.started = mem.started
  <2>1. HistRecords \in Nat
    BY ProfilerAssumption
  <2>2. QED
    BY <1>1, <1>3, <2>1, SbrkKeeps, GlobalsMemory
<1>5. Len(stack) = 1
  BY <1>1, InvSays, TopOf DEF InAlarm
<1>6. /\ SamplerInv' => ProfilerInv'
      /\ Frames = Below \cup {top} /\ Below = {}
      /\ \E f : f.pc = "alarm" /\ Frames' = Below \cup {f}
  BY <1>1, <1>2, <1>4, <1>5, PcMoved
<1>7. PICK f : f.pc = "alarm" /\ Frames' = {f}
  BY <1>6
<1>8. Frames = {top}
  BY <1>6
<1>9. Starting /\ Starting'
  BY <1>1, <1>7, <1>8 DEF Starting
<1>10. SamplerInv'
  BY <1>1, <1>3, <1>4, <1>7, <1>8, <1>9 DEF SamplerInv
<1>11. QED
  BY <1>6, <1>10

\* alt_alarm_start starts the alarm.
LEMMA StartSamplerKeeps ==
    ASSUME ProfilerInv, StartSampler
    PROVE  ProfilerInv'
<1>1. /\ stack # <<>> /\ top.pc = "start" /\ Goto([top EXCEPT !.pc = "started"])
      /\ mem' = [mem EXCEPT !.started = @ + 1]
      /\ timer' = timer /\ recorded' = recorded /\ UNCHANGED <<timer, history>>
  BY DEF StartSampler, At, history
<1>2. "started" \in Pcs /\ "started" \notin Finding /\ top.pc \notin Finding
  BY <1>1 DEF Pcs, Finding
<1>3. mem \in Globals /\ SamplerInv
  BY InvSays, GlobalsMemory
<1>4. Len(stack) = 1
  BY <1>1, InvSays, TopOf DEF InAlarm
<1>5. Frames = {top}
  BY <1>1, <1>4, InvSays, TopOf
<1>6. mem.started <= 1 /\ timer /\ ~mem.need_init
  BY <1>1, <1>3, <1>5 DEF SamplerInv, Starting
<1>7. /\ mem' \in Globals /\ mem'.entries = mem.entries
      /\ mem'.need_init = mem.need_init /\ mem'.started = mem.started + 1
      /\ mem.started \in 0 .. 2
  BY <1>1, <1>3, <1>6 DEF Globals
<1>8. /\ SamplerInv' => ProfilerInv'
      /\ Below = {}
      /\ \E f : f.pc = "started" /\ Frames' = Below \cup {f}
  BY <1>1, <1>2, <1>4, <1>7, PcMoved
<1>9. PICK f : f.pc = "started" /\ Frames' = {f}
  BY <1>8
<1>10. mem'.started > 0
  BY <1>7
<1>11. SamplerInv'
  BY <1>1, <1>6, <1>7, <1>9, <1>10 DEF SamplerInv
<1>12. QED
  BY <1>8, <1>11

\* pcsample_need_init gets the result.
LEMMA SetInitKeeps ==
    ASSUME ProfilerInv, NEW p \in {"stopped", "started"}, SetInit(p)
    PROVE  ProfilerInv'
<1>1. /\ stack # <<>> /\ top.pc = p /\ Goto([top EXCEPT !.pc = "add"])
      /\ mem' = [mem EXCEPT !.need_init = (p = "stopped")]
      /\ timer' = timer /\ recorded' = recorded /\ UNCHANGED <<timer, history>>
  BY DEF SetInit, At, history
<1>2. "add" \in Pcs /\ "add" \notin Finding /\ top.pc \notin Finding
  BY <1>1 DEF Pcs, Finding
<1>3. mem \in Globals /\ SamplerInv
  BY InvSays, GlobalsMemory
<1>4. Len(stack) = 1
  BY <1>1, InvSays, TopOf DEF InAlarm
<1>5. Frames = {top}
  BY <1>1, <1>4, InvSays, TopOf
<1>6. /\ mem' \in Globals /\ mem'.entries = mem.entries
      /\ mem'.need_init = (p = "stopped") /\ mem'.started = mem.started
      /\ mem.started \in 0 .. 2
  BY <1>1, <1>3 DEF Globals
<1>7. /\ SamplerInv' => ProfilerInv'
      /\ Below = {}
      /\ \E f : f.pc = "add" /\ Frames' = Below \cup {f}
  BY <1>1, <1>2, <1>4, <1>6, PcMoved
<1>8. PICK f : f.pc = "add" /\ Frames' = {f}
  BY <1>7
<1>9. ~Starting /\ ~Starting'
  BY <1>1, <1>5, <1>8 DEF Starting
<1>10. /\ p = "stopped" => ~timer /\ mem.started = 0 /\ ~recorded
       /\ p = "started" => mem.started > 0
       /\ mem.started > 0 => timer
       /\ recorded => timer /\ mem.started > 0
  BY <1>1, <1>3, <1>5, <1>6, <1>9 DEF SamplerInv
<1>11. SamplerInv'
  <2>1. CASE p = "stopped"
    <3>1. mem'.need_init /\ mem'.started = 0 /\ ~timer' /\ ~recorded'
      <4>1. (p = "stopped") = TRUE
        BY <2>1
      <4>2. mem'.need_init = TRUE
        BY <1>6, <4>1, Zenon
      <4>3. QED
        BY <1>1, <1>6, <1>10, <2>1, <4>2
    <3>2. \A g \in Frames' : g.pc = "add"
      BY <1>8
    <3>3. QED
      BY <1>9, <3>1, <3>2 DEF SamplerInv
  <2>2. CASE p = "started"
    <3>1. ~mem'.need_init /\ mem'.started > 0 /\ timer'
      <4>1. (p = "stopped") = FALSE
        BY <2>2
      <4>2. mem'.need_init = FALSE
        BY <1>6, <4>1, Zenon
      <4>3. QED
        BY <1>1, <1>6, <1>10, <2>2, <4>2
    <3>2. \A g \in Frames' : g.pc = "add"
      BY <1>8
    <3>3. QED
      BY <1>9, <3>1, <3>2 DEF SamplerInv
  <2>3. QED
    BY <2>1, <2>2
<1>12. QED
  BY <1>7, <1>11

\* The types after a step.
LEMMA TypesHold ==
    ASSUME mem' \in Globals, timer' \in BOOLEAN, recorded' \in BOOLEAN,
           stack' \in Seq(FrameRecord), Len(stack') <= 2,
           mainCalls' \in [AllArcs -> Nat], irqCalls' \in [AllArcs -> Nat]
    PROVE  ProfilerTypes'
  BY Zenon DEF ProfilerTypes, FrameRecord

\* A call begins.
LEMMA CallKeeps ==
    ASSUME ProfilerInv, NEW g \in Arcs, Call(g)
    PROVE  ProfilerInv'
<1> DEFINE f == Frame(g)
<1>1. /\ stack = <<>> /\ stack' = <<f>> /\ mem' = mem /\ timer' = timer
      /\ mainCalls' = mainCalls /\ irqCalls' = irqCalls /\ recorded' = recorded
  BY DEF Call, history
<1>2. f \in FrameRecord /\ f.call = g /\ f.pc = "entry" /\ f.fn_entry = NULL
  BY DEF Frame, FrameRecord, Pcs, AllArcs, NULL
<1> HIDE DEF f
<1>3. Frames = {} /\ Undone = {}
  BY <1>1, EmptyStack
<1>4. stack' \in Seq(FrameRecord) /\ Len(stack') = 1 /\ stack'[1] = f /\ stack' # <<>>
  BY <1>1, <1>2
<1>5. Frames' = {f} /\ Undone' = {}
  <2>1. Frames' = {f}
    BY <1>1, <1>4 DEF Frames
  <2>2. top' = f
    BY <1>4 DEF top
  <2>3. QED
    BY <1>2, <2>1, <2>2 DEF Undone
<1>6. ProfilerTypes'
  BY <1>1, <1>4, InvSays DEF ProfilerTypes, FrameRecord
<1>7. StackInv'
  BY <1>2, <1>4 DEF StackInv
<1>8. SamplerInv'
  <2>1. ~Starting /\ ~Starting'
    BY <1>2, <1>3, <1>5 DEF Starting
  <2>2. QED
    BY <1>1, <1>2, <1>3, <1>5, <2>1, InvSays DEF SamplerInv
<1>9. CountInv'
  BY <1>1, <1>3, <1>5, InvSays DEF CountInv
<1>10. \A x \in Frames' : FrameInv(mem', x)
  BY <1>2, <1>5 DEF FrameInv
<1>11. \A x \in Frames' : x.call \in OneAtATime /\ x.pc # "entry" => Room(mem', x)
  BY <1>2, <1>5
<1>12. Linked(mem') /\ \A h \in OneAtATime : AtMostTwo(mem', h)
  BY <1>1, InvSays
<1>13. QED
  BY <1>6, <1>7, <1>8, <1>9, <1>10, <1>11, <1>12, InvHolds

\* A frame changes and another is pushed.
LEMMA Pushed ==
    ASSUME NEW S, NEW s \in Seq(S), Len(s) = 1, NEW f \in S, NEW z \in S
    PROVE  LET w == Append([s EXCEPT ![1] = f], z)
           IN w \in Seq(S) /\ Len(w) = 2 /\ w[1] = f /\ w[2] = z /\ DOMAIN w = 1 .. 2 /\ w # <<>>
<1> DEFINE t == [s EXCEPT ![1] = f]
<1> DEFINE w == Append(t, z)
<1>1. t \in Seq(S) /\ Len(t) = 1 /\ t[1] = f
  <2>1. 1 \in 1 .. Len(s)
    OBVIOUS
  <2>2. t \in Seq(S)
    BY <2>1, ExceptSeq
  <2>3. Len(t) = 1 /\ t[1] = f
    BY <2>1
  <2>4. QED
    BY <2>2, <2>3
<1> HIDE DEF t
<1>2. w \in Seq(S) /\ Len(w) = 2 /\ w[1] = f /\ w[2] = z
  <2>1. w \in Seq(S) /\ Len(w) = Len(t) + 1 /\ w[1] = f /\ w[Len(t) + 1] = z
    <3>1. w \in Seq(S)
      BY <1>1
    <3>2. w[1] = f
      <4>1. 1 \in 1 .. Len(t)
        BY <1>1
      <4>2. w[1] = t[1]
        BY <1>1, <4>1, AppendProperties
      <4>3. QED
        BY <1>1, <4>2
    <3>3. Len(w) = Len(t) + 1 /\ w[Len(t) + 1] = z
      BY <1>1, AppendProperties
    <3>4. QED
      BY <3>1, <3>2, <3>3
  <2> HIDE DEF w
  <2>2. Len(t) + 1 = 2
    BY <1>1
  <2>3. QED
    BY <2>1, <2>2
<1> HIDE DEF w
<1>3. DOMAIN w = 1 .. 2 /\ w # <<>>
  BY <1>2, LenProperties, EmptySeq
<1>4. QED
  BY <1>2, <1>3 DEF t, w

\* alt_alarm_start is called, from a call of the application.
LEMMA EnterAlarmStartKeeps ==
    ASSUME ProfilerInv, EnterAlarmStart
    PROVE  ProfilerInv'
<1> DEFINE f == [top EXCEPT !.pc = "start"]
<1> DEFINE z == Frame(AlarmStart)
<1>1. /\ stack # <<>> /\ top.pc = "alarm" /\ mem' = mem /\ timer' = timer
      /\ stack' = Append([stack EXCEPT ![Len(stack)].pc = "start"], z)
      /\ mainCalls' = mainCalls /\ irqCalls' = irqCalls /\ recorded' = recorded
  BY DEF EnterAlarmStart, At, history
<1>2. Len(stack) = 1 /\ Frames = {top} /\ top \in FrameRecord /\ stack \in Seq(FrameRecord)
  BY <1>1, InvSays, TopOf DEF InAlarm
<1>3. /\ f \in FrameRecord /\ f.call = top.call /\ f.fn_entry = top.fn_entry /\ f.arc = top.arc
      /\ f.pc = "start"
  BY <1>2 DEF FrameRecord, Pcs
<1>4. /\ z \in FrameRecord /\ z.call = AlarmStart /\ z.pc = "entry" /\ z.fn_entry = NULL
  BY DEF Frame, FrameRecord, Pcs, AllArcs, NULL
<1>5. [stack EXCEPT ![Len(stack)].pc = "start"] = [stack EXCEPT ![1] = f]
  BY <1>2 DEF top
<1> HIDE DEF f, z
<1>6. /\ stack' \in Seq(FrameRecord) /\ Len(stack') = 2 /\ stack'[1] = f /\ stack'[2] = z
      /\ DOMAIN stack' = 1 .. 2 /\ stack' # <<>>
  <2>1. stack' = Append([stack EXCEPT ![1] = f], z)
    BY <1>1, <1>5
  <2>2. QED
    BY <1>2, <1>3, <1>4, <2>1, Pushed
<1>7. Frames' = {f, z}
  BY <1>6 DEF Frames
<1>8. Undone = {} /\ Undone' = {}
  <2>1. top' = z
    BY <1>6 DEF top
  <2>2. QED
    BY <1>1, <1>4, <2>1 DEF Undone
<1>9. SamplerInv /\ Starting /\ Starting'
  BY <1>1, <1>2, <1>3, <1>7, InvSays DEF Starting
<1>10. ProfilerTypes'
  <2>1. mem' \in Globals
    BY <1>1, InvSays, GlobalsMemory
  <2>2. QED
    BY <1>1, <1>6, <2>1, InvSays, TypesHold
<1>11. StackInv'
  <2>1. ~mem.need_init
    BY <1>9 DEF SamplerInv
  <2>2. f.call \in Arcs
    BY <1>1, <1>2, <1>3, InvSays DEF top
  <2>3. QED
    BY <1>1, <1>3, <1>4, <1>6, <2>1, <2>2 DEF StackInv
<1>12. SamplerInv'
  BY <1>1, <1>2, <1>3, <1>4, <1>7, <1>9 DEF SamplerInv
<1>13. CountInv'
  BY <1>1, <1>8, InvSays DEF CountInv
<1>14. \A x \in Frames' : FrameInv(mem', x)
  <2>1. FrameInv(mem, top)
    BY <1>2, InvSays
  <2>2. FrameInv(mem, f)
    BY <1>3, <2>1 DEF FrameInv
  <2>3. FrameInv(mem, z)
    BY <1>4 DEF FrameInv
  <2>4. QED
    BY <1>1, <1>7, <2>2, <2>3
<1>15. \A x \in Frames' : x.call \in OneAtATime /\ x.pc # "entry" => Room(mem', x)
  <2>1. top.call \in OneAtATime => Room(mem, top)
    BY <1>1, <1>2, InvSays
  <2>2. f.call \in OneAtATime => Room(mem, f)
    BY <1>1, <1>3, <2>1 DEF Room
  <2>3. QED
    BY <1>1, <1>4, <1>7, <2>2
<1>16. Linked(mem') /\ \A h \in OneAtATime : AtMostTwo(mem', h)
  BY <1>1, InvSays
<1>17. QED
  BY <1>10, <1>11, <1>12, <1>13, <1>14, <1>15, <1>16, InvHolds

\* What is below a call that is through.
LEMMA BelowIs ==
    ASSUME ProfilerInv, stack # <<>>, NEW f \in Below
    PROVE  /\ f \in Frames /\ f \in FrameRecord /\ f.pc = "start" /\ f.call \in Arcs
           /\ top.call = AlarmStart /\ ~mem.need_init
           /\ f.call \in OneAtATime => f.call.self_pc # AlarmStart.self_pc
<1>1. /\ Len(stack) = 2 /\ f = stack[1] /\ f \in Frames /\ f \in FrameRecord
  BY InvSays, TopOf
<1>2. f.pc = "start" /\ f.call \in Arcs /\ top.call = AlarmStart /\ ~mem.need_init
  BY <1>1, InvSays
<1>3. f.call \in OneAtATime => f.call.self_pc # AlarmStart.self_pc
  BY <1>2 DEF OneAtATime
<1>4. QED
  BY <1>1, <1>2, <1>3

\* A call is through.
LEMMA Popped ==
    ASSUME ProfilerInv, stack # <<>>, Return, mem' \in Memory, Linked(mem'),
           mem'.need_init = mem.need_init, mem'.started = mem.started,
           timer' = timer, irqCalls' = irqCalls, recorded' \in BOOLEAN,
           recorded' = recorded \/ (recorded' = (recorded \/ timer) /\ top.pc = "add"),
           top.pc \in {"store", "add"},
           \A f \in Below : FrameInv(mem', f),
           \A h \in OneAtATime : AtMostTwo(mem', h),
           \A f \in Below : f.call \in OneAtATime => Room(mem', f),
           \A h \in AllArcs :
              /\ IsFiniteSet(Counts(mem', h))
              /\ mainCalls'[h] <= Cardinality(Counts(mem', h))
              /\ Cardinality(Counts(mem', h)) <= mainCalls'[h] + irqCalls[h]
    PROVE  ProfilerInv'
<1>1. stack' = Front(stack) /\ mainCalls' = [mainCalls EXCEPT ![top.call] = @ + 1]
  BY DEF Return
<1>2. /\ stack' \in Seq(FrameRecord) /\ Len(stack') = Len(stack) - 1 /\ Frames' = Below
      /\ stack' # <<>> => Len(stack) = 2 /\ stack'[1] = stack[1] /\ top' = stack[1]
  BY <1>1, InvSays, ReturnStack
<1>3. Len(stack) \in {1, 2} /\ top \in FrameRecord /\ Frames = Below \cup {top}
  BY InvSays, TopOf
<1>4. ProfilerTypes'
  <2>1. mem' \in Globals
    BY InvSays, GlobalsMemory
  <2>2. mainCalls' \in [AllArcs -> Nat]
    <3>1. top.call \in AllArcs
      BY <1>3 DEF FrameRecord
    <3>2. QED
      BY <1>1, <3>1, InvSays
  <2>3. timer' \in BOOLEAN /\ irqCalls' \in [AllArcs -> Nat]
    BY InvSays
  <2>4. Len(stack') <= 2
    BY <1>2, <1>3
  <2>5. QED
    BY <1>2, <2>1, <2>2, <2>3, <2>4, TypesHold
<1>5. StackInv'
  <2>1. Len(stack') # 2
    <3>1. CASE Len(stack) = 1
      BY <1>2, <3>1
    <3>2. CASE Len(stack) = 2
      BY <1>2, <3>2
    <3>3. QED
      BY <1>3, <3>1, <3>2
  <2>2. stack' # <<>> => stack'[1].call \in Arcs
    BY <1>2, InvSays
  <2>3. QED
    BY <2>1, <2>2 DEF StackInv
<1>6. SamplerInv'
  <2>1. Starting' <=> Starting
    BY <1>2, <1>3 DEF Starting
  <2>2. (\E f \in Frames : f.pc = "stopped") <=> (\E f \in Frames' : f.pc = "stopped")
    BY <1>2, <1>3
  <2>3. SamplerInv /\ timer \in BOOLEAN /\ recorded \in BOOLEAN
    BY InvSays
  <2>4. recorded' => timer /\ (mem.started > 0 \/ Starting)
    <3>1. recorded => timer /\ (mem.started > 0 \/ Starting)
      BY <2>3 DEF SamplerInv
    <3>2. top.pc = "add" => ~timer \/ mem.started > 0 \/ Starting
      BY <1>3, <2>3 DEF SamplerInv
    <3>3. QED
      BY <2>3, <3>1, <3>2
  <2>5. QED
    BY <1>2, <1>3, <2>1, <2>2, <2>3, <2>4 DEF SamplerInv
<1>7. Undone' = {}
  <2>1. CASE stack' = <<>>
    BY <2>1 DEF Undone
  <2>2. CASE stack' # <<>>
    BY <1>2, <2>2, InvSays DEF Undone
  <2>3. QED
    BY <2>1, <2>2
<1>8. CountInv'
  BY <1>7 DEF CountInv
<1>9. \A f \in Frames' : f.call \in OneAtATime /\ f.pc # "entry" => Room(mem', f)
  BY <1>2
<1>10. QED
  BY <1>2, <1>4, <1>5, <1>6, <1>8, <1>9, InvHolds

\* A call stores its count: what others counted since it loaded it is undone.
LEMMA StoreCountKeeps ==
    ASSUME ProfilerInv, StoreCount
    PROVE  ProfilerInv'
<1> DEFINE g == top.call
<1> DEFINE e == top.fn_entry
<1> DEFINE k == top.arc
<1> DEFINE n == top.count
<1>1. /\ stack # <<>> /\ top.pc = "store" /\ Return /\ timer' = timer
      /\ mem' = Counted(mem, e, k, n + 1) /\ irqCalls' = irqCalls /\ recorded' = recorded
  BY DEF StoreCount, At
<1>2. top \in FrameRecord /\ top \in Frames
  BY <1>1, InvSays, TopOf
<1>3. g \in AllArcs /\ n \in Nat
  BY <1>2 DEF FrameRecord
<1>4. e \in EntriesOf(mem, g) /\ k \in Copies(mem, e, g) /\ n <= CountOf(mem, e, k)
  BY <1>1, <1>2, InvSays DEF FrameInv, CountOf
<1>5. mem \in Memory /\ Linked(mem) /\ recorded \in BOOLEAN
  BY InvSays
<1>6. CountOf(mem, e, k) \in Nat
  BY <1>3, <1>4, <1>5, Nodes
<1>7. mainCalls' = [mainCalls EXCEPT ![g] = @ + 1]
  BY <1>1 DEF Return
<1>8. Undone = {<<e, k, l>> : l \in n + 1 .. CountOf(mem, e, k)}
  BY <1>1 DEF Undone, CountOf
<1> HIDE DEF g, e, k, n
<1>9. /\ Recounted(mem, mem', e, k, n + 1)
      /\ mem'.need_init = mem.need_init /\ mem'.started = mem.started
  <2>1. e \in DOMAIN mem.entries /\ k \in DOMAIN mem.entries[e].arcs /\ n + 1 \in Nat
    BY <1>3, <1>4 DEF EntriesOf, Copies
  <2>2. QED
    BY <1>1, <1>5, <2>1, CountedRecounts
<1>10. /\ mem' \in Memory /\ Linked(mem')
       /\ \A h \in AllArcs : EntriesOf(mem', h) = EntriesOf(mem, h)
       /\ \A h \in AllArcs : \A i \in EntriesOf(mem, h) : Copies(mem', i, h) = Copies(mem, i, h)
  BY <1>9, Zenon DEF Recounted
<1>11. \A h \in AllArcs : SameLists(mem, mem', h)
  BY <1>10 DEF SameLists, SameFunction
<1>12. \A h \in OneAtATime : AtMostTwo(mem', h)
  BY <1>5, <1>11, InvSays, ListsDecide
<1>13. ASSUME NEW f \in Below
       PROVE  FrameInv(mem', f) /\ (f.call \in OneAtATime => Room(mem', f))
  <2>1. f \in Frames /\ f.call \in AllArcs /\ f.pc = "start"
    BY <1>1, BelowIs DEF FrameRecord
  <2>2. FrameInv(mem', f)
    BY <1>10, <2>1, InvSays DEF FrameInv
  <2>3. f.call \in OneAtATime => Room(mem', f)
    BY <1>5, <1>11, <2>1, InvSays, ListsDecide
  <2>4. QED
    BY <2>2, <2>3
<1>14. /\ \A i, j, l : <<i, j, l>> \in Counts(mem', g) <=>
             IF i = e /\ j = k THEN l \in 1 .. n + 1 ELSE <<i, j, l>> \in Counts(mem, g)
       /\ \A h \in AllArcs \ {g} : Counts(mem', h) = Counts(mem, h)
  <2>1. n + 1 \in Nat
    BY <1>3
  <2>2. QED
    BY <1>3, <1>4, <1>5, <1>9, <2>1, Recount, Zenon
<1>15. \A i, j, l : <<i, j, l>> \in Undone <=> i = e /\ j = k /\ l \in n + 1 .. CountOf(mem, e, k)
  BY <1>8
<1> DEFINE x == <<e, k, n + 1>>
<1>16. Counts(mem', g) = (Counts(mem, g) \ Undone) \cup {x} /\ x \notin Counts(mem, g) \ Undone
  <2>1. \A l : <<e, k, l>> \in Counts(mem, g) <=> l \in 1 .. CountOf(mem, e, k)
    BY <1>4, InCounts
  <2>2. ASSUME NEW i, NEW j, NEW l
        PROVE  <<i, j, l>> \in Counts(mem', g) <=>
                  \/ <<i, j, l>> \in Counts(mem, g) /\ <<i, j, l>> \notin Undone
                  \/ <<i, j, l>> = x
    <3>1. CASE i = e /\ j = k
      <4>1. <<i, j, l>> \in Counts(mem', g) <=> l \in 1 .. n + 1
        BY <1>14, <3>1
      <4>2. <<i, j, l>> \in Counts(mem, g) /\ <<i, j, l>> \notin Undone <=>
                l \in 1 .. CountOf(mem, e, k) /\ l \notin n + 1 .. CountOf(mem, e, k)
        BY <1>15, <2>1, <3>1
      <4>3. <<i, j, l>> = x <=> l = n + 1
        BY <3>1
      <4>4. l \in 1 .. n + 1 <=>
                \/ l \in 1 .. CountOf(mem, e, k) /\ l \notin n + 1 .. CountOf(mem, e, k)
                \/ l = n + 1
        BY <1>3, <1>4, <1>6
      <4> HIDE DEF x
      <4>5. QED
        BY <4>1, <4>2, <4>3, <4>4
    <3>2. CASE ~(i = e /\ j = k)
      <4>1. <<i, j, l>> \notin Undone /\ <<i, j, l>> # x
        BY <1>15, <3>2
      <4>2. <<i, j, l>> \in Counts(mem', g) <=> <<i, j, l>> \in Counts(mem, g)
        BY <1>14, <3>2
      <4> HIDE DEF x
      <4>3. QED
        BY <4>1, <4>2
    <3>3. QED
      BY <3>1, <3>2
  <2>3. x \notin Counts(mem, g) \ Undone
    <3>1. x \in Counts(mem, g) => n + 1 \in n + 1 .. CountOf(mem, e, k)
      BY <1>3, <1>6, <2>1
    <3>2. QED
      BY <1>15, <3>1
  <2>4. x \in Counts(mem', g)
    BY <2>2
  <2> HIDE DEF x
  <2>5. \A y \in Counts(mem', g) : y \in (Counts(mem, g) \ Undone) \cup {x}
    BY <2>2, InCounts
  <2>6. \A y \in Counts(mem, g) \ Undone : y \in Counts(mem', g)
    BY <2>2, InCounts
  <2>7. QED
    BY <2>3, <2>4, <2>5, <2>6
<1> HIDE DEF x
<1>17. ASSUME NEW h \in AllArcs
       PROVE  /\ IsFiniteSet(Counts(mem', h))
              /\ mainCalls'[h] <= Cardinality(Counts(mem', h))
              /\ Cardinality(Counts(mem', h)) <= mainCalls'[h] + irqCalls[h]
  <2> DEFINE S == Counts(mem, h)
  <2>1. /\ IsFiniteSet(S) /\ mainCalls[h] <= Cardinality(S \ Undone)
        /\ Cardinality(S) <= mainCalls[h] + irqCalls[h]
        /\ mainCalls[h] \in Nat /\ irqCalls[h] \in Nat
    BY InvSays
  <2>2. /\ IsFiniteSet(S \ Undone) /\ Cardinality(S \ Undone) <= Cardinality(S)
        /\ Cardinality(S) \in Nat /\ Cardinality(S \ Undone) \in Nat
    <3> HIDE DEF S
    <3>1. IsFiniteSet(S \ Undone) /\ Cardinality(S \ Undone) <= Cardinality(S)
      BY <2>1, FS_Subset
    <3>2. QED
      BY <2>1, <3>1, FS_CardinalityType
  <2>3. CASE h = g
    <3>1. mainCalls'[h] = mainCalls[h] + 1
      BY <1>3, <1>7, <2>3, InvSays
    <3>2. /\ IsFiniteSet(Counts(mem', h))
          /\ Cardinality(Counts(mem', h)) = Cardinality(S \ Undone) + 1
      BY <1>16, <2>2, <2>3, FS_AddElement
    <3> HIDE DEF S
    <3>3. QED
      BY <2>1, <2>2, <3>1, <3>2
  <2>4. CASE h # g
    <3>1. mainCalls'[h] = mainCalls[h]
      BY <1>3, <1>7, <2>4, InvSays
    <3>2. Counts(mem', h) = S
      BY <1>14, <2>4
    <3> HIDE DEF S
    <3>3. QED
      BY <2>1, <2>2, <3>1, <3>2
  <2>5. QED
    BY <2>3, <2>4
<1>18. QED
  BY <1>1, <1>5, <1>9, <1>10, <1>12, <1>13, <1>17, Popped

\* A call adds its arc.
LEMMA RecordKeeps ==
    ASSUME ProfilerInv, Record
    PROVE  ProfilerInv'
<1> DEFINE g == top.call
<1> DEFINE fn == top.fn_entry
<1>1. /\ stack # <<>> /\ top.pc = "add" /\ Return /\ timer' = timer
      /\ mem' = AddArc(mem, g, fn) /\ irqCalls' = irqCalls /\ recorded' = (recorded \/ timer)
  BY DEF Record, At
<1>2. top \in FrameRecord /\ top \in Frames
  BY <1>1, InvSays, TopOf
<1>3. g \in AllArcs
  BY <1>2 DEF FrameRecord
<1>4. fn # NULL => fn \in EntriesOf(mem, g)
  BY <1>1, <1>2, InvSays DEF FrameInv
<1>5. mem \in Memory /\ Linked(mem) /\ timer \in BOOLEAN /\ recorded \in BOOLEAN
  BY InvSays
<1>6. mainCalls' = [mainCalls EXCEPT ![g] = @ + 1]
  BY <1>1 DEF Return
<1>7. g \in OneAtATime =>
         IF fn = NULL
         THEN \A c, d \in EntriesOf(mem, g) : c = d /\ \A u \in SameFunction(g) : Once(mem, c, u)
         ELSE fn = EntryOf(mem, g) /\ Once(mem, fn, g)
  <2>1. g \in OneAtATime => Room(mem, top)
    BY <1>1, <1>2, InvSays
  <2>2. top.pc \notin {"arc", "load", "store"}
    BY <1>1
  <2>3. CASE fn = NULL
    BY <2>1, <2>3 DEF Room
  <2>4. CASE fn # NULL
    BY <2>1, <2>2, <2>4 DEF Room
  <2>5. QED
    BY <2>3, <2>4
<1> HIDE DEF g, fn
<1>8. PICK e, k : /\ Grown(mem, mem', g, e, k)
                  /\ e = IF fn = NULL THEN Len(mem.entries) + 1 ELSE fn
                  /\ mem'.need_init = mem.need_init /\ mem'.started = mem.started
  BY <1>1, <1>3, <1>4, <1>5, AddArcGrows
<1>9. e \in DOMAIN mem.entries <=> fn # NULL
  <2>1. mem.entries \in Seq(EntryRecord)
    BY <1>5 DEF Memory
  <2>2. fn = NULL => e \notin DOMAIN mem.entries
    BY <1>8, <2>1
  <2>3. fn # NULL => e \in DOMAIN mem.entries
    BY <1>4, <1>8 DEF EntriesOf
  <2>4. QED
    BY <2>2, <2>3
<1>10. g \in OneAtATime => Space(mem, g, e)
  BY <1>7, <1>8, <1>9 DEF Space
<1>11. Records(mem, mem', g)
  BY <1>3, <1>5, <1>8, GrownRecords
<1>12. mem' \in Memory /\ Linked(mem') /\ Grows(mem, mem')
  BY <1>11, Zenon DEF Records
<1>13. ASSUME NEW h \in OneAtATime PROVE AtMostTwo(mem', h)
  <2>1. h \in AllArcs /\ AtMostTwo(mem, h)
    BY InvSays
  <2>2. CASE h.self_pc = g.self_pc
    <3>1. h \in SameFunction(g) /\ g \in OneAtATime
      BY <1>3, <2>1, <2>2 DEF SameFunction, OneAtATime
    <3>2. QED
      BY <1>3, <1>5, <1>8, <1>10, <2>1, <3>1, SpaceKeepsFew
  <2>3. CASE h.self_pc # g.self_pc
    <3>1. SameLists(mem, mem', h)
      BY <1>3, <1>5, <1>8, <2>1, <2>3, GrownElsewhere
    <3>2. QED
      BY <1>5, <2>1, <3>1, ListsDecide
  <2>4. QED
    BY <2>2, <2>3
<1>14. ASSUME NEW f \in Below
       PROVE  FrameInv(mem', f) /\ (f.call \in OneAtATime => Room(mem', f))
  <2>1. /\ f \in Frames /\ f.call \in AllArcs /\ f.pc = "start" /\ g = AlarmStart
        /\ f.call \in OneAtATime => f.call.self_pc # g.self_pc
    BY <1>1, BelowIs DEF FrameRecord, g
  <2>2. FrameInv(mem', f)
    <3>1. f.fn_entry # NULL => f.fn_entry \in EntriesOf(mem, f.call)
      BY <2>1, InvSays DEF FrameInv
    <3>2. f.fn_entry # NULL => f.fn_entry \in EntriesOf(mem', f.call)
      BY <1>12, <2>1, <3>1 DEF Grows
    <3>3. QED
      BY <2>1, <3>2 DEF FrameInv
  <2>3. ASSUME f.call \in OneAtATime
        PROVE  Room(mem', f)
    <3>1. SameLists(mem, mem', f.call)
      BY <1>3, <1>5, <1>8, <2>1, <2>3, GrownElsewhere
    <3>2. Room(mem, f)
      BY <2>1, <2>3, InvSays
    <3>3. QED
      BY <1>5, <2>1, <3>1, <3>2, ListsDecide
  <2>4. QED
    BY <2>2, <2>3
<1>15. ASSUME NEW h \in AllArcs
       PROVE  /\ IsFiniteSet(Counts(mem', h))
              /\ mainCalls'[h] <= Cardinality(Counts(mem', h))
              /\ Cardinality(Counts(mem', h)) <= mainCalls'[h] + irqCalls[h]
  <2>1. Undone = {}
    BY <1>1 DEF Undone
  <2>2. Counts(mem, h) \ {} = Counts(mem, h)
    OBVIOUS
  <2>3. /\ IsFiniteSet(Counts(mem, h)) /\ mainCalls[h] <= Cardinality(Counts(mem, h))
        /\ Cardinality(Counts(mem, h)) <= mainCalls[h] + irqCalls[h]
        /\ mainCalls[h] \in Nat /\ irqCalls[h] \in Nat
    BY <2>1, <2>2, InvSays
  <2>4. CountsGrow(mem, mem', h, IF h = g THEN 1 ELSE 0)
    BY <1>3, <1>11, RecordsCount
  <2>5. /\ IsFiniteSet(Counts(mem', h))
        /\ Cardinality(Counts(mem', h)) = Cardinality(Counts(mem, h)) + (IF h = g THEN 1 ELSE 0)
    BY <2>3, <2>4 DEF CountsGrow
  <2>6. mainCalls'[h] = mainCalls[h] + (IF h = g THEN 1 ELSE 0)
    BY <1>3, <1>6, <2>3, InvSays
  <2>7. Cardinality(Counts(mem, h)) \in Nat
    BY <2>3, FS_CardinalityType
  <2>8. QED
    BY <2>3, <2>5, <2>6, <2>7
<1>16. recorded' \in BOOLEAN
  BY <1>1, <1>5
<1>17. QED
  BY <1>1, <1>8, <1>12, <1>13, <1>14, <1>15, <1>16, Popped

\* The driver starts the timer.
LEMMA StartTimerKeeps ==
    ASSUME ProfilerInv, StartTimer
    PROVE  ProfilerInv'
<1>1. /\ stack = <<>> /\ stack' = <<>> /\ mem' = mem /\ timer' = TRUE
      /\ mainCalls' = mainCalls /\ irqCalls' = irqCalls /\ recorded' = recorded
  BY DEF StartTimer, history
<1>2. Frames = {} /\ Undone = {}
  BY <1>1, EmptyStack
<1>3. Frames' = {} /\ Undone' = {}
  BY <1>1 DEF Frames, Undone
<1>4. ~Starting /\ ~Starting'
  BY <1>2, <1>3 DEF Starting
<1>5. ProfilerTypes'
  BY <1>1, InvSays DEF ProfilerTypes
<1>6. SamplerInv'
  BY <1>1, <1>2, <1>3, <1>4, InvSays DEF SamplerInv
<1>7. StackInv'
  BY <1>1, EmptySeq DEF StackInv
<1>8. CountInv'
  BY <1>1, <1>2, <1>3, InvSays DEF CountInv
<1>9. QED
  BY <1>1, <1>3, <1>5, <1>6, <1>7, <1>8, InvSays, InvHolds

\* A frame's pointers stay good while lists grow.
LEMMA FrameGrows ==
    ASSUME NEW m \in Memory, NEW r \in Memory, Grows(m, r), NEW f \in FrameRecord, FrameInv(m, f)
    PROVE  FrameInv(r, f)
<1>1. f.call \in AllArcs /\ f.count \in Nat
  BY DEF FrameRecord
<1>2. /\ f.fn_entry # NULL => f.fn_entry \in EntriesOf(m, f.call)
      /\ f.pc \in {"arc", "load", "store"} => f.fn_entry # NULL
      /\ f.pc \in {"load", "store"} => f.arc \in Copies(m, f.fn_entry, f.call)
      /\ f.pc = "store" => f.count <= CountOf(m, f.fn_entry, f.arc)
  BY DEF FrameInv, CountOf
<1>3. f.fn_entry # NULL => f.fn_entry \in EntriesOf(r, f.call)
  BY <1>1, <1>2 DEF Grows
<1>4. f.pc \in {"load", "store"} => f.arc \in Copies(r, f.fn_entry, f.call)
  BY <1>1, <1>2 DEF Grows
<1>5. ASSUME f.pc = "store"
      PROVE  f.count <= CountOf(r, f.fn_entry, f.arc)
  <2>1. f.fn_entry \in EntriesOf(m, f.call) /\ f.arc \in Copies(m, f.fn_entry, f.call)
    BY <1>2, <1>5
  <2>2. CountOf(m, f.fn_entry, f.arc) <= CountOf(r, f.fn_entry, f.arc)
    BY <1>1, <2>1 DEF Grows
  <2>3. CountOf(m, f.fn_entry, f.arc) \in Nat /\ CountOf(r, f.fn_entry, f.arc) \in Nat
    <3>1. f.fn_entry \in EntriesOf(r, f.call) /\ f.arc \in Copies(r, f.fn_entry, f.call)
      BY <1>2, <1>3, <1>4, <1>5
    <3>2. QED
      BY <1>1, <2>1, <3>1, Nodes
  <2>4. QED
    BY <1>1, <1>2, <1>5, <2>2, <2>3
<1>6. QED
  BY <1>2, <1>3, <1>4, <1>5 DEF FrameInv, CountOf

\* A handler's call comes between two steps of the application's.
LEMMA InterruptKeeps ==
    ASSUME ProfilerInv, NEW g \in IrqArcs, Interrupt(g)
    PROVE  ProfilerInv'
<1> DEFINE starts == Starts(mem, g)
<1>1. /\ mem' = Handled(mem, g) /\ timer' = timer /\ stack' = stack /\ mainCalls' = mainCalls
      /\ irqCalls' = [u \in AllArcs |->
             irqCalls[u] + (IF u = g \/ (u = AlarmStart /\ starts) THEN 1 ELSE 0)]
      /\ recorded' = (recorded \/ (timer /\ ~Known(mem, g)))
  BY DEF Interrupt
<1>2. /\ mem \in Memory /\ Linked(mem) /\ timer \in BOOLEAN /\ recorded \in BOOLEAN
      /\ mem.started \in 0 .. 2 /\ SamplerInv
  BY InvSays
<1>3. /\ mem' \in Memory /\ Linked(mem') /\ Grows(mem, mem')
      /\ mem'.need_init = (mem.need_init /\ ~starts)
      /\ mem'.started = mem.started + (IF starts THEN 1 ELSE 0)
      /\ \A h \in AllArcs :
            CountsGrow(mem, mem', h, IF h = g \/ (h = AlarmStart /\ starts) THEN 1 ELSE 0)
      /\ \A h \in AllArcs : AtMostTwo(mem, h) => AtMostTwo(mem', h)
      /\ \A f : /\ f.call \in AllArcs /\ Room(mem, f)
                /\ starts => f.call.self_pc # AlarmStart.self_pc
                => Room(mem', f)
  BY <1>1, <1>2, HandledKeeps
<1>4. starts => mem.need_init /\ timer
  BY DEF Starts
<1>5. timer /\ ~Known(mem, g) /\ mem.need_init => starts
  BY DEF Starts
<1> HIDE DEF starts
<1>6. Frames' = Frames /\ (stack # <<>> => top' = top)
  BY <1>1 DEF Frames, top
<1>7. ASSUME NEW f \in Frames
      PROVE  /\ f \in FrameRecord /\ f.call \in AllArcs
             /\ f.call \in OneAtATime /\ starts => f.call.self_pc # AlarmStart.self_pc
  <2>1. stack # <<>>
    BY <1>7, EmptyStack
  <2>2. /\ top \in FrameRecord /\ Len(stack) \in {1, 2}
        /\ Frames = Below \cup {top} /\ Below \subseteq FrameRecord
        /\ Len(stack) = 1 => Below = {}
    BY <2>1, InvSays, TopOf
  <2>3. f \in FrameRecord
    BY <2>2
  <2>4. f.call \in AllArcs
    BY <2>3 DEF FrameRecord
  <2>5. ASSUME f.call \in OneAtATime, starts
        PROVE  f.call.self_pc # AlarmStart.self_pc
    <3>1. CASE f \in Below
      BY <2>1, <2>5, <3>1, BelowIs
    <3>2. CASE f = top
      <4>1. Len(stack) = 1
        BY <1>4, <2>2, <2>5, InvSays
      <4>2. f.call \in Arcs
        BY <2>1, <3>2, <4>1, InvSays DEF top
      <4>3. QED
        BY <2>5, <4>2 DEF OneAtATime
    <3>3. QED
      BY <2>2, <3>1, <3>2
  <2>6. QED
    BY <2>3, <2>4, <2>5
<1>8. ProfilerTypes'
  <2>1. mem' \in Globals
    <3>1. starts => mem.started = 0
      BY <1>2, <1>4 DEF SamplerInv
    <3>2. mem'.started \in 0 .. 2
      BY <1>2, <1>3, <3>1
    <3>3. QED
      BY <1>3, <3>2, GlobalsMemory
  <2>2. irqCalls' \in [AllArcs -> Nat] /\ mainCalls' \in [AllArcs -> Nat]
    BY <1>1, InvSays
  <2>3. stack' \in Seq(FrameRecord) /\ Len(stack') <= 2
    BY <1>1, InvSays DEF ProfilerTypes, FrameRecord
  <2>4. timer' \in BOOLEAN /\ recorded' \in BOOLEAN
    BY <1>1, <1>2
  <2>5. QED
    BY <2>1, <2>2, <2>3, <2>4, TypesHold
<1>9. StackInv'
  <2>1. ~mem.need_init => ~mem'.need_init
    BY <1>3
  <2>2. StackInv
    BY DEF ProfilerInv
  <2>3. QED
    BY <1>1, <2>1, <2>2 DEF StackInv
<1>10. SamplerInv'
  <2>1. Starting' <=> Starting
    BY <1>6 DEF Starting
  <2>2. CASE starts
    <3>1. mem.need_init /\ timer /\ mem.started = 0 /\ ~Starting
      BY <1>2, <1>4, <2>2 DEF SamplerInv
    <3>2. ~mem'.need_init /\ mem'.started = 1 /\ timer'
      <4>1. (mem.need_init /\ ~starts) = FALSE
        BY <2>2
      <4>2. mem'.need_init = FALSE
        BY <1>3, <4>1, Zenon
      <4>3. mem'.started = mem.started + (IF starts THEN 1 ELSE 0)
        BY <1>3, Zenon
      <4>4. mem'.started = 1
        BY <2>2, <3>1, <4>3
      <4>5. timer'
        BY <1>1, <3>1, Zenon
      <4>6. QED
        BY <4>2, <4>4, <4>5, Zenon
    <3>3. \A f \in Frames' : f.pc # "stopped"
      BY <1>2, <1>6, <3>1 DEF SamplerInv
    <3>4. QED
      BY <3>2, <3>3 DEF SamplerInv
  <2>3. CASE ~starts
    <3>1. mem'.need_init = mem.need_init /\ mem'.started = mem.started /\ mem.need_init \in BOOLEAN
      BY <1>2, <1>3, <2>3 DEF Memory
    <3>2. recorded' => timer /\ (mem.started > 0 \/ Starting)
      <4>1. recorded => timer /\ (mem.started > 0 \/ Starting)
        BY <1>2 DEF SamplerInv
      <4>2. timer /\ ~mem.need_init => mem.started > 0 \/ Starting
        BY <1>2 DEF SamplerInv
      <4>3. QED
        BY <1>1, <1>2, <1>5, <2>3, <4>1, <4>2
    <3>3. QED
      BY <1>1, <1>2, <1>6, <2>1, <3>1, <3>2 DEF SamplerInv
  <2>4. QED
    BY <2>2, <2>3
<1>11. \A f \in Frames' : FrameInv(mem', f)
  BY <1>2, <1>3, <1>6, <1>7, InvSays, FrameGrows
<1>12. \A h \in OneAtATime : AtMostTwo(mem', h)
  BY <1>3, InvSays
<1>13. \A f \in Frames' : f.call \in OneAtATime /\ f.pc # "entry" => Room(mem', f)
  BY <1>3, <1>6, <1>7, InvSays
<1>14. CountInv'
  <2>1. ASSUME NEW h \in AllArcs
        PROVE  Counts(mem, h) \ Undone \subseteq Counts(mem', h) \ Undone'
    <3>1. Counts(mem, h) \subseteq Counts(mem', h)
      BY <1>3 DEF CountsGrow
    <3>2. ASSUME NEW x \in Counts(mem, h), x \in Undone'
          PROVE  x \in Undone
      <4>1. stack # <<>> /\ top.pc = "store"
        BY <1>1, <1>6, <3>2 DEF Undone
      <4>2. Undone = {<<top.fn_entry, top.arc, n>> :
                        n \in top.count + 1 .. CountOf(mem, top.fn_entry, top.arc)}
        BY <4>1 DEF Undone, CountOf
      <4>3. Undone' = {<<top.fn_entry, top.arc, n>> :
                        n \in top.count + 1 .. CountOf(mem', top.fn_entry, top.arc)}
        BY <1>1, <1>6, <4>1 DEF Undone, CountOf
      <4>4. PICK n \in top.count + 1 .. CountOf(mem', top.fn_entry, top.arc) :
               x = <<top.fn_entry, top.arc, n>>
        BY <3>2, <4>3
      <4>5. n \in 1 .. CountOf(mem, top.fn_entry, top.arc)
        BY <4>4, InCounts
      <4>6. top \in FrameRecord
        BY <4>1, InvSays, TopOf
      <4>7. top.count \in Nat
        BY <4>6 DEF FrameRecord
      <4>8. n \in top.count + 1 .. CountOf(mem, top.fn_entry, top.arc)
        <5>1. /\ top.fn_entry \in EntriesOf(mem, h) /\ top.arc \in Copies(mem, top.fn_entry, h)
          BY <4>4, InCounts
        <5>2. CountOf(mem, top.fn_entry, top.arc) \in Nat
          BY <1>2, <5>1, Nodes
        <5>3. QED
          BY <4>4, <4>5, <4>7, <5>2
      <4>9. QED
        BY <4>2, <4>4, <4>8
    <3>3. QED
      BY <3>1, <3>2
  <2>2. ASSUME NEW h \in AllArcs
        PROVE  /\ IsFiniteSet(Counts(mem', h))
               /\ mainCalls[h] <= Cardinality(Counts(mem', h) \ Undone')
               /\ Cardinality(Counts(mem', h)) <= mainCalls[h] + irqCalls'[h]
    <3> DEFINE S == Counts(mem, h)
    <3> DEFINE T == Counts(mem', h)
    <3> DEFINE n == IF h = g \/ (h = AlarmStart /\ starts) THEN 1 ELSE 0
    <3>1. /\ IsFiniteSet(S) /\ mainCalls[h] <= Cardinality(S \ Undone)
          /\ Cardinality(S) <= mainCalls[h] + irqCalls[h]
          /\ mainCalls[h] \in Nat /\ irqCalls[h] \in Nat
      BY InvSays
    <3>2. IsFiniteSet(T) /\ Cardinality(T) = Cardinality(S) + n
      BY <1>3, <3>1 DEF CountsGrow
    <3>3. irqCalls'[h] = irqCalls[h] + n
      BY <1>1
    <3>4. S \ Undone \subseteq T \ Undone'
      BY <2>1
    <3> HIDE DEF S, T
    <3>5. IsFiniteSet(T \ Undone')
      BY <3>2, FS_Subset
    <3>6. Cardinality(S \ Undone) <= Cardinality(T \ Undone')
      BY <3>4, <3>5, FS_Subset
    <3>7. /\ Cardinality(S) \in Nat /\ Cardinality(S \ Undone) \in Nat
          /\ Cardinality(T \ Undone') \in Nat
      <4>1. IsFiniteSet(S \ Undone)
        BY <3>1, FS_Subset
      <4>2. QED
        BY <3>1, <3>5, <4>1, FS_CardinalityType
    <3>8. n \in {0, 1}
      OBVIOUS
    <3> HIDE DEF n
    <3>9. Cardinality(T) <= mainCalls[h] + irqCalls'[h]
      BY <3>1, <3>2, <3>3, <3>7, <3>8
    <3>10. mainCalls[h] <= Cardinality(T \ Undone')
      BY <3>1, <3>6, <3>7
    <3>11. QED
      BY <3>2, <3>9, <3>10 DEF T
  <2>3. QED
    BY <1>1, <2>2 DEF CountInv
<1>15. QED
  BY <1>3, <1>8, <1>9, <1>10, <1>11, <1>12, <1>13, <1>14, InvHolds

\* At the start there are no lists.
LEMMA ProfilerStarts ==
    ASSUME ProfilerInit
    PROVE  ProfilerInv
<1>1. /\ mem = [entries |-> <<>>, need_init |-> TRUE, slab |-> 0, heap |-> HeapRecords,
                started |-> 0, wild |-> FALSE]
      /\ timer = FALSE /\ stack = <<>> /\ recorded = FALSE
      /\ mainCalls = [h \in AllArcs |-> 0] /\ irqCalls = [h \in AllArcs |-> 0]
  BY DEF ProfilerInit
<1>2. mem \in Globals
  <2>1. SlabRecords \in Nat \ {0} /\ HeapRecords \in Nat
    BY ProfilerAssumption
  <2>2. QED
    BY <1>1, <2>1 DEF Globals
<1>3. Frames = {} /\ Undone = {}
  BY <1>1, EmptyStack
<1>4. \A h : EntriesOf(mem, h) = {}
  BY <1>1 DEF EntriesOf
<1>5. \A h : Counts(mem, h) = {}
  BY <1>4, InCounts
<1>6. ProfilerTypes
  <2>1. stack \in Seq([pc : Pcs, call : AllArcs, fn_entry : Nat, arc : Nat, count : Nat])
        /\ Len(stack) <= 2
    BY <1>1
  <2>2. mainCalls \in [AllArcs -> Nat] /\ irqCalls \in [AllArcs -> Nat]
    BY <1>1
  <2>3. QED
    BY <1>1, <1>2, <2>1, <2>2 DEF ProfilerTypes
<1>7. AtLeastOneArc
  BY <1>1 DEF AtLeastOneArc
<1>8. StackInv
  BY <1>1 DEF StackInv
<1>9. SamplerInv
  BY <1>1, <1>3 DEF SamplerInv, Starting
<1>10. CopiesInv
  BY <1>3, <1>4 DEF CopiesInv, AtMostTwo
<1>11. FewCopies
  BY <1>4, FS_EmptySet DEF FewCopies
<1>12. CountInv
  <2> SUFFICES ASSUME NEW h \in AllArcs
               PROVE  /\ IsFiniteSet(Counts(mem, h))
                      /\ mainCalls[h] <= Cardinality(Counts(mem, h) \ Undone)
                      /\ Cardinality(Counts(mem, h)) <= mainCalls[h] + irqCalls[h]
    BY DEF CountInv
  <2>1. mainCalls[h] = 0 /\ irqCalls[h] = 0
    BY <1>1
  <2>2. Counts(mem, h) = {} /\ Counts(mem, h) \ Undone = {}
    BY <1>5
  <2>3. IsFiniteSet({}) /\ Cardinality({}) = 0
    BY FS_EmptySet
  <2>4. QED
    BY <2>1, <2>2, <2>3
<1>13. QED
  BY <1>3, <1>6, <1>7, <1>8, <1>9, <1>10, <1>11, <1>12 DEF ProfilerInv

\* The inductive invariant of profiling holds, for any functions, calls and
\* handlers, any heap and any number of calls.
THEOREM ProfilerInvariance == ProfilerSpec => []ProfilerInv
<1>1. ProfilerInit => ProfilerInv
  BY ProfilerStarts
<1>2. ProfilerInv /\ [ProfilerNext]_profilerVars => ProfilerInv'
  <2> SUFFICES ASSUME ProfilerInv, [ProfilerNext]_profilerVars
               PROVE  ProfilerInv'
    OBVIOUS
  <2>1. ASSUME NEW g \in Arcs, Call(g) PROVE ProfilerInv'
    BY <2>1, CallKeeps
  <2>2. CASE FindEntry
    BY <2>2, FindEntryKeeps
  <2>3. CASE FindArc
    BY <2>3, FindArcKeeps
  <2>4. CASE LoadCount
    BY <2>4, LoadCountKeeps
  <2>5. CASE StoreCount
    BY <2>5, StoreCountKeeps
  <2>6. CASE TestInit
    BY <2>6, TestInitKeeps
  <2>7. CASE ClearInit
    BY <2>7, ClearInitKeeps
  <2>8. CASE Histogram
    BY <2>8, HistogramKeeps
  <2>9. CASE EnterAlarmStart
    BY <2>9, EnterAlarmStartKeeps
  <2>10. CASE StartSampler
    BY <2>10, StartSamplerKeeps
  <2>11. ASSUME NEW p \in {"stopped", "started"}, SetInit(p) PROVE ProfilerInv'
    BY <2>11, SetInitKeeps
  <2>12. CASE Record
    BY <2>12, RecordKeeps
  <2>13. CASE StartTimer
    BY <2>13, StartTimerKeeps
  <2>14. ASSUME NEW g \in IrqArcs, Interrupt(g) PROVE ProfilerInv'
    BY <2>14, InterruptKeeps
  <2>15. CASE UNCHANGED profilerVars
    <3>1. /\ mem' = mem /\ timer' = timer /\ stack' = stack /\ recorded' = recorded
          /\ mainCalls' = mainCalls /\ irqCalls' = irqCalls
      BY <2>15 DEF profilerVars
    <3>2. Frames' = Frames /\ Undone' = Undone
      BY <3>1 DEF Frames, Undone, top
    <3>3. Starting' <=> Starting
      BY <3>2 DEF Starting
    <3>4. ProfilerTypes'
      BY <3>1 DEF ProfilerInv, ProfilerTypes
    <3>5. AtLeastOneArc' /\ StackInv'
      BY <3>1 DEF ProfilerInv, AtLeastOneArc, StackInv
    <3>6. FewCopies'
      BY <3>1 DEF ProfilerInv, FewCopies
    <3>7. \A f \in Frames' : FrameInv(mem', f)
      BY <3>1, <3>2 DEF ProfilerInv
    <3>8. SamplerInv'
      BY <3>1, <3>2, <3>3, Zenon DEF ProfilerInv, SamplerInv
    <3>9. CopiesInv'
      BY <3>1, <3>2 DEF ProfilerInv, CopiesInv
    <3>10. CountInv'
      BY <3>1, <3>2 DEF ProfilerInv, CountInv
    <3>11. QED
      BY <3>4, <3>5, <3>6, <3>7, <3>8, <3>9, <3>10 DEF ProfilerInv
  <2>16. QED
    BY <2>1, <2>2, <2>3, <2>4, <2>5, <2>6, <2>7, <2>8, <2>9, <2>10, <2>11, <2>12, <2>13, <2>14,
       <2>15 DEF ProfilerNext
<1>3. QED
  BY <1>1, <1>2, PTL DEF ProfilerSpec

\* The copies of an arc have counted every call of the application, and none
\* twice (alt_mcount.S and __mcount_record), whatever handlers cut in.
THEOREM CallsTheorem == ProfilerSpec => []CallsCounted
<1>1. ProfilerInv => CallsCounted
  <2> SUFFICES ASSUME ProfilerInv, NEW h \in AllArcs
               PROVE  /\ mainCalls[h] <= Cardinality(Counts(mem, h))
                      /\ Cardinality(Counts(mem, h)) <= mainCalls[h] + irqCalls[h]
    BY DEF CallsCounted
  <2> DEFINE S == Counts(mem, h)
  <2>1. /\ IsFiniteSet(S) /\ mainCalls[h] <= Cardinality(S \ Undone)
        /\ Cardinality(S) <= mainCalls[h] + irqCalls[h] /\ mainCalls[h] \in Nat
    BY InvSays
  <2> HIDE DEF S
  <2>2. IsFiniteSet(S \ Undone) /\ Cardinality(S \ Undone) <= Cardinality(S)
    BY <2>1, FS_Subset
  <2>3. Cardinality(S \ Undone) \in Nat /\ Cardinality(S) \in Nat
    BY <2>1, <2>2, FS_CardinalityType
  <2>4. mainCalls[h] <= Cardinality(S)
    BY <2>1, <2>2, <2>3
  <2>5. QED
    BY <2>1, <2>4 DEF S
<1>2. QED
  BY <1>1, ProfilerInvariance, PTL

\* Once a new arc was recorded with the timer running, the sampler of
\* nios2_pcsample_init runs, whoever started it.
THEOREM SamplerTheorem == ProfilerSpec => []SamplerRuns
<1>1. ProfilerInv => SamplerRuns
  <2> SUFFICES ASSUME ProfilerInv, recorded, stack = <<>>
               PROVE  mem.started > 0
    BY DEF SamplerRuns
  <2>1. ~Starting
    BY EmptyStack DEF Starting
  <2>2. QED
    BY <2>1, InvSays DEF SamplerInv
<1>2. QED
  BY <1>1, ProfilerInvariance, PTL

-----------------------------------------------------------------------------
(* The exception handler.                                                   *)

HandlerSections == {"program", "entry", "notirq", "soft", "unknown", "break", "exit"}

FateRecords == [kind : Kinds, how : {"ran", "emulated", "skipped"}, withdrawn : BOOLEAN]

\* An instruction that may be passed over.
PassedOver(k, w) ==
    \/ k \in {"trap", "faulting"}
    \/ k = "muldiv" /\ ~Emulation
    \/ k = "plain" /\ w

\* Who comes to the end of the handler's chain is an instruction that may be
\* passed over, with the address behind it saved; on the way out, the
\* instructions in front of that address are done with.
ExceptionInv ==
    /\ where \in HandlerSections /\ at \in Nat /\ kind \in Kinds
    /\ withdrawn \in BOOLEAN /\ fates \in Seq(FateRecords)
    /\ where # "exit" => Len(fates) = at
    /\ where = "exit" => Len(fates) = saved
    /\ where = "entry" => saved = at
    /\ where \in {"soft", "unknown", "break"} => saved = at + 1
    /\ where = "entry" /\ kind = "plain" => withdrawn \/ (enabled /\ ipending)
    /\ where \in {"notirq", "soft", "unknown", "break"} /\ kind = "plain" => withdrawn
    /\ where \in {"unknown", "break"} => PassedOver(kind, withdrawn)
    /\ \A i \in 1 .. Len(fates) : fates[i].how = "skipped" => PassedOver(fates[i].kind, fates[i].withdrawn)

\* One fate more.
LEMMA OneMore ==
    ASSUME NEW how \in {"ran", "emulated", "skipped"}, ExceptionInv, Fate(how),
           how = "skipped" => PassedOver(kind, withdrawn)
    PROVE  /\ fates' \in Seq(FateRecords) /\ Len(fates') = Len(fates) + 1
           /\ \A i \in 1 .. Len(fates') :
                 fates'[i].how = "skipped" => PassedOver(fates'[i].kind, fates'[i].withdrawn)
<1> DEFINE f == [kind |-> kind, how |-> how, withdrawn |-> withdrawn]
<1>1. f \in FateRecords /\ fates' = Append(fates, f) /\ fates \in Seq(FateRecords)
  BY DEF Fate, FateRecords, ExceptionInv
<1>2. /\ fates' \in Seq(FateRecords) /\ Len(fates') = Len(fates) + 1
      /\ fates'[Len(fates) + 1] = f /\ \A i \in 1 .. Len(fates) : fates'[i] = fates[i]
  BY <1>1, AppendProperties
<1>3. f.how = how /\ f.kind = kind /\ f.withdrawn = withdrawn
  OBVIOUS
<1> HIDE DEF f
<1>4. Len(fates) \in Nat
  BY <1>1, LenProperties
<1>5. ASSUME NEW i \in 1 .. Len(fates'), fates'[i].how = "skipped"
      PROVE  PassedOver(fates'[i].kind, fates'[i].withdrawn)
  <2>1. CASE i \in 1 .. Len(fates)
    BY <2>1, <1>2, <1>5 DEF ExceptionInv
  <2>2. CASE i = Len(fates) + 1
    BY <2>2, <1>2, <1>3, <1>5
  <2> QED
    BY <2>1, <2>2, <1>2, <1>4, <1>5
<1> QED
  BY <1>2, <1>5

\* Every step keeps it.
LEMMA ExceptionStep == ExceptionInv /\ [ExceptionNext]_<<exceptionVars, vars>> => ExceptionInv'
<1> SUFFICES ASSUME ExceptionInv, [ExceptionNext]_<<exceptionVars, vars>>
             PROVE  ExceptionInv'
  OBVIOUS
<1> USE DEF HandlerSections, Kinds
<1>0. LoopLength \in Nat
  BY ProgramAssumption
<1>1. CASE Execute
  <2>1. Fate("ran") /\ "ran" # "skipped"
    BY <1>1 DEF Execute
  <2>2. /\ fates' \in Seq(FateRecords) /\ Len(fates') = Len(fates) + 1
        /\ \A i \in 1 .. Len(fates') :
              fates'[i].how = "skipped" => PassedOver(fates'[i].kind, fates'[i].withdrawn)
    BY <2>1, OneMore
  <2> QED
    BY <1>1, <2>2, SMT DEF Execute, ExceptionInv
<1>2. CASE Loop
  BY <1>2 DEF Loop, ExceptionInv, machineVars
<1>3. CASE Request
  BY <1>3 DEF Request, ExceptionInv, programVars, PassedOver
<1>4. CASE Exception
  BY <1>4 DEF Exception, ExceptionInv, programVars
<1>5. CASE IrqTest
  BY <1>5 DEF IrqTest, ExceptionInv, programVars
<1>6. CASE NotIrq
  BY <1>6 DEF NotIrq, Behind, ExceptionInv, programVars, machineVars
<1>7. CASE Emulate
  BY <1>7 DEF Emulate, exceptionVars, ExceptionInv, programVars, machineVars
<1>8. CASE EmulationDone
  <2>1. Fate("emulated") /\ "emulated" # "skipped"
    BY <1>8 DEF EmulationDone
  <2>2. /\ fates' \in Seq(FateRecords) /\ Len(fates') = Len(fates) + 1
        /\ \A i \in 1 .. Len(fates') :
              fates'[i].how = "skipped" => PassedOver(fates'[i].kind, fates'[i].withdrawn)
    BY <2>1, OneMore
  <2> QED
    BY <1>8, <2>2, SMT DEF EmulationDone, ExceptionInv, machineVars
<1>9. CASE Soft
  BY <1>9 DEF Soft, Emulated, Trapped, PassedOver, ExceptionInv, programVars, machineVars
<1>10. CASE Unknown
  <2>1. CASE saved' = at /\ kind' \in {kind, "plain"} /\ UNCHANGED fates
    BY <1>10, <2>1 DEF Unknown, ExceptionInv, machineVars
  <2>2. CASE Fate("skipped") /\ UNCHANGED <<saved, kind>>
    <3>1. PassedOver(kind, withdrawn)
      BY <1>10 DEF Unknown, ExceptionInv
    <3>2. /\ fates' \in Seq(FateRecords) /\ Len(fates') = Len(fates) + 1
          /\ \A i \in 1 .. Len(fates') :
                fates'[i].how = "skipped" => PassedOver(fates'[i].kind, fates'[i].withdrawn)
      BY <2>2, <3>1, OneMore
    <3> QED
      BY <1>10, <2>2, <3>2, SMT DEF Unknown, ExceptionInv, machineVars
  <2> QED
    BY <1>10, <2>1, <2>2 DEF Unknown
<1>11. CASE Unhandled
  BY <1>11 DEF Unhandled, ExceptionInv, programVars, machineVars
<1>12. CASE Continue
  <2>1. CASE saved' = at /\ UNCHANGED fates
    BY <1>12, <2>1 DEF Continue, ExceptionInv, machineVars
  <2>2. CASE Fate("skipped") /\ UNCHANGED saved
    <3>1. PassedOver(kind, withdrawn)
      BY <1>12 DEF Continue, ExceptionInv
    <3>2. /\ fates' \in Seq(FateRecords) /\ Len(fates') = Len(fates) + 1
          /\ \A i \in 1 .. Len(fates') :
                fates'[i].how = "skipped" => PassedOver(fates'[i].kind, fates'[i].withdrawn)
      BY <2>2, <3>1, OneMore
    <3> QED
      BY <1>12, <2>2, <3>2, SMT DEF Continue, ExceptionInv, machineVars
  <2> QED
    BY <1>12, <2>1, <2>2 DEF Continue
<1>13. CASE Exit
  <2>1. saved \in Nat /\ fates \in Seq(FateRecords) /\ Len(fates) = saved
    BY <1>13, LenProperties DEF Exit, ExceptionInv
  <2>2. kind' \in Kinds
    BY <1>13 DEF Exit, ExceptionInv
  <2> QED
    BY <1>13, <2>1, <2>2 DEF Exit, ExceptionInv, machineVars
<1>14. CASE UNCHANGED <<exceptionVars, vars>>
  BY <1>14 DEF exceptionVars, ExceptionInv, programVars, machineVars, PassedOver
<1> QED
  BY <1>1, <1>2, <1>3, <1>4, <1>5, <1>6, <1>7, <1>8, <1>9, <1>10, <1>11, <1>12, <1>13, <1>14 DEF ExceptionNext

\* Each instruction of the program is done with once, in its turn, whatever the
\* length of the loop and however the handler was built.
THEOREM OnceTheorem == ExceptionSpec => []InstructionsOnce
<1>1. ExceptionInit => ExceptionInv
  <2> SUFFICES ASSUME ExceptionInit PROVE ExceptionInv
    OBVIOUS
  <2>1. fates \in Seq(FateRecords) /\ Len(fates) = 0
    BY DEF ExceptionInit
  <2>2. 1 .. Len(fates) = {}
    BY <2>1
  <2> QED
    BY <2>1, <2>2 DEF ExceptionInit, ExceptionInv, HandlerSections, Kinds
<1>2. ExceptionInv => InstructionsOnce
  BY LenProperties DEF ExceptionInv, InstructionsOnce, PassedOver, HandlerSections
<1> QED
  BY <1>1, <1>2, ExceptionStep, PTL DEF ExceptionSpec

\* The handler runs the emulation as the emulation was modelled.
THEOREM EmulationTheorem == ExceptionSpec => Spec
<1>1. ExceptionInit => Init
  BY DEF ExceptionInit
<1>2. [ExceptionNext]_<<exceptionVars, vars>> => [Next]_vars
  <2> SUFFICES ASSUME [ExceptionNext]_<<exceptionVars, vars>> PROVE [Next]_vars
    OBVIOUS
  <2>1. CASE Emulate
    BY <2>1 DEF Emulate, Next
  <2>2. CASE EmulationDone
    BY <2>2 DEF EmulationDone, Next
  <2>3. CASE ~Emulate /\ ~EmulationDone
    BY <2>3 DEF ExceptionNext, Execute, Loop, Request, Exception, IrqTest, NotIrq, Soft, Unknown,
                Unhandled, Continue, Exit
  <2> QED
    BY <2>1, <2>2, <2>3
<1> QED
  BY <1>1, <1>2, PTL DEF ExceptionSpec, Spec

\* Within the handler too, with interrupts, traps and instructions issued again
\* in between: every emulated instruction has the instruction's result.
THEOREM ExactThroughout == ExceptionSpec => []Exact
  BY EmulationTheorem, ExactTheorem

-----------------------------------------------------------------------------
(* Startup.                                                                 *)

Cacheable == Contents \cup {Absent}

StartupTypeOK ==
    /\ crt \in {"entry", "start", "bss", "load", "flush", "alt_main", "running"}
    /\ section \in Int /\ ptr \in Int
    /\ ram \in [Addresses -> Contents] /\ dcache \in [Addresses -> Cacheable]
    /\ icache \in [Code -> Cacheable]

\* What nothing writes is as it was downloaded, and once the data cache is
\* initialized nothing of it is in there.
KeptIntact ==
    \A w \in Kept : ram[w] = Image[w] /\ (crt \notin {"entry", "start"} => dcache[w] = Absent)

\* How far the loops have come.
LoopsDone ==
    /\ crt = "bss" => ptr \in BssStart .. BssEnd - 1 /\ Cleared(ptr)
    /\ crt = "load" =>
          /\ Cleared(BssEnd) /\ section \in 1 .. Len(Sections) + 1 /\ LoadedUpTo(section, ptr)
          /\ section \in DOMAIN Sections => ptr \in Sections[section].to .. Sections[section].end
    /\ crt \in {"flush", "alt_main"} => Cleared(BssEnd) /\ LoadedUpTo(Len(Sections) + 1, 0)

\* Nobody has anything else for the code.
CodeThere ==
    /\ crt \in {"flush", "alt_main", "running"} =>
          \A w \in Code : ram[w] \in Loaded(w) /\ dcache[w] = Absent
    /\ crt \in {"alt_main", "running"} => \A w \in Code : icache[w] \in Loaded(w) \cup {Absent}

StartupInv == StartupTypeOK /\ KeptIntact /\ LoopsDone /\ CodeThere

LEMMA SectionRecord ==
    /\ Len(Sections) \in Nat /\ DOMAIN Sections = 1 .. Len(Sections)
    /\ \A k \in DOMAIN Sections :
          /\ Sections[k].from \in Int /\ Sections[k].to \in Int /\ Sections[k].end \in Int
          /\ Sections[k].to <= Sections[k].end
<1> DEFINE S == [from : Int, to : Int, end : Int]
<1>1. Sections \in Seq(S)
  BY LayoutAssumption
<1>2. \A x \in S : x.from \in Int /\ x.to \in Int /\ x.end \in Int
  OBVIOUS
<1> HIDE DEF S
<1>3. Len(Sections) \in Nat /\ DOMAIN Sections = 1 .. Len(Sections)
  BY <1>1, LenProperties
<1>4. \A k \in DOMAIN Sections : Sections[k] \in S
  BY <1>1, <1>3, ElementOfSeq
<1> QED
  BY <1>2, <1>3, <1>4, LayoutAssumption

\* A moved section, word by word.
LEMMA SectionFacts ==
    ASSUME NEW k \in MovedSections
    PROVE  /\ k \in DOMAIN Sections /\ k \in 1 .. Len(Sections)
           /\ Sections[k].from \in Int /\ Sections[k].to \in Int /\ Sections[k].end \in Int
           /\ Sections[k].to <= Sections[k].end
           /\ Target(Sections[k]) \subseteq Addresses /\ Target(Sections[k]) \cap Bss = {}
           /\ Target(Sections[k]) \cap Kept = {}
           /\ \A w \in Target(Sections[k]) :
                 Sections[k].from + (w - Sections[k].to) \in Kept
<1>1. k \in DOMAIN Sections /\ DOMAIN Sections = 1 .. Len(Sections)
  BY SectionRecord DEF MovedSections
<1>3. /\ Sections[k].from \in Int /\ Sections[k].to \in Int /\ Sections[k].end \in Int
      /\ Sections[k].to <= Sections[k].end
  BY <1>1, SectionRecord
<1>4. /\ Target(Sections[k]) \subseteq Addresses /\ Target(Sections[k]) \cap Bss = {}
      /\ Source(Sections[k]) \subseteq Kept
  BY LayoutAssumption
<1>5. Target(Sections[k]) \cap Kept = {}
  BY DEF Kept, Targets
<1>6. ASSUME NEW w \in Target(Sections[k])
      PROVE  Sections[k].from + (w - Sections[k].to) \in Kept
  <2>1. Sections[k].from + (w - Sections[k].to) \in Source(Sections[k])
    BY <1>3 DEF Target, Source
  <2> QED
    BY <2>1, <1>4
<1> QED
  BY <1>1, <1>3, <1>4, <1>5, <1>6

\* What the program sees does not change when the cache makes room.
LEMMA SameLoaded ==
    ASSUME NEW k, NEW p, \A w \in Addresses : Seen(w)' = Seen(w), LoadedUpTo(k, p)
    PROVE  LoadedUpTo(k, p)'
BY SectionFacts DEF LoadedUpTo

LEMMA SameCleared ==
    ASSUME NEW p \in Int, p <= BssEnd, \A w \in Addresses : Seen(w)' = Seen(w), Cleared(p)
    PROVE  Cleared(p)'
<1>1. \A w \in BssStart .. p - 1 : w \in Addresses
  BY LayoutAssumption DEF Bss
<1> QED
  BY <1>1 DEF Cleared

LEMMA AllSeen ==
    ASSUME \A w \in Addresses : Seen(w)' = Seen(w), Cleared(BssEnd),
           LoadedUpTo(Len(Sections) + 1, 0)
    PROVE  Cleared(BssEnd)' /\ LoadedUpTo(Len(Sections) + 1, 0)'
<1>1. Cleared(BssEnd)'
  BY SameCleared, LayoutAssumption
<1>2. PICK k : k = Len(Sections) + 1
  OBVIOUS
<1>3. LoadedUpTo(k, 0)'
  BY <1>2, SameLoaded
<1> QED
  BY <1>1, <1>2, <1>3

\* The start of a section.
LEMMA NextSectionLoaded ==
    ASSUME StartupTypeOK, NEW k \in Int, NextSection(k + 1), k \in 0 .. Len(Sections),
           NEW p \in Int, LoadedUpTo(k, p), k \in MovedSections => p = Sections[k].end,
           UNCHANGED <<ram, dcache>>
    PROVE  /\ section' \in 1 .. Len(Sections) + 1 /\ ptr' \in Int /\ LoadedUpTo(section, ptr)'
           /\ section' \in DOMAIN Sections =>
                 ptr' \in Sections[section'].to .. Sections[section'].end
<1>1. section' = k + 1 /\ section' \in 1 .. Len(Sections) + 1
  BY SectionRecord DEF NextSection
<1>2. section' \in DOMAIN Sections => /\ ptr' = Sections[section'].to
                                      /\ ptr' \in Int /\ Sections[section'].end \in Int
                                      /\ ptr' <= Sections[section'].end
  <2> SUFFICES ASSUME section' \in DOMAIN Sections
               PROVE  /\ ptr' = Sections[section'].to /\ Sections[section'].end \in Int
                      /\ ptr' \in Int /\ ptr' <= Sections[section'].end
    OBVIOUS
  <2>1. ptr' = Sections[section'].to
    BY <1>1 DEF NextSection
  <2> QED
    BY <2>1, SectionRecord
<1>3. section' \notin DOMAIN Sections => ptr' = ptr
  BY <1>1 DEF NextSection
<1>4. ptr' \in Int
  BY <1>2, <1>3 DEF StartupTypeOK
<1>5. LoadedUpTo(section, ptr)'
  <2> SUFFICES ASSUME NEW j \in MovedSections, NEW w \in Target(Sections[j]),
                      j < section' \/ (j = section' /\ w < ptr')
               PROVE  Seen(w)' = Image[Sections[j].from + (w - Sections[j].to)]
    BY DEF LoadedUpTo
  <2>1. /\ j \in DOMAIN Sections /\ j \in 1 .. Len(Sections) /\ Sections[j].to \in Int
        /\ Sections[j].end \in Int
    BY SectionFacts
  <2>2. w \in Int /\ Sections[j].to <= w /\ w < Sections[j].end
    BY <2>1 DEF Target
  <2>3. j # section'
    BY <1>2, <2>1, <2>2
  <2>4. j < k \/ (j = k /\ w < p)
    BY <1>1, <2>1, <2>2, <2>3
  <2>5. Seen(w) = Image[Sections[j].from + (w - Sections[j].to)]
    BY <2>4 DEF LoadedUpTo
  <2> QED
    BY <2>5 DEF Seen
<1> QED
  BY <1>1, <1>2, <1>4, <1>5

\* A store elsewhere leaves a word as it was.
LEMMA StoredElsewhere ==
    ASSUME StartupTypeOK, NEW p \in Addresses, NEW v \in Contents, Store(p, v), UNCHANGED ram
    PROVE  /\ dcache' \in [Addresses -> Cacheable] /\ Seen(p)' = v
           /\ \A w \in Addresses \ {p} : dcache'[w] = dcache[w] /\ Seen(w)' = Seen(w)
<1>1. dcache \in [Addresses -> Cacheable] /\ dcache' = [dcache EXCEPT ![p] = v] /\ v \in Cacheable
  BY DEF StartupTypeOK, Store, Cacheable
<1>2. v # Absent
  BY LayoutAssumption
<1> QED
  BY <1>1, <1>2 DEF Seen

\* Every step keeps it.
LEMMA StartupStep == StartupInv /\ [StartupNext]_startupVars => StartupInv'
<1> SUFFICES ASSUME StartupInv, [StartupNext]_startupVars
             PROVE  StartupInv'
  OBVIOUS
<1>0. /\ StartupTypeOK /\ KeptIntact /\ LoopsDone /\ CodeThere
      /\ Absent \notin Contents /\ 0 \in Contents /\ Addresses \subseteq Int /\ Code \subseteq Addresses
      /\ BssStart \in Int /\ BssEnd \in Int /\ BssStart <= BssEnd /\ Bss \subseteq Addresses
      /\ Kept \subseteq Addresses /\ Kept \cap Variables = {} /\ Kept \cap Bss = {}
      /\ Len(Sections) \in Nat /\ DOMAIN Sections = 1 .. Len(Sections)
  BY LayoutAssumption, SectionRecord DEF StartupInv, Kept
<1>1. CASE InitICache
  <2>1. StartupTypeOK'
    BY <1>0, <1>1 DEF InitICache, StartupTypeOK, Cacheable
  <2> QED
    BY <1>0, <1>1, <2>1 DEF InitICache, StartupInv, KeptIntact, LoopsDone, CodeThere
<1>2. CASE InitDCache
  <2>0. /\ crt' \in {"bss", "load"} /\ UNCHANGED <<ram, icache>>
        /\ dcache' = [w \in Addresses |-> Absent]
    BY <1>2 DEF InitDCache, DropDCache
  <2>1. KeptIntact' /\ CodeThere'
    BY <1>0, <2>0 DEF KeptIntact, CodeThere
  <2>2. CASE BssStart = BssEnd
    <3>1. crt' = "load" /\ section' = 1 /\ NextSection(1)
      BY <1>2, <2>2 DEF InitDCache, NextSection
    <3>2. /\ ptr' \in Int
          /\ section' \in DOMAIN Sections =>
                ptr' = Sections[section'].to /\ ptr' \in Sections[section'].to .. Sections[section'].end
      BY <1>0, <3>1, SectionRecord DEF NextSection, StartupTypeOK
    <3>3. LoadedUpTo(section, ptr)'
      BY <3>1, <3>2, SectionFacts DEF LoadedUpTo, Target
    <3>4. Cleared(BssEnd)'
      BY <1>0, <2>2 DEF Cleared
    <3> QED
      BY <1>0, <2>0, <2>1, <3>1, <3>2, <3>3, <3>4 DEF StartupInv, StartupTypeOK, LoopsDone, Cacheable
  <2>3. CASE BssStart # BssEnd
    <3>1. crt' = "bss" /\ ptr' = BssStart /\ section' = section
      BY <1>2, <2>3 DEF InitDCache
    <3>2. Cleared(ptr)'
      BY <1>0, <3>1 DEF Cleared
    <3> QED
      BY <1>0, <2>0, <2>1, <2>3, <3>1, <3>2 DEF StartupInv, StartupTypeOK, LoopsDone, Cacheable
  <2> QED
    BY <2>2, <2>3
<1>3. CASE ClearBss
  <2>0. /\ crt = "bss" /\ UNCHANGED <<ram, icache>> /\ Store(ptr, 0) /\ crt' \in {"bss", "load"}
        /\ ptr \in BssStart .. BssEnd - 1 /\ Cleared(ptr) /\ ptr \in Addresses /\ ptr \notin Kept
    BY <1>0, <1>3 DEF ClearBss, LoopsDone, Bss
  <2>1. PICK p \in Addresses : p = ptr
    BY <2>0
  <2>2. /\ dcache' \in [Addresses -> Cacheable] /\ Seen(p)' = 0
        /\ \A w \in Addresses \ {p} : dcache'[w] = dcache[w] /\ Seen(w)' = Seen(w)
    BY <1>0, <2>0, <2>1, StoredElsewhere
  <2>3. Cleared(p + 1)'
    <3> SUFFICES ASSUME NEW w \in BssStart .. p PROVE Seen(w)' = 0
      BY <1>0, <2>0, <2>1 DEF Cleared
    <3>1. CASE w = p
      BY <2>2, <3>1
    <3>2. CASE w # p
      <4>1. w \in BssStart .. p - 1 /\ w \in Bss /\ w \in Addresses
        BY <1>0, <2>0, <2>1, <3>2 DEF Bss
      <4>2. Seen(w) = 0
        BY <2>0, <2>1, <4>1 DEF Cleared
      <4> QED
        BY <2>2, <3>2, <4>1, <4>2
    <3> QED
      BY <3>1, <3>2
  <2>4. KeptIntact' /\ CodeThere'
    BY <1>0, <2>0, <2>1, <2>2 DEF KeptIntact, CodeThere
  <2>5. CASE p + 1 < BssEnd
    <3>1. crt' = crt /\ ptr' = p + 1 /\ UNCHANGED section
      BY <1>3, <2>1, <2>5 DEF ClearBss
    <3>2. Cleared(ptr)'
      BY <2>3, <3>1 DEF Cleared
    <3> QED
      BY <1>0, <2>0, <2>1, <2>2, <2>4, <2>5, <3>1, <3>2 DEF StartupInv, StartupTypeOK, LoopsDone
  <2>6. CASE ~(p + 1 < BssEnd)
    <3>1. crt' = "load" /\ section' = 1 /\ NextSection(1)
      BY <1>3, <2>1, <2>6 DEF ClearBss, NextSection
    <3>2. /\ ptr' \in Int
          /\ section' \in DOMAIN Sections =>
                ptr' = Sections[section'].to /\ ptr' \in Sections[section'].to .. Sections[section'].end
      BY <1>0, <3>1, SectionRecord DEF NextSection, StartupTypeOK
    <3>3. LoadedUpTo(section, ptr)'
      BY <3>1, <3>2, SectionFacts DEF LoadedUpTo, Target
    <3>4. Cleared(BssEnd)'
      <4>1. p + 1 = BssEnd
        BY <1>0, <2>0, <2>1, <2>6
      <4> QED
        BY <2>3, <4>1
    <3> QED
      BY <1>0, <2>0, <2>2, <2>4, <3>1, <3>2, <3>3, <3>4 DEF StartupInv, StartupTypeOK, LoopsDone
  <2> QED
    BY <2>5, <2>6
<1>4. CASE LoadSection
  <2> DEFINE c == Sections[section]
  <2>0. /\ crt = "load" /\ crt' = "load" /\ UNCHANGED <<ram, icache>> /\ section \in DOMAIN Sections
        /\ Cleared(BssEnd) /\ LoadedUpTo(section, ptr) /\ ptr \in c.to .. c.end
        /\ section \in Int /\ section \in 1 .. Len(Sections)
    BY <1>0, <1>4 DEF LoadSection, LoopsDone
  <2>1. CASE ~Moved(c) \/ ptr = c.end
    <3>1. NextSection(section + 1) /\ UNCHANGED dcache
      BY <1>4, <2>1 DEF LoadSection
    <3>2. PICK k \in Int, p \in Int : k = section /\ p = ptr
      BY <1>0, <2>0 DEF StartupTypeOK
    <3>3. k \in MovedSections => p = Sections[k].end
      BY <2>1, <3>2 DEF MovedSections
    <3>4. /\ section' \in 1 .. Len(Sections) + 1 /\ ptr' \in Int /\ LoadedUpTo(section, ptr)'
          /\ section' \in DOMAIN Sections =>
                ptr' \in Sections[section'].to .. Sections[section'].end
      <4>1. k \in 0 .. Len(Sections) /\ LoadedUpTo(k, p) /\ NextSection(k + 1)
        BY <1>0, <2>0, <3>1, <3>2
      <4> QED
        BY <1>0, <2>0, <3>1, <3>3, <4>1, NextSectionLoaded
    <3>5. Cleared(BssEnd)' /\ KeptIntact' /\ CodeThere'
      BY <1>0, <2>0, <3>1 DEF Cleared, Seen, KeptIntact, CodeThere
    <3> QED
      BY <1>0, <2>0, <3>1, <3>4, <3>5 DEF StartupInv, StartupTypeOK, LoopsDone
  <2>2. CASE Moved(c) /\ ptr # c.end
    <3>0. PICK k \in MovedSections : k = section
      BY <2>0, <2>2 DEF MovedSections
    <3>1. PICK p \in Target(Sections[k]) : k = section /\ p = ptr
      BY <2>0, <2>2, <3>0, SectionRecord DEF MovedSections, Target
    <3> DEFINE from == Sections[k].from + (p - Sections[k].to)
    <3>2. /\ Store(p, Seen(from)) /\ ptr' = p + 1 /\ section' = k
      BY <1>4, <2>2, <3>1 DEF LoadSection
    <3>3. p \in Addresses /\ p \notin Kept /\ p \notin Bss /\ from \in Kept /\ p \in Int
          /\ Sections[k].to \in Int /\ Sections[k].end \in Int /\ Sections[k].to <= p /\ p < Sections[k].end
      BY SectionFacts, <3>1 DEF Target
    <3> HIDE DEF from
    <3>4. Seen(from) = Image[from] /\ Image[from] \in Contents
      BY <1>0, <2>0, <3>3, LayoutAssumption DEF KeptIntact, Seen
    <3>5. /\ dcache' \in [Addresses -> Cacheable] /\ Seen(p)' = Image[from]
          /\ \A w \in Addresses \ {p} : dcache'[w] = dcache[w] /\ Seen(w)' = Seen(w)
      <4>1. Store(p, Image[from])
        BY <3>2, <3>4
      <4> QED
        BY <1>0, <2>0, <3>3, <3>4, <4>1, StoredElsewhere
    <3>6. KeptIntact' /\ CodeThere'
      BY <1>0, <2>0, <3>3, <3>5 DEF KeptIntact, CodeThere
    <3>7. Cleared(BssEnd)'
      <4> SUFFICES ASSUME NEW w \in Bss PROVE Seen(w)' = 0
        BY DEF Cleared, Bss
      <4> QED
        BY <1>0, <2>0, <3>3, <3>5 DEF Cleared, Bss
    <3>8. LoadedUpTo(section, ptr)'
      <4> SUFFICES ASSUME NEW j \in MovedSections, NEW w \in Target(Sections[j]),
                          j < k \/ (j = k /\ w < p + 1)
                   PROVE  Seen(w)' = Image[Sections[j].from + (w - Sections[j].to)]
        BY <3>2 DEF LoadedUpTo
      <4>1. w \in Addresses /\ w \in Int
        BY <1>0, SectionFacts
      <4>2. CASE j = k /\ w = p
        BY <4>2, <3>5 DEF from
      <4>3. CASE ~(j = k /\ w = p)
        <5>1. w # p
          BY <4>3, <3>1, LayoutAssumption
        <5>2. j < k \/ (j = k /\ w < p)
          BY <4>1, <4>3, <3>3, <5>1
        <5>3. Seen(w) = Image[Sections[j].from + (w - Sections[j].to)]
          BY <2>0, <3>1, <5>2 DEF LoadedUpTo
        <5> QED
          BY <3>5, <4>1, <5>1, <5>3
      <4> QED
        BY <4>2, <4>3
    <3>9. /\ ptr' \in Sections[section'].to .. Sections[section'].end /\ ptr' \in Int
          /\ section' \in 1 .. Len(Sections) + 1 /\ section' \in Int
      BY <1>0, <2>0, <3>1, <3>2, <3>3
    <3> QED
      BY <1>0, <2>0, <3>5, <3>6, <3>7, <3>8, <3>9 DEF StartupInv, StartupTypeOK, LoopsDone
  <2> QED
    BY <2>1, <2>2
<1>5. CASE DCacheFlushAll
  <2>0. /\ crt = "load" /\ crt' = "flush" /\ section \notin DOMAIN Sections
        /\ ram' = [w \in Addresses |-> Seen(w)] /\ dcache' = [w \in Addresses |-> Absent]
        /\ UNCHANGED <<section, ptr, icache>>
    BY <1>5 DEF DCacheFlushAll
  <2>1. /\ \A w \in Addresses : Seen(w)' = Seen(w) /\ ram'[w] = Seen(w) /\ Seen(w) \in Contents
    BY <1>0, <2>0 DEF Seen, StartupTypeOK, Cacheable
  <2>2. Cleared(BssEnd) /\ LoadedUpTo(section, ptr) /\ section = Len(Sections) + 1
    BY <1>0, <2>0 DEF LoopsDone
  <2>3. LoadedUpTo(Len(Sections) + 1, 0)
    BY <1>0, <2>2, SectionFacts DEF LoadedUpTo
  <2>4. LoadedUpTo(Len(Sections) + 1, 0)' /\ Cleared(BssEnd)'
    BY <2>1, <2>2, <2>3, AllSeen
  <2>5. KeptIntact'
    BY <1>0, <2>0, <2>1 DEF KeptIntact, Seen
  <2>6. \A w \in Code : ram'[w] \in Loaded(w) /\ dcache'[w] = Absent
    <3> SUFFICES ASSUME NEW w \in Code PROVE ram'[w] \in Loaded(w)
      BY <1>0, <2>0
    <3>1. w \in Addresses /\ w \notin Variables /\ w \notin Bss /\ ram'[w] = Seen(w)
      BY <1>0, <2>1, LayoutAssumption
    <3>2. CASE w \in Targets
      <4>1. PICK j \in MovedSections : w \in Target(Sections[j])
        BY <3>2 DEF Targets
      <4>2. Seen(w) = Image[Sections[j].from + (w - Sections[j].to)]
        BY <1>0, <2>3, <4>1, SectionFacts DEF LoadedUpTo
      <4> QED
        BY <3>1, <3>2, <4>1, <4>2 DEF Loaded
    <3>3. CASE w \notin Targets
      BY <1>0, <2>0, <3>1, <3>3 DEF Kept, KeptIntact, Seen, Loaded
    <3> QED
      BY <3>2, <3>3
  <2> QED
    BY <1>0, <2>0, <2>1, <2>4, <2>5, <2>6 DEF StartupInv, StartupTypeOK, LoopsDone, CodeThere, Cacheable
<1>6. CASE ICacheFlushAll
  <2>0. /\ crt = "flush" /\ crt' = "alt_main" /\ icache' = [w \in Code |-> Absent]
        /\ UNCHANGED <<section, ptr, ram, dcache>>
    BY <1>6 DEF ICacheFlushAll
  <2>1. \A w \in Addresses : Seen(w)' = Seen(w)
    BY <2>0 DEF Seen
  <2>2. LoadedUpTo(Len(Sections) + 1, 0)' /\ Cleared(BssEnd)'
    BY <1>0, <2>0, <2>1, AllSeen DEF LoopsDone
  <2> QED
    BY <1>0, <2>0, <2>2 DEF StartupInv, StartupTypeOK, KeptIntact, LoopsDone, CodeThere, Cacheable
<1>7. CASE ProgramStores
  <2>0. /\ crt \in {"alt_main", "running"} /\ crt' = "running" /\ UNCHANGED <<section, ptr, ram, icache>>
    BY <1>7 DEF ProgramStores
  <2>1. PICK p \in Variables, v \in Contents : Store(p, v)
    BY <1>7 DEF ProgramStores
  <2>2. p \in Addresses /\ p \notin Kept /\ p \notin Code
    BY <1>0, LayoutAssumption
  <2>3. /\ dcache' \in [Addresses -> Cacheable]
        /\ \A w \in Addresses \ {p} : dcache'[w] = dcache[w]
    BY <1>0, <2>0, <2>1, <2>2, StoredElsewhere
  <2> QED
    BY <1>0, <2>0, <2>2, <2>3 DEF StartupInv, StartupTypeOK, KeptIntact, LoopsDone, CodeThere
<1>8. CASE Fetch
  <2>0. crt # "entry" /\ UNCHANGED <<crt, section, ptr, ram, dcache>>
    BY <1>8 DEF Fetch
  <2>1. PICK p \in Code : icache' = [icache EXCEPT ![p] = ram[p]]
    BY <1>8 DEF Fetch
  <2>2. /\ icache' \in [Code -> Cacheable] /\ icache'[p] = ram[p]
        /\ \A w \in Code \ {p} : icache'[w] = icache[w]
    BY <1>0, <2>1 DEF StartupTypeOK, Cacheable
  <2>3. \A w \in Addresses : Seen(w)' = Seen(w)
    BY <2>0 DEF Seen
  <2>4. LoopsDone'
    BY <1>0, <2>0 DEF LoopsDone, LoadedUpTo, Cleared, Seen
  <2> QED
    BY <1>0, <2>0, <2>2, <2>4 DEF StartupInv, StartupTypeOK, KeptIntact, CodeThere
<1>9. CASE WriteBack
  <2>0. crt \notin {"entry", "start"} /\ UNCHANGED <<crt, section, ptr, icache>>
    BY <1>9 DEF WriteBack
  <2>1. PICK p \in Addresses : /\ dcache[p] # Absent /\ ram' = [ram EXCEPT ![p] = dcache[p]]
                               /\ dcache' = [dcache EXCEPT ![p] = Absent]
    BY <1>9 DEF WriteBack
  <2>2. /\ ram' \in [Addresses -> Contents] /\ dcache' \in [Addresses -> Cacheable]
        /\ \A w \in Addresses \ {p} : ram'[w] = ram[w] /\ dcache'[w] = dcache[w]
        /\ dcache'[p] = Absent /\ ram'[p] = dcache[p]
    BY <1>0, <2>1 DEF StartupTypeOK, Cacheable
  <2>3. \A w \in Addresses : Seen(w)' = Seen(w)
    BY <2>1, <2>2 DEF Seen
  <2>4. p \notin Kept
    BY <1>0, <2>0, <2>1 DEF KeptIntact
  <2>5. LoopsDone'
    <3>1. ASSUME crt = "bss" PROVE ptr' \in BssStart .. BssEnd - 1 /\ Cleared(ptr)'
      <4>1. PICK q \in Int : q = ptr /\ q <= BssEnd /\ Cleared(q) /\ q = ptr' /\ q \in BssStart .. BssEnd - 1
        BY <1>0, <2>0, <3>1 DEF LoopsDone
      <4>2. Cleared(q)'
        BY <2>3, <4>1, SameCleared
      <4> QED
        BY <4>1, <4>2 DEF Cleared
    <3>2. ASSUME crt = "load" PROVE Cleared(BssEnd)' /\ LoadedUpTo(section, ptr)'
      <4>1. PICK k, q : /\ k = section /\ q = ptr /\ k = section' /\ q = ptr'
                        /\ LoadedUpTo(k, q) /\ Cleared(BssEnd)
        BY <1>0, <2>0, <3>2 DEF LoopsDone
      <4>2. LoadedUpTo(k, q)' /\ Cleared(BssEnd)'
        BY <1>0, <2>3, <4>1, SameCleared, SameLoaded
      <4> QED
        BY <4>1, <4>2 DEF LoadedUpTo
    <3>3. ASSUME crt \in {"flush", "alt_main"}
          PROVE  Cleared(BssEnd)' /\ LoadedUpTo(Len(Sections) + 1, 0)'
      BY <1>0, <2>3, <3>3, AllSeen DEF LoopsDone
    <3> QED
      BY <1>0, <2>0, <3>1, <3>2, <3>3 DEF LoopsDone
  <2>6. KeptIntact'
    BY <1>0, <2>0, <2>2, <2>4 DEF KeptIntact
  <2>7. CodeThere'
    BY <1>0, <2>0, <2>1, <2>2 DEF CodeThere
  <2> QED
    BY <1>0, <2>0, <2>2, <2>5, <2>6, <2>7 DEF StartupInv, StartupTypeOK
<1>10. CASE ResetCpu
  BY <1>0, <1>10 DEF ResetCpu, StartupInv, StartupTypeOK, KeptIntact, LoopsDone, CodeThere
<1>11. CASE UNCHANGED startupVars
  BY <1>0, <1>11 DEF startupVars, StartupInv, StartupTypeOK, KeptIntact, LoopsDone, CodeThere,
                     LoadedUpTo, Cleared, Seen
<1> QED
  BY <1>1, <1>2, <1>3, <1>4, <1>5, <1>6, <1>7, <1>8, <1>9, <1>10, <1>11 DEF StartupNext

\* A start after any reset finds the memory as the first one did, for any layout
\* the linker script allows.
THEOREM StartTheorem == StartupSpec => []StartsClean
<1>1. StartupInit => StartupInv
  BY LayoutAssumption DEF StartupInit, StartupInv, StartupTypeOK, KeptIntact, LoopsDone, CodeThere,
                          Cacheable, Kept
<1>2. StartupInv => StartsClean
  <2> SUFFICES ASSUME StartupInv PROVE StartsClean
    OBVIOUS
  <2>1. crt = "alt_main" => \A w \in Kept : Seen(w) = Image[w]
    BY DEF StartupInv, KeptIntact, Seen
  <2> QED
    BY <2>1 DEF StartupInv, LoopsDone, CodeThere, StartsClean, DataLoaded, CodeLoaded
<1> QED
  BY <1>1, <1>2, StartupStep, PTL DEF StartupSpec
=============================================================================
