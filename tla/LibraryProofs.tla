---------------------------- MODULE LibraryProofs ----------------------------
(***************************************************************************)
(* Proofs about the calls of the HAL: the file descriptors, for every pool *)
(* size, every set of drivers and names and both builds; the library       *)
(* routines, the two printfs among them, for any arguments.                *)
(***************************************************************************)
EXTENDS FileTable, HalLibrary, SequenceTheorems, WellFoundedInduction, TLAPS

-----------------------------------------------------------------------------
(* Arithmetic.                                                              *)

\* The one multiple of d nearer to 0 than d is 0.
LEMMA SmallProduct ==
    ASSUME NEW k \in Int, NEW d \in Int, d > 0, k * d < d, k * d > -d
    PROVE  k = 0
  BY SMT

\* What quotient and remainder are.
LEMMA DivMod ==
    ASSUME NEW n \in Int, NEW d \in Int, d > 0
    PROVE  /\ n \div d \in Int /\ n % d \in Int /\ 0 <= n % d /\ n % d < d
           /\ n = ((n \div d) * d) + (n % d)
  BY SMT

\* Quotient and remainder, each by its name.
LEMMA Divided ==
    ASSUME NEW n \in Int, NEW d \in Int, d > 0, NEW q, q = n \div d, NEW r, r = n % d
    PROVE  q \in Int /\ r \in Int /\ 0 <= r /\ r < d /\ n = q * d + r
  BY DivMod

\* Only quotient and remainder are.
LEMMA DivUnique ==
    ASSUME NEW n \in Int, NEW d \in Int, d > 0,
           NEW q \in Int, NEW r \in Int, 0 <= r, r < d, n = q * d + r
    PROVE  n \div d = q /\ n % d = r
<1> DEFINE p == n \div d
<1> DEFINE s == n % d
<1>1. p \in Int /\ s \in Int /\ 0 <= s /\ s < d /\ n = p * d + s
  BY DivMod
<1> HIDE DEF p, s
<1>2. (p - q) * d = r - s
  BY <1>1, SMT
<1>3. p - q = 0
  BY <1>1, <1>2, SmallProduct
<1>4. p = q /\ s = r
  BY <1>1, <1>3, SMT
<1>5. QED
  BY <1>4 DEF p, s

\* Products of whole numbers.
LEMMA Products ==
    ASSUME NEW x \in Int, NEW y \in Int, NEW z \in Int
    PROVE  /\ x * y \in Int /\ x * y = y * x
           /\ (x + y) * z = x * z + y * z /\ (x - y) * z = x * z - y * z
           /\ z * (x + y) = z * x + z * y /\ z * (x - y) = z * x - z * y
           /\ (x * y) * z = x * (y * z)
           /\ (2 * x) * y = 2 * (x * y) /\ x * (2 * y) = 2 * (x * y)
  BY SMT

\* A product with a factor that is not negative grows with the other.
LEMMA ProductGrows ==
    ASSUME NEW x \in Int, NEW y \in Int, NEW z \in Nat, x <= y
    PROVE  x * z <= y * z
<1>1. (y - x) \in Nat
  OBVIOUS
<1>2. (y - x) * z \in Nat
  BY <1>1, SMT
<1>3. QED
  BY <1>2, Products, SMT

-----------------------------------------------------------------------------
(* Natural numbers.                                                         *)

\* Every set of natural numbers that is not empty has a least element.
LEMMA LeastElement ==
    ASSUME NEW S, S \subseteq Nat, S # {}
    PROVE  \E m \in S : \A n \in S : m <= n
<1>1. \E m \in S : \A n \in S : <<n, m>> \notin OpToRel(<, Nat)
  BY NatLessThanWellFounded, WFMin, Zenon
<1>2. PICK m \in S : \A n \in S : <<n, m>> \notin OpToRel(<, Nat)
  BY <1>1
<1>3. ASSUME NEW n \in S PROVE m <= n
  <2>1. <<n, m>> \notin {ss \in Nat \X Nat : ss[1] < ss[2]}
    BY <1>2 DEF OpToRel
  <2>2. QED
    BY <2>1
<1>4. QED
  BY <1>2, <1>3

\* Induction on the natural numbers, for a set.
LEMMA Inductive ==
    ASSUME NEW S \in SUBSET Nat, 0 \in S, \A n \in S : n + 1 \in S
    PROVE  S = Nat
<1> SUFFICES ASSUME Nat \ S # {} PROVE FALSE
  BY Zenon
<1>1. \E m \in Nat \ S : \A n \in Nat \ S : <<n, m>> \notin OpToRel(<, Nat)
  BY NatLessThanWellFounded, WFMin, Zenon
<1>2. PICK m \in Nat \ S : \A n \in Nat \ S : <<n, m>> \notin OpToRel(<, Nat)
  BY <1>1
<1>3. \A n \in Nat \ S : ~(n < m)
  BY <1>2 DEF OpToRel
<1>4. m # 0 /\ m - 1 \in Nat /\ m - 1 < m
  OBVIOUS
<1>5. m - 1 \in S
  BY <1>3, <1>4
<1>6. QED
  BY <1>4, <1>5

-----------------------------------------------------------------------------
(* The file descriptors.                                                    *)

\* alt_get_fd gives a free descriptor, the lowest, when there is one.
LEMMA GetFdFree ==
    ASSUME Free # {}
    PROVE  GetFd \in Free /\ \A g \in Free : GetFd <= g
<1> USE MaxFdAssumption
<1>1. Free \subseteq Nat
  BY DEF Free, Fd
<1>2. \E f \in Free : \A g \in Free : f <= g
  BY <1>1, LeastElement
<1>3. QED
  BY <1>2 DEF GetFd

\* A driver is found for a name only if it is registered, and it is in the list
\* in which it was registered.
LEMMA FindDriver ==
    ASSUME TypeOK, NEW name, Find(name) # NoDev
    PROVE  Find(name) \in Drivers
<1> USE DriverAssumption
<1> DEFINE First(list) == FirstAnswering(list, name)
<1>1. ASSUME NEW list, NEW D, list \in Seq(D), Answering(list, name) # {}
      PROVE  First(list) \in D
  <2>1. Answering(list, name) \subseteq DOMAIN list /\ DOMAIN list \subseteq Nat
    BY <1>1 DEF Answering
  <2>2. \E i \in Answering(list, name) : \A j \in Answering(list, name) : i <= j
    BY <1>1, <2>1, LeastElement
  <2>3. \E i \in DOMAIN list : First(list) = list[i]
    BY <2>1, <2>2, Zenon DEF FirstAnswering
  <2>4. QED
    BY <1>1, <2>3
<1>2. CASE Answering(devList, name) # {}
  BY <1>1, <1>2 DEF Find, TypeOK, Drivers
<1>3. CASE Answering(devList, name) = {} /\ Answering(fsList, name) # {}
  BY <1>1, <1>3 DEF Find, TypeOK, Drivers
<1>4. CASE Answering(devList, name) = {} /\ Answering(fsList, name) = {}
  BY <1>4 DEF Find
<1>5. QED
  BY <1>2, <1>3, <1>4

AccessModes == {"O_RDONLY", "O_WRONLY", "O_RDWR"}

\* What open() does to the pool: it takes a free descriptor above the standard
\* ones, of a device that nobody has locked, or it changes nothing but the mark.
LEMMA OpenFacts ==
    ASSUME IInv, NEW name, NEW mode \in AccessModes, NEW nonblock \in BOOLEAN,
           NEW rc \in OpenOutcomes(name)
    PROVE  /\ rc \in {"ok", "ENODEV", "EMFILE", "EACCES", "EIO"}
           /\ rc # "ok" => AfterOpen(rc, name, mode, nonblock) = table
           /\ HighWater(rc) \in maxFd .. MaxFd - 1
           /\ HighWater(rc) # maxFd => HighWater(rc) > 2
           /\ rc = "ok" =>
                 /\ GetFd \in Free /\ GetFd > 2 /\ GetFd <= HighWater(rc)
                 /\ Find(name) \in Drivers
                 /\ Opened(name, mode, nonblock) \in Entry
                 /\ AfterOpen(rc, name, mode, nonblock)
                       = [table EXCEPT ![GetFd] = Opened(name, mode, nonblock)]
                 /\ Find(name) \notin FileSystems => ~FileLocked(Find(name), GetFd, HighWater(rc))
<1> USE MaxFdAssumption, DriverAssumption
<1> DEFINE new == Opened(name, mode, nonblock)
<1>1. rc \in {"ok", "ENODEV", "EMFILE", "EACCES", "EIO"}
  BY Zenon DEF OpenOutcomes
<1>2. CASE rc \in {"ENODEV", "EMFILE"}
  BY <1>2 DEF AfterOpen, HighWater, IInv, TypeOK
<1>3. CASE rc \notin {"ENODEV", "EMFILE"}
  <2>1. Find(name) # NoDev /\ Free # {}
    BY <1>3 DEF OpenOutcomes
  <2>2. GetFd \in Free /\ Find(name) \in Drivers
    BY <2>1, GetFdFree, FindDriver DEF IInv
  <2>3. GetFd \in Fd /\ table[GetFd].dev = NoDev
    BY <2>2 DEF Free
  <2>4. GetFd \notin Standard
    BY <2>3 DEF IInv, AlwaysBound
  <2>5. GetFd \in Nat /\ GetFd > 2 /\ GetFd < MaxFd
    BY <2>3, <2>4 DEF Fd, Standard
  <2>6. HighWater(rc) = Higher(maxFd, GetFd) /\ maxFd \in -1 .. MaxFd - 1
    BY <1>3 DEF HighWater, IInv, TypeOK
  <2>7. /\ HighWater(rc) \in maxFd .. MaxFd - 1
        /\ HighWater(rc) # maxFd => HighWater(rc) > 2
        /\ GetFd <= HighWater(rc)
    BY <2>5, <2>6 DEF Higher
  <2>8. table \in [Fd -> Entry] /\ table[GetFd] = Unused
    BY <2>3 DEF IInv, TypeOK, FreeIsClean
  <2>9. rc # "ok" => AfterOpen(rc, name, mode, nonblock) = table
    <3>1. SUFFICES ASSUME rc # "ok"
                   PROVE  Release([table EXCEPT ![GetFd] = new], GetFd) = table
      BY <1>3 DEF AfterOpen
    <3>2. Release([table EXCEPT ![GetFd] = new], GetFd) = [table EXCEPT ![GetFd] = Unused]
      BY <2>3, <2>5, <2>8 DEF Release
    <3>3. QED
      BY <2>3, <2>8, <3>2
  <2>10. new \in Entry
    BY <2>2 DEF Opened, Entry, AccessModes
  <2>11. rc = "ok" /\ Find(name) \notin FileSystems =>
            ~FileLocked(Find(name), GetFd, HighWater(rc))
    BY <2>1, <2>6 DEF OpenOutcomes
  <2>12. rc = "ok" => AfterOpen(rc, name, mode, nonblock) = [table EXCEPT ![GetFd] = new]
    BY <1>3 DEF AfterOpen
  <2>13. QED
    BY <1>1, <2>2, <2>5, <2>7, <2>9, <2>10, <2>11, <2>12
<1>4. QED
  BY <1>2, <1>3

\* The initial pool: everything is on /dev/null or free.
LEMMA InitInv == Init => IInv
<1> SUFFICES ASSUME Init PROVE IInv
  OBVIOUS
<1> USE MaxFdAssumption, DriverAssumption
<1>1. Unused \in Entry /\ OnNull \in Entry
  BY DEF Unused, OnNull, Entry, Drivers
<1>2. devList \in Seq(Devices \cup {Null}) /\ fsList \in Seq(FileSystems)
  BY DEF Init
<1>3. TypeOK
  <2>1. direct \in BOOLEAN
    BY Zenon DEF Init
  <2>2. table \in [Fd -> Entry]
    BY <1>1 DEF Init
  <2>3. QED
    BY <1>2, <2>1, <2>2 DEF Init, TypeOK, Boot, Fd
<1>4. \A f \in Fd : table[f] = IF f \in Standard THEN OnNull ELSE Unused
  BY DEF Init
<1>5. /\ OnNull.dev = Null /\ OnNull.marks = {}
      /\ Unused.dev = NoDev /\ Unused.marks = {}
      /\ Null # NoDev
  BY DEF OnNull, Unused, Drivers
<1>6. Standard \subseteq Fd
  BY DEF Standard, Fd
<1>7. /\ FreeIsClean /\ AlwaysBound /\ NoneLeaked /\ BelowMark
      /\ OneOwner /\ MarkedDevices /\ LockedBelow
  BY <1>4, <1>5, <1>6 DEF Init, FreeIsClean, AlwaysBound, NoneLeaked, BelowMark,
     OneOwner, MarkedDevices, LockedBelow, Locked
<1>8. BootInv
  BY <1>4, <1>5 DEF Init, BootInv, Locked, Boot
<1>9. QED
  BY <1>3, <1>7, <1>8 DEF IInv

PoolInv ==
    /\ FreeIsClean /\ AlwaysBound /\ NoneLeaked /\ BelowMark
    /\ OneOwner /\ MarkedDevices /\ LockedBelow

\* A higher mark disturbs nothing.
LEMMA PoolFrame ==
    ASSUME IInv, table' = table, held' = held,
           maxFd' \in maxFd .. MaxFd - 1, maxFd' # maxFd => maxFd' > 2
    PROVE  PoolInv' /\ maxFd' \in -1 .. MaxFd - 1
<1> USE MaxFdAssumption
<1>1. maxFd \in -1 .. MaxFd - 1 /\ PoolInv
  BY DEF IInv, PoolInv, TypeOK
<1>2. FreeIsClean' /\ AlwaysBound' /\ NoneLeaked' /\ OneOwner' /\ LockedBelow'
  BY <1>1 DEF PoolInv, FreeIsClean, AlwaysBound, NoneLeaked, OneOwner, LockedBelow, Locked
<1>3. BelowMark' /\ MarkedDevices'
  BY <1>1 DEF PoolInv, BelowMark, MarkedDevices, Locked, Fd, Standard
<1>4. QED
  BY <1>1, <1>2, <1>3 DEF PoolInv

\* Once main runs, the standard descriptors are where they should be as long as
\* no call gives them another driver.
LEMMA BootFrame ==
    ASSUME IInv, UNCHANGED <<direct, lists>>, phase = "main", phase' \in {"main", "halted"},
           \A s \in Standard : table'[s].dev = table[s].dev
    PROVE  BootInv'
<1>1. \A s \in Standard : Find(StdName[s])' = Find(StdName[s])
  BY DEF lists, Find, Answering, FirstAnswering
<1>2. \A s \in Standard : Redirected(s) => Redirected(s)'
  BY <1>1 DEF Redirected
<1>3. 0 \in Standard /\ 1 \in Standard /\ 2 \in Standard
  BY DEF Standard
<1>4. BootInv
  BY DEF IInv
<1>5. direct' = direct
  OBVIOUS
<1>6. direct' => phase' \notin Boot \ {"sys"}
  BY DEF Boot
<1>7. phase' \in Boot => \A f \in Fd : held'[f] = NoDev /\ ~Locked(f)'
  BY DEF Boot
<1>8. ~direct' /\ MaxFd > 3 => Redirected(0)' /\ Redirected(1)' /\ Redirected(2)'
  <2>1. SUFFICES ASSUME ~direct', MaxFd > 3
                 PROVE  Redirected(0)' /\ Redirected(1)' /\ Redirected(2)'
    BY Zenon
  <2>2. ~direct
    BY <1>5, <2>1
  <2>3. Redirected(0) /\ Redirected(1) /\ Redirected(2)
    BY <1>4, <2>1, <2>2 DEF BootInv
  <2>4. QED
    BY <2>3, <1>2, <1>3, Zenon
<1>9. QED
  BY <1>6, <1>7, <1>8 DEF BootInv

\* A call that leaves the pool alone.
LEMMA SameStep ==
    ASSUME IInv, UNCHANGED <<direct, lists>>, SamePool, phase = "main",
           phase' \in {"main", "halted"},
           result' \in {"ok", "ENODEV", "EMFILE", "EACCES", "EIO", "EBADFD", "EWOULDBLOCK",
                        "ENOTTY", "ENOTSUP", "EINVAL", "ENOSYS", "ESRCH", "ECHILD"}
    PROVE  IInv'
<1>1. /\ UNCHANGED <<direct, devList, fsList, table, maxFd, held>>
      /\ maxFd \in -1 .. MaxFd - 1 /\ MaxFd \in Nat
  BY MaxFdAssumption DEF lists, SamePool, IInv, TypeOK
<1>2. PoolInv'
  BY <1>1, PoolFrame
<1>3. BootInv'
  BY <1>1, BootFrame
<1>4. TypeOK'
  BY <1>1, Zenon DEF IInv, TypeOK
<1>5. QED
  BY <1>2, <1>3, <1>4 DEF IInv, PoolInv

\* open()
LEMMA OpenStep ==
    ASSUME IInv, NEW name \in Names, NEW mode \in Modes, NEW nonblock \in BOOLEAN,
           Open(name, mode, nonblock)
    PROVE  IInv'
<1> USE MaxFdAssumption, DriverAssumption
<1>1. mode \in AccessModes
  BY DEF AccessModes
<1>2. PICK rc \in OpenOutcomes(name) :
          /\ table' = AfterOpen(rc, name, mode, nonblock)
          /\ maxFd' = HighWater(rc)
          /\ held' = IF rc = "ok" THEN [held EXCEPT ![GetFd] = Find(name)] ELSE held
          /\ result' = rc
  BY DEF Open, Returns
<1>3. /\ UNCHANGED <<direct, phase, devList, fsList>> /\ phase = "main"
      /\ UNCHANGED lists
  BY DEF Open, Calling, Running, lists
<1>4. /\ rc \in {"ok", "ENODEV", "EMFILE", "EACCES", "EIO"}
      /\ rc # "ok" => table' = table
      /\ maxFd' \in maxFd .. MaxFd - 1
      /\ maxFd' # maxFd => maxFd' > 2
  BY <1>1, <1>2, OpenFacts
<1>5. CASE rc # "ok"
  <2>1. table' = table /\ held' = held
    BY <1>2, <1>4, <1>5
  <2>2. PoolInv' /\ maxFd' \in -1 .. MaxFd - 1
    BY <1>4, <2>1, PoolFrame
  <2>3. BootInv'
    BY <1>3, <2>1, BootFrame
  <2>4. TypeOK'
    BY <1>2, <1>3, <1>4, <2>1, <2>2, Zenon DEF IInv, TypeOK
  <2>5. QED
    BY <2>2, <2>3, <2>4 DEF IInv, PoolInv
<1>6. CASE rc = "ok"
  <2> DEFINE n == GetFd
             d == Find(name)
             e == Opened(name, mode, nonblock)
  <2>1. /\ n \in Free /\ n > 2 /\ n <= maxFd' /\ d \in Drivers /\ e \in Entry
        /\ table' = [table EXCEPT ![n] = e]
        /\ d \notin FileSystems => ~FileLocked(d, n, maxFd')
    BY <1>1, <1>2, <1>6, OpenFacts
  <2>2. held' = [held EXCEPT ![n] = d]
    BY <1>2, <1>6
  <2>3. /\ n \in Fd /\ n \notin Standard /\ table[n].dev = NoDev /\ d # NoDev
        /\ e.dev = d /\ e.marks = IF d \in FileSystems THEN {} ELSE {"DEV"}
    BY <2>1 DEF Free, Opened, Standard, Drivers
  <2> HIDE DEF n, d, e
  <2>4. /\ table \in [Fd -> Entry] /\ held \in [Fd -> Drivers \cup {NoDev}]
        /\ maxFd \in -1 .. MaxFd - 1
    BY DEF IInv, TypeOK
  <2>5. /\ table'[n] = e /\ \A f \in Fd : f # n => table'[f] = table[f]
        /\ held'[n] = d /\ \A f \in Fd : f # n => held'[f] = held[f]
    BY <2>1, <2>2, <2>3, <2>4
  <2>6. TypeOK'
    <3>1. table' \in [Fd -> Entry] /\ held' \in [Fd -> Drivers \cup {NoDev}]
      BY <2>1, <2>2, <2>4
    <3>2. maxFd' \in -1 .. MaxFd - 1
      BY <1>4, <2>4
    <3>3. QED
      BY <1>2, <1>3, <1>4, <3>1, <3>2, Zenon DEF IInv, TypeOK
  <2>7. "EXCL" \notin table'[n].marks
    BY <2>3, <2>5
  <2>8. FreeIsClean' /\ NoneLeaked'
    BY <2>3, <2>5 DEF IInv, FreeIsClean, NoneLeaked
  <2>9. AlwaysBound'
    BY <2>3, <2>5 DEF IInv, AlwaysBound, Standard, Fd
  <2>10. BelowMark'
    <3>1. \A f \in Fd \ Standard : table'[f].dev # NoDev => f <= maxFd'
      <4>1. SUFFICES ASSUME NEW f \in Fd \ Standard, table'[f].dev # NoDev, f # n
                     PROVE  f <= maxFd'
        BY <2>1
      <4>2. f <= maxFd /\ f \in Nat
        BY <2>5, <4>1 DEF IInv, BelowMark, Fd
      <4>3. QED
        BY <1>4, <2>4, <4>2
    <3>2. maxFd' > 2
      BY <2>1, <2>3, <2>4, <1>4 DEF Fd
    <3>3. QED
      BY <3>1, <3>2 DEF BelowMark
  <2>11. OneOwner'
    <3>1. SUFFICES ASSUME NEW f \in Fd, NEW g \in Fd, Locked(f)', Locked(g)',
                          table'[f].dev = table'[g].dev
                   PROVE  f = g
      BY DEF OneOwner
    <3>2. f # n /\ g # n
      BY <2>7, <3>1 DEF Locked
    <3>3. QED
      BY <2>5, <3>1, <3>2 DEF IInv, OneOwner, Locked
  <2>12. MarkedDevices'
    <3>1. maxFd' > 2
      BY <2>1, <2>3, <2>4, <1>4 DEF Fd
    <3>2. QED
      BY <2>3, <2>5, <2>7, <3>1 DEF IInv, MarkedDevices, Locked
  <2>13. LockedBelow'
    <3>1. SUFFICES ASSUME NEW f \in Fd, NEW g \in Fd, Locked(f)', g # f,
                          table'[g].dev = table'[f].dev
                   PROVE  f < g
      BY DEF LockedBelow
    <3>2. f # n /\ Locked(f) /\ table'[f] = table[f]
      BY <2>5, <2>7, <3>1 DEF Locked
    <3>3. CASE g # n
      BY <2>5, <3>1, <3>2, <3>3 DEF IInv, LockedBelow
    <3>4. CASE g = n
      <4>1. table[f].dev = d
        BY <2>3, <2>5, <3>1, <3>2, <3>4
      <4>2. d \notin FileSystems
        BY <3>2, <4>1 DEF IInv, MarkedDevices
      <4>3. f \in 0 .. maxFd'
        <5>1. f \in Standard \/ f <= maxFd
          BY <4>1, <2>3 DEF IInv, BelowMark
        <5>2. maxFd' > 2
          BY <2>1, <2>3, <2>4, <1>4 DEF Fd
        <5>3. QED
          BY <5>1, <5>2, <1>4, <2>4 DEF Standard, Fd
      <4>4. FileLocked(d, n, maxFd')
        BY <3>2, <4>1, <4>3 DEF FileLocked, Locked
      <4>5. QED
        BY <2>1, <4>2, <4>4
    <3>5. QED
      BY <3>3, <3>4
  <2>14. BootInv'
    <3>1. \A s \in Standard : table'[s].dev = table[s].dev
      BY <2>3, <2>5 DEF Standard, Fd
    <3>2. QED
      BY <1>3, <3>1, BootFrame
  <2>15. QED
    BY <2>6, <2>8, <2>9, <2>10, <2>11, <2>12, <2>13, <2>14 DEF IInv
<1>7. QED
  BY <1>5, <1>6

\* A descriptor that the application may name has a driver.
LEMMA InUseBound ==
    ASSUME IInv, NEW f \in InUse
    PROVE  f \in Fd /\ table[f].dev # NoDev
<1>1. Standard \subseteq Fd
  BY MaxFdAssumption DEF Standard, Fd
<1>2. CASE f \in Standard
  BY <1>1, <1>2 DEF IInv, AlwaysBound
<1>3. CASE f \in Fd /\ held[f] # NoDev
  <2>1. table[f].dev = held[f]
    BY <1>3 DEF IInv, AlwaysBound
  <2>2. QED
    BY <1>3, <2>1
<1>4. QED
  BY <1>2, <1>3 DEF InUse

\* close(), and the close(STDOUT_FILENO) of alt_main.
LEMMA CloseStep ==
    ASSUME IInv, NEW f \in InUse, Close(f), UNCHANGED <<direct, lists>>, phase = "main",
           phase' \in {"main", "halted"}
    PROVE  IInv'
<1> USE MaxFdAssumption, DriverAssumption
<1>1. f \in Fd /\ table[f].dev # NoDev
  BY InUseBound
<1>2. /\ table \in [Fd -> Entry] /\ held \in [Fd -> Drivers \cup {NoDev}]
      /\ UNCHANGED <<direct, devList, fsList, maxFd>>
      /\ result' \in {"ok", "EWOULDBLOCK"}
  BY DEF IInv, TypeOK, lists, Close, Returns, CloseOutcomes
<1>3. Unused \in Entry /\ Unused.dev = NoDev /\ Unused.marks = {}
  BY DEF Unused, Entry
<1>4. held' = [held EXCEPT ![f] = NoDev]
  BY DEF Close
<1>5. table' = IF f \in Standard THEN table ELSE [table EXCEPT ![f] = Unused]
  BY <1>1 DEF Close, Release, Standard, Fd
<1>6. /\ held'[f] = NoDev
      /\ f \in Standard => table'[f] = table[f]
      /\ f \notin Standard => table'[f] = Unused
      /\ \A g \in Fd : g # f => table'[g] = table[g] /\ held'[g] = held[g]
  BY <1>1, <1>2, <1>4, <1>5
<1>7. TypeOK'
  <2>1. table' \in [Fd -> Entry]
    BY <1>1, <1>2, <1>3, <1>5
  <2>2. held' \in [Fd -> Drivers \cup {NoDev}]
    BY <1>1, <1>2, <1>4
  <2>3. QED
    BY <1>2, <2>1, <2>2, Zenon DEF IInv, TypeOK
<1>8. FreeIsClean' /\ NoneLeaked'
  <2>1. FreeIsClean'
    BY <1>6 DEF IInv, FreeIsClean
  <2>2. NoneLeaked'
    BY <1>3, <1>6 DEF IInv, NoneLeaked
  <2>3. QED
    BY <2>1, <2>2
<1>9. AlwaysBound'
  <2>1. \A s \in Standard : s \in Fd /\ table'[s].dev # NoDev
    BY <1>6 DEF IInv, AlwaysBound, Standard, Fd
  <2>2. \A g \in Fd : held'[g] # NoDev => g \notin Standard /\ table'[g].dev = held'[g]
    BY <1>6 DEF IInv, AlwaysBound
  <2>3. QED
    BY <2>1, <2>2 DEF AlwaysBound
<1>10. BelowMark'
  BY <1>2, <1>3, <1>6 DEF IInv, BelowMark
<1>11. \A g \in Fd : Locked(g)' => Locked(g) /\ table'[g] = table[g]
  BY <1>3, <1>6 DEF Locked
<1>12. \A g \in Fd : table'[g].dev # NoDev => table'[g] = table[g]
  BY <1>3, <1>6
<1>13. \A g \in Fd : Locked(g) => table[g].dev # NoDev
  BY <1>3 DEF IInv, FreeIsClean, Locked
<1>14. OneOwner'
  BY <1>11 DEF IInv, OneOwner
<1>15. MarkedDevices'
  <2>1. \A g \in Fd : table'[g].marks = {} \/ table'[g] = table[g]
    BY <1>3, <1>6
  <2>2. QED
    BY <1>2, <1>11, <2>1 DEF IInv, MarkedDevices, Locked
<1>16. LockedBelow'
  <2>1. SUFFICES ASSUME NEW g \in Fd, NEW h \in Fd, Locked(g)', h # g,
                        table'[h].dev = table'[g].dev
                 PROVE  g < h
    BY DEF LockedBelow
  <2>2. Locked(g) /\ table'[g] = table[g] /\ table[g].dev # NoDev
    BY <1>11, <1>13, <2>1
  <2>3. table'[h] = table[h]
    BY <1>12, <2>1, <2>2
  <2>4. QED
    BY <2>1, <2>2, <2>3 DEF IInv, LockedBelow
<1>17. BootInv'
  <2>1. \A s \in Standard : table'[s].dev = table[s].dev
    BY <1>6 DEF Standard, Fd
  <2>2. QED
    BY <2>1, BootFrame
<1>18. QED
  BY <1>7, <1>8, <1>9, <1>10, <1>14, <1>15, <1>16, <1>17 DEF IInv

\* A call that changes the flags of one open descriptor and locks nothing that
\* was not locked.
LEMMA FlagStep ==
    ASSUME IInv, NEW f \in InUse, NEW e \in Entry,
           table' = [table EXCEPT ![f] = e], e.dev = table[f].dev,
           e.marks \subseteq table[f].marks,
           "EXCL" \in e.marks => "DEV" \in e.marks,
           UNCHANGED <<direct, lists, phase, maxFd, held>>, phase = "main", result' = "ok"
    PROVE  IInv'
<1> USE MaxFdAssumption, DriverAssumption
<1>1. f \in Fd /\ table[f].dev # NoDev
  BY InUseBound
<1>2. /\ table \in [Fd -> Entry]
      /\ UNCHANGED <<direct, devList, fsList, maxFd, held, phase>>
  BY DEF IInv, TypeOK, lists
<1>3. /\ table'[f] = e
      /\ \A g \in Fd : g # f => table'[g] = table[g]
      /\ \A g \in Fd : table'[g].dev = table[g].dev /\ table'[g].marks \subseteq table[g].marks
  BY <1>1, <1>2
<1>4. TypeOK'
  <2>1. table' \in [Fd -> Entry]
    BY <1>1, <1>2
  <2>2. QED
    BY <1>2, <2>1, Zenon DEF IInv, TypeOK
<1>5. FreeIsClean' /\ NoneLeaked' /\ AlwaysBound' /\ BelowMark'
  <2>1. Standard \subseteq Fd
    BY DEF Standard, Fd
  <2>2. QED
    BY <1>1, <1>2, <1>3, <2>1 DEF IInv, FreeIsClean, NoneLeaked, AlwaysBound, BelowMark
<1>6. \A g \in Fd : Locked(g)' => Locked(g)
  BY <1>3 DEF Locked
<1>7. OneOwner' /\ LockedBelow'
  BY <1>3, <1>6 DEF IInv, OneOwner, LockedBelow
<1>8. MarkedDevices'
  BY <1>2, <1>3, <1>6 DEF IInv, MarkedDevices, Locked
<1>9. BootInv'
  <2>1. \A s \in Standard : table'[s].dev = table[s].dev
    BY <1>3 DEF Standard, Fd
  <2>2. QED
    BY <2>1, BootFrame
<1>10. QED
  BY <1>4, <1>5, <1>7, <1>8, <1>9 DEF IInv

\* fcntl(F_SETFL)
LEMMA SetFlagsStep ==
    ASSUME IInv, NEW f \in Fd, NEW b \in BOOLEAN, SetFlags(f, b)
    PROVE  IInv'
<1>1. f \in InUse /\ table \in [Fd -> Entry]
  BY DEF SetFlags, IInv, TypeOK
<1> DEFINE e == [table[f] EXCEPT !.nonblock = b]
<1>2. e \in Entry /\ e.dev = table[f].dev /\ e.marks = table[f].marks
  BY <1>1 DEF Entry
<1>3. table' = [table EXCEPT ![f] = e]
  BY DEF SetFlags
<1>4. "EXCL" \in e.marks => "DEV" \in e.marks
  BY <1>2 DEF IInv, MarkedDevices, Locked
<1>5. UNCHANGED <<direct, lists, phase, maxFd, held>> /\ phase = "main" /\ result' = "ok"
  BY DEF SetFlags, Calling, Running, Returns
<1> HIDE DEF e
<1>6. QED
  BY <1>1, <1>2, <1>3, <1>4, <1>5, FlagStep

\* ioctl(TIOCEXCL)
LEMMA LockStep ==
    ASSUME IInv, NEW f \in Fd, Lock(f)
    PROVE  IInv'
<1> USE MaxFdAssumption, DriverAssumption
<1>1. /\ f \in InUse /\ table \in [Fd -> Entry] /\ maxFd \in -1 .. MaxFd - 1
      /\ UNCHANGED <<direct, lists, phase>> /\ phase = "main"
  BY DEF Lock, IInv, TypeOK, Calling, Running
<1>2. CASE Forward(f)
  <2>1. SamePool /\ result' \in {"ok", "ENOTTY"}
    BY <1>2 DEF Forward, Returns
  <2>2. QED
    BY <1>1, <2>1, SameStep
<1>3. CASE SamePool /\ Returns("EACCES")
  <2>1. result' = "EACCES"
    BY <1>3 DEF Returns
  <2>2. QED
    BY <1>1, <1>3, <2>1, SameStep
<1>4. CASE /\ "DEV" \in table[f].marks /\ ~Shared(f)
           /\ table' = [table EXCEPT ![f].marks = @ \cup {"EXCL"}]
           /\ Returns("ok") /\ UNCHANGED <<maxFd, held>>
  <2> DEFINE e == [table[f] EXCEPT !.marks = @ \cup {"EXCL"}]
  <2>1. /\ e \in Entry /\ e.dev = table[f].dev
        /\ e.marks = table[f].marks \cup {"EXCL"}
    BY <1>1 DEF Entry
  <2>2. table' = [table EXCEPT ![f] = e]
    BY <1>4
  <2> HIDE DEF e
  <2>3. /\ table'[f] = e
        /\ \A g \in Fd : g # f => table'[g] = table[g]
        /\ \A g \in Fd : table'[g].dev = table[g].dev
    BY <1>1, <2>1, <2>2
  <2>4. table[f].dev # NoDev /\ table[f].dev \notin FileSystems /\ maxFd > 2
    BY <1>1, <1>4, InUseBound DEF IInv, MarkedDevices
  <2>5. /\ result' = "ok" /\ UNCHANGED <<maxFd, held>>
        /\ UNCHANGED <<direct, devList, fsList, phase>>
    BY <1>1, <1>4 DEF Returns, lists
  <2>6. TypeOK'
    <3>1. table' \in [Fd -> Entry]
      BY <1>1, <2>1, <2>2
    <3>2. QED
      BY <2>5, <3>1, Zenon DEF IInv, TypeOK
  <2>7. FreeIsClean' /\ NoneLeaked'
    BY <2>3, <2>4, <2>5 DEF IInv, FreeIsClean, NoneLeaked
  <2>8. AlwaysBound' /\ BelowMark'
    <3>1. Standard \subseteq Fd
      BY DEF Standard, Fd
    <3>2. QED
      BY <2>3, <2>5, <3>1 DEF IInv, AlwaysBound, BelowMark
  <2>9. \A g \in Fd : g # f => (Locked(g)' => Locked(g))
    BY <2>3 DEF Locked
  <2>10. MarkedDevices'
    BY <1>4, <2>1, <2>3, <2>4, <2>5 DEF IInv, MarkedDevices, Locked
  <2>11. LockedBelow'
    <3>1. SUFFICES ASSUME NEW g \in Fd, NEW h \in Fd, Locked(g)', h # g,
                          table'[h].dev = table'[g].dev
                   PROVE  g < h
      BY DEF LockedBelow
    <3>2. table[h].dev = table[g].dev
      BY <2>3, <3>1
    <3>3. CASE g # f
      BY <2>9, <3>1, <3>2, <3>3 DEF IInv, LockedBelow
    <3>4. CASE g = f
      <4>1. h \notin 0 .. maxFd - 1
        BY <1>4, <3>1, <3>2, <3>4 DEF Shared
      <4>2. h \notin Standard
        BY <4>1, <2>4, <1>1 DEF Standard, Fd
      <4>3. h <= maxFd
        BY <4>2, <3>2, <3>4, <2>4 DEF IInv, BelowMark
      <4>4. h = maxFd
        BY <4>1, <4>3, <1>1 DEF Fd
      <4>5. f <= maxFd
        <5>1. CASE f \in Standard
          BY <5>1, <2>4, <1>1 DEF Standard
        <5>2. CASE f \notin Standard
          BY <5>2, <2>4 DEF IInv, BelowMark
        <5>3. QED
          BY <5>1, <5>2
      <4>6. QED
        BY <4>4, <4>5, <3>1, <3>4, <1>1 DEF Fd
    <3>5. QED
      BY <3>3, <3>4
  <2>12. OneOwner'
    <3>1. SUFFICES ASSUME NEW g \in Fd, NEW h \in Fd, Locked(g)', Locked(h)',
                          table'[g].dev = table'[h].dev, g # h
                   PROVE  FALSE
      BY DEF OneOwner
    <3>2. g < h /\ h < g
      BY <2>11, <3>1 DEF LockedBelow
    <3>3. QED
      BY <3>2 DEF Fd
  <2>13. BootInv'
    <3>1. \A s \in Standard : table'[s].dev = table[s].dev
      BY <2>3 DEF Standard, Fd
    <3>2. phase' \in {"main", "halted"}
      BY <1>1
    <3>3. QED
      BY <1>1, <3>1, <3>2, BootFrame
  <2>14. QED
    BY <2>6, <2>7, <2>8, <2>10, <2>11, <2>12, <2>13 DEF IInv
<1>5. QED
  BY <1>2, <1>3, <1>4 DEF Lock

\* ioctl(TIOCNXCL)
LEMMA UnlockStep ==
    ASSUME IInv, NEW f \in Fd, Unlock(f)
    PROVE  IInv'
<1>1. /\ f \in InUse /\ table \in [Fd -> Entry]
      /\ UNCHANGED <<direct, lists, phase>> /\ phase = "main"
  BY DEF Unlock, IInv, TypeOK, Calling, Running
<1>2. CASE Forward(f)
  <2>1. SamePool /\ result' \in {"ok", "ENOTTY"}
    BY <1>2 DEF Forward, Returns
  <2>2. QED
    BY <1>1, <2>1, SameStep
<1>3. CASE /\ table' = [table EXCEPT ![f].marks = @ \ {"EXCL"}]
           /\ Returns("ok") /\ UNCHANGED <<maxFd, held>>
  <2> DEFINE e == [table[f] EXCEPT !.marks = @ \ {"EXCL"}]
  <2>1. /\ e \in Entry /\ e.dev = table[f].dev
        /\ e.marks = table[f].marks \ {"EXCL"}
    BY <1>1 DEF Entry
  <2>2. table' = [table EXCEPT ![f] = e]
    BY <1>3
  <2> HIDE DEF e
  <2>3. e.marks \subseteq table[f].marks /\ "EXCL" \notin e.marks
    BY <2>1
  <2>4. UNCHANGED <<direct, lists, phase, maxFd, held>> /\ result' = "ok"
    BY <1>1, <1>3 DEF Returns
  <2>5. QED
    BY <1>1, <2>1, <2>2, <2>3, <2>4, FlagStep
<1>4. QED
  BY <1>2, <1>3 DEF Unlock

\* The calls that change no descriptor.
LEMMA OtherStep ==
    ASSUME IInv,
           \/ \E f \in Fd : Read(f) \/ Write(f) \/ Seek(f) \/ Stat(f) \/ OtherCommand(f)
                              \/ Control(f)
           \/ BadDescriptor
    PROVE  IInv'
<1>1. UNCHANGED <<direct, lists>> /\ phase = "main" /\ phase' = "main"
  BY DEF Read, Write, Transfer, Seek, Stat, OtherCommand, Control, BadDescriptor, Calling, Running
<1>2. SamePool
  BY DEF Read, Write, Transfer, Seek, Stat, OtherCommand, Control, Forward, BadDescriptor
<1>3. result' \in {"ok", "EACCES", "EWOULDBLOCK", "EIO", "ENOTSUP", "EINVAL", "ENOTTY", "EBADFD"}
  BY DEF Read, Write, Transfer, Seek, Stat, OtherCommand, Control, Forward, BadDescriptor,
     Returns, DriverOutcomes
<1>4. QED
  BY <1>1, <1>2, <1>3, SameStep

\* The direct build.
LEMMA DirectStep ==
    ASSUME IInv, NEW f \in Fd, NEW func \in Function, DirectCall(f, func)
    PROVE  IInv'
<1>1. UNCHANGED <<direct, lists>> /\ phase = "main" /\ phase' = "main" /\ SamePool
  BY DEF DirectCall, Running, lists
<1>2. result' \in {"ENOSYS", "ok", "EBADFD", result}
  BY DEF DirectCall, DirectRead, DirectWrite, DirectControl, DirectStat, Returns
<1>3. QED
  BY <1>1, <1>2, SameStep DEF IInv, TypeOK

\* stat(): whatever open() comes to, every descriptor is afterwards what it was.
LEMMA StatNameFacts ==
    ASSUME IInv, NEW name, StatName(name)
    PROVE  /\ table' = table /\ held' = held
           /\ maxFd' \in maxFd .. MaxFd - 1
           /\ maxFd' # maxFd => maxFd' > 2
           /\ result' \in {"ok", "EBADFD"}
<1> USE DEF AccessModes
<1> DEFINE After(rc) == AfterOpen(rc, name, "O_RDONLY", FALSE)
<1>1. PICK rc \in OpenOutcomes(name) :
          /\ table' = IF rc = "ok" THEN Release(After(rc), GetFd) ELSE After(rc)
          /\ maxFd' = HighWater(rc)
          /\ result' = IF rc = "ok" THEN "ok" ELSE "EBADFD"
  BY DEF StatName, Returns
<1>2. held' = held /\ result' \in {"ok", "EBADFD"}
  BY <1>1 DEF StatName
<1>3. /\ maxFd' \in maxFd .. MaxFd - 1
      /\ maxFd' # maxFd => maxFd' > 2
      /\ rc # "ok" => After(rc) = table
  BY <1>1, OpenFacts
<1>4. CASE rc # "ok"
  BY <1>1, <1>2, <1>3, <1>4
<1>5. CASE rc = "ok"
  <2> DEFINE n == GetFd
             e == Opened(name, "O_RDONLY", FALSE)
  <2>1. n \in Free /\ n > 2 /\ After(rc) = [table EXCEPT ![n] = e]
    BY <1>1, <1>5, OpenFacts
  <2>2. n \in Fd /\ table[n] = Unused /\ table \in [Fd -> Entry]
    BY <2>1 DEF Free, IInv, FreeIsClean, TypeOK
  <2>3. table' = Release([table EXCEPT ![n] = e], n)
    BY <1>1, <1>5, <2>1
  <2> HIDE DEF n, e
  <2>4. Release([table EXCEPT ![n] = e], n) = [[table EXCEPT ![n] = e] EXCEPT ![n] = Unused]
    BY <2>1 DEF Release
  <2>5. [[table EXCEPT ![n] = e] EXCEPT ![n] = Unused] = table
    BY <2>2
  <2>6. QED
    BY <1>2, <1>3, <2>3, <2>4, <2>5
<1>6. QED
  BY <1>4, <1>5

LEMMA StatNameStep == ASSUME IInv, NEW name, StatName(name) PROVE IInv'
<1>1. /\ UNCHANGED <<direct, phase, devList, fsList, table, held>> /\ phase = "main"
      /\ UNCHANGED lists
      /\ maxFd' \in maxFd .. MaxFd - 1
      /\ maxFd' # maxFd => maxFd' > 2
      /\ result' \in {"ok", "EBADFD"}
  BY StatNameFacts DEF StatName, Calling, Running, lists
<1>2. PoolInv' /\ maxFd' \in -1 .. MaxFd - 1
  BY <1>1, PoolFrame
<1>3. BootInv'
  BY <1>1, BootFrame
<1>4. TypeOK'
  BY <1>1, <1>2, Zenon DEF IInv, TypeOK
<1>5. QED
  BY <1>2, <1>3, <1>4 DEF IInv, PoolInv

\* kill(), and the calls that are not supported.
LEMMA ProcessStep ==
    ASSUME IInv, Unsupported \/ \E process \in {-1, 0, 1}, signal \in Signals : Kill(process, signal)
    PROVE  IInv' /\ table' = table
<1>1. UNCHANGED <<direct, lists>> /\ SamePool /\ phase = "main" /\ phase' \in {"main", "halted"}
  BY DEF Unsupported, Kill, Running, Halt, lists
<1>2. result' \in {"ENOSYS", "ECHILD", "ESRCH", "ok", "EINVAL", result}
  BY DEF Unsupported, Kill, Returns
<1>3. IInv'
  BY <1>1, <1>2, SameStep DEF IInv, TypeOK
<1>4. QED
  BY <1>1, <1>3 DEF SamePool

\* The end of alt_main.
LEMMA ExitStep == ASSUME IInv, Exit PROVE IInv'
<1>1. UNCHANGED <<direct, lists>> /\ phase = "main" /\ phase' = "halted"
  BY DEF Exit, Halt, Running
<1>2. CASE direct
  <2>1. SamePool /\ result' = "ENOSYS"
    BY <1>2 DEF Exit, Returns
  <2>2. QED
    BY <1>1, <2>1, SameStep
<1>3. CASE ~direct
  <2>1. Close(1) /\ 1 \in InUse
    BY <1>3 DEF Exit, InUse, Standard
  <2>2. QED
    BY <1>1, <2>1, CloseStep
<1>4. QED
  BY <1>2, <1>3

\* alt_dev_reg and alt_fs_reg.
LEMMA RegisterStep == ASSUME IInv, NEW d \in Drivers, Register(d) PROVE IInv'
<1>1. /\ UNCHANGED <<direct, phase, table, maxFd, held, result>>
      /\ phase = "sys"
  BY DEF Register
<1>2. /\ devList' \in Seq(Devices \cup {Null})
      /\ fsList' \in Seq(FileSystems)
  <2>1. ASSUME NEW D, NEW e \in D, NEW list \in Seq(D) PROVE <<e>> \o list \in Seq(D)
    <3>1. <<e>> \in Seq(D)
      OBVIOUS
    <3>2. QED
      BY <3>1
  <2>2. CASE d \in Devices /\ devList' = <<d>> \o devList /\ UNCHANGED fsList
    BY <2>1, <2>2 DEF IInv, TypeOK
  <2>3. CASE d \in FileSystems /\ fsList' = <<d>> \o fsList /\ UNCHANGED devList
    BY <2>1, <2>3 DEF IInv, TypeOK
  <2>4. QED
    BY <2>2, <2>3 DEF Register
<1>3. TypeOK'
  BY <1>1, <1>2, Zenon DEF IInv, TypeOK
<1>4. PoolInv'
  BY <1>1, PoolFrame, MaxFdAssumption DEF IInv, TypeOK
<1>5. BootInv'
  <2>1. \A f \in Fd : held'[f] = NoDev /\ ~Locked(f)'
    BY <1>1 DEF IInv, BootInv, Locked, Boot
  <2>2. QED
    BY <1>1, <2>1 DEF BootInv
<1>6. QED
  BY <1>3, <1>4, <1>5 DEF IInv, PoolInv

\* The end of alt_sys_init.
LEMMA SysInitStep == ASSUME IInv, SysInitDone PROVE IInv'
<1>1. /\ UNCHANGED <<direct, devList, fsList, table, maxFd, held, result>>
      /\ phase = "sys"
      /\ direct => phase' = "main"
      /\ ~direct => phase' = "stdout"
  BY DEF SysInitDone, lists
<1>2. phase' \in Boot \cup {"main", "halted"}
  BY <1>1 DEF Boot
<1>3. TypeOK'
  BY <1>1, <1>2, Zenon DEF IInv, TypeOK
<1>4. PoolInv'
  BY <1>1, PoolFrame, MaxFdAssumption DEF IInv, TypeOK
<1>5. BootInv'
  <2>1. \A f \in Fd : held'[f] = NoDev /\ ~Locked(f)'
    BY <1>1 DEF IInv, BootInv, Locked, Boot
  <2>2. CASE direct
    <3>1. direct' /\ phase' = "main"
      BY <1>1, <2>2
    <3>2. QED
      BY <2>1, <3>1 DEF BootInv, Boot
  <2>3. CASE ~direct
    <3>1. ~direct' /\ phase' = "stdout"
      BY <1>1, <2>3
    <3>2. QED
      BY <2>1, <3>1 DEF BootInv, Boot
  <2>4. QED
    BY <2>2, <2>3
<1>6. QED
  BY <1>3, <1>4, <1>5 DEF IInv, PoolInv

\* alt_open_fd: the standard descriptor gets the driver, if there is one and a
\* descriptor to spare, and the temporary descriptor is free again.
LEMMA RedirectToStep ==
    ASSUME IInv, NEW s \in Standard, NEW mode \in AccessModes, NEW next,
           phase \in Boot, RedirectTo(s, mode, next), next \in Boot \cup {"main"}
    PROVE  /\ TypeOK' /\ PoolInv'
           /\ UNCHANGED <<direct, lists>> /\ phase' = next
           /\ \A f \in Fd : held'[f] = NoDev /\ ~Locked(f)'
           /\ \A t \in Standard \ {s} : table'[t] = table[t]
           /\ MaxFd > 3 => Redirected(s)'
<1> USE MaxFdAssumption, DriverAssumption
<1> DEFINE name == StdName[s]
           n == GetFd
           d == Find(name)
           e == Opened(name, mode, FALSE)
<1>1. PICK rc \in OpenOutcomes(name) :
          /\ table' = LET t == AfterOpen(rc, name, mode, FALSE)
                      IN IF rc = "ok" THEN Release([t EXCEPT ![s] = t[n]], n) ELSE t
          /\ maxFd' = HighWater(rc) /\ result' = rc /\ phase' = next
          /\ UNCHANGED <<direct, lists, held>>
  BY DEF RedirectTo
<1>2. /\ UNCHANGED <<direct, devList, fsList, held>>
      /\ table \in [Fd -> Entry] /\ maxFd \in -1 .. MaxFd - 1
      /\ s \in Fd
  BY <1>1 DEF lists, IInv, TypeOK, Standard, Fd
<1>3. \A f \in Fd : held[f] = NoDev /\ ~Locked(f)
  BY DEF IInv, BootInv
<1>4. /\ rc \in {"ok", "ENODEV", "EMFILE", "EACCES", "EIO"}
      /\ maxFd' \in maxFd .. MaxFd - 1
      /\ maxFd' # maxFd => maxFd' > 2
  BY <1>1, OpenFacts
<1>5. rc # "ok" => table' = table
  BY <1>1, OpenFacts
<1>6. rc = "ok" =>
         /\ n \in Fd /\ n > 2 /\ n <= maxFd' /\ d \in Drivers /\ e \in Entry
         /\ table' = [table EXCEPT ![s] = e]
  <2>1. SUFFICES ASSUME rc = "ok"
                 PROVE  /\ n \in Fd /\ n > 2 /\ n <= maxFd' /\ d \in Drivers /\ e \in Entry
                        /\ table' = [table EXCEPT ![s] = e]
    OBVIOUS
  <2>2. /\ n \in Free /\ n > 2 /\ n <= maxFd' /\ d \in Drivers /\ e \in Entry
        /\ AfterOpen(rc, name, mode, FALSE) = [table EXCEPT ![n] = e]
    BY <1>1, <2>1, OpenFacts
  <2>3. n \in Fd /\ table[n] = Unused /\ n # s
    BY <2>2 DEF Free, IInv, FreeIsClean, Standard
  <2> DEFINE t == [table EXCEPT ![n] = e]
  <2>4. table' = Release([t EXCEPT ![s] = t[n]], n)
    BY <1>1, <2>1, <2>2
  <2> HIDE DEF n, e
  <2>5. t[n] = e /\ t \in [Fd -> Entry]
    BY <1>2, <2>2, <2>3
  <2>6. Release([t EXCEPT ![s] = e], n) = [[t EXCEPT ![s] = e] EXCEPT ![n] = Unused]
    BY <2>2 DEF Release
  <2>7. [[t EXCEPT ![s] = e] EXCEPT ![n] = Unused] = [table EXCEPT ![s] = e]
    BY <1>2, <2>3, <2>5
  <2>8. QED
    BY <2>2, <2>3, <2>4, <2>5, <2>6, <2>7
<1>7. /\ e.dev = d /\ e.marks = IF d \in FileSystems THEN {} ELSE {"DEV"}
      /\ NoDev \notin Drivers
  BY DEF Opened, Drivers
<1> HIDE DEF n, d, e
<1>8. CASE rc # "ok"
  <2>1. PoolInv' /\ maxFd' \in -1 .. MaxFd - 1
    BY <1>2, <1>4, <1>5, <1>8, PoolFrame
  <2>2. TypeOK'
    BY <1>1, <1>2, <1>4, <1>5, <1>8, <2>1, Zenon DEF IInv, TypeOK, Boot
  <2>3. \A f \in Fd : held'[f] = NoDev /\ ~Locked(f)'
    BY <1>2, <1>3, <1>5, <1>8 DEF Locked
  <2>4. MaxFd > 3 /\ d # NoDev => "open" \in Methods[d]
    <3>1. SUFFICES ASSUME MaxFd > 3, d # NoDev, "open" \notin Methods[d]
                   PROVE  FALSE
      OBVIOUS
    <3>2. 3 \in Fd /\ 3 \notin Standard
      BY <3>1 DEF Fd, Standard
    <3>3. Free # {}
      BY <1>3, <3>2 DEF Free, IInv, NoneLeaked
    <3>4. n \in Fd
      BY <3>3, GetFdFree DEF n, Free
    <3>5. ~FileLocked(d, n, Higher(maxFd, n))
      <4>1. \A g \in 0 .. Higher(maxFd, n) : g \in Fd
        BY <1>2, <3>4 DEF Higher, Fd
      <4>2. QED
        BY <1>3, <4>1 DEF FileLocked, Locked
    <3>6. OpenOutcomes(name) = {"ok"}
      BY <3>1, <3>3, <3>5, Zenon DEF OpenOutcomes, d, n
    <3>7. QED
      BY <1>1, <1>8, <3>6
  <2>5. MaxFd > 3 => Redirected(s)'
    <3>1. Find(name)' = d
      BY <1>2 DEF d, Find, Answering, FirstAnswering
    <3>2. QED
      BY <2>4, <3>1 DEF Redirected
  <2>6. QED
    BY <1>1, <1>5, <1>8, <2>1, <2>2, <2>3, <2>5
<1>9. CASE rc = "ok"
  <2>1. /\ table'[s] = e /\ \A f \in Fd : f # s => table'[f] = table[f]
    BY <1>2, <1>6, <1>9
  <2>2. maxFd' > 2 /\ maxFd' \in -1 .. MaxFd - 1
    BY <1>2, <1>4, <1>6, <1>9 DEF Fd
  <2>3. TypeOK'
    <3>1. table' \in [Fd -> Entry]
      BY <1>2, <1>6, <1>9
    <3>2. QED
      BY <1>1, <1>2, <1>4, <2>2, <3>1, Zenon DEF IInv, TypeOK, Boot
  <2>4. \A f \in Fd : held'[f] = NoDev /\ ~Locked(f)'
    BY <1>2, <1>3, <1>7, <2>1 DEF Locked
  <2>5. OneOwner' /\ LockedBelow'
    BY <2>4 DEF OneOwner, LockedBelow
  <2>6. FreeIsClean'
    BY <1>6, <1>7, <1>9, <2>1 DEF IInv, FreeIsClean
  <2>7. AlwaysBound'
    <3>1. \A t \in Standard : t \in Fd /\ table'[t].dev # NoDev
      BY <1>6, <1>7, <1>9, <2>1 DEF IInv, AlwaysBound, Standard, Fd
    <3>2. QED
      BY <2>4, <3>1 DEF AlwaysBound
  <2>8. NoneLeaked'
    BY <1>2, <2>1 DEF IInv, NoneLeaked
  <2>9. BelowMark'
    <3>1. \A f \in Fd \ Standard : table'[f].dev # NoDev => f <= maxFd
      BY <2>1 DEF IInv, BelowMark
    <3>2. QED
      BY <1>2, <1>4, <2>2, <3>1 DEF BelowMark, Fd
  <2>10. MarkedDevices'
    BY <1>7, <2>1, <2>2, <2>4 DEF IInv, MarkedDevices, Locked
  <2>11. Redirected(s)'
    <3>1. Find(name)' = d
      BY <1>2 DEF d, Find, Answering, FirstAnswering
    <3>2. QED
      BY <1>7, <2>1, <3>1 DEF Redirected
  <2>12. \A t \in Standard \ {s} : table'[t] = table[t]
    BY <2>1 DEF Standard, Fd
  <2>13. QED
    BY <1>1, <2>3, <2>4, <2>5, <2>6, <2>7, <2>8, <2>9, <2>10, <2>11, <2>12 DEF PoolInv
<1>10. QED
  BY <1>8, <1>9

\* Where a standard descriptor was put stays true while another is redirected.
LEMMA RedirectedFrame ==
    ASSUME NEW s \in Standard, Redirected(s), UNCHANGED lists, table'[s] = table[s]
    PROVE  Redirected(s)'
<1>1. Find(StdName[s])' = Find(StdName[s])
  BY DEF lists, Find, Answering, FirstAnswering
<1>2. QED
  BY <1>1 DEF Redirected

\* alt_io_redirect.
LEMMA RedirectStep == ASSUME IInv, Redirect PROVE IInv'
<1> USE DEF AccessModes
<1>1. 0 \in Standard /\ 1 \in Standard /\ 2 \in Standard
  BY DEF Standard
<1>2. CASE phase = "stdout" /\ RedirectTo(1, "O_WRONLY", "stdin")
  <2>1. /\ TypeOK' /\ PoolInv' /\ phase' = "stdin" /\ UNCHANGED direct
        /\ \A f \in Fd : held'[f] = NoDev /\ ~Locked(f)'
        /\ MaxFd > 3 => Redirected(1)'
    BY <1>1, <1>2, RedirectToStep DEF Boot
  <2>2. ~direct'
    BY <1>2, <2>1 DEF IInv, BootInv, Boot
  <2>3. BootInv'
    BY <2>1, <2>2 DEF BootInv
  <2>4. QED
    BY <2>1, <2>3 DEF IInv, PoolInv
<1>3. CASE phase = "stdin" /\ RedirectTo(0, "O_RDONLY", "stderr")
  <2>1. /\ TypeOK' /\ PoolInv' /\ phase' = "stderr" /\ UNCHANGED <<direct, lists>>
        /\ \A f \in Fd : held'[f] = NoDev /\ ~Locked(f)'
        /\ MaxFd > 3 => Redirected(0)'
        /\ \A t \in Standard \ {0} : table'[t] = table[t]
    BY <1>1, <1>3, RedirectToStep DEF Boot
  <2>2. ~direct /\ ~direct' /\ table'[1] = table[1]
    BY <1>1, <1>3, <2>1 DEF IInv, BootInv, Boot
  <2>3. MaxFd > 3 => Redirected(1)
    BY <1>3, <2>2 DEF IInv, BootInv
  <2>4. MaxFd > 3 => Redirected(1)'
    BY <1>1, <2>1, <2>2, <2>3, RedirectedFrame
  <2>5. BootInv'
    BY <2>1, <2>2, <2>4 DEF BootInv
  <2>6. QED
    BY <2>1, <2>5 DEF IInv, PoolInv
<1>4. CASE phase = "stderr" /\ RedirectTo(2, "O_WRONLY", "main")
  <2>1. /\ TypeOK' /\ PoolInv' /\ phase' = "main" /\ UNCHANGED <<direct, lists>>
        /\ MaxFd > 3 => Redirected(2)'
        /\ \A t \in Standard \ {2} : table'[t] = table[t]
    BY <1>1, <1>4, RedirectToStep DEF Boot
  <2>2. ~direct /\ table'[1] = table[1] /\ table'[0] = table[0]
    BY <1>1, <1>4, <2>1 DEF IInv, BootInv, Boot
  <2>3. MaxFd > 3 => Redirected(1) /\ Redirected(0)
    BY <1>4, <2>2 DEF IInv, BootInv
  <2>4. MaxFd > 3 => Redirected(1)' /\ Redirected(0)'
    BY <1>1, <2>1, <2>2, <2>3, RedirectedFrame
  <2>5. BootInv'
    BY <2>1, <2>4 DEF BootInv, Boot
  <2>6. QED
    BY <2>1, <2>5 DEF IInv, PoolInv
<1>5. QED
  BY <1>2, <1>3, <1>4 DEF Redirect

\* Every step keeps the invariant.
LEMMA NextInv == IInv /\ [Next]_vars => IInv'
<1> SUFFICES ASSUME IInv, [Next]_vars PROVE IInv'
  OBVIOUS
<1>1. CASE \E d \in Drivers : Register(d)
  BY <1>1, RegisterStep
<1>2. CASE SysInitDone
  BY <1>2, SysInitStep
<1>3. CASE Redirect
  BY <1>3, RedirectStep
<1>4. CASE \E n \in Names, m \in Modes, b \in BOOLEAN : Open(n, m, b)
  BY <1>4, OpenStep
<1>5. ASSUME NEW f \in Fd, CallOn(f) PROVE IInv'
  <2>1. CASE CallClose(f)
    <3>1. /\ f \in InUse /\ Close(f) /\ UNCHANGED <<direct, lists>>
          /\ phase = "main" /\ phase' = "main"
      BY <2>1 DEF CallClose, Calling, Running
    <3>2. QED
      BY <3>1, CloseStep
  <2>2. CASE Read(f) \/ Write(f) \/ Seek(f) \/ Stat(f) \/ OtherCommand(f) \/ Control(f)
    BY <2>2, OtherStep
  <2>3. CASE \E b \in BOOLEAN : SetFlags(f, b)
    BY <2>3, SetFlagsStep
  <2>4. CASE Lock(f)
    BY <2>4, LockStep
  <2>5. CASE Unlock(f)
    BY <2>5, UnlockStep
  <2>6. QED
    BY <1>5, <2>1, <2>2, <2>3, <2>4, <2>5 DEF CallOn
<1>6. CASE \E f \in Fd, func \in Function : DirectCall(f, func)
  BY <1>6, DirectStep
<1>7. CASE BadDescriptor
  BY <1>7, OtherStep
<1>8. CASE Exit
  BY <1>8, ExitStep
<1>9. CASE UNCHANGED vars
  <2>1. UNCHANGED <<direct, phase, devList, fsList, table, maxFd, held, result>>
    BY <1>9 DEF vars, lists
  <2>2. TypeOK' /\ BelowMark' /\ FreeIsClean' /\ AlwaysBound' /\ NoneLeaked'
    BY <2>1, Zenon DEF IInv, TypeOK, BelowMark, FreeIsClean, AlwaysBound, NoneLeaked
  <2>3. OneOwner' /\ MarkedDevices' /\ LockedBelow'
    BY <2>1, Zenon DEF IInv, OneOwner, MarkedDevices, LockedBelow, Locked
  <2>4. BootInv'
    <3>1. \A s \in Standard : Find(StdName[s])' = Find(StdName[s])
      BY <2>1 DEF Find, Answering, FirstAnswering
    <3>2. \A s \in Standard : Redirected(s)' <=> Redirected(s)
      BY <2>1, <3>1 DEF Redirected
    <3>3. 0 \in Standard /\ 1 \in Standard /\ 2 \in Standard
      BY DEF Standard
    <3>4. \A f \in Fd : Locked(f)' <=> Locked(f)
      BY <2>1 DEF Locked
    <3>5. BootInv
      BY DEF IInv
    <3>6. QED
      BY <2>1, <3>2, <3>3, <3>4, <3>5 DEF BootInv
  <2>5. QED
    BY <2>2, <2>3, <2>4 DEF IInv
<1>10. CASE \E n \in Names : StatName(n)
  BY <1>10, StatNameStep
<1>11. CASE Unsupported \/ \E process \in {-1, 0, 1}, signal \in Signals : Kill(process, signal)
  BY <1>11, ProcessStep
<1>12. QED
  BY <1>1, <1>2, <1>3, <1>4, <1>5, <1>6, <1>7, <1>8, <1>9, <1>10, <1>11 DEF Next, BootStep

\* The pool is sound in every state of every execution: no descriptor leaks or
\* dangles, and no two have the same device for themselves.
THEOREM PoolSound == Spec => []IInv
<1>1. QED
  BY InitInv, NextInv, PTL DEF Spec

\* When main runs, stdin, stdout and stderr are on the devices of their names, for
\* every list of drivers and names, as soon as the pool has one descriptor to spare.
THEOREM StdioTheorem == Spec => []StdioReady
<1>1. IInv => StdioReady
  <2>1. SUFFICES ASSUME IInv, phase = "main", ~direct, MaxFd > 3, NEW s \in Standard
                 PROVE  Redirected(s)
    BY DEF StdioReady, Running
  <2>2. Redirected(0) /\ Redirected(1) /\ Redirected(2)
    BY <2>1 DEF IInv, BootInv
  <2>3. s = 0 \/ s = 1 \/ s = 2
    BY DEF Standard
  <2>4. QED
    BY <2>2, <2>3
<1>2. QED
  BY <1>1, PoolSound, PTL

\* Only open() and the redirection give a descriptor a driver; and nothing is
\* locked while the streams are redirected.
LEMMA DevStep ==
    ASSUME IInv, [Next]_vars
    PROVE  \/ \A g \in Fd : table'[g].dev \in {table[g].dev, NoDev}
           \/ \E n \in Names, m \in Modes, b \in BOOLEAN : Open(n, m, b)
           \/ \A f \in Fd : ~Locked(f)
<1>1. table \in [Fd -> Entry]
  BY DEF IInv, TypeOK
<1>2. CASE BootStep
  <2>1. phase \in Boot
    BY <1>2 DEF BootStep, Register, SysInitDone, Redirect, Boot
  <2>2. QED
    BY <2>1 DEF IInv, BootInv
<1>3. CASE table' = table
  BY <1>3
<1>4. ASSUME NEW f \in InUse, Close(f)
      PROVE  \A g \in Fd : table'[g].dev \in {table[g].dev, NoDev}
  <2>1. f \in Fd /\ (table' = table \/ table' = [table EXCEPT ![f] = Unused])
    BY <1>4, InUseBound DEF Close, Release
  <2>2. Unused.dev = NoDev
    BY DEF Unused
  <2>3. QED
    BY <1>1, <2>1, <2>2
<1>5. ASSUME NEW f \in Fd, CallOn(f)
      PROVE  \A g \in Fd : table'[g].dev \in {table[g].dev, NoDev}
  <2>1. CASE CallClose(f)
    BY <1>4, <2>1 DEF CallClose
  <2>2. CASE table' = table
    BY <2>2
  <2>3. CASE \/ \E b \in BOOLEAN : table' = [table EXCEPT ![f].nonblock = b]
             \/ table' = [table EXCEPT ![f].marks = @ \cup {"EXCL"}]
             \/ table' = [table EXCEPT ![f].marks = @ \ {"EXCL"}]
    <3>1. \A b \in BOOLEAN : table[f] \in Entry /\ [table[f] EXCEPT !.nonblock = b].dev = table[f].dev
      BY <1>1 DEF Entry
    <3>2. /\ [table[f] EXCEPT !.marks = @ \cup {"EXCL"}].dev = table[f].dev
          /\ [table[f] EXCEPT !.marks = @ \ {"EXCL"}].dev = table[f].dev
      BY <1>1 DEF Entry
    <3>3. QED
      BY <1>1, <2>3, <3>1, <3>2
  <2>4. QED
    BY <1>5, <2>1, <2>2, <2>3 DEF CallOn, Read, Write, Transfer, Seek, Stat, SetFlags,
       OtherCommand, Lock, Unlock, Control, Forward, SamePool
<1>6. CASE Exit
  BY <1>3, <1>4, <1>6 DEF Exit, SamePool, InUse, Standard
<1>7. CASE \/ \E f \in Fd, func \in Function : DirectCall(f, func)
           \/ BadDescriptor \/ UNCHANGED vars
  BY <1>3, <1>7 DEF DirectCall, BadDescriptor, SamePool, vars
<1>8. CASE \/ \E n \in Names : StatName(n)
           \/ Unsupported
           \/ \E process \in {-1, 0, 1}, signal \in Signals : Kill(process, signal)
  BY <1>3, <1>8, StatNameFacts, ProcessStep
<1>9. QED
  BY <1>2, <1>5, <1>6, <1>7, <1>8 DEF Next

\* While a descriptor has its device for itself nobody else gets one on it, whatever
\* is opened, closed or locked in between.
THEOREM LockTheorem == Spec => LockKeepsOut
<1>1. ASSUME IInv, IInv', [Next]_vars, NEW f \in Fd, Locked(f), Locked(f)'
      PROVE  Holders(table[f].dev)' \subseteq Holders(table[f].dev)
  <2>1. /\ "EXCL" \in table[f].marks /\ "EXCL" \in table'[f].marks
        /\ table[f].dev # NoDev /\ table'[f].dev # NoDev
    BY <1>1 DEF IInv, FreeIsClean, Locked, Unused
  <2>2. SUFFICES ASSUME NEW g \in Fd, table'[g].dev = table'[f].dev
                 PROVE  table[g].dev = table[f].dev
    BY DEF Holders
  <2>3. CASE \A h \in Fd : table'[h].dev \in {table[h].dev, NoDev}
    BY <2>1, <2>2, <2>3
  <2>4. ASSUME NEW name \in Names, NEW mode \in Modes, NEW b \in BOOLEAN, Open(name, mode, b)
        PROVE  table[g].dev = table[f].dev
    <3>1. PICK rc \in OpenOutcomes(name) :
              table' = AfterOpen(rc, name, mode, b) /\ maxFd' = HighWater(rc)
      BY <2>4 DEF Open
    <3>2. mode \in AccessModes
      BY DriverAssumption DEF AccessModes
    <3>3. CASE rc # "ok"
      BY <1>1, <2>2, <3>1, <3>2, <3>3, OpenFacts
    <3>4. CASE rc = "ok"
      <4> DEFINE n == GetFd
                 d == Find(name)
                 e == Opened(name, mode, b)
      <4>1. /\ n \in Free /\ table' = [table EXCEPT ![n] = e]
            /\ d \notin FileSystems => ~FileLocked(d, n, maxFd')
        BY <1>1, <3>1, <3>2, <3>4, OpenFacts
      <4>2. n \in Fd /\ n # f /\ e.dev = d
        BY <2>1, <4>1 DEF Free, Opened
      <4> HIDE DEF n, d, e
      <4>3. table'[n] = e /\ \A h \in Fd : h # n => table'[h] = table[h]
        BY <1>1, <4>1, <4>2 DEF IInv, TypeOK
      <4>4. CASE g # n
        BY <2>2, <4>2, <4>3, <4>4
      <4>5. CASE g = n
        <5>1. table[f].dev = d
          BY <2>2, <4>2, <4>3, <4>5
        <5>2. d \notin FileSystems
          BY <1>1, <5>1 DEF IInv, MarkedDevices
        <5>3. maxFd' \in -1 .. MaxFd - 1 /\ maxFd' > 2 /\ (f \in Standard \/ f <= maxFd')
          <6>1. "DEV" \in table'[f].marks
            BY <1>1, <2>1 DEF IInv, MarkedDevices
          <6>2. QED
            BY <1>1, <2>1, <6>1 DEF IInv, TypeOK, MarkedDevices, BelowMark
        <5>4. f \in 0 .. maxFd'
          BY <5>3, MaxFdAssumption DEF Standard, Fd
        <5>5. FileLocked(d, n, maxFd')
          BY <2>1, <4>2, <5>1, <5>4 DEF FileLocked
        <5>6. QED
          BY <4>1, <5>2, <5>5
      <4>6. QED
        BY <4>4, <4>5
    <3>5. QED
      BY <3>3, <3>4
  <2>5. QED
    BY <1>1, <2>3, <2>4, DevStep
<1>2. IInv /\ IInv' /\ [Next]_vars =>
         [\A f \in Fd : Locked(f) /\ Locked(f)' =>
              Holders(table[f].dev)' \subseteq Holders(table[f].dev)]_vars
  BY <1>1
<1>3. QED
  BY <1>2, PoolSound, PTL DEF Spec, LockKeepsOut

\* A call that fails leaves every descriptor as it was, but for a close() that
\* would have had to wait.
THEOREM FailureTheorem == Spec => FailureChangesNothing
<1>1. ASSUME IInv, [Next]_vars, phase = "main", result' # "ok"
      PROVE  table' = table \/ (result' = "EWOULDBLOCK" /\ held' # held)
  <2>1. CASE BootStep
    BY <1>1, <2>1 DEF BootStep, Register, SysInitDone, Redirect
  <2>2. CASE \E n \in Names, m \in Modes, b \in BOOLEAN : Open(n, m, b)
    <3>1. PICK name \in Names, mode \in Modes, b \in BOOLEAN : Open(name, mode, b)
      BY <2>2
    <3>2. PICK rc \in OpenOutcomes(name) : table' = AfterOpen(rc, name, mode, b) /\ result' = rc
      BY <3>1 DEF Open, Returns
    <3>3. mode \in AccessModes
      BY DriverAssumption DEF AccessModes
    <3>4. QED
      BY <1>1, <3>2, <3>3, OpenFacts
  <2>3. ASSUME NEW f \in InUse, Close(f)
        PROVE  table' = table \/ (result' = "EWOULDBLOCK" /\ held' # held)
    <3>1. f \in Fd
      BY <1>1, InUseBound
    <3>2. result' = "EWOULDBLOCK" /\ held' = [held EXCEPT ![f] = NoDev] /\ table' = Release(table, f)
      BY <1>1, <2>3 DEF Close, CloseOutcomes, Returns
    <3>3. CASE f \in Standard
      BY <3>2, <3>3 DEF Release, Standard
    <3>4. CASE f \notin Standard
      <4>1. held[f] # NoDev /\ held \in [Fd -> Drivers \cup {NoDev}]
        BY <1>1, <3>4 DEF InUse, IInv, TypeOK
      <4>2. held'[f] = NoDev
        BY <3>1, <3>2, <4>1
      <4>3. QED
        BY <3>2, <4>1, <4>2
    <3>5. QED
      BY <3>3, <3>4
  <2>4. ASSUME NEW f \in Fd, CallOn(f)
        PROVE  table' = table \/ (result' = "EWOULDBLOCK" /\ held' # held)
    BY <1>1, <2>3, <2>4 DEF CallOn, CallClose, Read, Write, Transfer, Seek, Stat, SetFlags,
       OtherCommand, Lock, Unlock, Control, Forward, SamePool, Returns
  <2>5. CASE Exit
    BY <1>1, <2>3, <2>5 DEF Exit, SamePool, InUse, Standard
  <2>6. CASE \/ \E f \in Fd, func \in Function : DirectCall(f, func)
             \/ BadDescriptor \/ UNCHANGED vars
    BY <2>6 DEF DirectCall, BadDescriptor, SamePool, vars
  <2>7. CASE \/ \E n \in Names : StatName(n)
             \/ Unsupported
             \/ \E process \in {-1, 0, 1}, signal \in Signals : Kill(process, signal)
    BY <1>1, <2>7, StatNameFacts, ProcessStep
  <2>8. QED
    BY <1>1, <2>1, <2>2, <2>4, <2>5, <2>6, <2>7 DEF Next
<1>2. IInv /\ [Next]_vars =>
         [Running /\ result' # "ok" =>
              table' = table \/ (result' = "EWOULDBLOCK" /\ held' # held)]_vars
  BY <1>1 DEF Running
<1>3. QED
  BY <1>2, PoolSound, PTL DEF Spec, FailureChangesNothing

-----------------------------------------------------------------------------
(* The library routines.  A call is made and returns: what its result is     *)
(* follows from its arguments.                                               *)

\* The calls that flush a region.
Flushing == Flush \/ Uncache \/ FlashBlock

\* Only a call's own action gives it its result; every other keeps the port.
LEMMA CallSteps ==
    ASSUME [LibraryNext]_libraryVars
    PROVE  \/ UNCHANGED libraryVars
           \/ Clock \/ Usleep \/ Flushing \/ Ioctl
           \/ /\ UNCHANGED port
              /\ call'.routine \notin {"time", "usleep", "flush", "uncache", "flash", "ioctl"}
<1>1. CASE Log
  <2>1. PICK d \in Directives, e \in Followers :
          call' = [routine |-> "log", first |-> d, second |-> e,
                   text |-> LogText(d.fmt \o e.fmt, d.args \o e.args)]
    BY <1>1, Zenon DEF Log
  <2>2. call'.routine = "log"
    BY <2>1
  <2>3. QED
    BY <1>1, <2>2 DEF Log
<1>2. CASE AltPrintf
  BY <1>2 DEF AltPrintf
<1>3. CASE LogWrite
  BY <1>3 DEF LogWrite
<1>4. CASE Resumed
  BY <1>4 DEF Resumed, Idle
<1>5. QED
  BY <1>1, <1>2, <1>3, <1>4 DEF LibraryNext, Flushing

\* The pointer that bypasses the cache leads back to the block.
LEMMA BackToBlock ==
    ASSUME NEW start \in 0 .. MaxAddress
    PROVE  /\ Cached(start) = start /\ Cached(Uncached(start)) = start
           /\ Cached(UncachedBlock(start)) = start
<1>1. /\ Bypass \in Nat /\ Bypass > 0 /\ start \in Nat /\ start < Bypass
  BY CacheAssumption, LibraryAssumption
<1>2. start \div Bypass = 0
  <2>1. start = 0 * Bypass + start
    BY <1>1
  <2>2. QED
    BY <1>1, <2>1, DivUnique
<1>3. (start + Bypass) \div Bypass = 1
  <2>1. start + Bypass = 1 * Bypass + start
    BY <1>1
  <2>2. QED
    BY <1>1, <2>1, DivUnique
<1>4. ~Bypassing(start) /\ Bypassing(start + Bypass)
  BY <1>2, <1>3 DEF Bypassing
<1>5. Cached(start) = start /\ Uncached(start) = start + Bypass /\ Cached(start + Bypass) = start
  BY <1>1, <1>4 DEF Cached, Uncached
<1>6. QED
  BY <1>5 DEF UncachedBlock

\* What a call that flushes returns.
LEMMA FlushingCall ==
    ASSUME Flushing
    PROVE  /\ UNCHANGED port
           /\ call'.routine \in {"flush", "uncache", "flash"}
           /\ call'.instr \in Instructions /\ call'.start \in Nat /\ call'.len \in Nat
           /\ Cached(call'.pointer) = call'.start
           /\ call'.rc = "ok" => call'.lines = FlushedLines(call'.instr, call'.start, call'.len)
<1>1. ASSUME NEW routine \in {"flush", "uncache", "flash"}, NEW rc, NEW pointer,
             NEW instr \in Instructions, NEW start \in 0 .. MaxAddress, NEW len \in 0 .. MaxAddress,
             call' = Cleaned(routine, rc, pointer, instr, start, len), Cached(pointer) = start
      PROVE  /\ call'.routine \in {"flush", "uncache", "flash"}
             /\ call'.instr \in Instructions /\ call'.start \in Nat /\ call'.len \in Nat
             /\ Cached(call'.pointer) = call'.start
             /\ call'.rc = "ok" => call'.lines = FlushedLines(call'.instr, call'.start, call'.len)
  <2>1. /\ call'.routine = routine /\ call'.instr = instr /\ call'.start = start
        /\ call'.len = len /\ call'.pointer = pointer /\ call'.rc = rc
        /\ rc = "ok" => call'.lines = FlushedLines(instr, start, len)
    BY <1>1 DEF Cleaned
  <2>2. start \in Nat /\ len \in Nat
    BY LibraryAssumption
  <2>3. QED
    BY <1>1, <2>1, <2>2
<1>2. DataInstructions \subseteq Instructions
  BY DEF DataInstructions, Instructions
<1>3. CASE Flush
  <2>1. PICK instr \in Instructions, start \in 0 .. MaxAddress, len \in 0 .. MaxAddress :
          call' = Cleaned("flush", "ok", start, instr, start, len)
    BY <1>3, Zenon DEF Flush
  <2>2. Cached(start) = start /\ UNCHANGED port
    BY <1>3, BackToBlock DEF Flush
  <2>3. QED
    BY <1>1, <2>1, <2>2
<1>4. CASE Uncache
  <2>1. PICK instr \in DataInstructions, start \in 0 .. MaxAddress, len \in 0 .. MaxAddress :
          \E pointer \in {Uncached(start), UncachedBlock(start)} :
              call' = Cleaned("uncache", "ok", pointer, instr, start, len)
    BY <1>4, Zenon DEF Uncache
  <2>2. PICK pointer \in {Uncached(start), UncachedBlock(start)} :
          call' = Cleaned("uncache", "ok", pointer, instr, start, len)
    BY <2>1
  <2>3. Cached(pointer) = start /\ UNCHANGED port
    BY <1>4, BackToBlock DEF Uncache
  <2>4. QED
    BY <1>1, <1>2, <2>2, <2>3
<1>5. CASE FlashBlock
  <2>1. PICK rc \in {"ok", "EIO"}, instr \in DataInstructions,
             start \in 0 .. MaxAddress, len \in 0 .. MaxAddress :
          call' = Cleaned("flash", rc, start, instr, start, len)
    BY <1>5, Zenon DEF FlashBlock
  <2>2. Cached(start) = start /\ UNCHANGED port
    BY <1>5, BackToBlock DEF FlashBlock
  <2>3. QED
    BY <1>1, <1>2, <2>1, <2>2
<1>6. QED
  BY <1>3, <1>4, <1>5 DEF Flushing

\* The turns that are counted in a microsecond.
LEMMA TurnsCounted ==
    /\ PerUs \in Nat /\ PerUs > 0
    /\ LoopCycles * US \in Nat /\ CpuFreq % (LoopCycles * US) \in Int
    /\ PerUs * (LoopCycles * US) = CpuFreq - (CpuFreq % (LoopCycles * US))
<1> DEFINE cycles == LoopCycles * US
<1>1. /\ LoopCycles \in Nat /\ LoopCycles > 0 /\ US \in Nat /\ US > 0
      /\ CpuFreq \in Nat /\ cycles <= CpuFreq
  BY TimeAssumption
<1>2. cycles \in Nat /\ cycles > 0
  <2>1. LoopCycles * US \in Nat
    BY <1>1
  <2>2. 1 * US <= LoopCycles * US
    BY <1>1, ProductGrows
  <2>3. QED
    BY <1>1, <2>1, <2>2
<1>3. PerUs = CpuFreq \div cycles
  BY DEF PerUs
<1> HIDE DEF cycles
<1>4. /\ PerUs \in Int /\ CpuFreq % cycles \in Int
      /\ 0 <= CpuFreq % cycles /\ CpuFreq % cycles < cycles
      /\ CpuFreq = PerUs * cycles + (CpuFreq % cycles)
  BY <1>1, <1>2, <1>3, DivMod
<1>5. PerUs > 0
  <2>1. CASE PerUs <= 0
    <3>1. PerUs * cycles <= 0 * cycles
      BY <1>2, <1>4, <2>1, ProductGrows
    <3>2. QED
      BY <1>1, <1>2, <1>4, <3>1
  <2>2. QED
    BY <1>4, <2>1
<1>6. PerUs * cycles = CpuFreq - (CpuFreq % cycles)
  <2>1. PerUs * cycles \in Int
    BY <1>2, <1>4, Products
  <2>2. QED
    BY <1>1, <1>4, <2>1
<1>7. QED
  BY <1>2, <1>4, <1>5, <1>6 DEF cycles

\* The delay of usleep: the long loops are worth their share of the
\* microseconds, and so is the rest.
LEMMA DelayLongEnough ==
    ASSUME NEW us \in Nat, NEW reloaded \in BOOLEAN
    PROVE  Slept(us, reloaded) >= us * PerUs /\ Slept(us, reloaded) \in Int
<1> DEFINE big == us \div Chunk
<1> DEFINE rest == us - big * Chunk
<1>1. /\ Modulus \in Nat /\ PerUs \in Nat /\ IntMax \in Nat
      /\ PerUs > 0 /\ IntMax < Modulus /\ PerUs <= IntMax
  BY TimeAssumption, TurnsCounted
<1>2. Chunk \in Nat /\ Chunk > 0 /\ Chunk * PerUs \in Nat /\ Chunk * PerUs <= IntMax
  <2>1. /\ Chunk \in Int /\ IntMax % PerUs \in Int /\ 0 <= IntMax % PerUs /\ IntMax % PerUs < PerUs
        /\ IntMax = Chunk * PerUs + (IntMax % PerUs)
    BY <1>1, DivMod DEF Chunk
  <2>2. Chunk > 0
    <3>1. CASE Chunk <= 0
      <4>1. Chunk * PerUs <= 0 * PerUs
        BY <1>1, <2>1, <3>1, ProductGrows
      <4>2. QED
        BY <1>1, <2>1, <4>1
    <3>2. QED
      BY <2>1, <3>1
  <2>3. Chunk * PerUs \in Nat
    BY <1>1, <2>1, <2>2
  <2>4. QED
    BY <1>1, <2>1, <2>2, <2>3
<1>3. big \in Nat /\ rest \in Nat /\ us = big * Chunk + rest /\ big * Chunk \in Nat
  <2>1. /\ big \in Int /\ us % Chunk \in Int /\ 0 <= us % Chunk /\ us % Chunk < Chunk
        /\ us = big * Chunk + (us % Chunk)
    BY <1>2, DivMod
  <2> HIDE DEF big
  <2>2. big >= 0
    <3>1. CASE big <= -1
      <4>1. big * Chunk <= (-1) * Chunk
        BY <1>2, <2>1, <3>1, ProductGrows
      <4>2. QED
        BY <1>2, <2>1, <4>1
    <3>2. QED
      BY <2>1, <3>1
  <2>3. big * Chunk \in Nat
    BY <1>2, <2>1, <2>2
  <2>4. QED
    BY <2>1, <2>2, <2>3
<1>4. Turns(rest * PerUs) >= rest * PerUs /\ rest * PerUs \in Nat
  <2> HIDE DEF rest
  <2>1. rest * PerUs \in Nat
    BY <1>1, <1>3
  <2>2. QED
    BY <1>1, <2>1 DEF Turns
<1>5. us * PerUs = (big * Chunk) * PerUs + rest * PerUs
  <2> HIDE DEF big, rest
  <2>1. (big * Chunk + rest) * PerUs = (big * Chunk) * PerUs + rest * PerUs
    BY <1>1, <1>3, Products
  <2>2. QED
    BY <1>3, <2>1
<1>6. CASE big = 0
  <2>1. Slept(us, reloaded) = IF us = 0 THEN 1 ELSE us * PerUs
    BY <1>6 DEF Slept
  <2>2. us * PerUs \in Nat
    BY <1>1
  <2>3. 0 * PerUs = 0
    BY <1>1
  <2>4. QED
    BY <2>1, <2>2, <2>3
<1>7. CASE big # 0
  <2> DEFINE loop == IF reloaded THEN IntMax ELSE Modulus
  <2>1. Slept(us, reloaded) = (IntMax + (big - 1) * loop) + Turns(rest * PerUs)
    BY <1>7 DEF Slept, LongLoops
  <2>2. loop \in Nat /\ IntMax <= loop
    BY <1>1
  <2> HIDE DEF big, rest, loop
  <2>3. (big - 1) * loop >= (big - 1) * IntMax /\ (big - 1) * loop \in Int /\ big - 1 \in Nat
    <3>1. big - 1 \in Nat
      BY <1>3, <1>7
    <3>2. IntMax * (big - 1) <= loop * (big - 1)
      BY <1>1, <2>2, <3>1, ProductGrows
    <3>3. QED
      BY <1>1, <2>2, <3>1, <3>2, Products
  <2>4. (big - 1) * IntMax = big * IntMax - IntMax /\ big * IntMax \in Int
    <3>1. (big - 1) * IntMax = big * IntMax - 1 * IntMax
      BY <1>1, <1>3, Products
    <3>2. QED
      BY <1>1, <1>3, <3>1
  <2>5. (big * Chunk) * PerUs <= big * IntMax /\ (big * Chunk) * PerUs \in Int
    <3>1. (Chunk * PerUs) * big <= IntMax * big
      BY <1>1, <1>2, <1>3, ProductGrows
    <3>2. (big * Chunk) * PerUs = big * (Chunk * PerUs)
      BY <1>1, <1>2, <1>3, Products
    <3>3. QED
      BY <1>1, <1>2, <1>3, <3>1, <3>2, Products
  <2>6. Turns(rest * PerUs) \in Nat
    BY <1>1, <1>4 DEF Turns
  <2>7. QED
    BY <1>1, <1>4, <1>5, <2>1, <2>3, <2>4, <2>5, <2>6
<1>8. QED
  BY <1>6, <1>7

\* Only write() echoes.
LEMMA EchoSteps ==
    ASSUME [LibraryNext]_libraryVars, call'.routine = "alt_log_write"
    PROVE  UNCHANGED libraryVars \/ LogWrite
<1>1. CASE Log
  <2>1. PICK d \in Directives, e \in Followers :
          call' = [routine |-> "log", first |-> d, second |-> e,
                   text |-> LogText(d.fmt \o e.fmt, d.args \o e.args)]
    BY <1>1, Zenon DEF Log
  <2>2. QED
    BY <2>1
<1>2. CASE AltPrintf
  BY <1>2 DEF AltPrintf
<1>3. CASE Resumed
  BY <1>3 DEF Resumed, Idle
<1>4. CASE Clock
  BY <1>4 DEF Clock
<1>5. CASE Usleep
  BY <1>5 DEF Usleep
<1>6. CASE Flushing
  BY <1>6, FlushingCall
<1>7. CASE Ioctl
  BY <1>7 DEF Ioctl
<1>8. QED
  BY <1>1, <1>2, <1>3, <1>4, <1>5, <1>6, <1>7 DEF LibraryNext, Flushing

\* The line that echoes a text.
LEMMA EchoShows ==
    ASSUME NEW Chars, NEW t \in Seq(Chars)
    PROVE  /\ EchoLength(t) \in Nat
           /\ ~(EchoLength(t) > 1) => Echo(t) = <<>>
           /\ EchoLength(t) > 1 =>
                 /\ Len(Echo(t)) = EchoLength(t) + 1 /\ "^D" \notin ToSet(Echo(t))
                 /\ \A i \in 1 .. EchoLength(t) - 1 : Echo(t)[i] = Echoed(t[i])
                 /\ Echo(t)[EchoLength(t)] = "\n" /\ Echo(t)[EchoLength(t) + 1] = "\r"
<1> DEFINE length == EchoLength(t)
<1> DEFINE All == Chars \cup {"\n"}
<1> DEFINE copy == SubSeq(t, 1, length)
<1> DEFINE ended == [copy EXCEPT ![length] = "\n"]
<1> DEFINE line == ended \o <<"\r">>
<1> DEFINE Shown(i) == IF i <= length /\ line[i] = "^D" THEN "D" ELSE line[i]
<1>1. /\ EchoLen \in Nat /\ Len(t) \in Nat /\ length \in Nat
      /\ length <= EchoLen /\ length <= Len(t)
  BY OutputAssumption, LenProperties DEF EchoLength
<1>2. CASE ~(length > 1)
  <2>1. Echo(t) = <<>>
    BY <1>1, <1>2 DEF Echo
  <2>2. QED
    BY <1>1, <1>2, <2>1
<1>3. CASE length > 1
  <2>1. Echo(t) = [i \in 1 .. length + 1 |-> Shown(i)]
    <3>1. ~(EchoLength(t) < 2)
      BY <1>1, <1>3
    <3>2. QED
      BY <3>1, Zenon DEF Echo
  <2> HIDE DEF length
  <2>2. copy \in Seq(Chars) /\ Len(copy) = length /\ \A i \in 1 .. length : copy[i] = t[i]
    BY <1>1, <1>3, SubSeqProperties
  <2> HIDE DEF copy
  <2>3. copy \in [1 .. length -> Chars]
    BY <2>2, LenProperties
  <2>4. /\ ended \in [1 .. length -> All]
        /\ ended[length] = "\n" /\ \A i \in 1 .. length - 1 : ended[i] = t[i]
    BY <1>1, <1>3, <2>2, <2>3
  <2> HIDE DEF ended
  <2>5. ended \in Seq(All) /\ Len(ended) = length
    BY <1>1, <2>4
  <2> DEFINE feed == <<"\r">>
  <2>6. feed \in Seq({"\r"}) /\ Len(feed) = 1 /\ feed[1] = "\r"
    OBVIOUS
  <2> HIDE DEF feed, All
  <2>7. /\ \A i \in 1 .. length : line[i] = ended[i]
        /\ line[length + 1] = "\r"
    <3>1. ended \in Seq(All \cup {"\r"}) /\ feed \in Seq(All \cup {"\r"})
      BY <2>5, <2>6
    <3>2. QED
      BY <1>1, <2>5, <2>6, <3>1, ConcatProperties DEF feed
  <2> HIDE DEF line
  <2>8. /\ \A i \in 1 .. length - 1 : Shown(i) = Echoed(t[i])
        /\ Shown(length) = "\n" /\ Shown(length + 1) = "\r"
    BY <1>1, <1>3, <2>4, <2>7 DEF Echoed
  <2>9. \A i \in 1 .. length + 1 : Shown(i) # "^D"
    BY <1>1, <2>7
  <2> HIDE DEF Shown
  <2>10. /\ DOMAIN Echo(t) = 1 .. length + 1 /\ Len(Echo(t)) = length + 1
         /\ \A i \in 1 .. length + 1 : Echo(t)[i] = Shown(i)
    BY <1>1, <2>1
  <2>11. "^D" \notin ToSet(Echo(t))
    BY <2>9, <2>10, Zenon DEF ToSet
  <2>12. QED
    BY <1>1, <1>3, <2>8, <2>10, <2>11 DEF length
<1>4. QED
  BY <1>2, <1>3

\* write() echoes the start of what it was given, all but one character and without
\* what would end the terminal, and ends the line.
THEOREM EchoTheorem == LibrarySpec => []EchoRight
<1>1. LibraryInit => EchoRight
  BY DEF LibraryInit, Idle, EchoRight
<1>2. EchoRight /\ [LibraryNext]_libraryVars => EchoRight'
  <2> SUFFICES ASSUME EchoRight, [LibraryNext]_libraryVars PROVE EchoRight'
    OBVIOUS
  <2>1. CASE UNCHANGED libraryVars
    BY <2>1, Zenon DEF libraryVars, EchoRight
  <2>2. CASE LogWrite
    <3>1. PICK t \in Texts, level \in -1 .. 3 :
            call' = [routine |-> "alt_log_write", of |-> t, level |-> level,
                     text |-> IF WriteOn(level) THEN Echo(t) ELSE <<>>]
      BY <2>2 DEF LogWrite
    <3>2. CASE WriteOn(level)
      <4>1. call'.of = t /\ call'.level = level /\ call'.text = Echo(t)
        BY <3>1, <3>2
      <4>2. t \in Seq(STRING)
        BY FormatAssumption
      <4>3. QED
        BY <3>2, <4>1, <4>2, EchoShows DEF EchoRight
    <3>3. CASE ~WriteOn(level)
      <4>1. call'.of = t /\ call'.level = level /\ call'.text = <<>>
        BY <3>1, <3>3
      <4>2. QED
        BY <3>3, <4>1 DEF EchoRight
    <3>4. QED
      BY <3>2, <3>3
  <2>3. CASE call'.routine # "alt_log_write"
    BY <2>3 DEF EchoRight
  <2>4. QED
    BY <2>1, <2>2, <2>3, EchoSteps
<1>3. QED
  BY <1>1, <1>2, PTL DEF LibrarySpec

\* usleep() is shorter than asked by no more than the cycles that the truncated
\* number of turns in a microsecond leaves out.
THEOREM SleepTheorem == LibrarySpec => []SleepWithinRounding
<1>1. LibraryInit => SleepWithinRounding
  BY DEF LibraryInit, Idle, SleepWithinRounding
<1>2. SleepWithinRounding /\ [LibraryNext]_libraryVars => SleepWithinRounding'
  <2> SUFFICES ASSUME SleepWithinRounding, [LibraryNext]_libraryVars PROVE SleepWithinRounding'
    OBVIOUS
  <2>1. CASE UNCHANGED libraryVars
    BY <2>1, Zenon DEF libraryVars, SleepWithinRounding
  <2>2. CASE Usleep
    <3>1. PICK us \in 0 .. Modulus - 1, reloaded \in BOOLEAN :
            call' = [routine |-> "usleep", us |-> us, turns |-> Slept(us, reloaded)]
      BY <2>2 DEF Usleep
    <3>2. us \in Nat
      BY TimeAssumption
    <3>3. Slept(us, reloaded) >= us * PerUs /\ Slept(us, reloaded) \in Int
      BY <3>2, DelayLongEnough
    <3>4. PICK turns \in Int : turns = Slept(us, reloaded)
      BY <3>3
    <3>5. call'.us = us /\ call'.turns = turns /\ turns >= us * PerUs
      BY <3>1, <3>3, <3>4
    <3>6. turns * (LoopCycles * US) >= us * (CpuFreq - (CpuFreq % (LoopCycles * US)))
      <4>1. (us * PerUs) * (LoopCycles * US) <= turns * (LoopCycles * US)
        BY <3>2, <3>5, TurnsCounted, Products, ProductGrows
      <4>2. (us * PerUs) * (LoopCycles * US) = us * (PerUs * (LoopCycles * US))
        BY <3>2, TurnsCounted, Products
      <4>3. QED
        BY <4>1, <4>2, TurnsCounted
    <3>7. (turns * LoopCycles) * US = turns * (LoopCycles * US)
      BY TimeAssumption, Products
    <3>8. QED
      BY <3>5, <3>6, <3>7 DEF SleepWithinRounding
  <2>3. CASE Clock
    BY <2>3 DEF Clock, SleepWithinRounding
  <2>4. CASE Flushing
    BY <2>4, FlushingCall DEF SleepWithinRounding
  <2>5. CASE Ioctl
    BY <2>5 DEF Ioctl, SleepWithinRounding
  <2>6. CASE call'.routine \notin {"time", "usleep", "flush", "uncache", "flash", "ioctl"}
    BY <2>6 DEF SleepWithinRounding
  <2>7. QED
    BY <2>1, <2>2, <2>3, <2>4, <2>5, <2>6, CallSteps
<1>3. QED
  BY <1>1, <1>2, PTL DEF LibrarySpec

\* What there is to know about a UART's settings.
PortState == [termios : Termios, fixed : BOOLEAN, divisor : Int]

\* The settings reported are those of the hardware, and an ioctl is carried
\* out as a whole or not at all.
THEOREM SettingsTheorem == LibrarySpec => []SettingsKept
<1> DEFINE Inv == port \in PortState /\ SettingsKept
<1>1. LibraryInit => Inv
  <2> SUFFICES ASSUME LibraryInit PROVE Inv
    OBVIOUS
  <2>1. PICK fixed \in BOOLEAN :
          port = [termios |-> [c_cflag |-> Built, c_ispeed |-> Baud, c_ospeed |-> Baud],
                  fixed |-> fixed, divisor |-> BaudDivisor(Baud)]
    BY DEF LibraryInit, Ports
  <2>2. Baud \in Speeds /\ Built \in Flags /\ Baud \in Nat /\ Baud > 0 /\ Freq \in Nat
    BY SettingsAssumption
  <2>3. BaudDivisor(Baud) \in Int
    BY <2>2, DivMod DEF BaudDivisor
  <2>4. call.routine = "none"
    BY DEF LibraryInit, Idle
  <2>5. QED
    BY <2>1, <2>2, <2>3, <2>4 DEF PortState, Termios, SettingsKept
<1>2. Inv /\ [LibraryNext]_libraryVars => Inv'
  <2> SUFFICES ASSUME port \in PortState, SettingsKept, [LibraryNext]_libraryVars PROVE Inv'
    OBVIOUS
  <2>1. ASSUME UNCHANGED port, call'.routine # "ioctl" PROVE Inv'
    BY <2>1 DEF SettingsKept
  <2>2. CASE UNCHANGED libraryVars
    BY <2>2 DEF libraryVars, SettingsKept
  <2>3. CASE Ioctl
    <3>1. PICK req \in {"TIOCMGET", "TIOCMSET", "TIOCEXCL"}, asked \in Termios :
            /\ port' = UartIoctl(port, req, asked).port
            /\ call' = [routine |-> "ioctl", term |-> UartIoctl(port, req, asked).term,
                        rc |-> UartIoctl(port, req, asked).rc, found |-> port]
      BY <2>3, Zenon DEF Ioctl
    <3> DEFINE term == asked
    <3> SUFFICES ASSUME req = "TIOCMSET" PROVE Inv'
      <4>1. CASE req = "TIOCMGET"
        <5>1. UartIoctl(port, req, asked) = [rc |-> "ok", port |-> port, term |-> port.termios]
          BY <4>1 DEF UartIoctl, TiocmGet, Answer
        <5>2. port' = port /\ call'.term = port.termios /\ call'.rc = "ok"
          BY <3>1, <5>1
        <5>3. QED
          BY <5>2 DEF SettingsKept
      <4>2. CASE req = "TIOCEXCL"
        <5>1. UartIoctl(port, req, asked) = [rc |-> "ENOTTY", port |-> port, term |-> asked]
          BY <4>2 DEF UartIoctl, Answer
        <5>2. port' = port /\ call'.found = port /\ call'.rc = "ENOTTY"
          BY <3>1, <5>1
        <5>3. QED
          BY <5>2 DEF SettingsKept
      <4>3. QED
        BY <4>1, <4>2
    <3>2. /\ term \in Termios
          /\ port' = TiocmSet(port, term).port
          /\ call' = [routine |-> "ioctl", term |-> TiocmSet(port, term).term,
                      rc |-> TiocmSet(port, term).rc, found |-> port]
      <4>1. UartIoctl(port, req, asked) = TiocmSet(port, term)
        BY DEF UartIoctl
      <4>2. QED
        BY <3>1, <4>1
    <3> HIDE DEF term
    <3> DEFINE wanted == IF port.fixed THEN port.termios
                         ELSE WithSpeed(port.termios, term.c_ispeed)
    <3>3. wanted \in Termios /\ wanted.c_ispeed = wanted.c_ospeed
      BY <3>2 DEF PortState, Termios, SettingsKept, WithSpeed
    <3>4. wanted.c_ispeed \in Nat /\ wanted.c_ispeed > 0 /\ Freq \in Nat
      <4> HIDE DEF wanted
      <4>1. wanted.c_ispeed \in Speeds
        BY <3>3 DEF Termios
      <4>2. Freq \in Nat /\ \A speed \in Speeds : speed \in 1 .. Freq
        BY SettingsAssumption
      <4>3. wanted.c_ispeed \in 1 .. Freq
        BY <4>1, <4>2, Zenon
      <4>4. QED
        BY <4>2, <4>3
    <3>5. BaudDivisor(wanted.c_ispeed) \in Int
      BY <3>4, DivMod DEF BaudDivisor
    <3> HIDE DEF wanted
    <3>6. CASE term # wanted
      <4>1. TiocmSet(port, term) =
              [rc |-> "EIO",
               port |-> [port EXCEPT !.termios = WithSpeed(port.termios, port.termios.c_ispeed)],
               term |-> term]
        BY <3>6 DEF TiocmSet, Answer, wanted
      <4>2. WithSpeed(port.termios, port.termios.c_ispeed) = port.termios
        BY DEF PortState, Termios, SettingsKept, WithSpeed
      <4>3. [port EXCEPT !.termios = WithSpeed(port.termios, port.termios.c_ispeed)] = port
        BY <4>2 DEF PortState
      <4>4. port' = port /\ call'.rc = "EIO" /\ call'.found = port /\ call'.routine = "ioctl"
        BY <3>2, <4>1, <4>3
      <4>5. QED
        BY <4>4 DEF SettingsKept
    <3>7. CASE term = wanted
      <4>1. TiocmSet(port, term) =
              [rc |-> "ok",
               port |-> [port EXCEPT !.termios = wanted, !.divisor = BaudDivisor(wanted.c_ispeed)],
               term |-> term]
        BY <3>7 DEF TiocmSet, Answer, wanted
      <4> DEFINE divisor == BaudDivisor(wanted.c_ispeed)
      <4>2. port' = [port EXCEPT !.termios = wanted, !.divisor = divisor]
        BY <3>2, <4>1
      <4>3. divisor \in Int
        BY <3>5
      <4> HIDE DEF divisor
      <4>4. port' = [termios |-> wanted, fixed |-> port.fixed, divisor |-> divisor]
        BY <4>2 DEF PortState
      <4>5. port'.termios = wanted /\ port'.divisor = divisor /\ port' \in PortState
        BY <3>3, <4>3, <4>4 DEF PortState
      <4>6. call'.term = wanted /\ call'.rc = "ok"
        BY <3>2, <3>7, <4>1
      <4>7. QED
        BY <3>3, <4>5, <4>6 DEF SettingsKept, divisor
    <3>8. QED
      BY <3>6, <3>7
  <2>4. CASE Clock
    BY <2>1, <2>4 DEF Clock
  <2>5. CASE Usleep
    BY <2>1, <2>5 DEF Usleep
  <2>6. CASE Flushing
    BY <2>1, <2>6, FlushingCall
  <2>7. QED
    BY <2>1, <2>2, <2>3, <2>4, <2>5, <2>6, CallSteps
<1>3. Inv => SettingsKept
  OBVIOUS
<1>4. QED
  BY <1>1, <1>2, <1>3, PTL DEF LibrarySpec

\* The remainder of a product by a multiple of one of its factors.
LEMMA TicksInSecond ==
    ASSUME NEW n \in Nat, US % Rate = 0
    PROVE  /\ n \div Rate \in Nat /\ Tick \in Nat /\ n * Tick \in Nat
           /\ (n * Tick) % US \in 0 .. US - 1
           /\ n * Tick = (n \div Rate) * US + ((n * Tick) % US)
<1>1. US \in Nat /\ US > 0 /\ Rate \in Nat /\ Rate > 0
  BY TimeAssumption
<1> DEFINE q == n \div Rate
<1> DEFINE r == n % Rate
<1>2. q \in Int /\ r \in Int /\ 0 <= r /\ r < Rate /\ n = q * Rate + r
  BY <1>1, DivMod
<1>3. Tick \in Int /\ US = Tick * Rate
  BY <1>1, DivMod DEF Tick
<1> HIDE DEF q, r
<1>4. Tick > 0
  <2>1. CASE Tick <= 0
    <3>1. Tick * Rate <= 0 * Rate
      BY <1>1, <1>3, <2>1, ProductGrows
    <3>2. QED
      BY <1>1, <1>3, <3>1
  <2>2. QED
    BY <1>3, <2>1
<1>5. q \in Nat
  <2>1. CASE q <= -1
    <3>1. q * Rate <= (-1) * Rate
      BY <1>1, <1>2, <2>1, ProductGrows
    <3>2. q * Rate \in Int
      BY <1>1, <1>2
    <3>3. QED
      BY <1>1, <1>2, <3>1, <3>2
  <2>2. QED
    BY <1>2, <2>1
<1>6. r * Tick \in Nat /\ r * Tick < US
  <2>1. (r + 1) * Tick <= Rate * Tick
    BY <1>1, <1>2, <1>3, <1>4, ProductGrows
  <2>2. (r + 1) * Tick = r * Tick + Tick /\ Rate * Tick = US /\ r * Tick \in Nat
    BY <1>1, <1>2, <1>3, <1>4, Products
  <2>3. QED
    BY <1>1, <1>3, <1>4, <2>1, <2>2
<1>7. n * Tick = q * US + r * Tick
  <2>1. n * Tick = (q * Rate) * Tick + r * Tick
    BY <1>1, <1>2, <1>3, Products
  <2>2. (q * Rate) * Tick = q * (Rate * Tick) /\ Rate * Tick = Tick * Rate
    BY <1>1, <1>3, <1>5, Products
  <2>3. QED
    BY <1>3, <2>1, <2>2
<1>8. n * Tick \in Nat
  BY <1>3, <1>4
<1>9. (n * Tick) % US = r * Tick
  <2> DEFINE product == n * Tick
  <2> DEFINE rest == r * Tick
  <2>1. /\ product \in Int /\ q \in Int /\ rest \in Int /\ 0 <= rest /\ rest < US
        /\ product = q * US + rest
    BY <1>5, <1>6, <1>7, <1>8
  <2> HIDE DEF product, rest
  <2>2. product % US = rest
    BY <1>1, <2>1, DivUnique
  <2>3. QED
    BY <2>2 DEF product, rest
<1>10. QED
  BY <1>1, <1>3, <1>4, <1>5, <1>6, <1>7, <1>8, <1>9 DEF q

\* A time set and read again.
LEMMA ClockKept ==
    ASSUME NEW sec \in Nat, NEW usec \in 0 .. US - 1, NEW n \in Nat, NEW m \in Nat, n <= m,
           US % Rate = 0, n * Tick < Modulus
    PROVE  LET t == [sec |-> sec, usec |-> usec]
               got == GetTime(SetTime(t, n), m)
           IN Micros(got) = Micros(t) + (m - n) * Tick /\ got.usec \in 0 .. US - 1
<1> DEFINE t == [sec |-> sec, usec |-> usec]
<1> DEFINE sn == n \div Rate
<1> DEFINE un == (n * Tick) % US
<1> DEFINE sm == m \div Rate
<1> DEFINE um == (m * Tick) % US
<1>1. US \in Nat /\ US > 0 /\ Modulus \in Nat /\ Modulus > 0
  BY TimeAssumption
<1>2. /\ sn \in Nat /\ un \in 0 .. US - 1 /\ n * Tick \in Nat /\ n * Tick = sn * US + un
      /\ sm \in Nat /\ um \in 0 .. US - 1 /\ m * Tick \in Nat /\ m * Tick = sm * US + um
      /\ Tick \in Nat
  BY TicksInSecond
<1>3. (n * Tick) % Modulus = n * Tick
  <2>1. n * Tick = 0 * Modulus + n * Tick
    BY <1>1, <1>2
  <2>2. QED
    BY <1>1, <1>2, <2>1, DivUnique
<1> DEFINE s == (sec - sn) + sm
<1> DEFINE u == (usec - un) + um
<1>4. GetTime(SetTime(t, n), m) = Carried(Borrowed([sec |-> s, usec |-> u]))
  BY <1>3 DEF SetTime, GetTime
<1> HIDE DEF sn, un, sm, um
<1>5. /\ s \in Int /\ u \in Int /\ -US < u /\ u < 2 * US /\ n * Tick <= m * Tick
      /\ s * US \in Int /\ s * US + u = (sec * US + usec) + (m * Tick - n * Tick)
  <2>1. (sec - sn) * US = sec * US - sn * US /\ s * US = (sec - sn) * US + sm * US
    BY <1>1, <1>2, Products
  <2>2. sec * US \in Int /\ sn * US \in Int /\ sm * US \in Int
    BY <1>1, <1>2
  <2>3. n * Tick <= m * Tick
    BY <1>2, ProductGrows
  <2>4. QED
    BY <1>1, <1>2, <2>1, <2>2, <2>3
<1> HIDE DEF s, u
<1> DEFINE total == (sec * US + usec) + (m * Tick - n * Tick)
<1>6. total \in Nat
  BY <1>1, <1>2, <1>5
<1> HIDE DEF total
<1>7. ASSUME NEW x \in Int, NEW v \in Int, x * US + v = total, -US < v, v < US, x <= 0
      PROVE  v >= 0 \/ x > 0
  <2>1. x * US <= 0 * US
    BY <1>1, <1>7, ProductGrows
  <2>2. QED
    BY <1>1, <1>6, <1>7, <2>1
<1>8. Micros(Carried(Borrowed([sec |-> s, usec |-> u]))) = total
      /\ Carried(Borrowed([sec |-> s, usec |-> u])).usec \in 0 .. US - 1
  <2>1. s * US + u = total
    BY <1>5 DEF total
  <2>2. CASE u >= 0 /\ u < US
    BY <1>1, <1>5, <2>1, <2>2 DEF Carried, Borrowed, Micros
  <2>3. CASE u >= US
    <3>1. (s + 1) * US = s * US + US
      BY <1>1, <1>5, Products
    <3>2. QED
      BY <1>1, <1>5, <2>1, <2>3, <3>1 DEF Carried, Borrowed, Micros
  <2>4. CASE u < 0
    <3>1. s > 0
      BY <1>1, <1>5, <1>7, <2>1, <2>4
    <3>2. (s - 1) * US = s * US - US
      BY <1>1, <1>5, Products
    <3>3. Borrowed([sec |-> s, usec |-> u]) = [sec |-> s - 1, usec |-> u + US]
      BY <1>5, <2>4, <3>1 DEF Borrowed
    <3>4. QED
      BY <1>1, <1>5, <2>1, <2>4, <3>2, <3>3 DEF Carried, Micros
  <2>5. QED
    BY <1>1, <1>5, <2>2, <2>3, <2>4
<1>9. (m - n) * Tick = m * Tick - n * Tick
  BY <1>2, Products
<1>10. QED
  BY <1>4, <1>8, <1>9 DEF total, Micros

\* The clock runs on from what was set.
THEOREM ClockTheorem == LibrarySpec => []TimeKept
<1>1. LibraryInit => TimeKept
  BY DEF LibraryInit, Idle, TimeKept
<1>2. TimeKept /\ [LibraryNext]_libraryVars => TimeKept'
  <2> SUFFICES ASSUME TimeKept, [LibraryNext]_libraryVars PROVE TimeKept'
    OBVIOUS
  <2>1. CASE UNCHANGED libraryVars
    BY <2>1, Zenon DEF libraryVars, TimeKept
  <2>2. CASE Clock
    <3>1. PICK sec \in 0 .. MaxSec, usec \in 0 .. US - 1, n \in 0 .. MaxTicks, m \in 0 .. MaxTicks :
            /\ n <= m
            /\ call' = [routine |-> "time", t |-> [sec |-> sec, usec |-> usec], set |-> n, get |-> m,
                        time |-> GetTime(SetTime([sec |-> sec, usec |-> usec], n), m)]
      BY <2>2, Zenon DEF Clock
    <3>2. sec \in Nat /\ n \in Nat /\ m \in Nat
      BY LibraryAssumption
    <3> DEFINE t == [sec |-> sec, usec |-> usec]
    <3> DEFINE got == GetTime(SetTime(t, n), m)
    <3>3. US % Rate = 0 /\ n * Tick < Modulus =>
            Micros(got) = Micros(t) + (m - n) * Tick /\ got.usec \in 0 .. US - 1
      BY <3>1, <3>2, ClockKept
    <3>4. /\ call'.t = t /\ call'.set = n /\ call'.get = m /\ call'.time = got
      BY <3>1
    <3> HIDE DEF t, got
    <3>5. QED
      BY <3>3, <3>4 DEF TimeKept, Micros
  <2>3. CASE Usleep
    BY <2>3 DEF Usleep, TimeKept
  <2>4. CASE Flushing
    BY <2>4, FlushingCall DEF TimeKept
  <2>5. CASE Ioctl
    BY <2>5 DEF Ioctl, TimeKept
  <2>6. CASE call'.routine \notin {"time", "usleep", "flush", "uncache", "flash", "ioctl"}
    BY <2>6 DEF TimeKept
  <2>7. QED
    BY <2>1, <2>2, <2>3, <2>4, <2>5, <2>6, CallSteps
<1>3. QED
  BY <1>1, <1>2, PTL DEF LibrarySpec

\* Lines, and how many of them are in a cache.
LEMMA LineTypes ==
    ASSUME NEW instr \in Instructions
    PROVE  /\ Line(instr) \in Nat /\ Line(instr) > 0
           /\ Size(instr) \in Nat /\ Size(instr) \div Line(instr) \in Nat
           /\ Size(instr) \div Line(instr) > 0
           /\ Size(instr) = (Size(instr) \div Line(instr)) * Line(instr)
<1> DEFINE line == Line(instr)
<1> DEFINE size == Size(instr)
<1> DEFINE lines == size \div line
<1>1. line \in Nat /\ line > 0 /\ size \in Nat /\ size > 0 /\ size % line = 0
  BY CacheAssumption DEF Line, Size
<1> HIDE DEF line, size
<1>2. lines \in Int /\ size = lines * line
  BY <1>1, DivMod
<1> HIDE DEF lines
<1>3. lines > 0
  <2>1. CASE lines <= 0
    <3>1. lines * line <= 0 * line
      BY <1>1, <1>2, <2>1, ProductGrows
    <3>2. QED
      BY <1>1, <1>2, <3>1
  <2>2. QED
    BY <1>2, <2>1
<1>4. QED
  BY <1>1, <1>2, <1>3 DEF line, size, lines

\* The line an address is in.
LEMMA InLine ==
    ASSUME NEW l \in Nat, l > 0, NEW x \in Int, NEW q \in Int, q * l <= x, x < (q + 1) * l
    PROVE  x \div l = q
<1> DEFINE r == x - q * l
<1>1. q * l \in Int /\ (q + 1) * l = q * l + l
  BY Products
<1>2. r \in Int /\ 0 <= r /\ r < l /\ x = q * l + r
  BY <1>1
<1> HIDE DEF r
<1>3. QED
  BY <1>2, DivUnique

\* An address is in its line.
LEMMA LineBounds ==
    ASSUME NEW l \in Nat, l > 0, NEW x \in Int
    PROVE  x \div l \in Int /\ (x \div l) * l \in Int
           /\ (x \div l) * l <= x /\ x < (x \div l) * l + l
           /\ (x % l = 0 => x = (x \div l) * l)
<1> DEFINE q == x \div l
<1> DEFINE r == x % l
<1>1. q \in Int /\ r \in Int /\ 0 <= r /\ r < l /\ x = q * l + r
  BY DivMod
<1> HIDE DEF q, r
<1>2. q * l \in Int
  BY <1>1
<1>3. QED
  BY <1>1, <1>2 DEF q, r

\* A longer way is more lines.
LEMMA FewerLines ==
    ASSUME NEW l \in Nat, l > 0, NEW x \in Int, NEW y \in Int, x * l < y * l
    PROVE  x < y
<1>1. CASE y <= x
  <2>1. y * l <= x * l
    BY <1>1, ProductGrows
  <2>2. x * l \in Int /\ y * l \in Int
    BY Products
  <2>3. QED
    BY <2>1, <2>2
<1>2. QED
  BY <1>1

\* The turns of a flushing loop, with the last one for a region that starts
\* within a line.
LEMMA LoopTurns ==
    ASSUME NEW l \in Nat, l > 0, NEW start \in Nat, NEW n \in Nat
    PROVE  LET q == start \div l
               turns == (n + l - 1) \div l
               last == IF start % l = 0 THEN turns - 1 ELSE turns
           IN /\ q \in Int /\ last \in Int
              /\ \A k \in 0 .. last : (start + k * l) \div l = q + k
              /\ \A x \in start .. start + n - 1 : (x \div l) - q \in 0 .. last
              /\ \A k \in 0 .. last :
                    k = 0 \/ (start <= (q + k) * l /\ (q + k) * l < start + n + l)
              /\ \A k \in Int : k * l <= n => k - 1 <= last
<1> DEFINE q == start \div l
<1> DEFINE turns == (n + l - 1) \div l
<1> DEFINE last == IF start % l = 0 THEN turns - 1 ELSE turns
<1>1. q \in Int /\ q * l \in Int /\ q * l <= start /\ start < q * l + l
      /\ (start % l = 0 => start = q * l)
  BY LineBounds
<1>2. turns \in Int /\ turns * l \in Int /\ turns * l <= n + l - 1 /\ n + l - 1 < turns * l + l
  <2>1. n + l - 1 \in Int
    OBVIOUS
  <2>2. QED
    BY <2>1, LineBounds
<1>3. last \in Int /\ turns - 1 <= last /\ last <= turns /\ (last = turns => start % l # 0)
  BY <1>2
<1>4. last = turns \/ (last = turns - 1 /\ start = q * l)
  BY <1>1
<1> HIDE DEF q, turns, last
<1>5. ASSUME NEW k \in 0 .. last PROVE (start + k * l) \div l = q + k
  <2>1. (q + k) * l = q * l + k * l /\ (q + k + 1) * l = q * l + k * l + l /\ k * l \in Int
    <3>1. (q + k) * l = q * l + k * l /\ k * l \in Int
      BY <1>1, Products
    <3>2. (q + k + 1) * l = (q + k) * l + 1 * l
      BY <1>1, Products
    <3>3. QED
      BY <1>1, <3>1, <3>2
  <2>2. start + k * l \in Int /\ q + k \in Int /\ (q + k) * l <= start + k * l
        /\ start + k * l < (q + k + 1) * l
    BY <1>1, <2>1
  <2>3. QED
    BY <2>2, InLine
<1>6. ASSUME NEW x \in start .. start + n - 1 PROVE (x \div l) - q \in 0 .. last
  <2> DEFINE p == x \div l
  <2>1. p \in Int /\ p * l \in Int /\ p * l <= x /\ x < p * l + l
    BY LineBounds
  <2> HIDE DEF p
  <2>2. q < p + 1
    <3>1. (p + 1) * l = p * l + l
      BY <2>1, Products
    <3>2. QED
      BY <1>1, <2>1, <3>1, FewerLines
  <2>3. CASE last = turns
    <3>1. (q + turns + 1) * l = q * l + turns * l + l
      <4>1. (q + turns + 1) * l = (q + turns) * l + 1 * l /\ (q + turns) * l = q * l + turns * l
        BY <1>1, <1>2, Products
      <4>2. QED
        BY <1>1, <1>2, <4>1
    <3>2. p * l < (q + turns + 1) * l
      BY <1>1, <1>2, <2>1, <3>1
    <3>3. p < q + turns + 1
      BY <1>1, <1>2, <2>1, <3>2, FewerLines
    <3>4. QED
      BY <1>1, <1>2, <2>1, <2>2, <2>3, <3>3 DEF p
  <2>4. CASE last = turns - 1 /\ start = q * l
    <3>1. (q + turns) * l = q * l + turns * l
      BY <1>1, <1>2, Products
    <3>2. p * l < (q + turns) * l
      BY <1>1, <1>2, <2>1, <2>4, <3>1
    <3>3. p < q + turns
      BY <1>1, <1>2, <2>1, <3>2, FewerLines
    <3>4. QED
      BY <1>1, <1>2, <2>1, <2>2, <2>4, <3>3 DEF p
  <2>5. QED
    BY <1>4, <2>3, <2>4
<1>7. ASSUME NEW k \in 0 .. last, k # 0
      PROVE  start <= (q + k) * l /\ (q + k) * l < start + n + l
  <2>1. (q + k) * l = q * l + k * l /\ k * l \in Int
    BY <1>1, <1>3, Products
  <2>2. l <= k * l /\ k * l <= turns * l
    <3>1. 1 * l <= k * l /\ k * l <= turns * l
      BY <1>2, <1>3, <1>7, ProductGrows
    <3>2. QED
      BY <3>1
  <2>3. QED
    BY <1>1, <1>2, <2>1, <2>2
<1>8. ASSUME NEW k \in Int, k * l <= n PROVE k - 1 <= last
  <2>1. (turns + 1) * l = turns * l + l /\ k * l \in Int
    BY <1>2, Products
  <2>2. k * l < (turns + 1) * l
    BY <1>2, <1>8, <2>1
  <2>3. k < turns + 1
    BY <1>2, <2>2, FewerLines
  <2>4. QED
    BY <1>2, <1>3, <2>3
<1>9. QED
  BY <1>1, <1>3, <1>5, <1>6, <1>7, <1>8 DEF q, turns, last

\* A loop flushes every line of the region, and no line but those and the next.
LEMMA FlushesRegion ==
    ASSUME NEW instr \in Instructions, NEW start \in Nat, NEW len \in Nat
    PROVE  LET region == start .. start + len - 1
               behind == start + len
               Lines(S) == {LineOf(instr, x) : x \in S}
               lines == Lines(Flushed(instr, start, len))
           IN /\ Lines(region) \subseteq lines
              /\ lines \subseteq Lines(region \cup {start, behind, behind + Line(instr) - 1})
<1> DEFINE l == Line(instr)
<1> DEFINE size == Size(instr)
<1> DEFINE slots == size \div l
<1> DEFINE n == Length(instr, len)
<1> DEFINE q == start \div l
<1> DEFINE last == IF start % l = 0 THEN ((n + l - 1) \div l) - 1 ELSE (n + l - 1) \div l
<1> DEFINE behind == start + len
<1> DEFINE slot(p) == IF ByLine(instr) THEN p % slots ELSE p
<1>1. /\ l \in Nat /\ l > 0 /\ size \in Nat /\ slots \in Nat /\ slots > 0 /\ size = slots * l
  BY LineTypes
<1>2. n \in Nat /\ n <= len /\ (n = len \/ (ByLine(instr) /\ n = size))
  BY <1>1 DEF Length
<1>3. \A x : LineOf(instr, x) = slot(x \div l)
  BY DEF LineOf
<1>4. Flushed(instr, start, len) = {start + k * l : k \in 0 .. last}
  BY DEF Flushed
<1> HIDE DEF l, size, slots, n
<1>5. /\ q \in Int /\ last \in Int
      /\ \A k \in 0 .. last : (start + k * l) \div l = q + k
      /\ \A x \in start .. start + n - 1 : (x \div l) - q \in 0 .. last
      /\ \A k \in 0 .. last : k = 0 \/ (start <= (q + k) * l /\ (q + k) * l < start + n + l)
      /\ \A k \in Int : k * l <= n => k - 1 <= last
  BY <1>1, <1>2, LoopTurns
<1> HIDE DEF q, last, slot
<1>6. \A k \in 0 .. last : LineOf(instr, start + k * l) = slot(q + k)
  BY <1>3, <1>5
<1>7. ASSUME NEW x \in start .. start + len - 1
      PROVE  \E k \in 0 .. last : LineOf(instr, x) = slot(q + k)
  <2>1. x \in Int /\ x \div l \in Int
    BY <1>1, LineBounds
  <2>2. CASE x <= start + n - 1
    <3> DEFINE k == (x \div l) - q
    <3>1. k \in 0 .. last /\ q + k = x \div l
      BY <1>2, <1>5, <2>1, <2>2
    <3>2. QED
      BY <1>3, <3>1
  <2>3. CASE x > start + n - 1
    <3>1. ByLine(instr) /\ n = slots * l
      BY <1>1, <1>2, <2>1, <2>3
    <3> DEFINE p == x \div l
    <3> DEFINE k == (p - q) % slots
    <3> DEFINE d == (p - q) \div slots
    <3> DEFINE e == p \div slots
    <3> DEFINE r == p % slots
    <3>2. k \in Int /\ 0 <= k /\ k < slots /\ d \in Int /\ p - q = d * slots + k
      <4> DEFINE far == p - q
      <4>1. far \in Int /\ slots \in Int /\ slots > 0
        BY <1>1, <1>5, <2>1
      <4>2. far = p - q /\ k = far % slots /\ d = far \div slots
        OBVIOUS
      <4> HIDE DEF far, k, d, p, e, r
      <4>3. k \in Int /\ 0 <= k /\ k < slots /\ d \in Int /\ far = d * slots + k
        BY <4>1, <4>2, Divided
      <4>4. QED
        BY <4>2, <4>3
    <3>3. e \in Int /\ r \in Int /\ 0 <= r /\ r < slots /\ p = e * slots + r
      <4>1. p \in Int /\ slots \in Int /\ slots > 0
        BY <1>1, <2>1
      <4> HIDE DEF p
      <4>2. QED
        BY <4>1, DivMod
    <3>4. p \in Int
      BY <2>1
    <3> HIDE DEF p, k, d, e, r
    <3>5. k \in 0 .. last
      <4>1. slots * l <= n
        BY <1>2, <3>1
      <4>2. slots - 1 <= last
        BY <1>1, <1>5, <4>1
      <4>3. QED
        BY <1>1, <1>5, <3>2, <4>2
    <3>6. (q + k) % slots = r
      <4>1. (e - d) * slots = e * slots - d * slots /\ e * slots \in Int /\ d * slots \in Int
        BY <1>1, <3>2, <3>3, Products
      <4>2. q + k = (e - d) * slots + r /\ q + k \in Int /\ e - d \in Int
        BY <1>5, <3>2, <3>3, <3>4, <4>1
      <4> DEFINE t == q + k
      <4> DEFINE c == e - d
      <4>3. t \in Int /\ c \in Int /\ t = c * slots + r
        BY <4>2
      <4>4. slots \in Int /\ slots > 0 /\ r \in Int /\ 0 <= r /\ r < slots
        BY <1>1, <3>3
      <4> HIDE DEF t, c
      <4>5. t % slots = r
        BY <4>3, <4>4, DivUnique
      <4>6. QED
        BY <4>5 DEF t
    <3>7. LineOf(instr, x) = slot(p)
      BY <1>3 DEF p
    <3>8. slot(p) = r /\ slot(q + k) = r
      BY <3>1, <3>6 DEF slot, r
    <3>9. QED
      BY <3>5, <3>7, <3>8
  <2>4. QED
    BY <1>2, <2>1, <2>2, <2>3
<1>8. ASSUME NEW k \in 0 .. last
      PROVE  \E y \in (start .. start + len - 1) \cup {start, behind, behind + l - 1} :
                LineOf(instr, y) = slot(q + k)
  <2>1. CASE k = 0
    <3>1. LineOf(instr, start + 0 * l) = slot(q + 0) /\ start + 0 * l = start
      BY <1>1, <1>6, <2>1
    <3>2. QED
      BY <2>1, <3>1
  <2>2. CASE k # 0
    <3> DEFINE y == (q + k) * l
    <3>1. q + k \in Int /\ y \in Int /\ start <= y /\ y < start + n + l
          /\ (q + k + 1) * l = y + l
      <4>1. q + k \in Int
        BY <1>5
      <4>2. y \in Int /\ (q + k + 1) * l = y + 1 * l
        BY <1>1, <4>1, Products
      <4>3. QED
        BY <1>1, <1>5, <2>2, <4>1, <4>2
    <3> HIDE DEF y
    <3>2. CASE y < behind
      <4>1. y \div l = q + k
        BY <1>1, <3>1, InLine DEF y
      <4>2. y \in start .. start + len - 1
        BY <3>1, <3>2
      <4>3. QED
        BY <1>3, <4>1, <4>2
    <3>3. CASE y >= behind
      <4>1. (behind + l - 1) \div l = q + k
        <5>1. y <= behind + l - 1 /\ behind + l - 1 < y + l /\ behind + l - 1 \in Int
          BY <1>1, <1>2, <3>1, <3>3
        <5>2. QED
          BY <1>1, <3>1, <5>1, InLine DEF y
      <4>2. QED
        BY <1>3, <4>1
    <3>4. QED
      BY <3>1, <3>2, <3>3
  <2>3. QED
    BY <2>1, <2>2
<1>9. {LineOf(instr, x) : x \in Flushed(instr, start, len)} = {slot(q + k) : k \in 0 .. last}
  BY <1>4, <1>6
<1>10. {LineOf(instr, x) : x \in start .. start + len - 1} \subseteq {slot(q + k) : k \in 0 .. last}
  BY <1>7
<1>11. {slot(q + k) : k \in 0 .. last} \subseteq
         {LineOf(instr, y) : y \in (start .. start + len - 1) \cup {start, behind, behind + l - 1}}
  BY <1>8
<1>12. QED
  BY <1>9, <1>10, <1>11 DEF l

\* Every line of a region is flushed, and no line but those and the next.
THEOREM FlushTheorem == LibrarySpec => []RegionFlushed
<1>1. LibraryInit => RegionFlushed
  BY DEF LibraryInit, Idle, RegionFlushed
<1>2. RegionFlushed /\ [LibraryNext]_libraryVars => RegionFlushed'
  <2> SUFFICES ASSUME RegionFlushed, [LibraryNext]_libraryVars PROVE RegionFlushed'
    OBVIOUS
  <2>1. CASE UNCHANGED libraryVars
    BY <2>1, Zenon DEF libraryVars, RegionFlushed
  <2>2. CASE Flushing
    <3>1. /\ call'.instr \in Instructions /\ call'.start \in Nat /\ call'.len \in Nat
          /\ Cached(call'.pointer) = call'.start
          /\ call'.rc = "ok" => call'.lines = FlushedLines(call'.instr, call'.start, call'.len)
      BY <2>2, FlushingCall
    <3> DEFINE instr == call'.instr
    <3> DEFINE start == call'.start
    <3> DEFINE len == call'.len
    <3> DEFINE Lines(S) == {LineOf(instr, x) : x \in S}
    <3>2. /\ Lines(start .. start + len - 1) \subseteq FlushedLines(instr, start, len)
          /\ FlushedLines(instr, start, len)
                \subseteq Lines((start .. start + len - 1)
                                \cup {start, start + len, start + len + Line(instr) - 1})
      BY <3>1, FlushesRegion DEF FlushedLines
    <3>3. QED
      BY <3>1, <3>2, Zenon DEF RegionFlushed
  <2>3. CASE Usleep
    BY <2>3 DEF Usleep, RegionFlushed
  <2>4. CASE Clock
    BY <2>4 DEF Clock, RegionFlushed
  <2>5. CASE Ioctl
    BY <2>5 DEF Ioctl, RegionFlushed
  <2>6. CASE call'.routine \notin {"time", "usleep", "flush", "uncache", "flash", "ioctl"}
    BY <2>6 DEF RegionFlushed
  <2>7. QED
    BY <2>1, <2>2, <2>3, <2>4, <2>5, <2>6, CallSteps
<1>3. QED
  BY <1>1, <1>2, PTL DEF LibrarySpec

-----------------------------------------------------------------------------
(* The printfs: numerals.                                                   *)

\* The place values of a numeral.
PlaceValues(pv, base, k) ==
    /\ pv[0] = 1 /\ \A i \in 0 .. k : pv[i] \in Nat \ {0}
    /\ \A i \in 1 .. k : pv[i] = base * pv[i - 1]

\* There are place values for any base and any number of digits.
LEMMA PlacesExist ==
    ASSUME NEW base \in Nat, base > 0, NEW k \in Nat
    PROVE  \E pv : PlaceValues(pv, base, k)
<1> DEFINE S == {n \in Nat : \E pv : PlaceValues(pv, base, n)}
<1>1. 0 \in S
  <2> DEFINE pv == [i \in 0 .. 0 |-> 1]
  <2>1. PlaceValues(pv, base, 0)
    BY DEF PlaceValues
  <2>2. QED
    BY <2>1
<1>2. ASSUME NEW n \in S PROVE n + 1 \in S
  <2>1. PICK pv : PlaceValues(pv, base, n)
    BY <1>2
  <2> DEFINE qv == [i \in 0 .. n + 1 |-> IF i <= n THEN pv[i] ELSE base * pv[n]]
  <2>2. n \in Nat /\ pv[n] \in Nat \ {0} /\ base * pv[n] \in Nat \ {0}
    <3>1. n \in Nat /\ pv[n] \in Nat \ {0}
      BY <2>1 DEF PlaceValues
    <3>2. \A x, y \in Nat \ {0} : x * y \in Nat \ {0}
      BY SMT
    <3>3. QED
      BY <3>1, <3>2
  <2>3. PlaceValues(qv, base, n + 1)
    BY <2>1, <2>2 DEF PlaceValues
  <2>4. QED
    BY <2>2, <2>3
<1> HIDE DEF S
<1>3. S = Nat
  <2>1. S \subseteq Nat
    BY DEF S
  <2>2. QED
    BY <1>1, <1>2, <2>1, Inductive
<1>4. QED
  BY <1>3 DEF S

\* Higher places are worth more.
LEMMA PlacesGrow ==
    ASSUME NEW base \in Nat, base > 1, NEW k \in Nat, NEW pv, PlaceValues(pv, base, k),
           NEW i \in 0 .. k, NEW j \in 0 .. k, i <= j
    PROVE  pv[i] <= pv[j]
<1> DEFINE S == {n \in Nat : i + n <= k => pv[i] <= pv[i + n]}
<1>1. 0 \in S
  BY DEF PlaceValues
<1>2. ASSUME NEW n \in S, i + (n + 1) <= k PROVE pv[i] <= pv[i + (n + 1)]
  <2>1. n \in Nat /\ pv[i] <= pv[i + n]
    BY <1>2
  <2>2. pv[i + (n + 1)] = base * pv[i + n] /\ pv[i + n] \in Nat \ {0} /\ pv[i] \in Nat
    BY <1>2, <2>1 DEF PlaceValues
  <2>3. \A x \in Nat : x <= base * x
    BY SMT
  <2>4. QED
    BY <2>1, <2>2, <2>3
<1>3. S \subseteq Nat /\ \A n \in S : n + 1 \in S
  BY <1>2
<1> HIDE DEF S
<1>4. S = Nat
  BY <1>1, <1>3, Inductive
<1>5. j - i \in S
  BY <1>4
<1>6. QED
  BY <1>5 DEF S

\* A digit of a quotient, and what is left of the number.
LEMMA DigitOfQuotient ==
    ASSUME NEW v \in Nat, NEW base \in Nat, base > 1, NEW w \in Nat \ {0}
    PROVE  /\ (v % (base * w)) \div w = (v \div w) % base
           /\ (v % (base * w)) % w = v % w
           /\ v \div (base * w) = (v \div w) \div base
           /\ (v \div w) % base \in 0 .. base - 1
<1> DEFINE q == v \div w
<1> DEFINE r == v % w
<1> DEFINE h == q \div base
<1> DEFINE d == q % base
<1>1. q \in Int /\ r \in Int /\ 0 <= r /\ r < w /\ v = q * w + r
  BY DivMod
<1>2. h \in Int /\ d \in Int /\ 0 <= d /\ d < base /\ q = h * base + d
  <2> HIDE DEF q
  <2> QED BY <1>1, DivMod
<1> HIDE DEF q, r, h, d
<1>3. v = h * (base * w) + (d * w + r)
  <2>1. v = (h * base + d) * w + r
    BY <1>1, <1>2
  <2>2. (h * base + d) * w = h * (base * w) + d * w
    BY <1>1, <1>2, SMT
  <2>3. QED
    BY <1>1, <1>2, <2>1, <2>2, SMT
<1>4. base * w \in Int /\ base * w > 0 /\ d * w + r \in Int /\ 0 <= d * w + r /\ d * w + r < base * w
  <2>1. 0 <= d * w /\ d * w \in Int
    BY <1>2, SMT
  <2>2. (d + 1) * w <= base * w
    BY <1>2, SMT
  <2>3. (d + 1) * w = d * w + w
    BY <1>2, SMT
  <2>4. base * w \in Int
    BY SMT
  <2>5. QED
    BY <1>1, <2>1, <2>2, <2>3, <2>4
<1> DEFINE m == base * w
<1> DEFINE rest == d * w + r
<1>5. v \div m = h /\ v % m = rest
  <2>1. m \in Int /\ m > 0 /\ rest \in Int /\ 0 <= rest /\ rest < m /\ v = h * m + rest
    BY <1>3, <1>4
  <2> HIDE DEF m, rest
  <2>2. QED
    BY <1>2, <2>1, DivUnique
<1>6. rest \div w = d /\ rest % w = r
  <2>1. rest \in Int /\ rest = d * w + r
    BY <1>4
  <2> HIDE DEF rest
  <2>2. QED
    BY <1>1, <1>2, <2>1, DivUnique
<1> HIDE DEF m, rest
<1>7. d \in 0 .. base - 1
  BY <1>2
<1>8. (v % m) \div w = d /\ (v % m) % w = r /\ v \div m = h
  BY <1>5, <1>6, Zenon
<1>9. QED
  BY <1>7, <1>8, Zenon DEF m, q, r, h, d

\* The first digit is not zero.
LEMMA LeadingDigit ==
    ASSUME NEW v \in Nat, NEW base \in Nat, base > 1, NEW w \in Nat \ {0}, w <= v, v < base * w
    PROVE  (v \div w) % base # 0
<1> DEFINE q == v \div w
<1>1. q \in Int /\ v % w \in Int /\ 0 <= v % w /\ v % w < w /\ v = q * w + (v % w)
  BY DivMod
<1> HIDE DEF q
<1>2. q > 0
  <2> SUFFICES ASSUME q <= 0 PROVE FALSE
    BY <1>1
  <2>1. q * w <= 0
    BY <1>1, SMT
  <2>2. QED
    BY <1>1, <2>1
<1>3. q < base
  <2> SUFFICES ASSUME base <= q PROVE FALSE
    BY <1>1
  <2>1. base * w <= q * w
    BY <1>1, SMT
  <2>2. q * w \in Int /\ base * w \in Int
    BY <1>1
  <2>3. QED
    BY <1>1, <2>1, <2>2
<1>4. q % base = q
  <2>1. q = 0 * base + q
    BY <1>1
  <2>2. QED
    BY <1>1, <1>2, <1>3, <2>1, DivUnique
<1>5. QED
  BY <1>2, <1>4 DEF q

\* A turn of the loop that counts digits, and all of them.
Shrunk(f, n, base) ==
    IF n \div base = 0 THEN [digits |-> 1, p |-> 1]
    ELSE [digits |-> f[n \div base].digits + 1, p |-> f[n \div base].p * base]
CountsDigits(f, n, base) == f = [i \in 0 .. n |-> Shrunk(f, i, base)]

\* The number of digits and the place value of the first are those of the number.
LEMMA PlacesAre ==
    ASSUME NEW v \in Nat, NEW base \in Nat, base > 1, NEW pv, PlaceValues(pv, base, v + 1)
    PROVE  \E k \in 0 .. v : /\ Places(v, base) = [digits |-> k + 1, p |-> pv[k]]
                             /\ v < pv[k + 1] /\ (k > 0 => pv[k] <= v)
<1>1. ASSUME NEW n \in Nat PROVE n \div base \in Nat /\ n \div base <= n /\ (n > 0 => n \div base < n)
  <2> DEFINE q == n \div base
  <2>1. q \in Int /\ n = q * base + (n % base) /\ 0 <= n % base /\ n % base < base /\ n % base \in Int
    BY DivMod
  <2> HIDE DEF q
  <2>2. ASSUME q < 0 PROVE FALSE
    <3>1. q * base <= -base
      BY <2>1, <2>2, SMT
    <3>2. QED
      BY <2>1, <3>1
  <2>3. q > 0 => q * base >= q + q
    BY <2>1, SMT
  <2>4. q = 0 => q * base = 0
    OBVIOUS
  <2>5. q * base \in Int
    BY <2>1
  <2>6. q \in Nat /\ q <= n /\ (n > 0 => q < n)
    BY <2>1, <2>2, <2>3, <2>4, <2>5
  <2>7. QED
    BY <2>6 DEF q
<1>2. \A n \in Nat : \E f : CountsDigits(f, n, base)
  <2> DEFINE S == {n \in Nat : \E f : CountsDigits(f, n, base)}
  <2>1. 0 \in S
    <3> DEFINE f == [i \in 0 .. 0 |-> [digits |-> 1, p |-> 1]]
    <3>1. \A i \in 0 .. 0 : i \div base = 0
      BY <1>1
    <3>2. CountsDigits(f, 0, base)
      BY <3>1 DEF CountsDigits, Shrunk
    <3>3. QED
      BY <3>2
  <2>2. ASSUME NEW n \in S PROVE n + 1 \in S
    <3>1. n \in Nat
      BY <2>2
    <3>2. PICK f : CountsDigits(f, n, base)
      BY <2>2
    <3> DEFINE g == [i \in 0 .. n + 1 |-> IF i <= n THEN f[i] ELSE Shrunk(f, n + 1, base)]
    <3>3. \A i \in 0 .. n : g[i] = f[i]
      BY <3>1
    <3>4. DOMAIN g = 0 .. n + 1 /\ g = [i \in 0 .. n + 1 |-> g[i]] /\ g[n + 1] = Shrunk(f, n + 1, base)
      BY <3>1
    <3> HIDE DEF g
    <3>5. ASSUME NEW i \in 0 .. n + 1 PROVE g[i] = Shrunk(g, i, base)
      <4> DEFINE q == i \div base
      <4>1. q \in Nat /\ q <= i /\ (i > 0 => q < i) /\ i \in Nat
        BY <1>1, <3>1
      <4> HIDE DEF q
      <4>2. q \in 0 .. n
        BY <3>1, <4>1
      <4>3. g[q] = f[q]
        BY <3>3, <4>2
      <4>4. Shrunk(f, i, base) = Shrunk(g, i, base)
        BY <4>3, Zenon DEF Shrunk, q
      <4>5. CASE i <= n
        <5>1. i \in 0 .. n
          BY <3>1, <4>5
        <5>2. f[i] = Shrunk(f, i, base)
          BY <3>2, <5>1 DEF CountsDigits
        <5>3. QED
          BY <3>3, <4>4, <5>1, <5>2
      <4>6. CASE ~(i <= n)
        <5>1. i = n + 1
          BY <3>1, <4>6
        <5>2. QED
          BY <3>4, <4>4, <5>1
      <4>7. QED
        BY <4>5, <4>6
    <3>6. CountsDigits(g, n + 1, base)
      BY <3>4, <3>5 DEF CountsDigits
    <3>7. QED
      BY <3>1, <3>6
  <2>3. S \subseteq Nat
    OBVIOUS
  <2> HIDE DEF S
  <2>4. S = Nat
    BY <2>1, <2>2, <2>3, Inductive
  <2>5. QED
    BY <2>4 DEF S
<1> DEFINE places == CHOOSE f : CountsDigits(f, v, base)
<1>3. Places(v, base) = places[v]
  BY DEF Places, CountsDigits, Shrunk
<1>4. CountsDigits(places, v, base)
  BY <1>2, Zenon
<1> HIDE DEF places
<1> DEFINE Counted(n) == \E k \in 0 .. n : /\ places[n] = [digits |-> k + 1, p |-> pv[k]]
                                          /\ n < pv[k + 1] /\ (k > 0 => pv[k] <= n)
<1> DEFINE S == {n \in Nat : \A i \in 0 .. n : i <= v => Counted(i)}
<1>5. ASSUME NEW n \in 0 .. v, \A i \in 0 .. n - 1 : Counted(i) PROVE Counted(n)
  <2> DEFINE q == n \div base
  <2>1. q \in Nat /\ q <= n /\ (n > 0 => q < n) /\ n = q * base + (n % base) /\ 0 <= n % base /\ n % base < base
        /\ n % base \in Int
    BY <1>1, DivMod
  <2>2. places[n] = IF q = 0 THEN [digits |-> 1, p |-> 1]
                    ELSE [digits |-> places[q].digits + 1, p |-> places[q].p * base]
    BY <1>4 DEF CountsDigits, Shrunk
  <2> HIDE DEF q
  <2>3. CASE q = 0
    <3>1. n < base
      BY <2>1, <2>3
    <3>2. pv[0] = 1 /\ pv[1] = base
      BY DEF PlaceValues
    <3>3. 0 \in 0 .. n /\ places[n] = [digits |-> 0 + 1, p |-> pv[0]] /\ n < pv[0 + 1]
      BY <2>2, <2>3, <3>1, <3>2
    <3>4. QED
      BY <3>3
  <2>4. CASE q # 0
    <3>1. n > 0
      BY <2>1, <2>4
    <3>2. q \in 0 .. n - 1
      BY <2>1, <3>1
    <3>3. Counted(q)
      BY <1>5, <3>2
    <3>4. PICK k \in 0 .. q : /\ places[q] = [digits |-> k + 1, p |-> pv[k]]
                              /\ q < pv[k + 1] /\ (k > 0 => pv[k] <= q)
      BY <3>3
    <3>5. k + 1 \in 0 .. n /\ k \in Nat /\ k + 2 <= v + 1
      BY <2>1, <3>1
    <3>6. /\ pv[k + 1] = base * pv[k] /\ pv[k + 2] = base * pv[k + 1]
          /\ pv[k] \in Nat \ {0} /\ pv[k + 1] \in Nat /\ pv[0] = 1
      BY <3>5 DEF PlaceValues
    <3>7. places[n] = [digits |-> (k + 1) + 1, p |-> pv[k + 1]]
      BY <2>2, <2>4, <3>4, <3>6
    <3>8. pv[k] <= q
      BY <2>1, <2>4, <3>4, <3>5, <3>6
    <3>9. base * pv[k] <= q * base
      BY <2>1, <3>6, <3>8, SMT
    <3>10. (q + 1) * base <= base * pv[k + 1]
      <4>1. q + 1 <= pv[k + 1]
        BY <2>1, <3>4, <3>6
      <4>2. QED
        BY <2>1, <3>6, <4>1, SMT
    <3>11. (q + 1) * base = q * base + base
      BY <2>1, SMT
    <3>12. pv[k + 1] <= n /\ n < pv[(k + 1) + 1]
      <4>1. q * base \in Int
        BY <2>1
      <4>2. (k + 1) + 1 = k + 2
        BY <3>5
      <4>3. QED
        BY <2>1, <3>6, <3>9, <3>10, <3>11, <4>1, <4>2
    <3>13. QED
      BY <3>5, <3>7, <3>12
  <2>5. QED
    BY <2>3, <2>4
<1>6. S = Nat
  <2>1. 0 \in S
    <3>1. \A i \in 0 .. 0 : i = 0
      OBVIOUS
    <3>2. 0 \in 0 .. v /\ 0 .. 0 - 1 = {}
      OBVIOUS
    <3>3. QED
      BY <1>5, <3>1, <3>2
  <2>2. ASSUME NEW n \in S PROVE n + 1 \in S
    <3> HIDE DEF Counted
    <3>1. n \in Nat /\ \A i \in 0 .. n : i <= v => Counted(i)
      BY <2>2
    <3>2. n + 1 <= v => Counted(n + 1)
      <4> SUFFICES ASSUME n + 1 <= v PROVE Counted(n + 1)
        OBVIOUS
      <4>1. n + 1 \in 0 .. v /\ \A i \in 0 .. (n + 1) - 1 : Counted(i)
        BY <3>1
      <4>2. QED
        BY <1>5, <4>1
    <3>3. QED
      BY <3>1, <3>2
  <2>3. S \subseteq Nat
    OBVIOUS
  <2> HIDE DEF S
  <2>4. QED
    BY <2>1, <2>2, <2>3, Inductive
<1> HIDE DEF Counted
<1>7. Counted(v)
  <2>1. v \in S
    BY <1>6, SMTT(60)
  <2>2. QED
    BY <2>1
<1>8. QED
  BY <1>3, <1>7 DEF Counted

\* The first n of m digits.
NumeralOf(v, pv, base, m, n, upper) == [j \in 1 .. n |-> Digit((v \div pv[m - j]) % base, upper)]

\* The loop prints the digits of the number.
LEMMA NumeralIs ==
    ASSUME NEW v \in Nat, NEW base \in Nat, base > 1, NEW m \in Nat \ {0}, NEW pv,
           PlaceValues(pv, base, m), v < pv[m], NEW upper
    PROVE  Numeral(v, [digits |-> m, p |-> pv[m - 1]], base, upper) = NumeralOf(v, pv, base, m, m, upper)
<1> DEFINE start == [v |-> v, p |-> pv[m - 1], text |-> <<>>]
<1> DEFINE Turned(t) == [v |-> t.v % t.p, p |-> t.p \div base, text |-> Append(t.text, Digit(t.v \div t.p, upper))]
<1> DEFINE turn == CHOOSE f : f = [i \in 0 .. m |-> IF i = 0 THEN start ELSE Turned(f[i - 1])]
<1> DEFINE After(i) == [v |-> v % pv[m - i], p |-> IF i < m THEN pv[m - i - 1] ELSE 0,
                        text |-> NumeralOf(v, pv, base, m, i, upper)]
<1> DEFINE F == [i \in 0 .. m |-> After(i)]
<1>1. Numeral(v, [digits |-> m, p |-> pv[m - 1]], base, upper) = turn[m].text
  BY DEF Numeral
<1>2. After(0) = start
  <2>1. pv[m] \in Nat \ {0}
    BY DEF PlaceValues
  <2>2. v % pv[m] = v
    <3>1. v = 0 * pv[m] + v
      BY <2>1
    <3>2. QED
      BY <2>1, <3>1, DivUnique
  <2>3. NumeralOf(v, pv, base, m, 0, upper) = <<>>
    BY DEF NumeralOf
  <2>4. m - 0 = m /\ 0 < m /\ m - 0 - 1 = m - 1
    OBVIOUS
  <2>5. QED
    BY <2>2, <2>3, <2>4
<1>3. ASSUME NEW i \in 1 .. m PROVE After(i) = Turned(After(i - 1))
  <2> DEFINE w == pv[m - i]
  <2> DEFINE left == v % (base * w)
  <2>1. /\ w \in Nat \ {0} /\ pv[m - (i - 1)] = base * w /\ pv[m - (i - 1) - 1] = w /\ i - 1 < m
        /\ (i < m => w = base * pv[m - i - 1] /\ pv[m - i - 1] \in Nat) /\ (i = m => w = 1)
    BY DEF PlaceValues
  <2>2. After(i - 1) = [v |-> left, p |-> w, text |-> NumeralOf(v, pv, base, m, i - 1, upper)]
    BY <2>1
  <2> DEFINE digit == Digit((v \div w) % base, upper)
  <2>3. left \div w = (v \div w) % base /\ left % w = v % w
    <3>1. w \in Nat \ {0}
      BY <2>1
    <3> HIDE DEF w
    <3>2. QED
      BY <3>1, DigitOfQuotient
  <2>4. w \div base = IF i < m THEN pv[m - i - 1] ELSE 0
    <3>1. CASE i < m
      <4>1. w = pv[m - i - 1] * base + 0 /\ pv[m - i - 1] \in Int /\ w \in Int
        BY <2>1, <3>1
      <4> HIDE DEF w
      <4>2. w \div base = pv[m - i - 1]
        BY <4>1, DivUnique
      <4>3. QED
        BY <3>1, <4>2
    <3>2. CASE ~(i < m)
      <4>1. w = 0 * base + 1 /\ w \in Int
        BY <2>1, <3>2
      <4> HIDE DEF w
      <4>2. w \div base = 0
        BY <4>1, DivUnique
      <4>3. QED
        BY <3>2, <4>2
    <3>3. QED
      BY <3>1, <3>2
  <2>5. NumeralOf(v, pv, base, m, i, upper) = Append(NumeralOf(v, pv, base, m, i - 1, upper), digit)
    <3> DEFINE e(j) == Digit((v \div pv[m - j]) % base, upper)
    <3>1. e(i) = digit
      OBVIOUS
    <3>2. NumeralOf(v, pv, base, m, i, upper) = [j \in 1 .. i |-> e(j)]
          /\ NumeralOf(v, pv, base, m, i - 1, upper) = [j \in 1 .. i - 1 |-> e(j)]
      BY DEF NumeralOf
    <3> HIDE DEF e, digit
    <3>3. [j \in 1 .. i |-> e(j)] = Append([j \in 1 .. i - 1 |-> e(j)], e(i))
      OBVIOUS
    <3>4. QED
      BY <3>1, <3>2, <3>3
  <2>6. Turned(After(i - 1)) = [v |-> left % w, p |-> w \div base,
                               text |-> Append(NumeralOf(v, pv, base, m, i - 1, upper), Digit(left \div w, upper))]
    BY <2>2
  <2>7. After(i) = [v |-> v % w, p |-> IF i < m THEN pv[m - i - 1] ELSE 0,
                    text |-> NumeralOf(v, pv, base, m, i, upper)]
    OBVIOUS
  <2> HIDE DEF w, left, Turned, After
  <2>8. QED
    BY <2>3, <2>4, <2>5, <2>6, <2>7
<1>4. F = [i \in 0 .. m |-> IF i = 0 THEN start ELSE Turned(F[i - 1])]
  <2> HIDE DEF start, Turned, After
  <2>1. \A i \in 1 .. m : i - 1 \in 0 .. m /\ F[i - 1] = After(i - 1)
    OBVIOUS
  <2>2. \A i \in 0 .. m : i # 0 => i \in 1 .. m
    OBVIOUS
  <2>3. \A i \in 0 .. m : After(i) = IF i = 0 THEN start ELSE Turned(F[i - 1])
    BY <1>2, <1>3, <2>1, <2>2
  <2>4. QED
    BY <2>3
<1>5. turn = [i \in 0 .. m |-> IF i = 0 THEN start ELSE Turned(turn[i - 1])]
  <2> HIDE DEF F, Turned, start
  <2> QED BY <1>4, Zenon
<1>6. turn = F
  <2> HIDE DEF start, Turned, turn, After
  <2> DEFINE S == {i \in Nat : i <= m => turn[i] = F[i]}
  <2>1. 0 \in S
    BY <1>2, <1>5
  <2>2. ASSUME NEW i \in S PROVE i + 1 \in S
    <3>1. CASE i + 1 <= m
      <4>1. i \in 0 .. m /\ i + 1 \in 0 .. m /\ i + 1 # 0 /\ (i + 1) - 1 = i /\ turn[i] = F[i]
        BY <3>1
      <4>2. turn[i + 1] = Turned(turn[i])
        BY <1>5, <4>1
      <4> HIDE DEF F
      <4>3. F[i + 1] = Turned(F[i])
        BY <1>4, <4>1
      <4>4. QED
        BY <4>1, <4>2, <4>3
    <3>2. QED
      BY <3>1
  <2>3. S \subseteq Nat
    OBVIOUS
  <2> HIDE DEF S
  <2>4. S = Nat
    BY <2>1, <2>2, <2>3, Inductive
  <2>5. \A i \in 0 .. m : turn[i] = F[i]
    <3> TAKE i \in 0 .. m
    <3>1. i \in S
      BY <2>4
    <3>2. QED
      BY <3>1 DEF S
  <2>6. DOMAIN turn = 0 .. m /\ DOMAIN F = 0 .. m /\ turn = [i \in 0 .. m |-> turn[i]]
    BY <1>5
  <2>7. F = [i \in 0 .. m |-> F[i]]
    OBVIOUS
  <2> HIDE DEF F
  <2>8. QED
    BY <2>5, <2>6, <2>7
<1>7. F[m].text = NumeralOf(v, pv, base, m, m, upper)
  OBVIOUS
<1>8. QED
  BY <1>1, <1>6, <1>7


\* The sixteen digits.
LEMMA Digits ==
    ASSUME NEW upper \in BOOLEAN
    PROVE  /\ Digit(0, upper) = "0" /\ Digit(1, upper) = "1" /\ Digit(2, upper) = "2"
           /\ Digit(3, upper) = "3" /\ Digit(4, upper) = "4" /\ Digit(5, upper) = "5"
           /\ Digit(6, upper) = "6" /\ Digit(7, upper) = "7" /\ Digit(8, upper) = "8"
           /\ Digit(9, upper) = "9"
           /\ Digit(10, upper) = (IF upper THEN "A" ELSE "a")
           /\ Digit(11, upper) = (IF upper THEN "B" ELSE "b")
           /\ Digit(12, upper) = (IF upper THEN "C" ELSE "c")
           /\ Digit(13, upper) = (IF upper THEN "D" ELSE "d")
           /\ Digit(14, upper) = (IF upper THEN "E" ELSE "e")
           /\ Digit(15, upper) = (IF upper THEN "F" ELSE "f")
  BY DEF Digit, Decimals

\* What a text consists of.  (That a literal is a STRING, the provers do not know.)
Decimal == {"0", "1", "2", "3", "4", "5", "6", "7", "8", "9"}
Lower == {"a", "b", "c", "d", "e", "f"}
Upper == {"A", "B", "C", "D", "E", "F"}
Characters == STRING \cup Decimal \cup Lower \cup Upper \cup {" ", "-", "x", "%"}

\* Characters that are not digits of every base.
LEMMA SomeCharacters == {" ", "-", "0"} \subseteq Characters
<1>1. " " \in {" ", "-", "x", "%"} /\ "-" \in {" ", "-", "x", "%"} /\ "0" \in Decimal
  BY Zenon DEF Decimal
<1>2. QED
  BY <1>1, Zenon DEF Characters

\* A digit is a character.
LEMMA DigitIsCharacter ==
    ASSUME NEW d \in 0 .. 15, NEW upper \in BOOLEAN
    PROVE  Digit(d, upper) \in Characters
<1>1. CASE d \in {0, 1, 2, 3, 4, 5, 6, 7, 8, 9}
  <2>1. Digit(d, upper) \in Decimal
    BY <1>1, Digits DEF Decimal
  <2>2. QED
    BY <2>1, Zenon DEF Characters
<1>2. CASE d \in {10, 11, 12, 13, 14, 15}
  <2>1. Digit(d, upper) \in Lower \cup Upper
    BY <1>2, Digits DEF Lower, Upper
  <2>2. QED
    BY <2>1, Zenon DEF Characters
<1>3. QED
  BY <1>1, <1>2

\* No two digits look the same.
LEMMA DigitsDiffer ==
    ASSUME NEW d \in 0 .. 15, NEW e \in 0 .. 15, NEW upper \in BOOLEAN, NEW other \in BOOLEAN,
           Digit(d, upper) = Digit(e, other)
    PROVE  d = e
<1> DEFINE low == {0, 1, 2, 3, 4, 5, 6, 7, 8, 9}
<1> DEFINE high == {10, 11, 12, 13, 14, 15}
<1>1. d \in low \cup high /\ e \in low \cup high
  OBVIOUS
<1>2. CASE d \in low /\ e \in low
  BY <1>2, Digits
<1>3. CASE d \in low /\ e \in high
  BY <1>3, Digits
<1>4. CASE d \in high /\ e \in low
  BY <1>4, Digits
<1>5. CASE d \in high /\ e \in high
  BY <1>5, Digits
<1>6. QED
  BY <1>1, <1>2, <1>3, <1>4, <1>5

\* A digit stands for its value.
LEMMA ValueOfDigitIs ==
    ASSUME NEW d \in 0 .. 15, NEW upper \in BOOLEAN
    PROVE  ValueOfDigit(Digit(d, upper)) = d
<1> DEFINE c == Digit(d, upper)
<1>1. c \in {Digit(d, TRUE), Digit(d, FALSE)}
  BY Zenon
<1>2. ASSUME NEW e \in 0 .. 15, c \in {Digit(e, TRUE), Digit(e, FALSE)} PROVE e = d
  <2>1. PICK other \in BOOLEAN : Digit(d, upper) = Digit(e, other)
    BY <1>2, Zenon
  <2>2. QED
    BY <2>1, DigitsDiffer
<1>3. QED
  BY <1>1, <1>2, Zenon DEF ValueOfDigit

\* What a numeral says: its digits, its value, and that it has no leading zero.
LEMMA NumeralReads ==
    ASSUME NEW v \in Nat, NEW base \in 2 .. 16, NEW m \in Nat \ {0}, NEW pv,
           PlaceValues(pv, base, m), v < pv[m], m > 1 => pv[m - 1] <= v, NEW upper \in BOOLEAN,
           NEW text, text = NumeralOf(v, pv, base, m, m, upper)
    PROVE  /\ text \in Seq(Characters) /\ Len(text) = m
           /\ \A i \in 1 .. m : \E d \in 0 .. base - 1 : text[i] = Digit(d, upper)
           /\ m > 1 => text[1] # "0"
           /\ ValueOf(text, base) = v
<1>1. base \in Nat /\ base > 1 /\ base <= 16
  OBVIOUS
<1>2. /\ \A j \in 0 .. m : pv[m - j] \in Nat \ {0}
      /\ \A j \in 1 .. m : pv[m - (j - 1)] = base * pv[m - j]
  BY <1>1 DEF PlaceValues
<1> DEFINE d(j) == (v \div pv[m - j]) % base
<1>3. ASSUME NEW j \in 1 .. m PROVE d(j) \in 0 .. base - 1 /\ d(j) \in 0 .. 15
  <2> DEFINE w == pv[m - j]
  <2>1. w \in Nat \ {0}
    BY <1>2
  <2> HIDE DEF w
  <2>2. (v \div w) % base \in 0 .. base - 1
    BY <1>1, <2>1, DigitOfQuotient
  <2>3. d(j) \in 0 .. base - 1
    BY <2>2 DEF w
  <2> HIDE DEF d
  <2>4. QED
    BY <1>1, <2>3
<1>4. text = [j \in 1 .. m |-> Digit(d(j), upper)]
  BY DEF NumeralOf
<1>5. \A j \in 1 .. m : text[j] = Digit(d(j), upper)
  BY <1>4
<1>6. text \in Seq(Characters) /\ Len(text) = m
  <2> HIDE DEF d
  <2>1. \A j \in 1 .. m : Digit(d(j), upper) \in Characters
    BY <1>3, DigitIsCharacter
  <2>2. text \in [1 .. m -> Characters]
    BY <1>4, <2>1
  <2>3. QED
    BY <2>2
<1>7. m > 1 => text[1] # "0"
  <2> SUFFICES ASSUME m > 1 PROVE d(1) # 0
    <3> HIDE DEF d
    <3>1. 1 \in 1 .. m /\ 0 \in 0 .. 15 /\ text[1] = Digit(d(1), upper) /\ d(1) \in 0 .. 15 /\ Digit(0, upper) = "0"
      BY <1>3, <1>5, Digits
    <3>2. QED
      BY <3>1, DigitsDiffer
  <2> DEFINE w == pv[m - 1]
  <2>1. w \in Nat \ {0} /\ w <= v /\ v < base * w
    BY <1>1 DEF PlaceValues
  <2> HIDE DEF w
  <2>2. (v \div w) % base # 0
    BY <1>1, <2>1, LeadingDigit
  <2>3. QED
    BY <2>2 DEF w
<1>8. ValueOf(text, base) = v
  <2> DEFINE value == CHOOSE f : f = [i \in 0 .. Len(text) |->
                          IF i = 0 THEN 0 ELSE f[i - 1] * base + ValueOfDigit(text[i])]
  <2> DEFINE q(i) == v \div pv[m - i]
  <2> DEFINE F == [i \in 0 .. m |-> q(i)]
  <2>1. ValueOf(text, base) = value[m]
    BY <1>6 DEF ValueOf
  <2>2. q(0) = 0
    <3> DEFINE w == pv[m]
    <3>1. w \in Nat \ {0} /\ v < w /\ v = 0 * w + v
      BY DEF PlaceValues
    <3> HIDE DEF w
    <3>2. v \div w = 0
      BY <3>1, DivUnique
    <3>3. QED
      BY <3>2 DEF w
  <2>3. ASSUME NEW i \in 1 .. m PROVE q(i) = q(i - 1) * base + ValueOfDigit(text[i])
    <3> DEFINE w == pv[m - i]
    <3> DEFINE y == v \div w
    <3>1. w \in Nat \ {0} /\ pv[m - (i - 1)] = base * w
      BY <1>2
    <3>2. q(i - 1) = v \div (base * w)
      BY <3>1
    <3>3. ValueOfDigit(text[i]) = y % base
      <4>1. text[i] = Digit(d(i), upper) /\ d(i) \in 0 .. 15 /\ d(i) = y % base
        BY <1>3, <1>5
      <4> HIDE DEF d, y
      <4>2. QED
        BY <4>1, ValueOfDigitIs
    <3> HIDE DEF w
    <3>4. v \div (base * w) = y \div base /\ y \in Int
      <4>1. v \div (base * w) = (v \div w) \div base
        BY <1>1, <3>1, DigitOfQuotient
      <4>2. v \div w \in Int
        BY <3>1, DivMod
      <4>3. QED
        BY <4>1, <4>2
    <3> HIDE DEF y
    <3>5. y = (y \div base) * base + (y % base)
      BY <3>4, DivMod
    <3>6. q(i) = y
      BY DEF y, w
    <3> HIDE DEF q
    <3>7. QED
      BY <3>2, <3>3, <3>4, <3>5, <3>6
  <2> HIDE DEF q, value
  <2>4. F = [i \in 0 .. Len(text) |-> IF i = 0 THEN 0 ELSE F[i - 1] * base + ValueOfDigit(text[i])]
    <3>1. \A i \in 1 .. m : i - 1 \in 0 .. m /\ F[i - 1] = q(i - 1)
      OBVIOUS
    <3>2. \A i \in 0 .. m : i # 0 => i \in 1 .. m
      OBVIOUS
    <3>3. \A i \in 0 .. m : q(i) = IF i = 0 THEN 0 ELSE F[i - 1] * base + ValueOfDigit(text[i])
      BY <2>2, <2>3, <3>1, <3>2
    <3>4. QED
      BY <1>6, <3>3
  <2>5. value = [i \in 0 .. Len(text) |-> IF i = 0 THEN 0 ELSE value[i - 1] * base + ValueOfDigit(text[i])]
    <3> HIDE DEF F
    <3>1. QED
      BY <2>4, Zenon DEF value
  <2> DEFINE S == {i \in Nat : i <= m => value[i] = F[i]}
  <2>6. 0 \in S
    BY <1>6, <2>2, <2>5
  <2>7. ASSUME NEW i \in S PROVE i + 1 \in S
    <3>1. CASE i + 1 <= m
      <4>1. i \in 0 .. m /\ i + 1 \in 0 .. m /\ i + 1 # 0 /\ (i + 1) - 1 = i /\ value[i] = F[i]
        BY <3>1
      <4>2. value[i + 1] = value[i] * base + ValueOfDigit(text[i + 1])
        BY <1>6, <2>5, <4>1
      <4> HIDE DEF F
      <4>3. F[i + 1] = F[i] * base + ValueOfDigit(text[i + 1])
        BY <1>6, <2>4, <4>1
      <4>4. QED
        BY <4>1, <4>2, <4>3
    <3>2. QED
      BY <3>1
  <2>8. S \subseteq Nat
    OBVIOUS
  <2>9. value[m] = F[m]
    <3> HIDE DEF S
    <3>1. S = Nat
      BY <2>6, <2>7, <2>8, Inductive
    <3>2. m \in S
      BY <3>1
    <3>3. QED
      BY <3>2 DEF S
  <2>10. F[m] = v
    <3>1. pv[m - m] = 1
      BY DEF PlaceValues
    <3>2. v \div 1 = v
      BY DivUnique
    <3>3. QED
      BY <3>1, <3>2 DEF q
  <2>11. QED
    BY <2>1, <2>9, <2>10
<1>9. QED
  BY <1>3, <1>5, <1>6, <1>7, <1>8


\* The place values of a word.
LEMMA SixteensArePlaces == PlaceValues(Sixteens, 16, Nibbles) /\ WordSize \in Nat /\ WordSize > 1
<1>1. Nibbles \in Nat /\ Nibbles > 0
  BY OutputAssumption
<1>2. PICK pv : PlaceValues(pv, 16, Nibbles)
  BY <1>1, PlacesExist
<1> DEFINE F == [i \in 0 .. Nibbles |-> pv[i]]
<1>3. F = [i \in 0 .. Nibbles |-> IF i = 0 THEN 1 ELSE 16 * F[i - 1]]
  <2>1. \A i \in 0 .. Nibbles : pv[i] = IF i = 0 THEN 1 ELSE 16 * F[i - 1]
    BY <1>1, <1>2 DEF PlaceValues
  <2>2. QED
    BY <2>1
<1> HIDE DEF F
<1>4. Sixteens = [i \in 0 .. Nibbles |-> IF i = 0 THEN 1 ELSE 16 * Sixteens[i - 1]]
  BY <1>3, Zenon DEF Sixteens
<1> DEFINE S == {i \in Nat : i <= Nibbles => Sixteens[i] \in Nat \ {0}}
<1>5. S = Nat
  <2>1. 0 \in S
    BY <1>1, <1>4
  <2>2. ASSUME NEW i \in S PROVE i + 1 \in S
    <3>1. CASE i + 1 <= Nibbles
      <4>1. Sixteens[i + 1] = 16 * Sixteens[i] /\ Sixteens[i] \in Nat \ {0}
        BY <1>1, <1>4, <3>1
      <4>2. QED
        BY <4>1
    <3>2. QED
      BY <3>1
  <2>3. S \subseteq Nat
    OBVIOUS
  <2> HIDE DEF S
  <2>4. QED
    BY <2>1, <2>2, <2>3, Inductive
<1>6. \A i \in 0 .. Nibbles : Sixteens[i] \in Nat \ {0}
  <2> TAKE i \in 0 .. Nibbles
  <2>1. i \in S
    BY <1>1, <1>5
  <2>2. QED
    BY <1>1, <2>1
<1>7. PlaceValues(Sixteens, 16, Nibbles)
  BY <1>1, <1>4, <1>6 DEF PlaceValues
<1>8. Sixteens[Nibbles] = 16 * Sixteens[Nibbles - 1] /\ Sixteens[Nibbles - 1] \in Nat \ {0}
  <2>1. Nibbles \in 0 .. Nibbles /\ Nibbles # 0 /\ Nibbles - 1 \in 0 .. Nibbles
    BY <1>1
  <2>2. Sixteens[Nibbles] = 16 * Sixteens[Nibbles - 1]
    BY <1>4, <2>1
  <2>3. QED
    BY <1>6, <2>1, <2>2
<1>9. QED
  BY <1>7, <1>8 DEF WordSize

\* alt_printf finds the first digit of a number in hexadecimal.
LEMMA HexIs ==
    ASSUME NEW v \in 0 .. WordSize - 1
    PROVE  \E m \in Nat \ {0} : /\ m <= Nibbles /\ v < Sixteens[m] /\ (m > 1 => Sixteens[m - 1] <= v)
                                 /\ Hex(v) = NumeralOf(v, Sixteens, 16, m, m, FALSE)
<1> DEFINE T == Sixteens
<1>1. /\ Nibbles \in Nat /\ Nibbles > 0 /\ PlaceValues(T, 16, Nibbles) /\ v \in Nat /\ v < T[Nibbles]
      /\ \A i \in 0 .. Nibbles : T[i] \in Nat \ {0}
  BY OutputAssumption, SixteensArePlaces DEF WordSize, PlaceValues
<1> HIDE DEF T
<1>2. CASE v = 0
  <2>1. Hex(v) = <<"0">> /\ T[0] = 1 /\ T[1] = 16
    BY <1>1, <1>2 DEF Hex, PlaceValues
  <2>2. (0 \div 1) % 16 = 0
    <3>1. 0 \div 1 = 0 /\ 0 % 16 = 0
      BY DivUnique
    <3>2. QED
      BY <3>1
  <2>3. Digit((0 \div 1) % 16, FALSE) = "0"
    BY <2>2, Digits
  <2>4. NumeralOf(v, T, 16, 1, 1, FALSE) = [j \in 1 .. 1 |-> "0"]
    <3>1. \A j \in 1 .. 1 : T[1 - j] = 1
      BY <2>1
    <3>2. NumeralOf(v, T, 16, 1, 1, FALSE) = [j \in 1 .. 1 |-> Digit((0 \div 1) % 16, FALSE)]
      BY <1>2, <3>1 DEF NumeralOf
    <3>3. QED
      BY <2>3, <3>2
  <2>5. <<"0">> = [j \in 1 .. 1 |-> "0"]
    OBVIOUS
  <2>6. /\ 1 \in Nat \ {0} /\ 1 <= Nibbles /\ v < T[1] /\ (1 > 1 => T[1 - 1] <= v)
        /\ Hex(v) = NumeralOf(v, T, 16, 1, 1, FALSE)
    <3>1. Hex(v) = NumeralOf(v, T, 16, 1, 1, FALSE)
      BY <2>1, <2>4, <2>5, Zenon
    <3>2. 1 \in Nat \ {0} /\ 1 <= Nibbles /\ v < T[1] /\ ~(1 > 1)
      BY <1>1, <1>2, <2>1
    <3>3. QED
      BY <3>1, <3>2
  <2>7. ASSUME NEW m \in Nat \ {0}, m = 1
        PROVE  m <= Nibbles /\ v < T[m] /\ (m > 1 => T[m - 1] <= v) /\ Hex(v) = NumeralOf(v, T, 16, m, m, FALSE)
    BY <2>6, <2>7
  <2>8. QED
    BY <2>6, <2>7, Zenon DEF T
<1>3. CASE v # 0
  <2> DEFINE S == {j \in 0 .. Nibbles - 1 : v < T[j + 1]}
  <2>1. Nibbles - 1 \in S /\ S \subseteq Nat
    BY <1>1
  <2>2. PICK first \in S : \A j \in S : first <= j
    BY <2>1, LeastElement
  <2>3. first \in 0 .. Nibbles - 1 /\ v < T[first + 1] /\ (first > 0 => T[first] <= v)
    <3>1. first \in 0 .. Nibbles - 1
      BY <2>2
    <3>2. first > 0 => first - 1 \in 0 .. Nibbles - 1 /\ first - 1 \notin S
      <4> SUFFICES ASSUME first > 0 PROVE first - 1 \in 0 .. Nibbles - 1 /\ first - 1 \notin S
        OBVIOUS
      <4>1. first - 1 \in 0 .. Nibbles - 1 /\ ~(first <= first - 1)
        BY <1>1, <3>1
      <4> HIDE DEF S
      <4>2. QED
        BY <2>2, <4>1
    <3>3. first > 0 => ~(v < T[(first - 1) + 1])
      BY <3>2
    <3>4. first > 0 => (first - 1) + 1 = first /\ T[first] \in Nat
      BY <1>1, <2>2
    <3>5. QED
      BY <1>1, <2>2, <3>3, <3>4
  <2>4. Nibble(v, first) # 0
    <3>1. T[first] \in Nat \ {0} /\ T[first] <= v /\ v < 16 * T[first]
      BY <1>1, <1>3, <2>3 DEF PlaceValues
    <3>2. QED
      BY <1>1, <3>1, LeadingDigit DEF Nibble, T
  <2>5. ASSUME NEW j \in first + 1 .. Nibbles - 1 PROVE Nibble(v, j) = 0
    <3> DEFINE w == T[j]
    <3>1. T[first + 1] <= w /\ T[first + 1] \in Nat /\ w \in Nat \ {0}
      BY <1>1, <2>3, PlacesGrow
    <3>2. v < w
      BY <1>1, <2>3, <3>1
    <3> HIDE DEF w
    <3>3. v \div w = 0
      <4>1. v = 0 * w + v
        BY <3>1
      <4>2. QED
        BY <1>1, <3>1, <3>2, <4>1, DivUnique
    <3>4. 0 % 16 = 0
      BY DivUnique
    <3>5. QED
      BY <3>3, <3>4 DEF w, Nibble, T
  <2> DEFINE IsFirst(i) == Nibble(v, i) # 0 /\ \A j \in i + 1 .. Nibbles - 1 : Nibble(v, j) = 0
  <2>6. IsFirst(first)
    BY <2>4, <2>5
  <2>7. ASSUME NEW i \in 0 .. Nibbles - 1, IsFirst(i) PROVE i = first
    <3>1. ~(first < i)
      BY <2>3, <2>5, <2>7
    <3>2. ~(i < first)
      BY <2>3, <2>4, <2>7
    <3>3. QED
      BY <2>3, <3>1, <3>2
  <2> HIDE DEF IsFirst, S
  <2>8. (CHOOSE i \in 0 .. Nibbles - 1 : IsFirst(i)) = first
    BY <2>3, <2>6, <2>7, Zenon
  <2> DEFINE Shown(f) == [k \in 1 .. f + 1 |-> Digit(Nibble(v, f + 1 - k), FALSE)]
  <2>9. Hex(v) = Shown(CHOOSE i \in 0 .. Nibbles - 1 : IsFirst(i))
    BY <1>3 DEF Hex, IsFirst
  <2>10. Hex(v) = NumeralOf(v, T, 16, first + 1, first + 1, FALSE)
    <3>1. Hex(v) = Shown(first)
      <4> HIDE DEF Shown
      <4>1. QED
        BY <2>8, <2>9
    <3>2. Shown(first) = [k \in 1 .. first + 1 |-> Digit((v \div T[(first + 1) - k]) % 16, FALSE)]
      <4>1. \A k \in 1 .. first + 1 : first + 1 - k = (first + 1) - k
        BY <2>3
      <4>2. QED
        BY <4>1 DEF Nibble, T
    <3>3. NumeralOf(v, T, 16, first + 1, first + 1, FALSE)
             = [k \in 1 .. first + 1 |-> Digit((v \div T[(first + 1) - k]) % 16, FALSE)]
      BY DEF NumeralOf
    <3>4. QED
      BY <3>1, <3>2, <3>3, Zenon
  <2>11. first + 1 \in Nat \ {0} /\ first + 1 <= Nibbles /\ (first + 1) - 1 = first
    BY <1>1, <2>3
  <2>12. /\ first + 1 \in Nat \ {0} /\ first + 1 <= Nibbles /\ v < T[first + 1]
         /\ (first + 1 > 1 => T[(first + 1) - 1] <= v)
         /\ Hex(v) = NumeralOf(v, T, 16, first + 1, first + 1, FALSE)
    BY <2>3, <2>10, <2>11
  <2>13. QED
    BY <2>12, Zenon DEF T
<1>4. QED
  BY <1>2, <1>3


-----------------------------------------------------------------------------
(* The printfs: texts.                                                      *)

\* A text put together of two is taken apart again.
LEMMA TakenApart ==
    ASSUME NEW S, NEW s \in Seq(S), NEW t \in Seq(S)
    PROVE  /\ s \o t \in Seq(S) /\ Len(s \o t) = Len(s) + Len(t) /\ Len(s) \in Nat /\ Len(t) \in Nat
           /\ IsPrefix(s, s \o t) /\ SubSeq(s \o t, 1, Len(s)) = s
           /\ SubSeq(s \o t, Len(s) + 1, Len(s \o t)) = t
<1> DEFINE u == s \o t
<1>1. /\ u \in Seq(S) /\ Len(u) = Len(s) + Len(t) /\ Len(s) \in Nat /\ Len(t) \in Nat
      /\ \A i \in 1 .. Len(s) + Len(t) : u[i] = IF i <= Len(s) THEN s[i] ELSE t[i - Len(s)]
  BY ConcatProperties, LenProperties
<1> HIDE DEF u
<1>2. \A i \in 1 .. Len(u) : u[i] \in S
  BY <1>1, ElementOfSeq
<1>3. SubSeq(u, 1, Len(s)) = s
  <2>1. /\ SubSeq(u, 1, Len(s)) \in Seq(S) /\ Len(SubSeq(u, 1, Len(s))) = Len(s)
        /\ \A i \in 1 .. Len(s) : SubSeq(u, 1, Len(s))[i] = u[i]
    <3>1. \A i \in 1 .. Len(s) : u[i] \in S
      BY <1>1, <1>2
    <3>2. /\ SubSeq(u, 1, Len(s)) \in Seq(S)
          /\ Len(SubSeq(u, 1, Len(s))) = IF 1 <= Len(s) THEN Len(s) - 1 + 1 ELSE 0
          /\ \A i \in 1 .. Len(s) - 1 + 1 : SubSeq(u, 1, Len(s))[i] = u[1 + i - 1]
      BY <1>1, <3>1, SubSeqProperties
    <3>3. QED
      BY <1>1, <3>2
  <2>2. \A i \in 1 .. Len(s) : u[i] = s[i]
    BY <1>1
  <2>3. QED
    BY <2>1, <2>2, SeqEqual
<1>4. SubSeq(u, Len(s) + 1, Len(u)) = t
  <2> DEFINE w == SubSeq(u, Len(s) + 1, Len(u))
  <2>1. \A i \in Len(s) + 1 .. Len(u) : u[i] \in S
    BY <1>1, <1>2
  <2>2. /\ w \in Seq(S)
        /\ Len(w) = IF Len(s) + 1 <= Len(u) THEN Len(u) - (Len(s) + 1) + 1 ELSE 0
        /\ \A i \in 1 .. Len(u) - (Len(s) + 1) + 1 : w[i] = u[(Len(s) + 1) + i - 1]
    <3>1. Len(s) + 1 \in Int /\ Len(u) \in Int
      BY <1>1
    <3>2. QED
      BY <2>1, <3>1, SubSeqProperties
  <2> HIDE DEF w
  <2>3. Len(w) = Len(t)
    BY <1>1, <2>2
  <2>4. \A i \in 1 .. Len(t) : w[i] = t[i]
    <3> TAKE i \in 1 .. Len(t)
    <3>1. w[i] = u[(Len(s) + 1) + i - 1]
      <4>1. i \in 1 .. Len(u) - (Len(s) + 1) + 1
        BY <1>1
      <4>2. QED
        BY <2>2, <4>1
    <3>2. (Len(s) + 1) + i - 1 = Len(s) + i /\ Len(s) + i \in 1 .. Len(s) + Len(t) /\ ~(Len(s) + i <= Len(s))
          /\ (Len(s) + i) - Len(s) = i
      BY <1>1
    <3>3. QED
      BY <1>1, <3>1, <3>2
  <2>5. w = t
    BY <2>2, <2>3, <2>4, SeqEqual
  <2>6. QED
    BY <2>5 DEF w
<1>5. IsPrefix(s, u)
  <2>1. SubSeq(s, 1, Len(s)) = s
    <3>1. \A i \in 1 .. Len(s) : s[i] \in S
      BY ElementOfSeq
    <3> DEFINE w == SubSeq(s, 1, Len(s))
    <3>2. /\ w \in Seq(S)
          /\ Len(w) = IF 1 <= Len(s) THEN Len(s) - 1 + 1 ELSE 0
          /\ \A i \in 1 .. Len(s) - 1 + 1 : w[i] = s[1 + i - 1]
      BY <1>1, <3>1, SubSeqProperties
    <3> HIDE DEF w
    <3>3. Len(w) = Len(s) /\ \A i \in 1 .. Len(w) : w[i] = s[i]
      BY <1>1, <3>2
    <3>4. w = s
      BY <3>2, <3>3, SeqEqual
    <3>5. QED
      BY <3>4 DEF w
  <2>2. QED
    BY <1>1, <1>3, <2>1 DEF IsPrefix
<1>6. QED
  BY <1>1, <1>3, <1>4, <1>5 DEF u

\* A character repeated, never for a negative number of times.
LEMMA RepeatedIs ==
    ASSUME NEW S, NEW c \in S, NEW n \in Int
    PROVE  /\ Repeated(c, n) \in Seq(S) /\ Len(Repeated(c, n)) = IF n > 0 THEN n ELSE 0
           /\ Repeated(c, n) = Repeated(c, IF n > 0 THEN n ELSE 0)
<1>1. CASE n > 0
  BY <1>1 DEF Repeated
<1>2. CASE ~(n > 0)
  <2>1. 1 .. n = {} /\ 1 .. 0 = {}
    BY <1>2
  <2>2. Repeated(c, n) = <<>>
    BY <2>1 DEF Repeated
  <2>3. Repeated(c, 0) = <<>>
    BY <2>1 DEF Repeated
  <2>4. QED
    BY <1>2, <2>2, <2>3
<1>3. QED
  BY <1>1, <1>2

\* A text made of a head and what is padded to a width.
Zeros(text, sign, number, width) ==
    \E pad \in 0 .. Len(text) :
        /\ IsPrefix(sign \o Repeated("0", pad), text)
        /\ SubSeq(text, Len(sign \o Repeated("0", pad)) + 1, Len(text)) = number
        /\ Len(text) >= width /\ (pad > 0 => Len(text) = width)
Spaces(text, sign, number, width) ==
    \E pad \in 0 .. Len(text) :
        /\ IsPrefix(Repeated(" ", pad) \o sign, text)
        /\ SubSeq(text, Len(Repeated(" ", pad) \o sign) + 1, Len(text)) = number
        /\ Len(text) >= width /\ (pad > 0 => Len(text) = width)
WidthAsked(before) == IF before < 0 THEN 0 ELSE before

\* The padding is before the sign when it is spaces, and after it when it is zeros.
LEMMA HeadAndNumber ==
    ASSUME NEW sign \in Seq(Characters), NEW number \in Seq(Characters), NEW before \in Int,
           NEW pad \in Int, pad = before - Len(number) - Len(sign)
    PROVE  /\ sign \o Repeated("0", pad) \o number \in Seq(Characters)
           /\ Zeros(sign \o Repeated("0", pad) \o number, sign, number, WidthAsked(before))
           /\ Repeated(" ", pad) \o sign \o number \in Seq(Characters)
           /\ Spaces(Repeated(" ", pad) \o sign \o number, sign, number, WidthAsked(before))
<1>1. Len(sign) \in Nat /\ Len(number) \in Nat /\ "0" \in Characters /\ " " \in Characters
  <2>1. "0" \in Characters /\ " " \in Characters
    BY SomeCharacters, Zenon
  <2>2. Len(sign) \in Nat /\ Len(number) \in Nat
    BY LenProperties
  <2>3. QED
    BY <2>1, <2>2
<1> DEFINE n == IF pad > 0 THEN pad ELSE 0
<1>2. /\ n \in Nat /\ n \in 0 .. n + Len(sign) + Len(number)
      /\ n + Len(sign) + Len(number) >= WidthAsked(before)
      /\ (n > 0 => n + Len(sign) + Len(number) = WidthAsked(before))
  <2>1. n = IF pad > 0 THEN pad ELSE 0
    OBVIOUS
  <2> HIDE DEF n
  <2> DEFINE short == Len(sign)
  <2> DEFINE long == Len(number)
  <2>2. short \in Nat /\ long \in Nat /\ pad = before - long - short
    BY <1>1
  <2> HIDE DEF short, long
  <2>3. /\ n \in Nat /\ n \in 0 .. n + short + long
        /\ n + short + long >= WidthAsked(before)
        /\ (n > 0 => n + short + long = WidthAsked(before))
    <3>1. CASE pad > 0
      BY <2>1, <2>2, <3>1 DEF WidthAsked
    <3>2. CASE ~(pad > 0)
      BY <2>1, <2>2, <3>2 DEF WidthAsked
    <3>3. QED
      BY <3>1, <3>2
  <2>4. QED
    BY <2>3 DEF short, long
<1>3. Repeated("0", pad) = Repeated("0", n) /\ Repeated(" ", pad) = Repeated(" ", n)
  BY <1>1, RepeatedIs
<1> HIDE DEF n
<1>4. /\ Repeated("0", n) \in Seq(Characters) /\ Len(Repeated("0", n)) = n
      /\ Repeated(" ", n) \in Seq(Characters) /\ Len(Repeated(" ", n)) = n
  <2>1. n \in Int /\ (IF n > 0 THEN n ELSE 0) = n
    BY <1>2
  <2>2. \A c \in Characters : Repeated(c, n) \in Seq(Characters) /\ Len(Repeated(c, n)) = n
    BY <2>1, RepeatedIs
  <2>3. QED
    BY <1>1, <2>2
<1> DEFINE zeros == sign \o Repeated("0", n)
<1> DEFINE spaces == Repeated(" ", n) \o sign
<1>5. \A s, t \in Seq(Characters) :
          /\ s \o t \in Seq(Characters) /\ Len(s \o t) = Len(s) + Len(t) /\ IsPrefix(s, s \o t)
          /\ SubSeq(s \o t, Len(s) + 1, Len(s \o t)) = t
  BY TakenApart
<1>6. /\ zeros \in Seq(Characters) /\ Len(zeros) = n + Len(sign)
      /\ spaces \in Seq(Characters) /\ Len(spaces) = n + Len(sign)
  <2>1. zeros \in Seq(Characters) /\ Len(zeros) = Len(sign) + n
    BY <1>4, <1>5, ZenonT(60)
  <2>2. spaces \in Seq(Characters) /\ Len(spaces) = n + Len(sign)
    BY <1>4, <1>5
  <2> HIDE DEF zeros, spaces
  <2>3. Len(sign) + n = n + Len(sign)
    <3>1. n \in Nat
      BY <1>2, Zenon
    <3>2. \A i, j \in Nat : i + j = j + i
      OBVIOUS
    <3>3. QED
      BY <1>1, <3>1, <3>2, Zenon
  <2>4. QED
    BY <2>1, <2>2, <2>3, Zenon
<1>7. sign \o Repeated("0", pad) \o number \in Seq(Characters)
      /\ Zeros(sign \o Repeated("0", pad) \o number, sign, number, WidthAsked(before))
  <2> DEFINE text == zeros \o number
  <2>1. sign \o Repeated("0", pad) \o number = text
    BY <1>3
  <2> HIDE DEF zeros
  <2>2. /\ text \in Seq(Characters) /\ Len(text) = Len(zeros) + Len(number) /\ IsPrefix(zeros, text)
        /\ SubSeq(text, Len(zeros) + 1, Len(text)) = number
    BY <1>5, <1>6
  <2> HIDE DEF text
  <2>3. Len(text) = n + Len(sign) + Len(number)
    BY <1>1, <1>2, <1>6, <2>2
  <2>4. /\ n \in 0 .. Len(text) /\ Len(text) >= WidthAsked(before) /\ (n > 0 => Len(text) = WidthAsked(before))
    BY <1>2, <2>3
  <2>5. Zeros(text, sign, number, WidthAsked(before))
    BY <2>2, <2>4, Zenon DEF Zeros, zeros
  <2>6. QED
    BY <2>1, <2>2, <2>5
<1>8. Repeated(" ", pad) \o sign \o number \in Seq(Characters)
      /\ Spaces(Repeated(" ", pad) \o sign \o number, sign, number, WidthAsked(before))
  <2> DEFINE text == spaces \o number
  <2>1. Repeated(" ", pad) \o sign \o number = text
    BY <1>3
  <2> HIDE DEF spaces
  <2>2. /\ text \in Seq(Characters) /\ Len(text) = Len(spaces) + Len(number) /\ IsPrefix(spaces, text)
        /\ SubSeq(text, Len(spaces) + 1, Len(text)) = number
    BY <1>5, <1>6
  <2> HIDE DEF text
  <2>3. Len(text) = n + Len(sign) + Len(number)
    BY <1>1, <1>2, <1>6, <2>2
  <2>4. /\ n \in 0 .. Len(text) /\ Len(text) >= WidthAsked(before) /\ (n > 0 => Len(text) = WidthAsked(before))
    BY <1>2, <2>3
  <2>5. Spaces(text, sign, number, WidthAsked(before))
    BY <2>2, <2>4, Zenon DEF Spaces, spaces
  <2>6. QED
    BY <2>1, <2>2, <2>5
<1>9. QED
  BY <1>7, <1>8

\* What a numeral says.
Reads(number, v, base, upper) ==
    /\ number # <<>> /\ (Len(number) > 1 => number[1] # "0")
    /\ \A i \in DOMAIN number : \E d \in 0 .. base - 1 : number[i] = Digit(d, upper)
    /\ ValueOf(number, base) = v

\* The digits of a number are a numeral of it.
LEMMA NumeralRead ==
    ASSUME NEW v \in Nat, NEW base \in 2 .. 16, NEW m \in Nat \ {0}, NEW pv,
           PlaceValues(pv, base, m), v < pv[m], m > 1 => pv[m - 1] <= v, NEW upper \in BOOLEAN,
           NEW number, number = NumeralOf(v, pv, base, m, m, upper)
    PROVE  number \in Seq(Characters) /\ Len(number) = m /\ Reads(number, v, base, upper)
<1>1. /\ number \in Seq(Characters) /\ Len(number) = m
      /\ \A i \in 1 .. m : \E d \in 0 .. base - 1 : number[i] = Digit(d, upper)
      /\ m > 1 => number[1] # "0"
      /\ ValueOf(number, base) = v
  BY NumeralReads, SMTT(180)
<1>2. number # <<>> /\ DOMAIN number = 1 .. m
  BY <1>1
<1>3. Reads(number, v, base, upper)
  BY <1>1, <1>2, Zenon DEF Reads
<1>4. QED
  BY <1>1, <1>3

\* The loops of the logging printf print the digits of the magnitude.
LEMMA MagnitudePrinted ==
    ASSUME NEW v \in Nat, NEW base \in 2 .. 16, NEW upper \in BOOLEAN
    PROVE  LET number == Numeral(v, Places(v, base), base, upper)
           IN /\ number \in Seq(Characters) /\ Places(v, base).digits = Len(number)
              /\ Reads(number, v, base, upper)
<1> DEFINE places == Places(v, base)
<1>1. base \in Nat /\ base > 1
  OBVIOUS
<1>2. PICK pv : PlaceValues(pv, base, v + 1)
  BY <1>1, PlacesExist
<1>3. PICK k \in 0 .. v : /\ places = [digits |-> k + 1, p |-> pv[k]]
                          /\ v < pv[k + 1] /\ (k > 0 => pv[k] <= v)
  BY <1>1, <1>2, PlacesAre
<1> DEFINE m == k + 1
<1>4. m \in Nat \ {0} /\ m <= v + 1 /\ m - 1 = k
  OBVIOUS
<1>5. PlaceValues(pv, base, m)
  BY <1>2, <1>4 DEF PlaceValues
<1>6. places = [digits |-> m, p |-> pv[m - 1]] /\ v < pv[m] /\ (m > 1 => pv[m - 1] <= v)
  BY <1>3, <1>4
<1> HIDE DEF m, places
<1>7. Numeral(v, places, base, upper) = NumeralOf(v, pv, base, m, m, upper)
  BY <1>1, <1>4, <1>5, <1>6, NumeralIs
<1> DEFINE number == NumeralOf(v, pv, base, m, m, upper)
<1>8. number = NumeralOf(v, pv, base, m, m, upper)
  OBVIOUS
<1> HIDE DEF number
<1>9. number \in Seq(Characters) /\ Len(number) = m /\ Reads(number, v, base, upper)
  BY <1>4, <1>5, <1>6, <1>8, NumeralRead, SMTT(30)
<1>10. places.digits = m
  BY <1>6
<1>11. QED
  BY <1>7, <1>9, <1>10 DEF number, places

\* What a directive prints for a number: the sign, the magnitude, the padding.
Negative(v, signed) == signed /\ v >= WordSize \div 2
MagnitudeOf(v, signed) == IF Negative(v, signed) THEN WordSize - v ELSE v
SignOf(v, signed) == IF Negative(v, signed) THEN <<"-">> ELSE <<>>
NumberOf(v, signed, base, upper) ==
    Numeral(MagnitudeOf(v, signed), Places(MagnitudeOf(v, signed), base), base, upper)
PadOf(v, signed, base, upper, before) ==
    before - Len(NumberOf(v, signed, base, upper)) - Len(SignOf(v, signed))

\* The sign is that of the number as a signed word; the magnitude fits in a word.
LEMMA SignIs ==
    ASSUME NEW v \in 0 .. WordSize - 1, NEW signed \in BOOLEAN
    PROVE  /\ SignOf(v, signed) \in Seq(Characters) /\ MagnitudeOf(v, signed) \in Nat
           /\ MagnitudeOf(v, signed)
                = IF signed /\ v >= WordSize \div 2 THEN (WordSize - v) % WordSize ELSE v
<1>1. WordSize \in Nat /\ WordSize > 1
  BY SixteensArePlaces
<1>2. "-" \in Characters
  BY SomeCharacters, Zenon
<1>3. CASE Negative(v, signed)
  <2>1. v >= WordSize \div 2
    BY <1>3 DEF Negative
  <2>2. WordSize \div 2 > 0
    <3> DEFINE q == WordSize \div 2
    <3>1. q \in Int /\ WordSize % 2 \in Int /\ WordSize % 2 < 2 /\ WordSize = q * 2 + (WordSize % 2)
      BY <1>1, DivMod
    <3> HIDE DEF q
    <3>2. q > 0
      BY <1>1, <3>1
    <3>3. QED
      BY <3>2 DEF q
  <2>3. v > 0
    <3> DEFINE q == WordSize \div 2
    <3>1. q \in Int /\ v >= q /\ q > 0
      BY <1>1, <2>1, <2>2, DivMod
    <3> HIDE DEF q
    <3>2. QED
      BY <3>1
  <2>4. WordSize - v \in Int /\ 0 <= WordSize - v /\ WordSize - v < WordSize
        /\ WordSize - v = 0 * WordSize + (WordSize - v)
    BY <1>1, <2>3
  <2>5. (WordSize - v) % WordSize = WordSize - v
    BY <1>1, <2>4, DivUnique
  <2>6. SignOf(v, signed) = <<"-">> /\ MagnitudeOf(v, signed) = WordSize - v
    BY <1>3 DEF SignOf, MagnitudeOf
  <2>7. <<"-">> \in Seq(Characters)
    <3>1. \A c \in Characters : <<c>> \in Seq(Characters)
      OBVIOUS
    <3>2. QED
      BY <1>2, <3>1, Zenon
  <2>8. signed /\ v >= WordSize \div 2
    BY <1>3 DEF Negative
  <2>9. WordSize - v \in Nat
    BY <1>1, <2>4
  <2>10. QED
    BY <2>5, <2>6, <2>7, <2>8, <2>9, Zenon
<1>4. CASE ~Negative(v, signed)
  <2>1. SignOf(v, signed) = <<>> /\ MagnitudeOf(v, signed) = v
    BY <1>4 DEF SignOf, MagnitudeOf
  <2>2. ~(signed /\ v >= WordSize \div 2)
    BY <1>4 DEF Negative
  <2>3. v \in Nat /\ <<>> \in Seq(Characters)
    BY <1>1
  <2>4. QED
    BY <2>1, <2>2, <2>3, Zenon
<1>5. QED
  BY <1>3, <1>4

\* The digits printed are a numeral of the magnitude.
LEMMA NumberOfIs ==
    ASSUME NEW v \in 0 .. WordSize - 1, NEW signed \in BOOLEAN, NEW base \in 2 .. 16, NEW upper \in BOOLEAN,
           NEW before \in Int
    PROVE  /\ NumberOf(v, signed, base, upper) \in Seq(Characters)
           /\ Places(MagnitudeOf(v, signed), base).digits = Len(NumberOf(v, signed, base, upper))
           /\ Reads(NumberOf(v, signed, base, upper), MagnitudeOf(v, signed), base, upper)
           /\ PadOf(v, signed, base, upper, before) \in Int
<1> DEFINE mag == MagnitudeOf(v, signed)
<1> DEFINE number == NumberOf(v, signed, base, upper)
<1>1. mag \in Nat /\ Len(SignOf(v, signed)) \in Nat
  BY SignIs, LenProperties
<1> HIDE DEF mag
<1>2. number = Numeral(mag, Places(mag, base), base, upper)
  BY DEF NumberOf, mag
<1> HIDE DEF number
<1>3. number \in Seq(Characters) /\ Places(mag, base).digits = Len(number) /\ Reads(number, mag, base, upper)
  BY <1>1, <1>2, MagnitudePrinted
<1>4. Len(number) \in Nat
  BY <1>3, LenProperties
<1>5. before - Len(number) - Len(SignOf(v, signed)) \in Int
  BY <1>1, <1>4
<1>6. PadOf(v, signed, base, upper, before) \in Int
  BY <1>5, Zenon DEF PadOf, number
<1>7. QED
  BY <1>3, <1>6, Zenon DEF number, mag

\* A state of the logging printf.
LogAt(state, zero, base, signed, upper, before, args, out) ==
    [state |-> state, zero |-> zero, base |-> base, signed |-> signed, upper |-> upper,
     before |-> before, after |-> -1, args |-> args, out |-> out]

\* The fields of a state, and what a change of one makes of it.
LEMMA LogFields ==
    ASSUME NEW state, NEW zero, NEW base, NEW signed, NEW upper, NEW before, NEW args, NEW out,
           NEW s, s = LogAt(state, zero, base, signed, upper, before, args, out)
    PROVE  /\ s.state = state /\ s.zero = zero /\ s.base = base /\ s.signed = signed /\ s.upper = upper
           /\ s.before = before /\ s.after = -1 /\ s.args = args /\ s.out = out
           /\ \A x : [s EXCEPT !.state = x] = LogAt(x, zero, base, signed, upper, before, args, out)
           /\ \A x : [s EXCEPT !.before = x] = LogAt(state, zero, base, signed, upper, x, args, out)
           /\ \A x : [s EXCEPT !.zero = x] = LogAt(state, x, base, signed, upper, before, args, out)
           /\ \A x : [s EXCEPT !.base = x] = LogAt(state, zero, x, signed, upper, before, args, out)
           /\ \A x : [s EXCEPT !.signed = x] = LogAt(state, zero, base, x, upper, before, args, out)
           /\ \A x : [s EXCEPT !.upper = x] = LogAt(state, zero, base, signed, x, before, args, out)
           /\ \A x : [s EXCEPT !.args = x] = LogAt(state, zero, base, signed, upper, before, x, out)
           /\ \A x : [s EXCEPT !.out = x] = LogAt(state, zero, base, signed, upper, before, args, x)
  BY SMT DEF LogAt

\* What a directive prints for a number, and what it leaves.
IntegerText(v, zero, base, signed, upper, before) ==
    IF zero THEN SignOf(v, signed) \o Repeated("0", PadOf(v, signed, base, upper, before))
                     \o NumberOf(v, signed, base, upper)
    ELSE Repeated(" ", PadOf(v, signed, base, upper, before)) \o SignOf(v, signed)
             \o NumberOf(v, signed, base, upper)

\* What is left of the state at the end of a directive.
Ends(s, c, zero, base, signed, upper, before, args, out) ==
    LogChar(s, c) = LogAt("chars", zero, base, signed, upper, before, args, out)

Logs(state, zero, base, signed, upper, before, args, out, v) ==
    LogInteger(LogAt(state, zero, base, signed, upper, before, args, out))
        = LogAt(state, zero, base, signed, upper, before, Tail(args),
                out \o IntegerText(v, zero, base, signed, upper, before))

\* doIntegerPrint takes a number and adds its text.
LEMMA IntegerLogged ==
    ASSUME NEW state, NEW zero \in BOOLEAN, NEW base \in 2 .. 16, NEW signed \in BOOLEAN, NEW upper \in BOOLEAN,
           NEW before \in Int, NEW args, NEW out, NEW v \in 0 .. WordSize - 1, Head(args) = v
    PROVE  Logs(state, zero, base, signed, upper, before, args, out, v)
<1> DEFINE s == LogAt(state, zero, base, signed, upper, before, args, out)
<1> DEFINE text == IntegerText(v, zero, base, signed, upper, before)
<1>1. /\ s.zero = zero /\ s.base = base /\ s.signed = signed /\ s.upper = upper
      /\ s.before = before /\ s.args = args /\ s.out = out
      /\ \A x : [s EXCEPT !.args = x] = LogAt(state, zero, base, signed, upper, before, x, out)
  BY LogFields
<1> HIDE DEF s
<1>2. Pop(s) = LogAt(state, zero, base, signed, upper, before, Tail(args), out)
  BY <1>1, Zenon DEF Pop
<1>3. Emit(Pop(s), text) = LogAt(state, zero, base, signed, upper, before, Tail(args), out \o text)
  <2> DEFINE t == Pop(s)
  <2>1. t.out = out /\ \A x : [t EXCEPT !.out = x] = LogAt(state, zero, base, signed, upper, before, Tail(args), x)
    BY <1>2, LogFields
  <2> HIDE DEF t, text
  <2>2. Emit(t, text) = [t EXCEPT !.out = t.out \o text]
    BY DEF Emit
  <2>3. QED
    BY <2>1, <2>2, Zenon DEF t
<1>4. LogInteger(s) = Emit(Pop(s), text)
  <2> DEFINE mag == MagnitudeOf(v, signed)
  <2> DEFINE sign == SignOf(v, signed)
  <2> DEFINE number == NumberOf(v, signed, base, upper)
  <2> DEFINE pad == PadOf(v, signed, base, upper, before)
  <2>1. /\ mag = IF signed /\ v >= WordSize \div 2 THEN (WordSize - v) % WordSize ELSE v
        /\ sign = IF signed /\ v >= WordSize \div 2 THEN <<"-">> ELSE <<>>
        /\ number = Numeral(mag, Places(mag, base), base, upper)
        /\ pad = before - Places(mag, base).digits - Len(sign)
    <3>1. Places(mag, base).digits = Len(number)
      BY NumberOfIs
    <3>2. pad = before - Len(number) - Len(sign)
      BY Zenon DEF PadOf
    <3>3. pad = before - Places(mag, base).digits - Len(sign)
      BY <3>1, <3>2, Zenon
    <3>4. mag = IF signed /\ v >= WordSize \div 2 THEN (WordSize - v) % WordSize ELSE v
      BY SignIs
    <3>5. sign = IF signed /\ v >= WordSize \div 2 THEN <<"-">> ELSE <<>>
      BY Zenon DEF SignOf, Negative
    <3>6. number = Numeral(mag, Places(mag, base), base, upper)
      BY Zenon DEF NumberOf
    <3>7. QED
      BY <3>3, <3>4, <3>5, <3>6, Zenon
  <2>2. text = IF zero THEN sign \o Repeated("0", pad) \o number ELSE Repeated(" ", pad) \o sign \o number
    BY Zenon DEF IntegerText
  <2> HIDE DEF text, mag, sign, number, pad
  <2>3. QED
    BY <1>1, <2>1, <2>2, Zenon DEF LogInteger
<1>5. QED
  BY <1>3, <1>4, Zenon DEF s, text, Logs

\* The text of a number is its sign, its padding and a numeral of its magnitude.
LEMMA IntegerTextIs ==
    ASSUME NEW v \in 0 .. WordSize - 1, NEW zero \in BOOLEAN, NEW base \in 2 .. 16, NEW signed \in BOOLEAN,
           NEW upper \in BOOLEAN, NEW before \in Int
    PROVE  LET text == IntegerText(v, zero, base, signed, upper, before) IN
           /\ text \in Seq(Characters)
           /\ (zero => Zeros(text, SignOf(v, signed), NumberOf(v, signed, base, upper), WidthAsked(before)))
           /\ (~zero => Spaces(text, SignOf(v, signed), NumberOf(v, signed, base, upper), WidthAsked(before)))
           /\ Reads(NumberOf(v, signed, base, upper), MagnitudeOf(v, signed), base, upper)
<1> DEFINE text == IntegerText(v, zero, base, signed, upper, before)
<1> DEFINE sign == SignOf(v, signed)
<1> DEFINE number == NumberOf(v, signed, base, upper)
<1> DEFINE pad == PadOf(v, signed, base, upper, before)
<1>1. /\ sign \in Seq(Characters) /\ number \in Seq(Characters) /\ pad \in Int
      /\ Reads(number, MagnitudeOf(v, signed), base, upper)
  <2>1. SignOf(v, signed) \in Seq(Characters)
    BY SignIs
  <2>2. /\ NumberOf(v, signed, base, upper) \in Seq(Characters) /\ PadOf(v, signed, base, upper, before) \in Int
        /\ Reads(NumberOf(v, signed, base, upper), MagnitudeOf(v, signed), base, upper)
    BY NumberOfIs
  <2>3. QED
    BY <2>1, <2>2, Zenon
<1>2. pad = before - Len(number) - Len(sign)
  BY Zenon DEF PadOf
<1>3. text = IF zero THEN sign \o Repeated("0", pad) \o number ELSE Repeated(" ", pad) \o sign \o number
  BY Zenon DEF IntegerText
<1> HIDE DEF text, sign, number, pad
<1>4. /\ sign \o Repeated("0", pad) \o number \in Seq(Characters)
      /\ Zeros(sign \o Repeated("0", pad) \o number, sign, number, WidthAsked(before))
      /\ Repeated(" ", pad) \o sign \o number \in Seq(Characters)
      /\ Spaces(Repeated(" ", pad) \o sign \o number, sign, number, WidthAsked(before))
  BY <1>1, <1>2, HeadAndNumber
<1>5. /\ text \in Seq(Characters)
      /\ (zero => Zeros(text, sign, number, WidthAsked(before)))
      /\ (~zero => Spaces(text, sign, number, WidthAsked(before)))
  <2>1. CASE zero
    BY <1>3, <1>4, <2>1, Zenon
  <2>2. CASE ~zero
    BY <1>3, <1>4, <2>2, Zenon
  <2>3. QED
    BY <2>1, <2>2
<1>6. QED
  BY <1>1, <1>5, Zenon DEF sign, number, text

\* How the letter of a directive has a number printed.
BaseOf(letter) == CASE letter \in {"d", "i", "u"} -> 10 [] letter = "o" -> 8 [] OTHER -> 16
SignedOf(letter) == letter \in {"d", "i"}
UpperOf(letter) == letter = "X"

\* The base is one of the three.
LEMMA LetterOptions ==
    ASSUME NEW letter
    PROVE  BaseOf(letter) \in 2 .. 16 /\ SignedOf(letter) \in BOOLEAN /\ UpperOf(letter) \in BOOLEAN
<1>1. BaseOf(letter) \in {8, 10, 16}
  <2>1. CASE letter \in {"d", "i", "u"}
    BY <2>1 DEF BaseOf
  <2>2. CASE letter = "o"
    BY <2>2 DEF BaseOf
  <2>3. CASE ~(letter \in {"d", "i", "u"}) /\ letter # "o"
    BY <2>3 DEF BaseOf
  <2>4. QED
    BY <2>1, <2>2, <2>3
<1>2. SignedOf(letter) \in BOOLEAN /\ UpperOf(letter) \in BOOLEAN
  BY SMT DEF SignedOf, UpperOf
<1>3. QED
  BY <1>1, <1>2

\* What is printed for a number is what its directive asks for.
LEMMA NumberMeant ==
    ASSUME NEW fmt, NEW letter, Last(fmt) = letter, NEW v \in 0 .. WordSize - 1,
           NEW zero \in BOOLEAN, zero <=> fmt[2] = "0", NEW before \in Int, WidthOf(fmt) = WidthAsked(before),
           NEW text, text = IntegerText(v, zero, BaseOf(letter), SignedOf(letter), UpperOf(letter), before)
    PROVE  text \in Seq(Characters) /\ IsNumber(fmt, v, text)
<1> DEFINE base == BaseOf(letter)
<1> DEFINE signed == SignedOf(letter)
<1> DEFINE upper == UpperOf(letter)
<1> DEFINE sign == SignOf(v, signed)
<1> DEFINE mag == MagnitudeOf(v, signed)
<1> DEFINE number == NumberOf(v, signed, base, upper)
<1> DEFINE width == WidthAsked(before)
<1>1. base \in 2 .. 16 /\ signed \in BOOLEAN /\ upper \in BOOLEAN
  BY LetterOptions, Zenon
<1>2. mag = (IF letter \in {"d", "i"} /\ v >= WordSize \div 2 THEN WordSize - v ELSE v)
      /\ sign = IF letter \in {"d", "i"} /\ v >= WordSize \div 2 THEN <<"-">> ELSE <<>>
  BY Zenon DEF MagnitudeOf, SignOf, Negative, SignedOf
<1>3. base = CASE letter \in {"d", "i", "u"} -> 10 [] letter = "o" -> 8 [] OTHER -> 16
  BY Zenon DEF BaseOf
<1>4. upper = (letter = "X")
  BY Zenon DEF UpperOf
<1> HIDE DEF base, signed, upper
<1>5. /\ text \in Seq(Characters)
      /\ (zero => Zeros(text, sign, number, width)) /\ (~zero => Spaces(text, sign, number, width))
      /\ Reads(number, mag, base, upper)
  <2>1. text = IntegerText(v, zero, base, signed, upper, before)
    BY Zenon DEF base, signed, upper
  <2>2. QED
    <3>1. LET t == IntegerText(v, zero, base, signed, upper, before) IN
          /\ t \in Seq(Characters)
          /\ (zero => Zeros(t, SignOf(v, signed), NumberOf(v, signed, base, upper), WidthAsked(before)))
          /\ (~zero => Spaces(t, SignOf(v, signed), NumberOf(v, signed, base, upper), WidthAsked(before)))
          /\ Reads(NumberOf(v, signed, base, upper), MagnitudeOf(v, signed), base, upper)
      BY <1>1, IntegerTextIs, Zenon
    <3>2. QED
      BY <2>1, <3>1, Zenon DEF sign, mag, number, width
<1> HIDE DEF mag, sign, number, width
<1>6. IsNumeral(number, mag, letter)
  BY <1>3, <1>4, <1>5, Zenon DEF Reads, IsNumeral
<1>7. WidthOf(fmt) = width
  BY Zenon DEF width
<1>8. CASE zero
  <2>1. PICK pad \in 0 .. Len(text) :
            /\ IsPrefix(sign \o Repeated("0", pad), text)
            /\ SubSeq(text, Len(sign \o Repeated("0", pad)) + 1, Len(text)) = number
            /\ Len(text) >= width /\ (pad > 0 => Len(text) = width)
    BY <1>5, <1>8, Zenon DEF Zeros
  <2>2. fmt[2] = "0"
    BY <1>8
  <2>3. IsNumber(fmt, v, text)
    BY <1>2, <1>6, <1>7, <2>1, <2>2, Zenon DEF IsNumber
  <2>4. QED
    BY <1>5, <2>3
<1>9. CASE ~zero
  <2>1. PICK pad \in 0 .. Len(text) :
            /\ IsPrefix(Repeated(" ", pad) \o sign, text)
            /\ SubSeq(text, Len(Repeated(" ", pad) \o sign) + 1, Len(text)) = number
            /\ Len(text) >= width /\ (pad > 0 => Len(text) = width)
    BY <1>5, <1>9, Zenon DEF Spaces
  <2>2. ~(fmt[2] = "0")
    BY <1>9
  <2>3. IsNumber(fmt, v, text)
    BY <1>2, <1>6, <1>7, <2>1, <2>2, Zenon DEF IsNumber
  <2>4. QED
    BY <1>5, <2>3
<1>10. QED
  BY <1>8, <1>9

\* (A blank in a string is beyond the SMT solver.)
Blank == " "

\* A text is printed with spaces in front.
LEMMA PaddedMeant ==
    ASSUME NEW fmt, NEW arg \in Seq(Characters), NEW before \in Int, WidthOf(fmt) = WidthAsked(before),
           NEW text, text = Repeated(Blank, before - Len(arg)) \o arg
    PROVE  text \in Seq(Characters) /\ IsPadded(fmt, arg, text)
<1>1. Len(arg) \in Nat
  BY LenProperties
<1> DEFINE pad == before - Len(arg)
<1>2. pad \in Int
  BY <1>1
<1>3. text = Repeated(Blank, pad) \o arg
  BY Zenon
<1>4. Blank \in Characters
  BY SomeCharacters, Zenon DEF Blank
<1> DEFINE n == IF pad > 0 THEN pad ELSE 0
<1>5. /\ n \in Nat /\ n \in Int /\ (IF n > 0 THEN n ELSE 0) = n
      /\ (pad > 0 => n = pad) /\ (~(pad > 0) => n = 0)
  <2> HIDE DEF pad
  <2>1. QED
    BY <1>2
<1>6. Repeated(Blank, pad) = Repeated(Blank, n)
  BY <1>2, <1>4, RepeatedIs, Zenon
<1> HIDE DEF n
<1>7. Repeated(Blank, n) \in Seq(Characters) /\ Len(Repeated(Blank, n)) = n
  <2>1. \A c \in Characters : \A k \in Int : Len(Repeated(c, k)) = IF k > 0 THEN k ELSE 0
    BY RepeatedIs, Zenon
  <2>2. \A c \in Characters : \A k \in Int : Repeated(c, k) \in Seq(Characters)
    BY RepeatedIs, Zenon
  <2>3. QED
    BY <1>4, <1>5, <2>1, <2>2, Zenon
<1>8. text \in Seq(Characters) /\ Len(text) = n + Len(arg)
  <2>1. text = Repeated(Blank, n) \o arg
    BY <1>3, <1>6, Zenon
  <2>2. \A s, t \in Seq(Characters) : s \o t \in Seq(Characters) /\ Len(s \o t) = Len(s) + Len(t)
    BY TakenApart
  <2>3. QED
    BY <1>7, <2>1, <2>2, Zenon
<1>9. n \in 0 .. Len(text) /\ Len(text) >= WidthAsked(before) /\ (n > 0 => Len(text) = WidthAsked(before))
  <2> DEFINE long == Len(arg)
  <2> DEFINE whole == Len(text)
  <2>1. long \in Nat /\ whole = n + long
    BY <1>1, <1>8
  <2>2. pad = before - long /\ pad \in Int
    BY <1>2
  <2> HIDE DEF long, whole, pad
  <2>3. (pad > 0 => n = pad) /\ (~(pad > 0) => n = 0)
    BY <1>5
  <2>4. n \in 0 .. whole /\ whole >= WidthAsked(before) /\ (n > 0 => whole = WidthAsked(before))
    <3>1. CASE pad > 0
      BY <2>1, <2>2, <2>3, <3>1 DEF WidthAsked
    <3>2. CASE ~(pad > 0)
      BY <2>1, <2>2, <2>3, <3>2 DEF WidthAsked
    <3>3. QED
      BY <3>1, <3>2
  <2>5. QED
    BY <2>4 DEF whole
<1>10. text = Repeated(Blank, n) \o arg
  BY <1>3, <1>6, Zenon
<1>11. IsPadded(fmt, arg, text)
  BY <1>9, <1>10, Zenon DEF IsPadded, Blank
<1>12. QED
  BY <1>8, <1>11

-----------------------------------------------------------------------------
(* The printfs: a format is read a character at a time.                     *)

\* The states of the logging printf, one after each character.
LogRun(r, fmt, args, k) == r = [i \in 0 .. k |-> IF i = 0 THEN LogStart(args) ELSE LogChar(r[i - 1], fmt[i])]

\* The text is what the last of these states has put out.
LEMMA LogRuns ==
    ASSUME NEW fmt, Len(fmt) \in Nat, NEW args
    PROVE  \E r : /\ r[0] = LogStart(args) /\ \A i \in 1 .. Len(fmt) : r[i] = LogChar(r[i - 1], fmt[i])
                  /\ LogText(fmt, args) = r[Len(fmt)].out
<1> DEFINE S == {n \in Nat : \E r : LogRun(r, fmt, args, n)}
<1>1. 0 \in S
  <2> DEFINE r == [i \in 0 .. 0 |-> LogStart(args)]
  <2>1. LogRun(r, fmt, args, 0)
    BY DEF LogRun
  <2>2. QED
    BY <2>1
<1>2. ASSUME NEW n \in S PROVE n + 1 \in S
  <2>1. n \in Nat
    BY <1>2
  <2>2. PICK r : LogRun(r, fmt, args, n)
    BY <1>2
  <2> DEFINE q == [i \in 0 .. n + 1 |-> IF i <= n THEN r[i] ELSE LogChar(r[n], fmt[n + 1])]
  <2>3. (\A i \in 0 .. n : q[i] = r[i]) /\ q[n + 1] = LogChar(r[n], fmt[n + 1]) /\ q = [i \in 0 .. n + 1 |-> q[i]]
    BY <2>1
  <2> HIDE DEF q
  <2>4. ASSUME NEW i \in 0 .. n + 1
        PROVE  q[i] = IF i = 0 THEN LogStart(args) ELSE LogChar(q[i - 1], fmt[i])
    <3>1. CASE i <= n
      <4>1. i \in 0 .. n /\ (i # 0 => i - 1 \in 0 .. n)
        BY <2>1, <3>1
      <4>2. r[i] = IF i = 0 THEN LogStart(args) ELSE LogChar(r[i - 1], fmt[i])
        BY <2>2, <4>1 DEF LogRun
      <4>3. QED
        BY <2>3, <4>1, <4>2
    <3>2. CASE ~(i <= n)
      <4>1. i = n + 1 /\ i # 0 /\ i - 1 = n /\ n \in 0 .. n
        BY <2>1, <3>2
      <4>2. QED
        BY <2>3, <4>1
    <3>3. QED
      BY <3>1, <3>2
  <2>5. LogRun(q, fmt, args, n + 1)
    BY <2>3, <2>4 DEF LogRun
  <2>6. QED
    BY <2>1, <2>5
<1>3. S \subseteq Nat
  OBVIOUS
<1> HIDE DEF S
<1>4. S = Nat
  BY <1>1, <1>2, <1>3, Inductive
<1>5. \E r : LogRun(r, fmt, args, Len(fmt))
  BY <1>4 DEF S
<1> DEFINE run == CHOOSE r : LogRun(r, fmt, args, Len(fmt))
<1>6. LogRun(run, fmt, args, Len(fmt))
  BY <1>5, Zenon
<1>7. LogText(fmt, args) = run[Len(fmt)].out
  BY DEF LogText, LogRun
<1> HIDE DEF run
<1>8. run[0] = LogStart(args) /\ \A i \in 1 .. Len(fmt) : run[i] = LogChar(run[i - 1], fmt[i])
  BY <1>6 DEF LogRun
<1>9. QED
  BY <1>7, <1>8, Zenon

\* The states of alt_printf.
AltRun(r, fmt, args, k) == r = [i \in 0 .. k |-> IF i = 0 THEN AltStart(args) ELSE AltChar(r[i - 1], fmt[i])]

\* The text is what the last of these states has put out.
LEMMA AltRuns ==
    ASSUME NEW fmt, Len(fmt) \in Nat, NEW args
    PROVE  \E r : /\ r[0] = AltStart(args) /\ \A i \in 1 .. Len(fmt) : r[i] = AltChar(r[i - 1], fmt[i])
                  /\ AltText(fmt, args) = r[Len(fmt)].out
<1> DEFINE S == {n \in Nat : \E r : AltRun(r, fmt, args, n)}
<1>1. 0 \in S
  <2> DEFINE r == [i \in 0 .. 0 |-> AltStart(args)]
  <2>1. AltRun(r, fmt, args, 0)
    BY DEF AltRun
  <2>2. QED
    BY <2>1
<1>2. ASSUME NEW n \in S PROVE n + 1 \in S
  <2>1. n \in Nat
    BY <1>2
  <2>2. PICK r : AltRun(r, fmt, args, n)
    BY <1>2
  <2> DEFINE q == [i \in 0 .. n + 1 |-> IF i <= n THEN r[i] ELSE AltChar(r[n], fmt[n + 1])]
  <2>3. (\A i \in 0 .. n : q[i] = r[i]) /\ q[n + 1] = AltChar(r[n], fmt[n + 1]) /\ q = [i \in 0 .. n + 1 |-> q[i]]
    BY <2>1
  <2> HIDE DEF q
  <2>4. ASSUME NEW i \in 0 .. n + 1
        PROVE  q[i] = IF i = 0 THEN AltStart(args) ELSE AltChar(q[i - 1], fmt[i])
    <3>1. CASE i <= n
      <4>1. i \in 0 .. n /\ (i # 0 => i - 1 \in 0 .. n)
        BY <2>1, <3>1
      <4>2. r[i] = IF i = 0 THEN AltStart(args) ELSE AltChar(r[i - 1], fmt[i])
        BY <2>2, <4>1 DEF AltRun
      <4>3. QED
        BY <2>3, <4>1, <4>2
    <3>2. CASE ~(i <= n)
      <4>1. i = n + 1 /\ i # 0 /\ i - 1 = n /\ n \in 0 .. n
        BY <2>1, <3>2
      <4>2. QED
        BY <2>3, <4>1
    <3>3. QED
      BY <3>1, <3>2
  <2>5. AltRun(q, fmt, args, n + 1)
    BY <2>3, <2>4 DEF AltRun
  <2>6. QED
    BY <2>1, <2>5
<1>3. S \subseteq Nat
  OBVIOUS
<1> HIDE DEF S
<1>4. S = Nat
  BY <1>1, <1>2, <1>3, Inductive
<1>5. \E r : AltRun(r, fmt, args, Len(fmt))
  BY <1>4 DEF S
<1> DEFINE run == CHOOSE r : AltRun(r, fmt, args, Len(fmt))
<1>6. AltRun(run, fmt, args, Len(fmt))
  BY <1>5, Zenon
<1>7. AltText(fmt, args) = run[Len(fmt)].out
  BY DEF AltText, AltRun
<1> HIDE DEF run
<1>8. run[0] = AltStart(args) /\ \A i \in 1 .. Len(fmt) : run[i] = AltChar(run[i - 1], fmt[i])
  BY <1>6 DEF AltRun
<1>9. QED
  BY <1>7, <1>8, Zenon

\* The width of a directive.
Wider(w, c) == IF c \in ToSet(Decimals) THEN w * 10 + DecimalOf(c) ELSE w
WidthRun(r, fmt, k) == r = [i \in 0 .. k |-> IF i = 0 THEN 0 ELSE Wider(r[i - 1], fmt[i])]

\* The width is read a digit at a time.
LEMMA WidthRuns ==
    ASSUME NEW fmt, Len(fmt) \in Nat
    PROVE  \E r : /\ r[0] = 0 /\ \A i \in 1 .. Len(fmt) : r[i] = Wider(r[i - 1], fmt[i])
                  /\ WidthOf(fmt) = r[Len(fmt)]
<1> DEFINE S == {n \in Nat : \E r : WidthRun(r, fmt, n)}
<1>1. 0 \in S
  <2> DEFINE r == [i \in 0 .. 0 |-> 0]
  <2>1. WidthRun(r, fmt, 0)
    BY DEF WidthRun
  <2>2. QED
    BY <2>1
<1>2. ASSUME NEW n \in S PROVE n + 1 \in S
  <2>1. n \in Nat
    BY <1>2
  <2>2. PICK r : WidthRun(r, fmt, n)
    BY <1>2
  <2> DEFINE q == [i \in 0 .. n + 1 |-> IF i <= n THEN r[i] ELSE Wider(r[n], fmt[n + 1])]
  <2>3. (\A i \in 0 .. n : q[i] = r[i]) /\ q[n + 1] = Wider(r[n], fmt[n + 1]) /\ q = [i \in 0 .. n + 1 |-> q[i]]
    BY <2>1
  <2> HIDE DEF q
  <2>4. ASSUME NEW i \in 0 .. n + 1
        PROVE  q[i] = IF i = 0 THEN 0 ELSE Wider(q[i - 1], fmt[i])
    <3>1. CASE i <= n
      <4>1. i \in 0 .. n /\ (i # 0 => i - 1 \in 0 .. n)
        BY <2>1, <3>1
      <4>2. r[i] = IF i = 0 THEN 0 ELSE Wider(r[i - 1], fmt[i])
        BY <2>2, <4>1 DEF WidthRun
      <4>3. QED
        BY <2>3, <4>1, <4>2
    <3>2. CASE ~(i <= n)
      <4>1. i = n + 1 /\ i # 0 /\ i - 1 = n /\ n \in 0 .. n
        BY <2>1, <3>2
      <4>2. QED
        BY <2>3, <4>1
    <3>3. QED
      BY <3>1, <3>2
  <2>5. WidthRun(q, fmt, n + 1)
    BY <2>3, <2>4 DEF WidthRun
  <2>6. QED
    BY <2>1, <2>5
<1>3. S \subseteq Nat
  OBVIOUS
<1> HIDE DEF S
<1>4. S = Nat
  BY <1>1, <1>2, <1>3, Inductive
<1>5. \E r : WidthRun(r, fmt, Len(fmt))
  BY <1>4 DEF S
<1> DEFINE run == CHOOSE r : WidthRun(r, fmt, Len(fmt))
<1>6. WidthRun(run, fmt, Len(fmt))
  BY <1>5, Zenon
<1>7. WidthOf(fmt) = run[Len(fmt)]
  BY DEF WidthOf, WidthRun, Wider
<1> HIDE DEF run
<1>8. run[0] = 0 /\ \A i \in 1 .. Len(fmt) : run[i] = Wider(run[i - 1], fmt[i])
  BY <1>6 DEF WidthRun
<1>9. QED
  BY <1>7, <1>8, Zenon

\* The decimal digits.
LEMMA DecimalsAre ==
    ToSet(Decimals) = Decimal /\ DecimalOf("0") = 0 /\ \A c \in Decimal : DecimalOf(c) \in 0 .. 9
<1>1. DOMAIN Decimals = 1 .. 10 /\ Decimals[1] = "0" /\ Decimals[2] = "1" /\ Decimals[3] = "2" /\ Decimals[4] = "3" /\ Decimals[5] = "4"
  /\ Decimals[6] = "5" /\ Decimals[7] = "6" /\ Decimals[8] = "7" /\ Decimals[9] = "8" /\ Decimals[10] = "9"
  BY DEF Decimals
<1>2. \A i \in 1 .. 10 : i \in {1, 2, 3, 4, 5, 6, 7, 8, 9, 10}
  OBVIOUS
<1>3. ToSet(Decimals) = Decimal
  BY <1>1, <1>2 DEF ToSet, Decimal
<1>4. \A c \in Decimal : \E k \in 0 .. 9 : Decimals[k + 1] = c
  <2>1. \A c \in Decimal : \E i \in 1 .. 10 : Decimals[i] = c
    BY <1>1 DEF Decimal
  <2>2. \A i \in 1 .. 10 : i - 1 \in 0 .. 9 /\ (i - 1) + 1 = i
    OBVIOUS
  <2>3. QED
    BY <2>1, <2>2
<1>5. \A c \in Decimal : DecimalOf(c) \in 0 .. 9
  BY <1>4, Zenon DEF DecimalOf
<1>6. DecimalOf("0") = 0
  <2>1. \A k \in 0 .. 9 : Decimals[k + 1] = "0" => k = 0
    <3>1. \A k \in 0 .. 9 : k \in {0, 1, 2, 3, 4, 5, 6, 7, 8, 9}
      OBVIOUS
    <3>2. QED
      BY <1>1, <3>1
  <2>2. Decimals[0 + 1] = "0" /\ 0 \in 0 .. 9
    BY <1>1
  <2>3. QED
    BY <2>1, <2>2, Zenon DEF DecimalOf
<1>7. QED
  BY <1>3, <1>5, <1>6

\* (A literal of a Boolean as an argument is beyond the SMT solver.)
Yes == TRUE
No == FALSE

\* After a percent sign.
Begun(s, args, out) == s = LogAt("first", No, 10, Yes, No, -1, args, out)

\* What a character does to the logging printf: outside a directive, ...
LEMMA LogsCharacter ==
    ASSUME NEW zero, NEW base, NEW signed, NEW upper, NEW before, NEW args, NEW out, NEW c,
           NEW s, s = LogAt("chars", zero, base, signed, upper, before, args, out)
    PROVE  /\ c = "%" => Begun(LogChar(s, c), args, out)
           /\ c # "%" => LogChar(s, c) = LogAt("chars", zero, base, signed, upper, before, args, out \o <<c>>)
<1>1. s.state = "chars" /\ s.args = args /\ s.out = out
      /\ \A x : [s EXCEPT !.out = x] = LogAt("chars", zero, base, signed, upper, before, args, x)
  BY LogFields
<1>2. CASE c = "%"
  <2>1. LogChar(s, c) = Directive(s)
    BY <1>1, <1>2 DEF LogChar
  <2>2. Directive(s) = LogAt("first", No, 10, Yes, No, -1, args, out)
    <3>1. Directive(s) = [LogStart(args) EXCEPT !.state = "first", !.out = out]
      BY <1>1, Zenon DEF Directive
    <3>2. LogStart(args) = LogAt("chars", No, 10, Yes, No, -1, args, <<>>)
      BY Zenon DEF LogStart, LogAt, Yes, No
    <3>3. [LogAt("chars", No, 10, Yes, No, -1, args, <<>>) EXCEPT !.state = "first", !.out = out]
              = LogAt("first", No, 10, Yes, No, -1, args, out)
      <4>1. [LogAt("chars", No, 10, Yes, No, -1, args, <<>>) EXCEPT !.state = "first"]
                = LogAt("first", No, 10, Yes, No, -1, args, <<>>)
        BY LogFields
      <4>2. [LogAt("first", No, 10, Yes, No, -1, args, <<>>) EXCEPT !.out = out]
                = LogAt("first", No, 10, Yes, No, -1, args, out)
        BY LogFields
      <4>3. QED
        BY <4>1, <4>2
    <3>4. QED
      BY <3>1, <3>2, <3>3
  <2>3. QED
    BY <1>2, <2>1, <2>2 DEF Begun
<1>3. CASE c # "%"
  <2>1. LogChar(s, c) = Emit(s, <<c>>)
    BY <1>1, <1>3 DEF LogChar
  <2>2. Emit(s, <<c>>) = LogAt("chars", zero, base, signed, upper, before, args, out \o <<c>>)
    BY <1>1 DEF Emit
  <2>3. QED
    BY <1>3, <2>1, <2>2
<1>4. QED
  BY <1>2, <1>3

\* ... after the percent sign, another one; ...
LEMMA LogsPercent ==
    ASSUME NEW zero, NEW base, NEW signed, NEW upper, NEW before, NEW args, NEW out,
           NEW s, s = LogAt("first", zero, base, signed, upper, before, args, out)
    PROVE  LogChar(s, "%") = LogAt("chars", zero, base, signed, upper, before, args, out \o <<"%">>)
<1> DEFINE t == Emit(s, <<"%">>)
<1>1. s.state = "first" /\ s.out = out
      /\ \A x : [s EXCEPT !.out = x] = LogAt("first", zero, base, signed, upper, before, args, x)
  BY LogFields
<1>2. LogChar(s, "%") = [t EXCEPT !.state = "chars"]
  BY <1>1 DEF LogChar
<1>3. t = LogAt("first", zero, base, signed, upper, before, args, out \o <<"%">>)
  BY <1>1 DEF Emit
<1> HIDE DEF t
<1>4. QED
  BY <1>2, <1>3, LogFields

\* ... in its width; ...
LEMMA LogsWidth ==
    ASSUME NEW state \in {"first", "other"}, NEW zero, NEW base, NEW signed, NEW upper,
           NEW before \in Int, NEW args, NEW out,
           NEW s, s = LogAt(state, zero, base, signed, upper, before, args, out), NEW c \in Decimal \cup {"l"}
    PROVE  /\ state = "first" /\ c = "0" => LogChar(s, c) = LogAt("other", Yes, base, signed, upper, before, args, out)
           /\ c = "l" => LogChar(s, c) = LogAt("other", zero, base, signed, upper, before, args, out)
           /\ ~(state = "first" /\ c = "0") /\ c \in Decimal =>
                 LogChar(s, c) = LogAt("other", zero, base, signed, upper,
                                       (IF before < 0 THEN 0 ELSE before * 10) + DecimalOf(c), args, out)
<1> DEFINE t == [s EXCEPT !.state = "other"]
<1>1. t = LogAt("other", zero, base, signed, upper, before, args, out) /\ s.state = state
  BY LogFields
<1>2. c # "%" /\ c # "." /\ ToSet(Decimals) = Decimal /\ (c \in Decimal => c # "l")
  BY DecimalsAre DEF Decimal
<1> HIDE DEF t
<1>3. t.before = before /\ t.after = -1
      /\ \A x : [t EXCEPT !.before = x] = LogAt("other", zero, base, signed, upper, x, args, out)
  BY <1>1, LogFields
<1>4. CASE state = "first" /\ c = "0"
  <2>1. LogChar(s, c) = [s EXCEPT !.zero = TRUE, !.state = "other"]
    BY <1>1, <1>4 DEF LogChar
  <2>2. LogChar(s, c) = [s EXCEPT !.zero = Yes, !.state = "other"]
    BY <2>1, Zenon DEF Yes
  <2>3. [s EXCEPT !.zero = Yes] = LogAt(state, Yes, base, signed, upper, before, args, out)
    BY LogFields
  <2>4. [LogAt(state, Yes, base, signed, upper, before, args, out) EXCEPT !.state = "other"]
            = LogAt("other", Yes, base, signed, upper, before, args, out)
    BY LogFields
  <2>5. LogChar(s, c) = LogAt("other", Yes, base, signed, upper, before, args, out)
    BY <2>2, <2>3, <2>4
  <2>6. c # "l" /\ c = "0" /\ state = "first"
    BY <1>2, <1>4 DEF Decimal
  <2>7. QED
    BY <2>5, <2>6, Zenon
<1>5. CASE ~(state = "first" /\ c = "0")
  <2>1. LogChar(s, c) = OtherFmtChar(t, c)
    BY <1>1, <1>2, <1>5 DEF LogChar, t
  <2>2. c = "l" => OtherFmtChar(t, c) = t
    BY <1>2 DEF OtherFmtChar, Decimal
  <2>3. c \in Decimal => OtherFmtChar(t, c) = [t EXCEPT !.before = (IF t.before < 0 THEN 0 ELSE t.before * 10) + DecimalOf(c)]
    BY <1>2, <1>3 DEF OtherFmtChar
  <2>4. QED
    BY <1>1, <1>2, <1>3, <1>5, <2>1, <2>2, <2>3
<1>6. QED
  BY <1>4, <1>5

\* ... and at its letter.
LEMMA LogsLetter ==
    ASSUME NEW state \in {"first", "other"}, NEW zero, NEW base, NEW signed, NEW upper,
           NEW before, NEW args, NEW out,
           NEW s, s = LogAt(state, zero, base, signed, upper, before, args, out), NEW c \in NumberLetters \cup {"c", "s"}
    PROVE  LogChar(s, c) = [Letter(LogAt("other", zero, base, signed, upper, before, args, out), c) EXCEPT !.state = "chars"]
<1> DEFINE t == [s EXCEPT !.state = "other"]
<1>1. t = LogAt("other", zero, base, signed, upper, before, args, out) /\ s.state = state
  BY LogFields
<1>2. c # "%" /\ c # "." /\ c # "0" /\ c # "l" /\ c \notin ToSet(Decimals)
  BY DecimalsAre DEF Decimal, NumberLetters
<1>3. LogChar(s, c) = OtherFmtChar(t, c)
  BY <1>1, <1>2 DEF LogChar
<1> HIDE DEF t
<1>4. OtherFmtChar(t, c) = [Letter(t, c) EXCEPT !.state = "chars"]
  BY <1>2 DEF OtherFmtChar
<1>5. QED
  BY <1>1, <1>3, <1>4

\* The state at the end of a directive.
LEMMA LogsEnd ==
    ASSUME NEW state \in {"first", "other"}, NEW zero, NEW base, NEW signed, NEW upper,
           NEW before, NEW args, NEW out,
           NEW s, s = LogAt(state, zero, base, signed, upper, before, args, out), NEW c \in NumberLetters \cup {"c", "s"},
           NEW t, t = LogAt("other", zero, base, signed, upper, before, args, out),
           NEW base2, NEW signed2, NEW upper2, NEW args2, NEW out2,
           Letter(t, c) = LogAt("other", zero, base2, signed2, upper2, before, args2, out2)
    PROVE  LogChar(s, c) = LogAt("chars", zero, base2, signed2, upper2, before, args2, out2)
<1>1. LogChar(s, c) = [Letter(t, c) EXCEPT !.state = "chars"]
  BY LogsLetter
<1> DEFINE u == Letter(t, c)
<1>2. u = LogAt("other", zero, base2, signed2, upper2, before, args2, out2)
  OBVIOUS
<1> HIDE DEF u
<1>3. [u EXCEPT !.state = "chars"] = LogAt("chars", zero, base2, signed2, upper2, before, args2, out2)
  BY <1>2, LogFields
<1>4. QED
  BY <1>1, <1>3 DEF u

\* What a letter adds to the text.
LEMMA LetterIs ==
    ASSUME NEW s, NEW c \in NumberLetters \cup {"c", "s"}
    PROVE  /\ c \in {"d", "i"} => Letter(s, c) = LogInteger(s)
           /\ c = "u" => Letter(s, c) = LogInteger([s EXCEPT !.signed = FALSE])
           /\ c = "o" => Letter(s, c) = LogInteger([s EXCEPT !.signed = FALSE, !.base = 8])
           /\ c = "x" => Letter(s, c) = LogInteger([s EXCEPT !.signed = FALSE, !.base = 16])
           /\ c = "X" => Letter(s, c) = LogInteger([s EXCEPT !.signed = FALSE, !.base = 16, !.upper = TRUE])
           /\ c = "c" => Letter(s, c) = Emit(Pop(s), Repeated(Blank, s.before - 1) \o <<Head(s.args)>>)
           /\ c = "s" => Letter(s, c) = Emit(Pop(s), Repeated(Blank, s.before - Len(Head(s.args))) \o Head(s.args))
<1>1. c = "s" => Letter(s, c) = Emit(Pop(s), Repeated(Blank, s.before - Len(Head(s.args))) \o Head(s.args))
  BY Zenon DEF Letter, Blank
<1>2. c = "c" => Letter(s, c) = Emit(Pop(s), Repeated(Blank, s.before - 1) \o <<Head(s.args)>>)
  BY Zenon DEF Letter, Blank
<1>3. c \in {"d", "i"} => Letter(s, c) = LogInteger(s)
  BY Zenon DEF Letter
<1>4. c = "u" => Letter(s, c) = LogInteger([s EXCEPT !.signed = FALSE])
  BY Zenon DEF Letter
<1>5. c = "o" => Letter(s, c) = LogInteger([s EXCEPT !.signed = FALSE, !.base = 8])
  BY Zenon DEF Letter
<1>6. c = "x" => Letter(s, c) = LogInteger([s EXCEPT !.signed = FALSE, !.base = 16])
  BY Zenon DEF Letter
<1>7. c = "X" => Letter(s, c) = LogInteger([s EXCEPT !.signed = FALSE, !.base = 16, !.upper = TRUE])
  BY Zenon DEF Letter
<1>8. QED
  BY <1>1, <1>2, <1>3, <1>4, <1>5, <1>6, <1>7, Zenon

\* Text and single characters.
LEMMA TextLogged ==
    ASSUME NEW state \in {"first", "other"}, NEW zero, NEW base, NEW signed, NEW upper,
           NEW before \in Int, NEW args, NEW out,
           NEW s, s = LogAt(state, zero, base, signed, upper, before, args, out)
    PROVE  /\ Ends(s, "s", zero, base, signed, upper, before, Tail(args),
                     out \o (Repeated(Blank, before - Len(Head(args))) \o Head(args)))
           /\ Ends(s, "c", zero, base, signed, upper, before, Tail(args),
                     out \o (Repeated(Blank, before - 1) \o <<Head(args)>>))
<1> DEFINE t == LogAt("other", zero, base, signed, upper, before, args, out)
<1> DEFINE u == LogAt("other", zero, base, signed, upper, before, Tail(args), out)
<1>1. t = LogAt("other", zero, base, signed, upper, before, args, out)
      /\ u = LogAt("other", zero, base, signed, upper, before, Tail(args), out)
  OBVIOUS
<1> HIDE DEF t, u
<1>2. t.before = before /\ t.args = args
  BY <1>1, LogFields
<1>3. Pop(t) = u
  <2>1. \A x : [t EXCEPT !.args = x] = LogAt("other", zero, base, signed, upper, before, x, out)
    BY <1>1, LogFields
  <2>2. Pop(t) = [t EXCEPT !.args = Tail(t.args)]
    BY DEF Pop
  <2>3. QED
    BY <1>1, <1>2, <2>1, <2>2
<1>4. \A text : Emit(u, text) = LogAt("other", zero, base, signed, upper, before, Tail(args), out \o text)
  <2>1. u.out = out /\ \A x : [u EXCEPT !.out = x] = LogAt("other", zero, base, signed, upper, before, Tail(args), x)
    BY <1>1, LogFields
  <2>2. \A text : Emit(u, text) = [u EXCEPT !.out = u.out \o text]
    BY DEF Emit
  <2>3. QED
    BY <2>1, <2>2
<1>5. "s" \in NumberLetters \cup {"c", "s"} /\ "c" \in NumberLetters \cup {"c", "s"}
  OBVIOUS
<1>6. Letter(t, "s") = Emit(Pop(t), Repeated(Blank, t.before - Len(Head(t.args))) \o Head(t.args))
      /\ Letter(t, "c") = Emit(Pop(t), Repeated(Blank, t.before - 1) \o <<Head(t.args)>>)
  BY <1>5, LetterIs, Zenon
<1>7. Letter(t, "s") = LogAt("other", zero, base, signed, upper, before, Tail(args),
                              out \o (Repeated(Blank, before - Len(Head(args))) \o Head(args)))
      /\ Letter(t, "c") = LogAt("other", zero, base, signed, upper, before, Tail(args),
                              out \o (Repeated(Blank, before - 1) \o <<Head(args)>>))
  BY <1>2, <1>3, <1>4, <1>6
<1>8. QED
  BY <1>1, <1>5, <1>7, LogsEnd DEF Ends

\* What the letter asks for is what the number is printed with.
LEMMA LetterOptionsAre ==
    ASSUME NEW c \in NumberLetters
    PROVE  /\ c \in {"d", "i"} => BaseOf(c) = 10 /\ SignedOf(c) = Yes /\ UpperOf(c) = No
           /\ c = "u" => BaseOf(c) = 10 /\ SignedOf(c) = No /\ UpperOf(c) = No
           /\ c = "o" => BaseOf(c) = 8 /\ SignedOf(c) = No /\ UpperOf(c) = No
           /\ c = "x" => BaseOf(c) = 16 /\ SignedOf(c) = No /\ UpperOf(c) = No
           /\ c = "X" => BaseOf(c) = 16 /\ SignedOf(c) = No /\ UpperOf(c) = Yes
<1>1. c \in {"d", "i"} => BaseOf(c) = 10 /\ SignedOf(c) = TRUE /\ UpperOf(c) = FALSE
  BY SMT DEF BaseOf, SignedOf, UpperOf
<1>2. c = "u" => BaseOf(c) = 10 /\ SignedOf(c) = FALSE /\ UpperOf(c) = FALSE
  BY SMT DEF BaseOf, SignedOf, UpperOf
<1>3. c = "o" => BaseOf(c) = 8 /\ SignedOf(c) = FALSE /\ UpperOf(c) = FALSE
  BY SMT DEF BaseOf, SignedOf, UpperOf
<1>4. c = "x" => BaseOf(c) = 16 /\ SignedOf(c) = FALSE /\ UpperOf(c) = FALSE
  BY SMT DEF BaseOf, SignedOf, UpperOf
<1>5. c = "X" => BaseOf(c) = 16 /\ SignedOf(c) = FALSE /\ UpperOf(c) = TRUE
  BY SMT DEF BaseOf, SignedOf, UpperOf
<1>6. QED
  BY <1>1, <1>2, <1>3, <1>4, <1>5, Zenon DEF Yes, No

\* The letter sets the options before the number is printed.
LEMMA LetterPrepares ==
    ASSUME NEW zero, NEW before, NEW args, NEW out, NEW c \in NumberLetters
    PROVE  Letter(LogAt("other", zero, 10, Yes, No, before, args, out), c)
               = LogInteger(LogAt("other", zero, BaseOf(c), SignedOf(c), UpperOf(c), before, args, out))
<1> DEFINE t == LogAt("other", zero, 10, Yes, No, before, args, out)
<1> DEFINE At2(base, signed, upper) == LogAt("other", zero, base, signed, upper, before, args, out)
<1>1. /\ c \in {"d", "i"} => Letter(t, c) = LogInteger(t)
      /\ c = "u" => Letter(t, c) = LogInteger([t EXCEPT !.signed = No])
      /\ c = "o" => Letter(t, c) = LogInteger([t EXCEPT !.signed = No, !.base = 8])
      /\ c = "x" => Letter(t, c) = LogInteger([t EXCEPT !.signed = No, !.base = 16])
      /\ c = "X" => Letter(t, c) = LogInteger([t EXCEPT !.signed = No, !.base = 16, !.upper = Yes])
  <2>1. c \in NumberLetters \cup {"c", "s"}
    BY Zenon
  <2> HIDE DEF t
  <2>2. /\ c \in {"d", "i"} => Letter(t, c) = LogInteger(t)
        /\ c = "u" => Letter(t, c) = LogInteger([t EXCEPT !.signed = FALSE])
        /\ c = "o" => Letter(t, c) = LogInteger([t EXCEPT !.signed = FALSE, !.base = 8])
        /\ c = "x" => Letter(t, c) = LogInteger([t EXCEPT !.signed = FALSE, !.base = 16])
        /\ c = "X" => Letter(t, c) = LogInteger([t EXCEPT !.signed = FALSE, !.base = 16, !.upper = TRUE])
    BY <2>1, LetterIs
  <2>3. QED
    BY <2>2, Zenon DEF Yes, No
<1>2. t = At2(10, Yes, No)
  BY Zenon
<1>3. [t EXCEPT !.signed = No] = At2(10, No, No)
  BY LogFields
<1>4. [At2(10, No, No) EXCEPT !.base = 8] = At2(8, No, No) /\ [At2(10, No, No) EXCEPT !.base = 16] = At2(16, No, No)
      /\ [At2(16, No, No) EXCEPT !.upper = Yes] = At2(16, No, Yes)
  BY LogFields
<1> HIDE DEF t, At2
<1>5. [t EXCEPT !.signed = No, !.base = 8] = At2(8, No, No) /\ [t EXCEPT !.signed = No, !.base = 16] = At2(16, No, No)
  BY <1>3, <1>4
<1>6. [t EXCEPT !.signed = No, !.base = 16, !.upper = Yes] = At2(16, No, Yes)
  BY <1>4, <1>5
<1>7. Letter(t, c) = LogInteger(At2(BaseOf(c), SignedOf(c), UpperOf(c)))
  <2>1. CASE c \in {"d", "i"}
    BY <1>1, <1>2, <2>1, LetterOptionsAre
  <2>2. CASE c = "u"
    BY <1>1, <1>3, <2>2, LetterOptionsAre
  <2>3. CASE c = "o"
    BY <1>1, <1>5, <2>3, LetterOptionsAre
  <2>4. CASE c = "x"
    BY <1>1, <1>5, <2>4, LetterOptionsAre
  <2>5. CASE c = "X"
    BY <1>1, <1>6, <2>5, LetterOptionsAre
  <2>6. QED
    BY <2>1, <2>2, <2>3, <2>4, <2>5 DEF NumberLetters
<1>8. QED
  BY <1>7 DEF t, At2

\* A number.
LEMMA NumberLogged ==
    ASSUME NEW state \in {"first", "other"}, NEW zero \in BOOLEAN, NEW before \in Int, NEW args, NEW out,
           NEW s, s = LogAt(state, zero, 10, Yes, No, before, args, out), NEW c \in NumberLetters,
           NEW v \in 0 .. WordSize - 1, Head(args) = v
    PROVE  Ends(s, c, zero, BaseOf(c), SignedOf(c), UpperOf(c), before, Tail(args),
                out \o IntegerText(v, zero, BaseOf(c), SignedOf(c), UpperOf(c), before))
<1> DEFINE base == BaseOf(c)
<1> DEFINE signed == SignedOf(c)
<1> DEFINE upper == UpperOf(c)
<1> DEFINE text == IntegerText(v, zero, base, signed, upper, before)
<1>1. base \in 2 .. 16 /\ signed \in BOOLEAN /\ upper \in BOOLEAN
  BY LetterOptions, Zenon
<1>2. Letter(LogAt("other", zero, 10, Yes, No, before, args, out), c)
          = LogInteger(LogAt("other", zero, base, signed, upper, before, args, out))
  BY LetterPrepares
<1>3. s = LogAt(state, zero, 10, Yes, No, before, args, out)
  BY Zenon
<1> HIDE DEF base, signed, upper
<1>4. LogInteger(LogAt("other", zero, base, signed, upper, before, args, out))
          = LogAt("other", zero, base, signed, upper, before, Tail(args), out \o text)
  <2>1. Logs("other", zero, base, signed, upper, before, args, out, v)
    BY <1>1, IntegerLogged, Zenon
  <2>2. QED
    BY <2>1, Zenon DEF Logs
<1> HIDE DEF text
<1>5. c \in NumberLetters \cup {"c", "s"}
  BY Zenon
<1>6. LogChar(s, c) = LogAt("chars", zero, base, signed, upper, before, Tail(args), out \o text)
  BY <1>2, <1>3, <1>4, <1>5, LogsEnd
<1>7. QED
  BY <1>6, Zenon DEF text, base, signed, upper, Ends

ZeroAsked(i, w) == IF i > 0 /\ w[1] = "0" THEN Yes ELSE No
WidthState(s, width, i, w, args, out) ==
    \E state \in {"first", "other"}, before \in Int :
        /\ s = LogAt(state, ZeroAsked(i, w), 10, Yes, No, before, args, out)
        /\ (i = 0 => state = "first" /\ before = -1) /\ (i > 0 => state = "other")
        /\ width = WidthAsked(before)

\* The width of a directive is read.
LEMMA WidthLogged ==
    ASSUME NEW w \in Seq(Decimal \cup {"l"}), NEW args, NEW out, NEW q, NEW g,
           q[0] = LogAt("first", No, 10, Yes, No, -1, args, out), \A i \in 1 .. Len(w) : q[i] = LogChar(q[i - 1], w[i]),
           g[0] = 0, \A i \in 1 .. Len(w) : g[i] = Wider(g[i - 1], w[i])
    PROVE  WidthState(q[Len(w)], g[Len(w)], Len(w), w, args, out)
<1> DEFINE S == {i \in Nat : i <= Len(w) => WidthState(q[i], g[i], i, w, args, out)}
<1>1. Len(w) \in Nat /\ \A i \in 1 .. Len(w) : w[i] \in Decimal \cup {"l"}
  BY LenProperties, ElementOfSeq
<1>2. 0 \in S
  <2>1. ZeroAsked(0, w) = No /\ WidthAsked(-1) = 0
    BY DEF ZeroAsked, WidthAsked
  <2>2. WidthState(q[0], g[0], 0, w, args, out)
    BY <2>1 DEF WidthState
  <2>3. QED
    BY <2>2
<1>3. ASSUME NEW i \in S PROVE i + 1 \in S
  <2>1. i \in Nat
    BY <1>3
  <2> SUFFICES ASSUME i + 1 <= Len(w) PROVE WidthState(q[i + 1], g[i + 1], i + 1, w, args, out)
    BY <2>1
  <2>2. PICK state \in {"first", "other"}, before \in Int :
            /\ q[i] = LogAt(state, ZeroAsked(i, w), 10, Yes, No, before, args, out)
            /\ (i = 0 => state = "first" /\ before = -1) /\ (i > 0 => state = "other")
            /\ g[i] = WidthAsked(before)
    <3>1. WidthState(q[i], g[i], i, w, args, out)
      BY <1>1, <1>3, <2>1
    <3>2. QED
      BY <3>1, Zenon DEF WidthState
  <2> DEFINE c == w[i + 1]
  <2> DEFINE zero == ZeroAsked(i, w)
  <2>3. i + 1 \in 1 .. Len(w) /\ (i + 1) - 1 = i /\ i + 1 > 0
    BY <1>1, <2>1
  <2>4. c \in Decimal \cup {"l"} /\ q[i + 1] = LogChar(q[i], c) /\ g[i + 1] = Wider(g[i], c)
    BY <1>1, <2>3
  <2> HIDE DEF c
  <2>5. ToSet(Decimals) = Decimal /\ DecimalOf("0") = 0 /\ (\A x \in Decimal : DecimalOf(x) \in 0 .. 9) /\ "l" \notin Decimal
        /\ "0" \in Decimal
    <3>1. "l" \notin Decimal /\ "0" \in Decimal
      BY DEF Decimal
    <3>2. QED
      BY <3>1, DecimalsAre
  <2>6. /\ state = "first" /\ c = "0" => LogChar(q[i], c) = LogAt("other", Yes, 10, Yes, No, before, args, out)
        /\ c = "l" => LogChar(q[i], c) = LogAt("other", zero, 10, Yes, No, before, args, out)
        /\ ~(state = "first" /\ c = "0") /\ c \in Decimal =>
              LogChar(q[i], c) = LogAt("other", zero, 10, Yes, No,
                                       (IF before < 0 THEN 0 ELSE before * 10) + DecimalOf(c), args, out)
    <3> HIDE DEF zero
    <3>1. q[i] = LogAt(state, zero, 10, Yes, No, before, args, out)
      BY <2>2 DEF zero
    <3>2. QED
      BY <2>4, <3>1, LogsWidth
  <2>7. ZeroAsked(i + 1, w) = IF state = "first" /\ c = "0" THEN Yes ELSE zero
    <3>1. CASE i = 0
      BY <2>2, <3>1 DEF ZeroAsked, c
    <3>2. CASE i # 0
      BY <2>1, <2>2, <3>2 DEF ZeroAsked
    <3>3. QED
      BY <3>1, <3>2
  <2> HIDE DEF zero
  <2>8. CASE state = "first" /\ c = "0"
    <3>1. i = 0 /\ before = -1
      BY <2>1, <2>2, <2>8
    <3>2. g[i + 1] = WidthAsked(before)
      BY <2>2, <2>4, <2>5, <2>8, <3>1 DEF Wider, WidthAsked
    <3>3. q[i + 1] = LogAt("other", ZeroAsked(i + 1, w), 10, Yes, No, before, args, out)
      BY <2>4, <2>6, <2>7, <2>8
    <3>4. QED
      BY <2>3, <3>2, <3>3 DEF WidthState
  <2>9. CASE c = "l"
    <3>1. g[i + 1] = WidthAsked(before)
      BY <2>2, <2>4, <2>5, <2>9 DEF Wider
    <3>2. q[i + 1] = LogAt("other", ZeroAsked(i + 1, w), 10, Yes, No, before, args, out)
      BY <2>4, <2>6, <2>7, <2>9
    <3>3. QED
      BY <2>3, <3>1, <3>2 DEF WidthState
  <2>10. CASE ~(state = "first" /\ c = "0") /\ c \in Decimal
    <3> DEFINE wider == (IF before < 0 THEN 0 ELSE before * 10) + DecimalOf(c)
    <3>1. DecimalOf(c) \in 0 .. 9
      BY <2>5, <2>10
    <3>2. wider \in Nat /\ WidthAsked(before) * 10 + DecimalOf(c) = wider
      BY <3>1 DEF WidthAsked
    <3>3. g[i + 1] = wider
      BY <2>2, <2>4, <2>5, <2>10, <3>2 DEF Wider
    <3>4. q[i + 1] = LogAt("other", ZeroAsked(i + 1, w), 10, Yes, No, wider, args, out)
      BY <2>4, <2>6, <2>7, <2>10
    <3> HIDE DEF wider
    <3>5. WidthAsked(wider) = wider
      BY <3>2 DEF WidthAsked
    <3>6. QED
      BY <2>3, <3>2, <3>3, <3>4, <3>5 DEF WidthState
  <2>11. QED
    BY <2>4, <2>8, <2>9, <2>10
<1>4. S \subseteq Nat
  OBVIOUS
<1> HIDE DEF S
<1>5. S = Nat
  BY <1>2, <1>3, <1>4, Inductive
<1>6. Len(w) \in S
  BY <1>1, <1>5
<1>7. QED
  BY <1>1, <1>6 DEF S

\* Between directives.
Ready(s, args, out) ==
    \E zero, base, signed, upper, before : s = LogAt("chars", zero, base, signed, upper, before, args, out)

\* A directive: its percent sign, its width, its letter.
WithWidth(w, c) == <<"%">> \o w \o <<c>>
WidthCharacters == Decimal \cup {"l"}

\* The characters of a directive, one by one.
LEMMA ShapeOf ==
    ASSUME NEW w \in Seq(WidthCharacters), NEW c, NEW f, f = WithWidth(w, c)
    PROVE  /\ Len(w) \in Nat /\ Len(f) = Len(w) + 2 /\ f[1] = "%" /\ f[Len(w) + 2] = c /\ Last(f) = c
           /\ \A i \in 1 .. Len(w) : f[1 + i] = w[i]
           /\ f[2] = IF Len(w) = 0 THEN c ELSE w[1]
<1> DEFINE S == WidthCharacters \cup {"%", c}
<1>1. w \in Seq(S) /\ Len(w) \in Nat
  <2>1. WidthCharacters \subseteq S
    OBVIOUS
  <2> HIDE DEF S
  <2>2. QED
    BY <2>1
<1>2. <<"%">> \in Seq(S) /\ <<c>> \in Seq(S) /\ Len(<<"%">>) = 1 /\ Len(<<c>>) = 1 /\ <<"%">>[1] = "%" /\ <<c>>[1] = c
  OBVIOUS
<1> HIDE DEF S
<1> DEFINE h == <<"%">> \o w
<1>3. h \in Seq(S) /\ Len(h) = 1 + Len(w) /\ h[1] = "%" /\ \A i \in 1 .. Len(w) : h[1 + i] = w[i]
  <2>1. h \in Seq(S) /\ Len(h) = 1 + Len(w)
        /\ \A i \in 1 .. 1 + Len(w) : h[i] = IF i <= 1 THEN <<"%">>[i] ELSE w[i - 1]
    BY <1>1, <1>2, ConcatProperties
  <2> HIDE DEF h
  <2>2. h[1] = "%"
    BY <1>1, <1>2, <2>1
  <2>3. ASSUME NEW i \in 1 .. Len(w) PROVE h[1 + i] = w[i]
    <3>1. 1 + i \in 1 .. 1 + Len(w) /\ ~(1 + i <= 1) /\ (1 + i) - 1 = i
      BY <1>1
    <3>2. QED
      BY <2>1, <3>1
  <2>4. QED
    BY <2>1, <2>2, <2>3
<1>4. f = h \o <<c>>
  BY Zenon DEF WithWidth
<1> HIDE DEF h
<1>5. Len(f) = Len(h) + 1 /\ \A i \in 1 .. Len(h) + 1 : f[i] = IF i <= Len(h) THEN h[i] ELSE <<c>>[i - Len(h)]
  BY <1>2, <1>3, <1>4, ConcatProperties
<1>6. Len(f) = Len(w) + 2 /\ f[1] = "%" /\ \A i \in 1 .. Len(w) : f[1 + i] = w[i]
  BY <1>1, <1>3, <1>5
<1>7. f[Len(w) + 2] = c
  <2>1. Len(w) + 2 \in 1 .. Len(h) + 1 /\ ~(Len(w) + 2 <= Len(h)) /\ (Len(w) + 2) - Len(h) = 1
    BY <1>1, <1>3
  <2>2. QED
    BY <1>2, <1>5, <2>1
<1>8. Last(f) = c
  BY <1>6, <1>7 DEF Last
<1>9. f[2] = IF Len(w) = 0 THEN c ELSE w[1]
  <2>1. CASE Len(w) = 0
    BY <1>7, <2>1
  <2>2. CASE Len(w) # 0
    <3>1. 1 \in 1 .. Len(w)
      BY <1>1, <2>2
    <3>2. QED
      BY <1>6, <2>2, <3>1
  <2>3. QED
    BY <2>1, <2>2
<1>10. QED
  BY <1>1, <1>6, <1>7, <1>8, <1>9

\* A percent sign forgets the directive before; any other character is printed.
LEMMA DirectiveBegun ==
    ASSUME NEW args, NEW out, NEW s, Ready(s, args, out)
    PROVE  /\ LogChar(s, "%") = LogAt("first", No, 10, Yes, No, -1, args, out)
           /\ \A c : c # "%" => Ready(LogChar(s, c), args, out \o <<c>>)
<1>1. PICK zero, base, signed, upper, before :
          s = LogAt("chars", zero, base, signed, upper, before, args, out)
  BY Zenon DEF Ready
<1>2. ASSUME NEW c, c = "%" PROVE Begun(LogChar(s, c), args, out)
  BY <1>1, <1>2, LogsCharacter
<1>3. ASSUME NEW c, c # "%" PROVE Ready(LogChar(s, c), args, out \o <<c>>)
  <2>1. LogChar(s, c) = LogAt("chars", zero, base, signed, upper, before, args, out \o <<c>>)
    BY <1>1, <1>3, LogsCharacter
  <2>2. QED
    BY <2>1, Zenon DEF Ready
<1>4. QED
  BY <1>2, <1>3, Zenon DEF Begun

\* The state at the letter of a directive.
Follows(q, f) == \A i \in 1 .. Len(f) : q[i] = LogChar(q[i - 1], f[i])
AtLetter(q, f, c, args, out) ==
    \E state \in {"first", "other"}, zero \in {Yes, No}, before \in Int :
        /\ q[Len(f) - 1] = LogAt(state, zero, 10, Yes, No, before, args, out)
        /\ q[Len(f)] = LogChar(q[Len(f) - 1], c)
        /\ (zero = Yes <=> f[2] = "0") /\ WidthOf(f) = WidthAsked(before)

\* The width and the leading zero were read when the letter is.
LEMMA LetterReached ==
    ASSUME NEW w \in Seq(WidthCharacters), NEW c \in NumberLetters \cup {"c", "s"}, NEW f, f = WithWidth(w, c),
           NEW args, NEW out, NEW q, Ready(q[0], args, out), Follows(q, f)
    PROVE  AtLetter(q, f, c, args, out)
<1> USE DEF Follows
<1>1. /\ Len(w) \in Nat /\ Len(f) = Len(w) + 2 /\ f[1] = "%" /\ f[Len(w) + 2] = c
      /\ \A i \in 1 .. Len(w) : f[1 + i] = w[i]
      /\ f[2] = IF Len(w) = 0 THEN c ELSE w[1]
  BY ShapeOf
<1>2. PICK g : g[0] = 0 /\ (\A i \in 1 .. Len(f) : g[i] = Wider(g[i - 1], f[i])) /\ WidthOf(f) = g[Len(f)]
  <2>1. Len(f) \in Nat
    BY <1>1
  <2>2. QED
    BY <2>1, WidthRuns
<1>3. c # "0" /\ c \notin ToSet(Decimals) /\ "%" \notin ToSet(Decimals)
  BY DecimalsAre DEF Decimal, NumberLetters
<1>4. q[1] = LogAt("first", No, 10, Yes, No, -1, args, out)
  <2>1. q[1] = LogChar(q[0], "%")
    BY <1>1
  <2>2. QED
    BY <2>1, DirectiveBegun
<1>5. g[1] = 0
  BY <1>1, <1>2, <1>3 DEF Wider
<1> DEFINE p == [i \in 0 .. Len(w) |-> q[1 + i]]
<1> DEFINE h == [i \in 0 .. Len(w) |-> g[1 + i]]
<1>6. p[0] = q[1] /\ h[0] = 0 /\ p[Len(w)] = q[1 + Len(w)] /\ h[Len(w)] = g[1 + Len(w)]
  BY <1>1, <1>5
<1>7. ASSUME NEW i \in 1 .. Len(w) PROVE p[i] = LogChar(p[i - 1], w[i]) /\ h[i] = Wider(h[i - 1], w[i])
  <2>1. 1 + i \in 1 .. Len(f) /\ (1 + i) - 1 = 1 + (i - 1) /\ i \in 0 .. Len(w) /\ i - 1 \in 0 .. Len(w) /\ f[1 + i] = w[i]
    BY <1>1
  <2>2. q[1 + i] = LogChar(q[1 + (i - 1)], w[i]) /\ g[1 + i] = Wider(g[1 + (i - 1)], w[i])
    BY <1>2, <2>1
  <2>3. QED
    BY <2>1, <2>2
<1> HIDE DEF p, h
<1>8. WidthState(p[Len(w)], h[Len(w)], Len(w), w, args, out)
  BY <1>4, <1>6, <1>7, WidthLogged DEF WidthCharacters
<1>9. PICK state \in {"first", "other"}, before \in Int :
          /\ q[1 + Len(w)] = LogAt(state, ZeroAsked(Len(w), w), 10, Yes, No, before, args, out)
          /\ g[1 + Len(w)] = WidthAsked(before)
  BY <1>6, <1>8 DEF WidthState
<1>10. Len(f) - 1 = 1 + Len(w) /\ Len(f) \in 1 .. Len(f)
  BY <1>1
<1>11. q[Len(f)] = LogChar(q[Len(f) - 1], c)
  BY <1>1, <1>10
<1>12. WidthOf(f) = WidthAsked(before)
  BY <1>1, <1>2, <1>3, <1>9, <1>10 DEF Wider
<1> DEFINE zero == ZeroAsked(Len(w), w)
<1>13. zero \in {Yes, No} /\ (zero = Yes <=> f[2] = "0")
  <2>1. Yes # No
    BY Zenon DEF Yes, No
  <2>2. CASE Len(w) = 0
    BY <1>1, <1>3, <2>1, <2>2 DEF ZeroAsked
  <2>3. CASE Len(w) # 0
    BY <1>1, <2>1, <2>3 DEF ZeroAsked
  <2>4. QED
    BY <2>2, <2>3
<1>14. q[Len(f) - 1] = LogAt(state, zero, 10, Yes, No, before, args, out)
  BY <1>9, <1>10
<1> HIDE DEF zero
<1>15. QED
  BY <1>11, <1>12, <1>13, <1>14, Zenon DEF AtLetter

\* The argument a directive takes, and those it leaves.
LEMMA ArgumentTaken ==
    ASSUME NEW S, NEW x \in S, NEW rest \in Seq(S), NEW args, args = <<x>> \o rest
    PROVE  Head(args) = x /\ Tail(args) = rest
<1>1. <<x>> \in Seq(S) /\ Len(<<x>>) = 1 /\ <<x>>[1] = x /\ Len(rest) \in Nat
  BY LenProperties
<1>2. /\ args \in Seq(S) /\ Len(args) = 1 + Len(rest)
      /\ \A i \in 1 .. 1 + Len(rest) : args[i] = IF i <= 1 THEN <<x>>[i] ELSE rest[i - 1]
  BY <1>1, ConcatProperties
<1>3. args # <<>> /\ args[1] = x
  BY <1>1, <1>2
<1>4. Head(args) = x
  BY <1>2, <1>3, HeadTailProperties
<1>5. Tail(args) \in Seq(S) /\ Len(Tail(args)) = Len(rest) /\ \A i \in 1 .. Len(rest) : Tail(args)[i] = args[i + 1]
  <2>1. Tail(args) \in Seq(S) /\ Len(Tail(args)) = Len(args) - 1
        /\ \A i \in 1 .. Len(Tail(args)) : Tail(args)[i] = args[i + 1]
    BY <1>2, <1>3, HeadTailProperties
  <2>2. QED
    BY <1>1, <1>2, <2>1
<1>6. \A i \in 1 .. Len(rest) : Tail(args)[i] = rest[i]
  <2>1. \A i \in 1 .. Len(rest) : i + 1 \in 1 .. 1 + Len(rest) /\ ~(i + 1 <= 1) /\ (i + 1) - 1 = i
    BY <1>1
  <2>2. QED
    BY <1>2, <1>5, <2>1
<1>7. Tail(args) = rest
  BY <1>5, <1>6, SeqEqual
<1>8. QED
  BY <1>4, <1>7

\* What directives take.
Arguments == Numbers \cup Texts \cup {"x", "%"}

\* A directive was printed for what it means, and left the other arguments.
Printed(d, s, rest, out) == \E text \in Seq(Characters) : Ready(s, rest, out \o text) /\ Means(d, text)

\* A sequence over a set is one over a larger set.
LEMMA MoreCharacters ==
    ASSUME NEW S, NEW T, S \subseteq T
    PROVE  Seq(S) \subseteq Seq(T)
  OBVIOUS

\* A number is printed as its directive asks, and only its argument is taken.
LEMMA NumericPrinted ==
    ASSUME NEW w \in Seq(WidthCharacters), NEW c \in NumberLetters, NEW v \in Numbers,
           NEW f, f = WithWidth(w, c), NEW rest \in Seq(Arguments), NEW args, args = <<v>> \o rest, NEW out, NEW q,
           Ready(q[0], args, out), Follows(q, f)
    PROVE  Printed(Of(f, <<v>>), q[Len(f)], rest, out)
<1>1. Last(f) = c /\ c \in NumberLetters \cup {"c", "s"} /\ c # "c" /\ c # "s" /\ v \in 0 .. WordSize - 1
  <2>1. Last(f) = c
    BY ShapeOf
  <2>2. c \in NumberLetters \cup {"c", "s"} /\ c # "c" /\ c # "s"
    BY DEF NumberLetters
  <2>3. v \in 0 .. WordSize - 1
    BY FormatAssumption
  <2>4. QED
    BY <2>1, <2>2, <2>3
<1>2. Head(args) = v /\ Tail(args) = rest
  <2>1. v \in Arguments
    BY DEF Arguments
  <2>2. QED
    BY <2>1, ArgumentTaken
<1>3. PICK state \in {"first", "other"}, zero \in {Yes, No}, before \in Int :
          /\ q[Len(f) - 1] = LogAt(state, zero, 10, Yes, No, before, args, out)
          /\ q[Len(f)] = LogChar(q[Len(f) - 1], c)
          /\ (zero = Yes <=> f[2] = "0") /\ WidthOf(f) = WidthAsked(before)
  <2>1. AtLetter(q, f, c, args, out)
    BY <1>1, LetterReached
  <2>2. QED
    BY <2>1, Zenon DEF AtLetter
<1> DEFINE text == IntegerText(v, zero, BaseOf(c), SignedOf(c), UpperOf(c), before)
<1>4. zero \in BOOLEAN /\ (zero <=> f[2] = "0")
  BY <1>3, Zenon DEF Yes, No
<1>5. q[Len(f)] = LogAt("chars", zero, BaseOf(c), SignedOf(c), UpperOf(c), before, rest, out \o text)
  <2> DEFINE s == q[Len(f) - 1]
  <2>1. s = LogAt(state, zero, 10, Yes, No, before, args, out)
    BY <1>3, Zenon
  <2> HIDE DEF s
  <2>2. Ends(s, c, zero, BaseOf(c), SignedOf(c), UpperOf(c), before, Tail(args), out \o text)
    BY <1>1, <1>2, <1>4, <2>1, NumberLogged, Zenon
  <2>3. QED
    BY <1>2, <1>3, <2>2, Zenon DEF s, Ends
<1>6. text \in Seq(Characters) /\ IsNumber(f, v, text)
  <2>1. text = IntegerText(v, zero, BaseOf(c), SignedOf(c), UpperOf(c), before)
    BY Zenon
  <2> HIDE DEF text
  <2>2. QED
    BY <1>1, <1>3, <1>4, <2>1, NumberMeant, Zenon
<1> HIDE DEF text
<1>7. Ready(q[Len(f)], rest, out \o text)
  BY <1>5, Zenon DEF Ready
<1>8. Means(Of(f, <<v>>), text)
  <2> DEFINE d == Of(f, <<v>>)
  <2>1. d.fmt = f /\ d.args = <<v>> /\ <<v>> # <<>> /\ <<v>>[1] = v
    BY DEF Of
  <2> HIDE DEF d
  <2>2. Means(d, text)
    BY <1>1, <1>6, <2>1 DEF Means
  <2>3. QED
    BY <2>2 DEF d
<1>9. QED
  BY <1>6, <1>7, <1>8, Zenon DEF Printed

\* So is a text, ...
LEMMA TextualPrinted ==
    ASSUME NEW w \in Seq(WidthCharacters), NEW t \in Texts,
           NEW f, f = WithWidth(w, "s"), NEW rest \in Seq(Arguments), NEW args, args = <<t>> \o rest, NEW out, NEW q,
           Ready(q[0], args, out), Follows(q, f)
    PROVE  Printed(Of(f, <<t>>), q[Len(f)], rest, out)
<1>1. Last(f) = "s" /\ "s" \in NumberLetters \cup {"c", "s"}
  BY ShapeOf
<1>2. t \in Seq(Characters)
  <2>1. STRING \subseteq Characters
    BY Zenon DEF Characters
  <2>2. t \in Seq(STRING)
    BY FormatAssumption
  <2>3. QED
    BY <2>1, <2>2, MoreCharacters, Zenon
<1>3. Head(args) = t /\ Tail(args) = rest
  <2>1. t \in Arguments
    BY DEF Arguments
  <2>2. QED
    BY <2>1, ArgumentTaken
<1>4. PICK state \in {"first", "other"}, zero \in {Yes, No}, before \in Int :
          /\ q[Len(f) - 1] = LogAt(state, zero, 10, Yes, No, before, args, out)
          /\ q[Len(f)] = LogChar(q[Len(f) - 1], "s")
          /\ WidthOf(f) = WidthAsked(before)
  <2>1. AtLetter(q, f, "s", args, out)
    BY <1>1, LetterReached
  <2>2. QED
    BY <2>1, Zenon DEF AtLetter
<1> DEFINE text == Repeated(Blank, before - Len(t)) \o t
<1>5. q[Len(f)] = LogAt("chars", zero, 10, Yes, No, before, rest, out \o text)
  <2> DEFINE s == q[Len(f) - 1]
  <2>1. s = LogAt(state, zero, 10, Yes, No, before, args, out)
    BY <1>4
  <2> HIDE DEF s
  <2>2. Ends(s, "s", zero, 10, Yes, No, before, Tail(args),
             out \o (Repeated(Blank, before - Len(Head(args))) \o Head(args)))
    BY <2>1, TextLogged
  <2>3. QED
    BY <1>3, <1>4, <2>2, Zenon DEF s, Ends
<1>6. text \in Seq(Characters) /\ IsPadded(f, t, text)
  <2>1. text = Repeated(Blank, before - Len(t)) \o t
    BY Zenon
  <2> HIDE DEF text
  <2>2. QED
    BY <1>2, <1>4, <2>1, PaddedMeant, Zenon
<1> HIDE DEF text
<1>7. Ready(q[Len(f)], rest, out \o text)
  BY <1>5, Zenon DEF Ready
<1>8. Means(Of(f, <<t>>), text)
  <2> DEFINE d == Of(f, <<t>>)
  <2>1. d.fmt = f /\ d.args = <<t>> /\ <<t>> # <<>> /\ <<t>>[1] = t
    BY DEF Of
  <2> HIDE DEF d
  <2>2. Means(d, text)
    BY <1>1, <1>6, <2>1 DEF Means
  <2>3. QED
    BY <2>2 DEF d
<1>9. QED
  BY <1>6, <1>7, <1>8, Zenon DEF Printed

\* ... and a character.
LEMMA SinglePrinted ==
    ASSUME NEW w \in Seq(WidthCharacters), NEW x \in {"x", "%"},
           NEW f, f = WithWidth(w, "c"), NEW rest \in Seq(Arguments), NEW args, args = <<x>> \o rest, NEW out, NEW q,
           Ready(q[0], args, out), Follows(q, f)
    PROVE  Printed(Of(f, <<x>>), q[Len(f)], rest, out)
<1>1. Last(f) = "c" /\ "c" \in NumberLetters \cup {"c", "s"}
  BY ShapeOf
<1>2. <<x>> \in Seq(Characters) /\ Len(<<x>>) = 1
  <2>1. x \in Characters
    BY Zenon DEF Characters
  <2>2. QED
    BY <2>1
<1>3. Head(args) = x /\ Tail(args) = rest
  <2>1. x \in Arguments
    BY DEF Arguments
  <2>2. QED
    BY <2>1, ArgumentTaken
<1>4. PICK state \in {"first", "other"}, zero \in {Yes, No}, before \in Int :
          /\ q[Len(f) - 1] = LogAt(state, zero, 10, Yes, No, before, args, out)
          /\ q[Len(f)] = LogChar(q[Len(f) - 1], "c")
          /\ WidthOf(f) = WidthAsked(before)
  <2>1. AtLetter(q, f, "c", args, out)
    BY <1>1, LetterReached
  <2>2. QED
    BY <2>1, Zenon DEF AtLetter
<1> DEFINE text == Repeated(Blank, before - Len(<<x>>)) \o <<x>>
<1>5. q[Len(f)] = LogAt("chars", zero, 10, Yes, No, before, rest, out \o text)
  <2> DEFINE s == q[Len(f) - 1]
  <2>1. s = LogAt(state, zero, 10, Yes, No, before, args, out)
    BY <1>4
  <2> HIDE DEF s
  <2>2. Ends(s, "c", zero, 10, Yes, No, before, Tail(args),
             out \o (Repeated(Blank, before - 1) \o <<Head(args)>>))
    BY <2>1, TextLogged
  <2>3. QED
    BY <1>2, <1>3, <1>4, <2>2, Zenon DEF s, Ends
<1>6. text \in Seq(Characters) /\ IsPadded(f, <<x>>, text)
  <2>1. text = Repeated(Blank, before - Len(<<x>>)) \o <<x>>
    BY Zenon
  <2> HIDE DEF text
  <2>2. QED
    BY <1>2, <1>4, <2>1, PaddedMeant, Zenon
<1> HIDE DEF text
<1>7. Ready(q[Len(f)], rest, out \o text)
  BY <1>5, Zenon DEF Ready
<1>8. Means(Of(f, <<x>>), text)
  <2> DEFINE d == Of(f, <<x>>)
  <2>1. d.fmt = f /\ d.args = <<x>> /\ <<x>> # <<>>
    BY DEF Of
  <2> HIDE DEF d
  <2>2. Means(d, text)
    BY <1>1, <1>6, <2>1 DEF Means
  <2>3. QED
    BY <2>2 DEF d
<1>9. QED
  BY <1>6, <1>7, <1>8, Zenon DEF Printed

FormatCharacters == WidthCharacters \cup NumberLetters \cup {"%", "c", "s"}
NumericKind(d) ==
    \E w \in Seq(WidthCharacters), c \in NumberLetters, v \in Numbers : d = Of(WithWidth(w, c), <<v>>)
TextualKind(d) == \E w \in Seq(WidthCharacters), t \in Texts : d = Of(WithWidth(w, "s"), <<t>>)
SingleKind(d) == \E w \in Seq(WidthCharacters), x \in {"x", "%"} : d = Of(WithWidth(w, "c"), <<x>>)
IsDirective(d) == d \in Literals \/ NumericKind(d) \/ TextualKind(d) \/ SingleKind(d)

\* The directives of the calls are of these kinds.
LEMMA WidthsAre ==
    /\ <<>> \in Seq(WidthCharacters) /\ <<"4">> \in Seq(WidthCharacters) /\ Widths \subseteq Seq(WidthCharacters)
    /\ "x" \in NumberLetters /\ "d" \in NumberLetters
<1>1. "4" \in WidthCharacters
  BY DEF WidthCharacters, Decimal
<1>2. <<"4">> \in Seq(WidthCharacters) /\ <<>> \in Seq(WidthCharacters)
  BY <1>1
<1>3. Widths \subseteq Seq(WidthCharacters)
  BY FormatAssumption, DecimalsAre DEF WidthCharacters
<1>4. QED
  BY <1>2, <1>3, Zenon DEF NumberLetters

\* A number, a text or a character, with any width.
LEMMA KindsOf ==
    ASSUME NEW widths \in SUBSET Seq(WidthCharacters), NEW letters \in SUBSET NumberLetters, NEW d
    PROVE  /\ d \in Numeric(widths, letters) => NumericKind(d)
           /\ d \in Textual(widths) => TextualKind(d)
           /\ d \in Single(widths) => SingleKind(d)
<1>1. ASSUME d \in Numeric(widths, letters) PROVE NumericKind(d)
  <2>1. PICK w \in widths, c \in letters, v \in Numbers : d = Of(WithWidth(w, c), <<v>>)
    <3>1. PICK w \in widths, c \in letters, v \in Numbers : d = Taking(w, c, v)
      BY <1>1 DEF Numeric
    <3>2. QED
      BY <3>1 DEF Taking, WithWidth
  <2>2. w \in Seq(WidthCharacters) /\ c \in NumberLetters
    OBVIOUS
  <2>3. QED
    BY <2>1, <2>2, Zenon DEF NumericKind
<1>2. ASSUME d \in Textual(widths) PROVE TextualKind(d)
  <2>1. PICK w \in widths, t \in Texts : d = Of(WithWidth(w, "s"), <<t>>)
    <3>1. PICK w \in widths, t \in Texts : d = Taking(w, "s", t)
      BY <1>2 DEF Textual
    <3>2. QED
      BY <3>1 DEF Taking, WithWidth
  <2>2. w \in Seq(WidthCharacters)
    OBVIOUS
  <2>3. QED
    BY <2>1, <2>2, Zenon DEF TextualKind
<1>3. ASSUME d \in Single(widths) PROVE SingleKind(d)
  <2>1. PICK w \in widths, x \in {"x", "%"} : d = Of(WithWidth(w, "c"), <<x>>)
    <3>1. PICK w \in widths, x \in {"x", "%"} : d = Taking(w, "c", x)
      BY <1>3 DEF Single
    <3>2. QED
      BY <3>1 DEF Taking, WithWidth
  <2>2. w \in Seq(WidthCharacters)
    OBVIOUS
  <2>3. QED
    BY <2>1, <2>2, Zenon DEF SingleKind
<1>4. QED
  BY <1>1, <1>2, <1>3

\* Every directive of the calls is of one of these kinds.
LEMMA KindOf ==
    ASSUME NEW d \in Directives \cup Followers \cup Small
    PROVE  IsDirective(d)
<1>1. {<<>>} \in SUBSET Seq(WidthCharacters) /\ {<<"4">>} \in SUBSET Seq(WidthCharacters) /\ Widths \in SUBSET Seq(WidthCharacters)
      /\ {"x"} \in SUBSET NumberLetters /\ {"d"} \in SUBSET NumberLetters /\ NumberLetters \in SUBSET NumberLetters
  BY WidthsAre
<1>2. \/ d \in Literals
      \/ d \in Numeric({<<>>}, {"x"}) \/ d \in Numeric({<<"4">>}, {"d"}) \/ d \in Numeric(Widths, NumberLetters)
      \/ d \in Textual({<<>>}) \/ d \in Textual(Widths) \/ d \in Single({<<>>}) \/ d \in Single(Widths)
  BY Zenon DEF Directives, Followers, Small
<1>3. CASE d \in Literals
  BY <1>3 DEF IsDirective
<1>4. CASE d \in Numeric({<<>>}, {"x"}) \/ d \in Numeric({<<"4">>}, {"d"}) \/ d \in Numeric(Widths, NumberLetters)
  BY <1>1, <1>4, KindsOf DEF IsDirective
<1>5. CASE d \in Textual({<<>>}) \/ d \in Textual(Widths)
  BY <1>1, <1>5, KindsOf DEF IsDirective
<1>6. CASE d \in Single({<<>>}) \/ d \in Single(Widths)
  BY <1>1, <1>6, KindsOf DEF IsDirective
<1>7. QED
  BY <1>2, <1>3, <1>4, <1>5, <1>6

\* Formats and arguments are sequences.
LEMMA FormatOf ==
    ASSUME NEW w \in Seq(WidthCharacters), NEW c \in FormatCharacters
    PROVE  WithWidth(w, c) \in Seq(FormatCharacters)
<1>1. w \in Seq(FormatCharacters)
  <2>1. WidthCharacters \subseteq FormatCharacters
    BY Zenon DEF FormatCharacters
  <2>2. QED
    BY <2>1, MoreCharacters, Zenon
<1>2. <<c>> \in Seq(FormatCharacters)
  OBVIOUS
<1>3. <<"%">> \in Seq(FormatCharacters)
  <2>1. "%" \in FormatCharacters
    BY Zenon DEF FormatCharacters
  <2>2. \A x \in FormatCharacters : <<x>> \in Seq(FormatCharacters)
    OBVIOUS
  <2>3. QED
    BY <2>1, <2>2, Zenon
<1>4. QED
  BY <1>1, <1>2, <1>3, TakenApart DEF WithWidth

\* The format and the arguments of a directive.
LEMMA DirectiveTyped ==
    ASSUME NEW d, IsDirective(d)
    PROVE  d.fmt \in Seq(FormatCharacters) /\ d.args \in Seq(Arguments)
<1>1. \A x \in Arguments : <<x>> \in Seq(Arguments)
  OBVIOUS
<1>2. NumberLetters \subseteq FormatCharacters /\ "s" \in FormatCharacters /\ "c" \in FormatCharacters
      /\ "x" \in FormatCharacters /\ "%" \in FormatCharacters /\ "0" \in FormatCharacters
  <2>1. "x" \in NumberLetters /\ "0" \in Decimal
    BY Zenon DEF NumberLetters, Decimal
  <2>2. QED
    BY <2>1, Zenon DEF FormatCharacters, WidthCharacters
<1>3. \A f, args : Of(f, args).fmt = f /\ Of(f, args).args = args
  BY DEF Of
<1>4. CASE d \in Literals
  <2>1. <<>> \in Seq(Arguments)
    OBVIOUS
  <2>2. \A x, y \in FormatCharacters : <<x>> \in Seq(FormatCharacters) /\ <<x, y>> \in Seq(FormatCharacters)
    OBVIOUS
  <2>3. <<"x">> \in Seq(FormatCharacters) /\ <<"0">> \in Seq(FormatCharacters) /\ <<"%", "%">> \in Seq(FormatCharacters)
    BY <1>2, <2>2, Zenon
  <2>4. d = Of(<<"x">>, <<>>) \/ d = Of(<<"0">>, <<>>) \/ d = Of(<<"%", "%">>, <<>>)
    BY <1>4, Zenon DEF Literals
  <2>5. d.args = <<>> /\ d.fmt \in {<<"x">>, <<"0">>, <<"%", "%">>}
    BY <1>3, <2>4
  <2>6. QED
    BY <2>1, <2>3, <2>5
<1>5. CASE NumericKind(d)
  <2>1. PICK w \in Seq(WidthCharacters), c \in NumberLetters, v \in Numbers : d = Of(WithWidth(w, c), <<v>>)
    BY <1>5, Zenon DEF NumericKind
  <2>2. v \in Arguments /\ c \in FormatCharacters
    BY <1>2, Zenon DEF Arguments
  <2>3. d.fmt = WithWidth(w, c) /\ d.args = <<v>>
    BY <1>3, <2>1
  <2>4. WithWidth(w, c) \in Seq(FormatCharacters)
    BY <1>2, <2>2, FormatOf, Zenon
  <2>5. <<v>> \in Seq(Arguments)
    BY <1>1, <2>2, Zenon
  <2>6. QED
    BY <2>3, <2>4, <2>5
<1>6. CASE TextualKind(d)
  <2>1. PICK w \in Seq(WidthCharacters), t \in Texts : d = Of(WithWidth(w, "s"), <<t>>)
    BY <1>6, Zenon DEF TextualKind
  <2>2. t \in Arguments
    BY Zenon DEF Arguments
  <2>3. d.fmt = WithWidth(w, "s") /\ d.args = <<t>>
    BY <1>3, <2>1
  <2>4. WithWidth(w, "s") \in Seq(FormatCharacters)
    BY <1>2, <2>2, FormatOf, Zenon
  <2>5. <<t>> \in Seq(Arguments)
    BY <1>1, <2>2, Zenon
  <2>6. QED
    BY <2>3, <2>4, <2>5
<1>7. CASE SingleKind(d)
  <2>1. PICK w \in Seq(WidthCharacters), x \in {"x", "%"} : d = Of(WithWidth(w, "c"), <<x>>)
    BY <1>7, Zenon DEF SingleKind
  <2>2. x \in Arguments
    BY Zenon DEF Arguments
  <2>3. d.fmt = WithWidth(w, "c") /\ d.args = <<x>>
    BY <1>3, <2>1
  <2>4. WithWidth(w, "c") \in Seq(FormatCharacters)
    BY <1>2, <2>2, FormatOf, Zenon
  <2>5. <<x>> \in Seq(Arguments)
    BY <1>1, <2>2, Zenon
  <2>6. QED
    BY <2>3, <2>4, <2>5
<1>8. QED
  BY <1>4, <1>5, <1>6, <1>7, Zenon DEF IsDirective

\* A character outside a directive is printed; the arguments stay.
LEMMA LiteralPrinted ==
    ASSUME NEW x \in {"x", "0"}, NEW rest, NEW out, NEW q,
           Ready(q[0], rest, out), Follows(q, <<x>>)
    PROVE  Printed(Of(<<x>>, <<>>), q[1], rest, out)
<1>1. Len(<<x>>) = 1 /\ <<x>>[1] = x /\ x # "%" /\ Last(<<x>>) = x
  BY DEF Last
<1>2. q[1] = LogChar(q[0], x)
  BY <1>1 DEF Follows
<1>3. Ready(q[1], rest, out \o <<x>>)
  BY <1>1, <1>2, DirectiveBegun
<1>4. <<x>> \in Seq(Characters)
  <2>1. x \in Characters
    BY SomeCharacters, Zenon DEF Characters
  <2>2. QED
    BY <2>1
<1>5. Means(Of(<<x>>, <<>>), <<x>>)
  <2> DEFINE d == Of(<<x>>, <<>>)
  <2>1. d.fmt = <<x>> /\ d.args = <<>>
    BY DEF Of
  <2> HIDE DEF d
  <2>2. Means(d, <<x>>)
    BY <1>1, <2>1 DEF Means
  <2>3. QED
    BY <2>2 DEF d
<1>6. QED
  BY <1>3, <1>4, <1>5, Zenon DEF Printed

\* Two percent signs print one.
LEMMA PercentPrinted ==
    ASSUME NEW rest, NEW out, NEW q, Ready(q[0], rest, out), Follows(q, <<"%", "%">>)
    PROVE  Printed(Of(<<"%", "%">>, <<>>), q[2], rest, out)
<1>1. Len(<<"%", "%">>) = 2 /\ <<"%", "%">>[1] = "%" /\ <<"%", "%">>[2] = "%" /\ Last(<<"%", "%">>) = "%"
  BY DEF Last
<1>2. q[1] = LogChar(q[0], "%") /\ q[2] = LogChar(q[1], "%")
  BY <1>1 DEF Follows
<1>3. q[1] = LogAt("first", No, 10, Yes, No, -1, rest, out)
  BY <1>2, DirectiveBegun
<1>4. Ready(q[2], rest, out \o <<"%">>)
  <2> DEFINE s == q[1]
  <2>1. s = LogAt("first", No, 10, Yes, No, -1, rest, out)
    BY <1>3
  <2> HIDE DEF s
  <2>2. LogChar(s, "%") = LogAt("chars", No, 10, Yes, No, -1, rest, out \o <<"%">>)
    BY <2>1, LogsPercent
  <2>3. q[2] = LogChar(s, "%")
    BY <1>2 DEF s
  <2>4. QED
    BY <2>2, <2>3, Zenon DEF Ready
<1>5. <<"%">> \in Seq(Characters)
  <2>1. "%" \in Characters
    BY Zenon DEF Characters
  <2>2. QED
    BY <2>1
<1>6. Means(Of(<<"%", "%">>, <<>>), <<"%">>)
  <2> DEFINE d == Of(<<"%", "%">>, <<>>)
  <2>1. d.fmt = <<"%", "%">> /\ d.args = <<>>
    BY DEF Of
  <2> HIDE DEF d
  <2>2. Means(d, <<"%">>)
    BY <1>1, <2>1 DEF Means
  <2>3. QED
    BY <2>2 DEF d
<1>7. QED
  BY <1>4, <1>5, <1>6, Zenon DEF Printed

\* A directive is printed for what it means, whatever was printed before.
LEMMA DirectivePrinted ==
    ASSUME NEW d, IsDirective(d), NEW rest \in Seq(Arguments), NEW out, NEW q,
           Ready(q[0], d.args \o rest, out), Follows(q, d.fmt)
    PROVE  Printed(d, q[Len(d.fmt)], rest, out)
<1>1. \A f, args : Of(f, args).fmt = f /\ Of(f, args).args = args
  BY DEF Of
<1>2. CASE d \in Literals
  <2>1. <<>> \o rest = rest
    BY ConcatEmptySeq
  <2>2. CASE d = Of(<<"x">>, <<>>)
    <3>1. d.fmt = <<"x">> /\ d.args = <<>> /\ Len(<<"x">>) = 1
      BY <1>1, <2>2
    <3>2. Ready(q[0], rest, out) /\ Follows(q, <<"x">>)
      BY <2>1, <3>1
    <3>3. Printed(Of(<<"x">>, <<>>), q[1], rest, out)
      BY <3>2, LiteralPrinted
    <3>4. QED
      BY <2>2, <3>1, <3>3
  <2>3. CASE d = Of(<<"0">>, <<>>)
    <3>1. d.fmt = <<"0">> /\ d.args = <<>> /\ Len(<<"0">>) = 1
      BY <1>1, <2>3
    <3>2. Ready(q[0], rest, out) /\ Follows(q, <<"0">>)
      BY <2>1, <3>1
    <3>3. Printed(Of(<<"0">>, <<>>), q[1], rest, out)
      BY <3>2, LiteralPrinted
    <3>4. QED
      BY <2>3, <3>1, <3>3
  <2>4. CASE d = Of(<<"%", "%">>, <<>>)
    <3>1. d.fmt = <<"%", "%">> /\ d.args = <<>> /\ Len(<<"%", "%">>) = 2
      BY <1>1, <2>4
    <3>2. Ready(q[0], rest, out) /\ Follows(q, <<"%", "%">>)
      BY <2>1, <3>1
    <3>3. Printed(Of(<<"%", "%">>, <<>>), q[2], rest, out)
      BY <3>2, PercentPrinted
    <3>4. QED
      BY <2>4, <3>1, <3>3
  <2>5. QED
    BY <1>2, <2>2, <2>3, <2>4, Zenon DEF Literals
<1>3. CASE NumericKind(d)
  <2>1. PICK w \in Seq(WidthCharacters), c \in NumberLetters, v \in Numbers : d = Of(WithWidth(w, c), <<v>>)
    BY <1>3, Zenon DEF NumericKind
  <2> DEFINE f == WithWidth(w, c)
  <2> DEFINE args == <<v>> \o rest
  <2>2. d = Of(f, <<v>>) /\ d.fmt = f /\ d.args = <<v>>
    BY <1>1, <2>1
  <2>3. f = WithWidth(w, c) /\ args = <<v>> \o rest
    BY Zenon
  <2> HIDE DEF f, args
  <2>4. Ready(q[0], args, out) /\ Follows(q, f)
    BY <2>2, <2>3
  <2>5. Printed(Of(f, <<v>>), q[Len(f)], rest, out)
    BY <2>3, <2>4, NumericPrinted
  <2>6. QED
    BY <2>2, <2>5
<1>4. CASE TextualKind(d)
  <2>1. PICK w \in Seq(WidthCharacters), t \in Texts : d = Of(WithWidth(w, "s"), <<t>>)
    BY <1>4, Zenon DEF TextualKind
  <2> DEFINE f == WithWidth(w, "s")
  <2> DEFINE args == <<t>> \o rest
  <2>2. d = Of(f, <<t>>) /\ d.fmt = f /\ d.args = <<t>>
    BY <1>1, <2>1
  <2>3. f = WithWidth(w, "s") /\ args = <<t>> \o rest
    BY Zenon
  <2> HIDE DEF f, args
  <2>4. Ready(q[0], args, out) /\ Follows(q, f)
    BY <2>2, <2>3
  <2>5. Printed(Of(f, <<t>>), q[Len(f)], rest, out)
    BY <2>3, <2>4, TextualPrinted
  <2>6. QED
    BY <2>2, <2>5
<1>5. CASE SingleKind(d)
  <2>1. PICK w \in Seq(WidthCharacters), x \in {"x", "%"} : d = Of(WithWidth(w, "c"), <<x>>)
    BY <1>5, Zenon DEF SingleKind
  <2> DEFINE f == WithWidth(w, "c")
  <2> DEFINE args == <<x>> \o rest
  <2>2. d = Of(f, <<x>>) /\ d.fmt = f /\ d.args = <<x>>
    BY <1>1, <2>1
  <2>3. f = WithWidth(w, "c") /\ args = <<x>> \o rest
    BY Zenon
  <2> HIDE DEF f, args
  <2>4. Ready(q[0], args, out) /\ Follows(q, f)
    BY <2>2, <2>3
  <2>5. Printed(Of(f, <<x>>), q[Len(f)], rest, out)
    BY <2>3, <2>4, SinglePrinted
  <2>6. QED
    BY <2>2, <2>5
<1>6. QED
  BY <1>2, <1>3, <1>4, <1>5, Zenon DEF IsDirective

\* A text is made of what two directives mean.
Together(first, second, text) ==
    \E n \in 0 .. Len(text) :
        Means(first, SubSeq(text, 1, n)) /\ Means(second, SubSeq(text, n + 1, Len(text)))

\* The texts of two directives, one after the other.
LEMMA OneAfterTheOther ==
    ASSUME NEW first, NEW second, NEW s \in Seq(Characters), NEW t \in Seq(Characters), Means(first, s), Means(second, t)
    PROVE  Together(first, second, (<<>> \o s) \o t)
<1> DEFINE text == s \o t
<1>1. (<<>> \o s) \o t = text
  BY ConcatEmptySeq
<1>2. Len(text) = Len(s) + Len(t) /\ Len(s) \in Nat /\ Len(t) \in Nat
      /\ SubSeq(text, 1, Len(s)) = s /\ SubSeq(text, Len(s) + 1, Len(text)) = t
  BY TakenApart
<1> HIDE DEF text
<1>3. Len(s) \in 0 .. Len(text)
  BY <1>2
<1>4. Together(first, second, text)
  BY <1>2, <1>3, Zenon DEF Together
<1>5. QED
  BY <1>1, <1>4

\* The format of two directives.
LEMMA Formats ==
    ASSUME NEW f \in Seq(FormatCharacters), NEW g \in Seq(FormatCharacters), NEW fmt, fmt = f \o g
    PROVE  /\ Len(f) \in Nat /\ Len(g) \in Nat /\ Len(fmt) = Len(f) + Len(g)
           /\ \A i \in 1 .. Len(f) : i \in 1 .. Len(fmt) /\ fmt[i] = f[i]
           /\ \A i \in 1 .. Len(g) : Len(f) + i \in 1 .. Len(fmt) /\ fmt[Len(f) + i] = g[i]
<1>1. Len(f) \in Nat /\ Len(g) \in Nat /\ Len(fmt) = Len(f) + Len(g)
      /\ \A i \in 1 .. Len(f) + Len(g) : fmt[i] = IF i <= Len(f) THEN f[i] ELSE g[i - Len(f)]
  BY ConcatProperties, LenProperties
<1>2. ASSUME NEW i \in 1 .. Len(f) PROVE i \in 1 .. Len(fmt) /\ fmt[i] = f[i]
  BY <1>1
<1>3. ASSUME NEW i \in 1 .. Len(g) PROVE Len(f) + i \in 1 .. Len(fmt) /\ fmt[Len(f) + i] = g[i]
  <2>1. Len(f) + i \in 1 .. Len(f) + Len(g) /\ ~(Len(f) + i <= Len(f)) /\ (Len(f) + i) - Len(f) = i
    BY <1>1
  <2>2. QED
    BY <1>1, <2>1
<1>4. QED
  BY <1>1, <1>2, <1>3

\* The logging printf.
LEMMA LogMeans ==
    ASSUME NEW first, NEW second, IsDirective(first), IsDirective(second)
    PROVE  Together(first, second, LogText(first.fmt \o second.fmt, first.args \o second.args))
<1> DEFINE f == first.fmt
<1> DEFINE g == second.fmt
<1> DEFINE rest == second.args
<1> DEFINE fmt == f \o g
<1> DEFINE args == first.args \o rest
<1>1. f \in Seq(FormatCharacters) /\ g \in Seq(FormatCharacters) /\ rest \in Seq(Arguments)
  BY DirectiveTyped
<1>2. fmt = f \o g
  OBVIOUS
<1>3. LogText(fmt, args) = LogText(first.fmt \o second.fmt, first.args \o second.args)
  OBVIOUS
<1>4. f = first.fmt /\ g = second.fmt /\ rest = second.args /\ args = first.args \o rest
  OBVIOUS
<1> HIDE DEF f, g, rest, fmt, args
<1>5. /\ \A i \in 1 .. Len(f) : i \in 1 .. Len(fmt) /\ fmt[i] = f[i]
      /\ \A i \in 1 .. Len(g) : Len(f) + i \in 1 .. Len(fmt) /\ fmt[Len(f) + i] = g[i]
  BY <1>1, <1>2, Formats
<1>6. Len(f) \in Nat /\ Len(g) \in Nat /\ Len(fmt) = Len(f) + Len(g) /\ Len(fmt) \in Nat
  <2>1. Len(f) \in Nat /\ Len(g) \in Nat /\ Len(fmt) = Len(f) + Len(g)
    BY <1>1, <1>2, Formats
  <2>2. QED
    BY <2>1
<1>7. PICK r : /\ r[0] = LogStart(args) /\ \A i \in 1 .. Len(fmt) : r[i] = LogChar(r[i - 1], fmt[i])
               /\ LogText(fmt, args) = r[Len(fmt)].out
  BY <1>6, LogRuns
<1> DEFINE q == [i \in 0 .. Len(g) |-> r[Len(f) + i]]
<1>8. Follows(r, f)
  <2>1. ASSUME NEW i \in 1 .. Len(f) PROVE r[i] = LogChar(r[i - 1], f[i])
    BY <1>5, <1>7
  <2>2. QED
    BY <2>1 DEF Follows
<1>9. Follows(q, g) /\ q[0] = r[Len(f)] /\ q[Len(g)] = r[Len(fmt)]
  <2>1. ASSUME NEW i \in 1 .. Len(g) PROVE q[i] = LogChar(q[i - 1], g[i])
    <3>1. i \in 0 .. Len(g) /\ i - 1 \in 0 .. Len(g) /\ (Len(f) + i) - 1 = Len(f) + (i - 1)
      BY <1>6
    <3>2. r[Len(f) + i] = LogChar(r[(Len(f) + i) - 1], fmt[Len(f) + i]) /\ fmt[Len(f) + i] = g[i]
      BY <1>5, <1>7
    <3>3. r[Len(f) + i] = LogChar(r[Len(f) + (i - 1)], g[i])
      BY <3>1, <3>2
    <3>4. q[i] = r[Len(f) + i] /\ q[i - 1] = r[Len(f) + (i - 1)]
      BY <3>1
    <3>5. QED
      BY <3>3, <3>4
  <2>2. q[0] = r[Len(f)] /\ q[Len(g)] = r[Len(fmt)]
    <3>1. 0 \in 0 .. Len(g) /\ Len(g) \in 0 .. Len(g) /\ Len(f) + 0 = Len(f)
      BY <1>6
    <3>2. q[0] = r[Len(f) + 0] /\ q[Len(g)] = r[Len(f) + Len(g)]
      BY <3>1
    <3>3. QED
      BY <1>6, <3>1, <3>2
  <2> HIDE DEF q
  <2>3. QED
    BY <2>1, <2>2 DEF Follows
<1> HIDE DEF q
<1>10. Ready(r[0], args, <<>>)
  <2>1. LogStart(args) = LogAt("chars", No, 10, Yes, No, -1, args, <<>>)
    BY Zenon DEF LogStart, LogAt, Yes, No
  <2>2. r[0] = LogAt("chars", No, 10, Yes, No, -1, args, <<>>)
    BY <1>7, <2>1
  <2>3. QED
    BY <2>2, Zenon DEF Ready
<1>11. Printed(first, r[Len(f)], rest, <<>>)
  <2>1. Ready(r[0], first.args \o rest, <<>>) /\ Follows(r, first.fmt)
    BY <1>4, <1>8, <1>10
  <2>2. QED
    BY <1>1, <1>4, <2>1, DirectivePrinted
<1>12. PICK s \in Seq(Characters) : Ready(r[Len(f)], rest, <<>> \o s) /\ Means(first, s)
  BY <1>11, Zenon DEF Printed
<1>13. Printed(second, q[Len(g)], <<>>, <<>> \o s)
  <2> DEFINE none == <<>>
  <2>1. none \in Seq(Arguments) /\ rest \o none = rest
    BY <1>1, ConcatEmptySeq
  <2> HIDE DEF none
  <2>2. Ready(q[0], second.args \o none, <<>> \o s) /\ Follows(q, second.fmt)
    BY <1>4, <1>9, <1>12, <2>1
  <2>3. Printed(second, q[Len(second.fmt)], none, <<>> \o s)
    BY <2>1, <2>2, DirectivePrinted
  <2>4. QED
    BY <1>4, <2>3 DEF none
<1>14. PICK t \in Seq(Characters) : Ready(r[Len(fmt)], <<>>, (<<>> \o s) \o t) /\ Means(second, t)
  <2>1. PICK t \in Seq(Characters) : Ready(q[Len(g)], <<>>, (<<>> \o s) \o t) /\ Means(second, t)
    BY <1>13, Zenon DEF Printed
  <2>2. QED
    BY <1>9, <2>1
<1>15. LogText(fmt, args) = (<<>> \o s) \o t
  <2> DEFINE text == (<<>> \o s) \o t
  <2>1. Ready(r[Len(fmt)], <<>>, text)
    BY <1>14
  <2> HIDE DEF text
  <2>2. PICK zero, base, signed, upper, before : r[Len(fmt)] = LogAt("chars", zero, base, signed, upper, before, <<>>, text)
    BY <2>1, Zenon DEF Ready
  <2>3. r[Len(fmt)].out = text
    BY <2>2, LogFields
  <2>4. QED
    BY <1>7, <2>3 DEF text
<1>16. QED
  BY <1>3, <1>12, <1>14, <1>15, OneAfterTheOther

\* A state of alt_printf.
AltAt(percent, args, out) == [percent |-> percent, args |-> args, out |-> out]

\* The fields of a state, and what a change of one makes of it.
LEMMA AltFields ==
    ASSUME NEW percent, NEW args, NEW out, NEW s, s = AltAt(percent, args, out)
    PROVE  /\ s.percent = percent /\ s.args = args /\ s.out = out
           /\ \A x : [s EXCEPT !.percent = x] = AltAt(x, args, out)
           /\ \A x : [s EXCEPT !.args = x] = AltAt(percent, x, out)
           /\ \A x : [s EXCEPT !.out = x] = AltAt(percent, args, x)
  BY SMT DEF AltAt

\* What a character does to it: outside a directive, ...
LEMMA AltOutside ==
    ASSUME NEW args, NEW out, NEW s, s = AltAt(No, args, out), NEW c
    PROVE  /\ c = "%" => AltChar(s, c) = AltAt(Yes, args, out)
           /\ c # "%" => AltChar(s, c) = AltAt(No, args, out \o <<c>>)
<1>1. s.percent = No /\ s.out = out
      /\ (\A x : [s EXCEPT !.out = x] = AltAt(No, args, x)) /\ \A x : [s EXCEPT !.percent = x] = AltAt(x, args, out)
  BY AltFields
<1>2. ~s.percent
  BY <1>1, Zenon DEF No
<1>3. CASE c = "%"
  <2>1. AltChar(s, c) = [s EXCEPT !.percent = TRUE]
    BY <1>2, <1>3 DEF AltChar
  <2>2. AltChar(s, c) = [s EXCEPT !.percent = Yes]
    BY <2>1, Zenon DEF Yes
  <2>3. QED
    BY <1>1, <1>3, <2>2
<1>4. CASE c # "%"
  <2>1. AltChar(s, c) = Emit(s, <<c>>)
    BY <1>2, <1>4 DEF AltChar
  <2>2. Emit(s, <<c>>) = AltAt(No, args, out \o <<c>>)
    BY <1>1 DEF Emit
  <2>3. QED
    BY <1>4, <2>1, <2>2
<1>5. QED
  BY <1>3, <1>4

\* ... and after the percent sign.
LEMMA AltInside ==
    ASSUME NEW args, NEW out, NEW s, s = AltAt(Yes, args, out)
    PROVE  /\ AltChar(s, "%") = AltAt(No, args, out \o <<"%">>)
           /\ AltChar(s, "c") = AltAt(No, Tail(args), out \o <<Head(args)>>)
           /\ AltChar(s, "s") = AltAt(No, Tail(args), out \o Head(args))
           /\ AltChar(s, "x") = AltAt(No, Tail(args), out \o Hex(Head(args)))
<1>1. s.percent = Yes /\ s.args = args /\ s.out = out
      /\ (\A x : [s EXCEPT !.out = x] = AltAt(Yes, args, x)) /\ \A x : [s EXCEPT !.args = x] = AltAt(Yes, x, out)
  BY AltFields
<1>2. s.percent
  BY <1>1, Zenon DEF Yes
<1>3. ASSUME NEW text PROVE [Emit(s, text) EXCEPT !.percent = FALSE] = AltAt(No, args, out \o text)
  <2> DEFINE t == Emit(s, text)
  <2>1. t = AltAt(Yes, args, out \o text)
    BY <1>1 DEF Emit
  <2> HIDE DEF t
  <2>2. [t EXCEPT !.percent = No] = AltAt(No, args, out \o text)
    BY <2>1, AltFields
  <2>3. QED
    BY <2>2, Zenon DEF t, No
<1>4. ASSUME NEW text PROVE [Emit(Pop(s), text) EXCEPT !.percent = FALSE] = AltAt(No, Tail(args), out \o text)
  <2> DEFINE p == Pop(s)
  <2> DEFINE t == Emit(p, text)
  <2>1. p = AltAt(Yes, Tail(args), out)
    BY <1>1 DEF Pop
  <2> HIDE DEF p
  <2>2. p.out = out /\ \A x : [p EXCEPT !.out = x] = AltAt(Yes, Tail(args), x)
    BY <2>1, AltFields
  <2>3. t = AltAt(Yes, Tail(args), out \o text)
    BY <2>2 DEF Emit
  <2> HIDE DEF t
  <2>4. [t EXCEPT !.percent = No] = AltAt(No, Tail(args), out \o text)
    BY <2>3, AltFields
  <2>5. QED
    BY <2>4, Zenon DEF t, p, No
<1>5. AltChar(s, "%") = [Emit(s, <<"%">>) EXCEPT !.percent = FALSE]
  BY <1>2 DEF AltChar
<1>6. AltChar(s, "c") = [Emit(Pop(s), <<Head(args)>>) EXCEPT !.percent = FALSE]
  BY <1>1, <1>2 DEF AltChar
<1>7. AltChar(s, "s") = [Emit(Pop(s), Head(args)) EXCEPT !.percent = FALSE]
  BY <1>1, <1>2 DEF AltChar
<1>8. AltChar(s, "x") = [Emit(Pop(s), Hex(Head(args))) EXCEPT !.percent = FALSE]
  BY <1>1, <1>2 DEF AltChar
<1>9. QED
  BY <1>3, <1>4, <1>5, <1>6, <1>7, <1>8

\* The directives that alt_printf has: a letter only, or none.
BareKind(d) ==
    \/ \E v \in Numbers : d = Of(WithWidth(<<>>, "x"), <<v>>)
    \/ \E t \in Texts : d = Of(WithWidth(<<>>, "s"), <<t>>)
    \/ \E x \in {"x", "%"} : d = Of(WithWidth(<<>>, "c"), <<x>>)

\* Every directive of alt_printf is one of these.
LEMMA SmallKinds ==
    ASSUME NEW d \in Small
    PROVE  d \in Literals \/ BareKind(d)
<1>1. CASE d \in Literals
  BY <1>1
<1>2. CASE d \in Numeric({<<>>}, {"x"})
  <2> DEFINE none == <<>>
  <2> HIDE DEF none
  <2>1. d \in Numeric({none}, {"x"})
    BY <1>2 DEF none
  <2>2. PICK w \in {none}, c \in {"x"}, v \in Numbers : d = Taking(w, c, v)
    BY <2>1 DEF Numeric
  <2>3. d = Of(WithWidth(none, "x"), <<v>>)
    BY <2>2 DEF Taking, WithWidth
  <2>4. QED
    BY <2>3, Zenon DEF BareKind, none
<1>3. CASE d \in Textual({<<>>})
  <2> DEFINE none == <<>>
  <2> HIDE DEF none
  <2>1. d \in Textual({none})
    BY <1>3 DEF none
  <2>2. PICK w \in {none}, t \in Texts : d = Taking(w, "s", t)
    BY <2>1 DEF Textual
  <2>3. d = Of(WithWidth(none, "s"), <<t>>)
    BY <2>2 DEF Taking, WithWidth
  <2>4. QED
    BY <2>3, Zenon DEF BareKind, none
<1>4. CASE d \in Single({<<>>})
  <2> DEFINE none == <<>>
  <2> HIDE DEF none
  <2>1. d \in Single({none})
    BY <1>4 DEF none
  <2>2. PICK w \in {none}, x \in {"x", "%"} : d = Taking(w, "c", x)
    BY <2>1 DEF Single
  <2>3. d = Of(WithWidth(none, "c"), <<x>>)
    BY <2>2 DEF Taking, WithWidth
  <2>4. QED
    BY <2>3, Zenon DEF BareKind, none
<1>5. QED
  BY <1>1, <1>2, <1>3, <1>4, Zenon DEF Small

\* A directive without a width.
LEMMA NoWidth ==
    ASSUME NEW w \in Seq(WidthCharacters), NEW c, NEW f, f = WithWidth(w, c)
    PROVE  Len(w) = 0 => Len(f) = 2 /\ f[1] = "%" /\ f[2] = c /\ Last(f) = c
<1>1. Len(f) = Len(w) + 2 /\ f[1] = "%" /\ f[Len(w) + 2] = c /\ Last(f) = c
  BY ShapeOf
<1>2. QED
  BY <1>1

\* The characters of such a directive; its width is 0.
LEMMA BareShape ==
    ASSUME NEW c \in {"x", "s", "c"}, NEW f, f = WithWidth(<<>>, c)
    PROVE  Len(f) = 2 /\ f[1] = "%" /\ f[2] = c /\ Last(f) = c /\ WidthOf(f) = 0
<1>1. Len(f) = 2 /\ f[1] = "%" /\ f[2] = c /\ Last(f) = c
  <2> DEFINE none == <<>>
  <2>1. none \in Seq(WidthCharacters) /\ Len(none) = 0
    OBVIOUS
  <2>2. f = WithWidth(none, c)
    OBVIOUS
  <2> HIDE DEF none
  <2>3. QED
    BY <2>1, <2>2, NoWidth, Zenon
<1>2. PICK g : g[0] = 0 /\ (\A i \in 1 .. Len(f) : g[i] = Wider(g[i - 1], f[i])) /\ WidthOf(f) = g[Len(f)]
  BY <1>1, WidthRuns
<1>3. "%" \notin ToSet(Decimals) /\ c \notin ToSet(Decimals)
  BY DecimalsAre DEF Decimal
<1>4. g[1] = 0
  BY <1>1, <1>2, <1>3 DEF Wider
<1>5. g[2] = 0
  BY <1>1, <1>2, <1>3, <1>4 DEF Wider
<1>6. QED
  BY <1>1, <1>2, <1>5

\* A directive was printed by alt_printf for what it means.
AltFollows(q, f) == \A i \in 1 .. Len(f) : q[i] = AltChar(q[i - 1], f[i])
AltPrinted(d, s, rest, out) == \E text \in Seq(Characters) : s = AltAt(No, rest, out \o text) /\ Means(d, text)

\* The hexadecimal digits are a numeral of the number.
LEMMA HexReads ==
    ASSUME NEW v \in 0 .. WordSize - 1
    PROVE  Hex(v) \in Seq(Characters) /\ Reads(Hex(v), v, 16, No)
<1>1. PICK m \in Nat \ {0} : /\ m <= Nibbles /\ v < Sixteens[m] /\ (m > 1 => Sixteens[m - 1] <= v)
                             /\ Hex(v) = NumeralOf(v, Sixteens, 16, m, m, FALSE)
  BY HexIs
<1> DEFINE pv == Sixteens
<1> DEFINE base == 16
<1>2. PlaceValues(pv, base, m)
  BY <1>1, SixteensArePlaces, OutputAssumption DEF PlaceValues
<1>3. v < pv[m] /\ (m > 1 => pv[m - 1] <= v) /\ Hex(v) = NumeralOf(v, pv, base, m, m, No)
  BY <1>1, Zenon DEF No
<1>4. v \in Nat /\ base \in 2 .. 16 /\ No \in BOOLEAN
  <2>1. v \in Nat
    BY OutputAssumption, SixteensArePlaces DEF WordSize
  <2>2. No \in BOOLEAN
    BY Zenon DEF No
  <2>3. QED
    BY <2>1, <2>2
<1> DEFINE upper == No
<1> DEFINE number == NumeralOf(v, pv, base, m, m, upper)
<1>5. v < pv[m] /\ (m > 1 => pv[m - 1] <= v) /\ upper \in BOOLEAN
  BY <1>3, <1>4
<1> HIDE DEF pv, base, upper
<1>6. number = NumeralOf(v, pv, base, m, m, upper)
  OBVIOUS
<1>7. Hex(v) = number
  BY <1>3, <1>6, Zenon DEF upper
<1> HIDE DEF number
<1>8. number \in Seq(Characters) /\ Len(number) = m /\ Reads(number, v, base, upper)
  BY <1>2, <1>4, <1>5, <1>6, NumeralRead, SMTT(30)
<1>9. QED
  BY <1>7, <1>8, Zenon DEF base, upper

\* What is printed for %x is what it asks for.
LEMMA HexMeant ==
    ASSUME NEW v \in 0 .. WordSize - 1, NEW fmt, Last(fmt) = "x", fmt[2] = "x", WidthOf(fmt) = 0
    PROVE  Hex(v) \in Seq(Characters) /\ IsNumber(fmt, v, Hex(v))
<1> DEFINE text == Hex(v)
<1>1. text \in Seq(Characters) /\ Reads(text, v, 16, No)
  BY HexReads
<1>2. IsNumeral(text, v, "x")
  <2>1. (CASE "x" \in {"d", "i", "u"} -> 10 [] "x" = "o" -> 8 [] OTHER -> 16) = 16
    OBVIOUS
  <2>2. ("x" = "X") = No
    BY Zenon DEF No
  <2>3. QED
    BY <1>1, <2>1, <2>2, Zenon DEF Reads, IsNumeral
<1> HIDE DEF text
<1>3. Repeated(Blank, 0) \o <<>> = <<>>
  BY SMT DEF Repeated
<1>4. IsPrefix(<<>>, text) /\ SubSeq(text, Len(<<>>) + 1, Len(text)) = text /\ Len(text) \in Nat /\ Len(text) >= 0
  <2> DEFINE none == <<>>
  <2>1. none \in Seq(Characters) /\ none \o text = text /\ Len(none) = 0
    BY <1>1, ConcatEmptySeq
  <2> HIDE DEF none
  <2>2. IsPrefix(none, none \o text) /\ SubSeq(none \o text, Len(none) + 1, Len(none \o text)) = text /\ Len(text) \in Nat
    <3>1. ASSUME NEW s \in Seq(Characters), NEW t \in Seq(Characters)
          PROVE  IsPrefix(s, s \o t) /\ SubSeq(s \o t, Len(s) + 1, Len(s \o t)) = t /\ Len(t) \in Nat
      BY TakenApart
    <3>2. QED
      BY <1>1, <2>1, <3>1, Zenon
  <2>3. IsPrefix(none, text) /\ SubSeq(text, Len(none) + 1, Len(text)) = text
    BY <2>1, <2>2
  <2>4. QED
    BY <2>2, <2>3 DEF none
<1>5. IsNumber(fmt, v, text)
  <2>1. 0 \in 0 .. Len(text) /\ ~(0 > 0)
    BY <1>4
  <2>2. "x" \notin {"d", "i"} /\ "x" # "0"
    OBVIOUS
  <2>3. QED
    BY <1>2, <1>3, <1>4, <2>1, <2>2, Zenon DEF IsNumber, Blank
<1>6. QED
  BY <1>1, <1>5 DEF text

\* A text or a character is printed as it is.
LEMMA PlainMeant ==
    ASSUME NEW fmt, WidthOf(fmt) = 0, NEW text \in Seq(Characters)
    PROVE  IsPadded(fmt, text, text)
<1>1. Len(text) \in Nat /\ 0 \in 0 .. Len(text) /\ Len(text) >= 0 /\ ~(0 > 0)
  BY LenProperties
<1>2. text = Repeated(Blank, 0) \o text
  <2>1. Repeated(Blank, 0) = <<>>
    BY SMT DEF Repeated
  <2>2. QED
    BY <2>1, ConcatEmptySeq
<1>3. QED
  BY <1>1, <1>2, Zenon DEF IsPadded, Blank

\* What is no directive is printed; two percent signs print one.
LEMMA AltLiterals ==
    ASSUME NEW d \in Literals, NEW rest, NEW out, NEW q, q[0] = AltAt(No, rest, out), AltFollows(q, d.fmt)
    PROVE  AltPrinted(d, q[Len(d.fmt)], rest, out)
<1>1. PICK f \in {<<"x">>, <<"0">>, <<"%", "%">>} : d = Of(f, <<>>)
  BY Zenon DEF Literals
<1>2. d.fmt = f /\ d.args = <<>>
  BY <1>1 DEF Of
<1>3. CASE f \in {<<"x">>, <<"0">>}
  <2>1. PICK x \in {"x", "0"} : f = <<x>>
    BY <1>3, Zenon
  <2>2. Len(<<x>>) = 1 /\ <<x>>[1] = x /\ x # "%" /\ Last(<<x>>) = x
    BY DEF Last
  <2>3. q[1] = AltChar(q[0], x)
    BY <1>2, <2>1, <2>2 DEF AltFollows
  <2>4. q[1] = AltAt(No, rest, out \o <<x>>)
    BY <2>2, <2>3, AltOutside
  <2>5. <<x>> \in Seq(Characters)
    <3>1. x \in Characters
      BY SomeCharacters, Zenon DEF Characters
    <3>2. QED
      BY <3>1
  <2>6. Means(d, <<x>>)
    BY <1>2, <2>1, <2>2 DEF Means
  <2>7. q[Len(d.fmt)] = AltAt(No, rest, out \o <<x>>)
    BY <1>2, <2>1, <2>2, <2>4
  <2>8. QED
    BY <2>5, <2>6, <2>7, Zenon DEF AltPrinted
<1>4. CASE f = <<"%", "%">>
  <2>1. Len(f) = 2 /\ f[1] = "%" /\ f[2] = "%" /\ Last(f) = "%"
    BY <1>4 DEF Last
  <2>2. q[1] = AltChar(q[0], "%") /\ q[2] = AltChar(q[1], "%")
    BY <1>2, <2>1 DEF AltFollows
  <2>3. q[1] = AltAt(Yes, rest, out)
    BY <2>2, AltOutside
  <2>4. q[2] = AltAt(No, rest, out \o <<"%">>)
    BY <2>2, <2>3, AltInside
  <2>5. <<"%">> \in Seq(Characters)
    <3>1. "%" \in Characters
      BY Zenon DEF Characters
    <3>2. QED
      BY <3>1
  <2>6. Means(d, <<"%">>)
    BY <1>2, <2>1 DEF Means
  <2>7. q[Len(d.fmt)] = AltAt(No, rest, out \o <<"%">>)
    BY <1>2, <2>1, <2>4
  <2>8. QED
    BY <2>5, <2>6, <2>7, Zenon DEF AltPrinted
<1>5. QED
  BY <1>3, <1>4

\* The state at the letter of a directive.
LEMMA AltBegun ==
    ASSUME NEW c \in {"x", "s", "c"}, NEW f, f = WithWidth(<<>>, c), NEW args, NEW out, NEW q,
           q[0] = AltAt(No, args, out), AltFollows(q, f)
    PROVE  q[1] = AltAt(Yes, args, out) /\ q[2] = AltChar(q[1], c) /\ Len(f) = 2
<1>1. Len(f) = 2 /\ f[1] = "%" /\ f[2] = c
  BY BareShape
<1>2. q[1] = AltChar(q[0], "%") /\ q[2] = AltChar(q[1], c)
  BY <1>1 DEF AltFollows
<1>3. q[1] = AltAt(Yes, args, out)
  <2> DEFINE s == q[0]
  <2>1. s = AltAt(No, args, out) /\ q[1] = AltChar(s, "%")
    BY <1>2
  <2> HIDE DEF s
  <2>2. AltChar(s, "%") = AltAt(Yes, args, out)
    BY <2>1, AltOutside, ZenonT(60)
  <2>3. QED
    BY <2>1, <2>2
<1>4. QED
  BY <1>1, <1>2, <1>3

\* A number, ...
LEMMA AltNumber ==
    ASSUME NEW v \in Numbers, NEW f, f = WithWidth(<<>>, "x"), NEW rest \in Seq(Arguments), NEW args, args = <<v>> \o rest,
           NEW out, NEW q, q[0] = AltAt(No, args, out), AltFollows(q, f)
    PROVE  AltPrinted(Of(f, <<v>>), q[Len(f)], rest, out)
<1>1. q[1] = AltAt(Yes, args, out) /\ q[2] = AltChar(q[1], "x") /\ Len(f) = 2
  BY AltBegun
<1>2. Head(args) = v /\ Tail(args) = rest
  <2>1. v \in Arguments
    BY DEF Arguments
  <2>2. QED
    BY <2>1, ArgumentTaken
<1>3. q[2] = AltAt(No, rest, out \o Hex(v))
  BY <1>1, <1>2, AltInside
<1>4. Last(f) = "x" /\ f[2] = "x" /\ WidthOf(f) = 0 /\ v \in 0 .. WordSize - 1
  BY BareShape, FormatAssumption
<1> DEFINE text == Hex(v)
<1>5. text \in Seq(Characters) /\ IsNumber(f, v, text)
  BY <1>4, HexMeant, Zenon
<1> HIDE DEF text
<1>6. Means(Of(f, <<v>>), text)
  <2> DEFINE d == Of(f, <<v>>)
  <2>1. d.fmt = f /\ d.args = <<v>> /\ <<v>> # <<>> /\ <<v>>[1] = v
    BY DEF Of
  <2> HIDE DEF d
  <2>2. Means(d, text)
    BY <1>4, <1>5, <2>1 DEF Means
  <2>3. QED
    BY <2>2 DEF d
<1>7. q[Len(f)] = AltAt(No, rest, out \o text)
  BY <1>1, <1>3 DEF text
<1>8. QED
  BY <1>5, <1>6, <1>7, Zenon DEF AltPrinted

\* ... a text ...
LEMMA AltTextual ==
    ASSUME NEW t \in Texts, NEW f, f = WithWidth(<<>>, "s"), NEW rest \in Seq(Arguments), NEW args, args = <<t>> \o rest,
           NEW out, NEW q, q[0] = AltAt(No, args, out), AltFollows(q, f)
    PROVE  AltPrinted(Of(f, <<t>>), q[Len(f)], rest, out)
<1>1. q[1] = AltAt(Yes, args, out) /\ q[2] = AltChar(q[1], "s") /\ Len(f) = 2
  BY AltBegun
<1>2. Head(args) = t /\ Tail(args) = rest
  <2>1. t \in Arguments
    BY DEF Arguments
  <2>2. QED
    BY <2>1, ArgumentTaken
<1>3. q[2] = AltAt(No, rest, out \o t)
  BY <1>1, <1>2, AltInside
<1>4. Last(f) = "s" /\ WidthOf(f) = 0
  BY BareShape
<1>5. t \in Seq(Characters)
  <2>1. STRING \subseteq Characters
    BY Zenon DEF Characters
  <2>2. t \in Seq(STRING)
    BY FormatAssumption
  <2>3. QED
    BY <2>1, <2>2, MoreCharacters, Zenon
<1>6. IsPadded(f, t, t)
  BY <1>4, <1>5, PlainMeant
<1>7. Means(Of(f, <<t>>), t)
  <2> DEFINE d == Of(f, <<t>>)
  <2>1. d.fmt = f /\ d.args = <<t>> /\ <<t>> # <<>> /\ <<t>>[1] = t
    BY DEF Of
  <2> HIDE DEF d
  <2>2. Means(d, t)
    BY <1>4, <1>6, <2>1 DEF Means
  <2>3. QED
    BY <2>2 DEF d
<1>8. q[Len(f)] = AltAt(No, rest, out \o t)
  BY <1>1, <1>3
<1>9. QED
  BY <1>5, <1>7, <1>8, Zenon DEF AltPrinted

\* ... and a character are printed as they are meant.
LEMMA AltSingle ==
    ASSUME NEW x \in {"x", "%"}, NEW f, f = WithWidth(<<>>, "c"), NEW rest \in Seq(Arguments), NEW args, args = <<x>> \o rest,
           NEW out, NEW q, q[0] = AltAt(No, args, out), AltFollows(q, f)
    PROVE  AltPrinted(Of(f, <<x>>), q[Len(f)], rest, out)
<1>1. q[1] = AltAt(Yes, args, out) /\ q[2] = AltChar(q[1], "c") /\ Len(f) = 2
  BY AltBegun
<1>2. Head(args) = x /\ Tail(args) = rest
  <2>1. x \in Arguments
    BY DEF Arguments
  <2>2. QED
    BY <2>1, ArgumentTaken
<1> DEFINE text == <<x>>
<1>3. q[2] = AltAt(No, rest, out \o text)
  <2>1. AltChar(q[1], "c") = AltAt(No, Tail(args), out \o <<Head(args)>>)
    BY <1>1, AltInside
  <2>2. QED
    BY <1>1, <1>2, <2>1
<1>4. Last(f) = "c" /\ WidthOf(f) = 0
  BY BareShape
<1>5. text \in Seq(Characters)
  <2>1. x \in Characters
    BY Zenon DEF Characters
  <2>2. QED
    BY <2>1
<1>6. IsPadded(f, text, text)
  BY <1>4, <1>5, PlainMeant
<1>7. Means(Of(f, <<x>>), text)
  <2> DEFINE d == Of(f, <<x>>)
  <2>1. d.fmt = f /\ d.args = <<x>> /\ <<x>> # <<>>
    BY DEF Of
  <2> HIDE DEF d
  <2>2. Means(d, text)
    BY <1>4, <1>6, <2>1 DEF Means
  <2>3. QED
    BY <2>2 DEF d
<1>8. q[Len(f)] = AltAt(No, rest, out \o text)
  BY <1>1, <1>3
<1>9. QED
  BY <1>5, <1>7, <1>8, Zenon DEF AltPrinted

\* A directive is printed for what it means, whatever was printed before.
LEMMA AltDirective ==
    ASSUME NEW d \in Small, NEW rest \in Seq(Arguments), NEW out, NEW q,
           q[0] = AltAt(No, d.args \o rest, out), AltFollows(q, d.fmt)
    PROVE  AltPrinted(d, q[Len(d.fmt)], rest, out)
<1>1. \A f, args : Of(f, args).fmt = f /\ Of(f, args).args = args
  BY DEF Of
<1>2. CASE d \in Literals
  <2>1. d.args = <<>>
    BY <1>1, <1>2 DEF Literals
  <2>2. <<>> \o rest = rest
    BY ConcatEmptySeq
  <2>3. q[0] = AltAt(No, rest, out)
    BY <2>1, <2>2
  <2>4. QED
    BY <1>2, <2>3, AltLiterals
<1>3. ASSUME NEW v \in Numbers, d = Of(WithWidth(<<>>, "x"), <<v>>) PROVE AltPrinted(d, q[Len(d.fmt)], rest, out)
  <2> DEFINE f == WithWidth(<<>>, "x")
  <2> DEFINE args == <<v>> \o rest
  <2>1. f = WithWidth(<<>>, "x") /\ args = <<v>> \o rest
    BY Zenon
  <2>2. d = Of(f, <<v>>) /\ d.fmt = f /\ d.args = <<v>>
    BY <1>1, <1>3
  <2> HIDE DEF f, args
  <2>3. q[0] = AltAt(No, args, out) /\ AltFollows(q, f)
    BY <2>1, <2>2
  <2>4. AltPrinted(Of(f, <<v>>), q[Len(f)], rest, out)
    BY <2>1, <2>3, AltNumber
  <2>5. QED
    BY <2>2, <2>4
<1>4. ASSUME NEW t \in Texts, d = Of(WithWidth(<<>>, "s"), <<t>>) PROVE AltPrinted(d, q[Len(d.fmt)], rest, out)
  <2> DEFINE f == WithWidth(<<>>, "s")
  <2> DEFINE args == <<t>> \o rest
  <2>1. f = WithWidth(<<>>, "s") /\ args = <<t>> \o rest
    BY Zenon
  <2>2. d = Of(f, <<t>>) /\ d.fmt = f /\ d.args = <<t>>
    BY <1>1, <1>4
  <2> HIDE DEF f, args
  <2>3. q[0] = AltAt(No, args, out) /\ AltFollows(q, f)
    BY <2>1, <2>2
  <2>4. AltPrinted(Of(f, <<t>>), q[Len(f)], rest, out)
    BY <2>1, <2>3, AltTextual
  <2>5. QED
    BY <2>2, <2>4
<1>5. ASSUME NEW x \in {"x", "%"}, d = Of(WithWidth(<<>>, "c"), <<x>>) PROVE AltPrinted(d, q[Len(d.fmt)], rest, out)
  <2> DEFINE f == WithWidth(<<>>, "c")
  <2> DEFINE args == <<x>> \o rest
  <2>1. f = WithWidth(<<>>, "c") /\ args = <<x>> \o rest
    BY Zenon
  <2>2. d = Of(f, <<x>>) /\ d.fmt = f /\ d.args = <<x>>
    BY <1>1, <1>5
  <2> HIDE DEF f, args
  <2>3. q[0] = AltAt(No, args, out) /\ AltFollows(q, f)
    BY <2>1, <2>2
  <2>4. AltPrinted(Of(f, <<x>>), q[Len(f)], rest, out)
    BY <2>1, <2>3, AltSingle
  <2>5. QED
    BY <2>2, <2>4
<1>6. d \in Literals \/ BareKind(d)
  BY SmallKinds
<1>7. QED
  BY <1>2, <1>3, <1>4, <1>5, <1>6, Zenon DEF BareKind

\* alt_printf.
LEMMA AltMeans ==
    ASSUME NEW first, NEW second, first \in Small, second \in Small
    PROVE  Together(first, second, AltText(first.fmt \o second.fmt, first.args \o second.args))
<1> DEFINE f == first.fmt
<1> DEFINE g == second.fmt
<1> DEFINE rest == second.args
<1> DEFINE fmt == f \o g
<1> DEFINE args == first.args \o rest
<1>1. f \in Seq(FormatCharacters) /\ g \in Seq(FormatCharacters) /\ rest \in Seq(Arguments)
  BY KindOf, DirectiveTyped
<1>2. fmt = f \o g
  OBVIOUS
<1>3. AltText(fmt, args) = AltText(first.fmt \o second.fmt, first.args \o second.args)
  OBVIOUS
<1>4. f = first.fmt /\ g = second.fmt /\ rest = second.args /\ args = first.args \o rest
  OBVIOUS
<1> HIDE DEF f, g, rest, fmt, args
<1>5. /\ \A i \in 1 .. Len(f) : i \in 1 .. Len(fmt) /\ fmt[i] = f[i]
      /\ \A i \in 1 .. Len(g) : Len(f) + i \in 1 .. Len(fmt) /\ fmt[Len(f) + i] = g[i]
  BY <1>1, <1>2, Formats
<1>6. Len(f) \in Nat /\ Len(g) \in Nat /\ Len(fmt) = Len(f) + Len(g) /\ Len(fmt) \in Nat
  <2>1. Len(f) \in Nat /\ Len(g) \in Nat /\ Len(fmt) = Len(f) + Len(g)
    BY <1>1, <1>2, Formats
  <2>2. QED
    BY <2>1
<1>7. PICK r : /\ r[0] = AltStart(args) /\ \A i \in 1 .. Len(fmt) : r[i] = AltChar(r[i - 1], fmt[i])
               /\ AltText(fmt, args) = r[Len(fmt)].out
  BY <1>6, AltRuns
<1> DEFINE q == [i \in 0 .. Len(g) |-> r[Len(f) + i]]
<1>8. AltFollows(r, f)
  <2>1. ASSUME NEW i \in 1 .. Len(f) PROVE r[i] = AltChar(r[i - 1], f[i])
    BY <1>5, <1>7
  <2>2. QED
    BY <2>1 DEF AltFollows
<1>9. AltFollows(q, g) /\ q[0] = r[Len(f)] /\ q[Len(g)] = r[Len(fmt)]
  <2>1. ASSUME NEW i \in 1 .. Len(g) PROVE q[i] = AltChar(q[i - 1], g[i])
    <3>1. i \in 0 .. Len(g) /\ i - 1 \in 0 .. Len(g) /\ (Len(f) + i) - 1 = Len(f) + (i - 1)
      BY <1>6
    <3>2. r[Len(f) + i] = AltChar(r[(Len(f) + i) - 1], fmt[Len(f) + i]) /\ fmt[Len(f) + i] = g[i]
      BY <1>5, <1>7
    <3>3. r[Len(f) + i] = AltChar(r[Len(f) + (i - 1)], g[i])
      BY <3>1, <3>2
    <3>4. q[i] = r[Len(f) + i] /\ q[i - 1] = r[Len(f) + (i - 1)]
      BY <3>1
    <3>5. QED
      BY <3>3, <3>4
  <2>2. q[0] = r[Len(f)] /\ q[Len(g)] = r[Len(fmt)]
    <3>1. 0 \in 0 .. Len(g) /\ Len(g) \in 0 .. Len(g) /\ Len(f) + 0 = Len(f)
      BY <1>6
    <3>2. q[0] = r[Len(f) + 0] /\ q[Len(g)] = r[Len(f) + Len(g)]
      BY <3>1
    <3>3. QED
      BY <1>6, <3>1, <3>2
  <2> HIDE DEF q
  <2>3. QED
    BY <2>1, <2>2 DEF AltFollows
<1> HIDE DEF q
<1>10. r[0] = AltAt(No, args, <<>>)
  BY <1>7, Zenon DEF AltStart, AltAt, No
<1>11. AltPrinted(first, r[Len(f)], rest, <<>>)
  <2>1. r[0] = AltAt(No, first.args \o rest, <<>>) /\ AltFollows(r, first.fmt)
    BY <1>4, <1>8, <1>10
  <2>2. QED
    BY <1>1, <1>4, <2>1, AltDirective
<1>12. PICK s \in Seq(Characters) : r[Len(f)] = AltAt(No, rest, <<>> \o s) /\ Means(first, s)
  BY <1>11, Zenon DEF AltPrinted
<1>13. AltPrinted(second, q[Len(g)], <<>>, <<>> \o s)
  <2> DEFINE none == <<>>
  <2>1. none \in Seq(Arguments) /\ rest \o none = rest
    BY <1>1, ConcatEmptySeq
  <2> HIDE DEF none
  <2>2. q[0] = AltAt(No, second.args \o none, <<>> \o s) /\ AltFollows(q, second.fmt)
    BY <1>4, <1>9, <1>12, <2>1
  <2>3. AltPrinted(second, q[Len(second.fmt)], none, <<>> \o s)
    BY <2>1, <2>2, AltDirective
  <2>4. QED
    BY <1>4, <2>3 DEF none
<1>14. PICK t \in Seq(Characters) : r[Len(fmt)] = AltAt(No, <<>>, (<<>> \o s) \o t) /\ Means(second, t)
  <2>1. PICK t \in Seq(Characters) : q[Len(g)] = AltAt(No, <<>>, (<<>> \o s) \o t) /\ Means(second, t)
    BY <1>13, Zenon DEF AltPrinted
  <2>2. QED
    BY <1>9, <2>1
<1>15. AltText(fmt, args) = (<<>> \o s) \o t
  <2> DEFINE text == (<<>> \o s) \o t
  <2>1. r[Len(fmt)] = AltAt(No, <<>>, text)
    BY <1>14
  <2> HIDE DEF text
  <2>2. r[Len(fmt)].out = text
    BY <2>1, AltFields
  <2>3. QED
    BY <1>7, <2>2 DEF text
<1>16. QED
  BY <1>3, <1>12, <1>14, <1>15, OneAfterTheOther

\* Only the printfs' own actions give them their result.
LEMMA PrintSteps ==
    ASSUME [LibraryNext]_libraryVars, call'.routine \in {"log", "alt_printf"}
    PROVE  UNCHANGED libraryVars \/ Log \/ AltPrintf
<1>1. CASE LogWrite
  BY <1>1 DEF LogWrite
<1>2. CASE Resumed
  BY <1>2 DEF Resumed, Idle
<1>3. CASE Clock
  BY <1>3 DEF Clock
<1>4. CASE Usleep
  BY <1>4 DEF Usleep
<1>5. CASE Flushing
  BY <1>5, FlushingCall
<1>6. CASE Ioctl
  BY <1>6 DEF Ioctl
<1>7. QED
  BY <1>1, <1>2, <1>3, <1>4, <1>5, <1>6 DEF LibraryNext, Flushing

\* Both printfs print what the directives stand for, for any two directives
\* that have a number of one word, a text or a character as their argument, any
\* width and any base, and the echo of write() shows what was written.
THEOREM TextTheorem == LibrarySpec => []TextRight
<1> DEFINE Right == call.routine \in {"log", "alt_printf"} => Together(call.first, call.second, call.text)
<1>1. LibraryInit => Right
  BY DEF LibraryInit, Idle
<1>2. Right /\ [LibraryNext]_libraryVars => Right'
  <2> SUFFICES ASSUME Right, [LibraryNext]_libraryVars, call'.routine \in {"log", "alt_printf"}
               PROVE  Together(call.first, call.second, call.text)'
    OBVIOUS
  <2>1. CASE UNCHANGED libraryVars
    BY <2>1, Zenon DEF libraryVars, Together
  <2>2. CASE Log
    <3>1. PICK d \in Directives, e \in Followers :
            call' = [routine |-> "log", first |-> d, second |-> e,
                     text |-> LogText(d.fmt \o e.fmt, d.args \o e.args)]
      BY <2>2, Zenon DEF Log
    <3>2. IsDirective(d) /\ IsDirective(e)
      BY KindOf
    <3>3. call'.first = d /\ call'.second = e /\ call'.text = LogText(d.fmt \o e.fmt, d.args \o e.args)
      BY <3>1
    <3>4. Together(d, e, LogText(d.fmt \o e.fmt, d.args \o e.args))
      BY <3>2, LogMeans
    <3>5. QED
      BY <3>3, <3>4 DEF Together
  <2>3. CASE AltPrintf
    <3>1. PICK d \in Small, e \in Small :
            call' = [routine |-> "alt_printf", first |-> d, second |-> e,
                     text |-> AltText(d.fmt \o e.fmt, d.args \o e.args)]
      BY <2>3, Zenon DEF AltPrintf
    <3>2. call'.first = d /\ call'.second = e /\ call'.text = AltText(d.fmt \o e.fmt, d.args \o e.args)
      BY <3>1
    <3>3. Together(d, e, AltText(d.fmt \o e.fmt, d.args \o e.args))
      BY AltMeans
    <3>4. QED
      BY <3>2, <3>3 DEF Together
  <2>4. QED
    BY <2>1, <2>2, <2>3, PrintSteps
<1>3. Right /\ EchoRight => TextRight
  BY Zenon DEF TextRight, Together
<1>4. QED
  BY <1>1, <1>2, <1>3, EchoTheorem, PTL DEF LibrarySpec
=============================================================================
