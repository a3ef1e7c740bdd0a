------------------------------ MODULE Profiler ------------------------------
(* Profiling in the HAL: mcount (alt_mcount.S), which the compiler calls at  *)
(* the start of every function, __mcount_record and the start of the PC      *)
(* sampler (alt_gmon.c), and sbrk (alt_sbrk.c) under them.                   *)
(*                                                                           *)
(* The application runs mcount one access to shared memory at a time.  A     *)
(* handler calls instrumented functions too, with interrupts off: its mcount *)
(* is one step, between any two of the application's.                        *)
(*                                                                           *)
(* A list that grows at its head is a sequence whose last element is the     *)
(* head: a pointer to a node stays its index.  The hash buckets are left     *)
(* out: a function is looked up among those of its own bucket, hence by its  *)
(* self_pc alone.  Memory is counted in records: a function entry and an arc *)
(* have twelve bytes each.                                                   *)
EXTENDS Naturals, Sequences, SequencesExt, FiniteSets, FiniteSetsExt

CONSTANTS Arcs,         \* the calls of the application, [self_pc, from_pc]
          IrqArcs,      \* the calls of handlers
          AlarmStart,   \* the call of alt_alarm_start in nios2_pcsample_init
          SlabRecords,  \* MCOUNT_SLAB_INCREMENT, 85 records
          HistRecords,  \* the histogram
          HeapRecords,  \* what sbrk has to give
          MaxCalls      \* bound: the calls of each side

AllArcs == Arcs \cup IrqArcs \cup {AlarmStart}

ASSUME ProfilerAssumption ==
    /\ SlabRecords \in Nat \ {0}
    /\ {HistRecords, HeapRecords, MaxCalls} \subseteq Nat
    /\ AllArcs \subseteq
         [self_pc : {a.self_pc : a \in AllArcs}, from_pc : {a.from_pc : a \in AllArcs}]
    /\ AlarmStart \notin Arcs \cup IrqArcs

VARIABLES
    mem,        \* the globals of alt_gmon.c, and the heap
    timer,      \* alt_ticks_per_second() is not 0
    stack,      \* the application in mcount: the running call is the last
    mainCalls,  \* history: the calls of the application that are through
    irqCalls,   \* history: the calls of handlers
    recorded    \* history: an arc was added while the timer ran

profilerVars == <<mem, timer, stack, mainCalls, irqCalls, recorded>>
history == <<mainCalls, irqCalls, recorded>>

NULL == 0

Globals == [entries : Seq([self_pc : {a.self_pc : a \in AllArcs},
                           arcs : Seq([from_pc : {a.from_pc : a \in AllArcs}, count : Nat])]),
            need_init : BOOLEAN, slab : 0 .. SlabRecords, heap : 0 .. HeapRecords,
            started : 0 .. 2, wild : BOOLEAN]

ProfilerInit ==
    /\ mem = [entries |-> <<>>, need_init |-> TRUE, slab |-> 0, heap |-> HeapRecords,
              started |-> 0, wild |-> FALSE]
    /\ timer = FALSE
    /\ stack = <<>>
    /\ mainCalls = [a \in AllArcs |-> 0]
    /\ irqCalls = [a \in AllArcs |-> 0]
    /\ recorded = FALSE

-----------------------------------------------------------------------------
(* Operations on the memory.                                                *)

Newest(S) == IF S = {} THEN NULL ELSE Max(S)
EntriesOf(m, a) == {e \in DOMAIN m.entries : m.entries[e].self_pc = a.self_pc}
EntryOf(m, a) == Newest(EntriesOf(m, a))

\* Mutant: looks at the head of the list only.
ArcAtHead(m, e, a) ==
    LET k == Len(m.entries[e].arcs) IN IF m.entries[e].arcs[k].from_pc = a.from_pc THEN k ELSE NULL

Copies(m, e, a) ==
    {k \in DOMAIN m.entries[e].arcs : m.entries[e].arcs[k].from_pc = a.from_pc}
ArcOf(m, e, a) == Newest(Copies(m, e, a))

\* sbrk fails with -1, which no caller tests for: what it writes then is
\* written at the end of the address space.
Sbrk(m, size) ==
    IF size <= m.heap THEN [m EXCEPT !.heap = @ - size] ELSE [m EXCEPT !.wild = TRUE]

Allocate(m) ==
    IF m.slab > 0 THEN [m EXCEPT !.slab = @ - 1]
    ELSE [Sbrk(m, SlabRecords) EXCEPT !.slab = SlabRecords - 1]

NewEntry(m, a) == [Allocate(m) EXCEPT !.entries = Append(@, [self_pc |-> a.self_pc, arcs |-> <<>>])]

\* Mutant: the call that makes a new arc is not counted.
NewArcUncounted(m, e, a) ==
    [Allocate(m) EXCEPT !.entries[e].arcs = Append(@, [from_pc |-> a.from_pc, count |-> 0])]

NewArc(m, e, a) ==
    [Allocate(m) EXCEPT !.entries[e].arcs = Append(@, [from_pc |-> a.from_pc, count |-> 1])]

\* The critical section of __mcount_record, with what mcount found.
AddArc(m, a, fn_entry) ==
    IF fn_entry # NULL THEN NewArc(m, fn_entry, a)
    ELSE NewArc(NewEntry(m, a), Len(m.entries) + 1, a)

Counted(m, e, k, n) == [m EXCEPT !.entries[e].arcs[k].count = n]

\* mcount from end to end, the sampler aside: what a handler's call does.
Recorded(m, a) ==
    LET e == EntryOf(m, a)
        k == IF e = NULL THEN NULL ELSE ArcOf(m, e, a)
    IN IF k # NULL THEN Counted(m, e, k, m.entries[e].arcs[k].count + 1) ELSE AddArc(m, a, e)

Known(m, a) == EntryOf(m, a) # NULL /\ ArcOf(m, EntryOf(m, a), a) # NULL

\* nios2_pcsample_init from end to end, with the call of alt_alarm_start in
\* it, which is instrumented and finds pcsample_need_init cleared.
Sampling(m) ==
    LET h == Sbrk([m EXCEPT !.need_init = FALSE], HistRecords)
    IN [Recorded(h, AlarmStart) EXCEPT !.started = @ + 1]

Starts(m, a) == ~Known(m, a) /\ m.need_init /\ timer

\* mcount in a handler, the sampler included.
Handled(m, a) == IF Starts(m, a) THEN AddArc(Sampling(m), a, EntryOf(m, a)) ELSE Recorded(m, a)

-----------------------------------------------------------------------------
(* The application.                                                         *)

Frame(a) == [pc |-> "entry", call |-> a, fn_entry |-> NULL, arc |-> NULL, count |-> 0]
top == stack[Len(stack)]
Goto(f) == stack' = [stack EXCEPT ![Len(stack)] = f]
Return ==
    /\ stack' = Front(stack)
    /\ mainCalls' = [mainCalls EXCEPT ![top.call] = @ + 1]
At(pc) == ~mem.wild /\ stack # <<>> /\ top.pc = pc

\* The application calls a function.
Call(a) ==
    /\ ~mem.wild /\ stack = <<>> /\ mainCalls[a] < MaxCalls
    /\ stack' = <<Frame(a)>>
    /\ UNCHANGED <<mem, timer, history>>

\* The head of the bucket is read; its nodes do not change.
FindEntry ==
    /\ At("entry")
    /\ LET e == EntryOf(mem, top.call)
       IN Goto([top EXCEPT !.fn_entry = e, !.pc = IF e = NULL THEN "record" ELSE "arc"])
    /\ UNCHANGED <<mem, timer, history>>

FindArc ==
    /\ At("arc")
    /\ LET k == ArcOf(mem, top.fn_entry, top.call)
       IN Goto([top EXCEPT !.arc = k, !.pc = IF k = NULL THEN "record" ELSE "load"])
    /\ UNCHANGED <<mem, timer, history>>

LoadCount ==
    /\ At("load")
    /\ Goto([top EXCEPT !.count = mem.entries[top.fn_entry].arcs[top.arc].count, !.pc = "store"])
    /\ UNCHANGED <<mem, timer, history>>

StoreCount ==
    /\ At("store")
    /\ mem' = Counted(mem, top.fn_entry, top.arc, top.count + 1)
    /\ Return
    /\ UNCHANGED <<timer, irqCalls, recorded>>

TestInit ==
    /\ At("record")
    /\ Goto([top EXCEPT !.pc = IF mem.need_init THEN "clear" ELSE "add"])
    /\ UNCHANGED <<mem, timer, history>>

ClearInit ==
    /\ At("clear")
    /\ mem' = [mem EXCEPT !.need_init = FALSE]
    /\ Goto([top EXCEPT !.pc = IF timer THEN "histogram" ELSE "stopped"])
    /\ UNCHANGED <<timer, history>>

Histogram ==
    /\ At("histogram")
    /\ mem' = Sbrk(mem, HistRecords)
    /\ Goto([top EXCEPT !.pc = "alarm"])
    /\ UNCHANGED <<timer, history>>

\* The call of alt_alarm_start begins with mcount as well.
EnterAlarmStart ==
    /\ At("alarm")
    /\ stack' = Append([stack EXCEPT ![Len(stack)].pc = "start"], Frame(AlarmStart))
    /\ UNCHANGED <<mem, timer, history>>

StartSampler ==
    /\ At("start")
    /\ mem' = [mem EXCEPT !.started = @ + 1]
    /\ Goto([top EXCEPT !.pc = "started"])
    /\ UNCHANGED <<timer, history>>

\* Mutant: the result is not looked at.
TriedOnce(pc) ==
    /\ At(pc)
    /\ mem' = [mem EXCEPT !.need_init = FALSE]
    /\ Goto([top EXCEPT !.pc = "add"])
    /\ UNCHANGED <<timer, history>>

\* pcsample_need_init becomes what nios2_pcsample_init returned.
SetInit(pc) ==
    /\ At(pc)
    /\ mem' = [mem EXCEPT !.need_init = (pc = "stopped")]
    /\ Goto([top EXCEPT !.pc = "add"])
    /\ UNCHANGED <<timer, history>>

Record ==
    /\ At("add")
    /\ mem' = AddArc(mem, top.call, top.fn_entry)
    /\ Return
    /\ recorded' = (recorded \/ timer)
    /\ UNCHANGED <<timer, irqCalls>>

\* The system clock's driver starts the timer, between two calls.
StartTimer ==
    /\ ~mem.wild /\ stack = <<>> /\ ~timer
    /\ timer' = TRUE
    /\ UNCHANGED <<mem, stack, history>>

-----------------------------------------------------------------------------
(* A handler calls a function.                                              *)

Interrupt(a) ==
    /\ ~mem.wild /\ irqCalls[a] < MaxCalls
    /\ mem' = Handled(mem, a)
    /\ irqCalls' = [b \in AllArcs |->
           irqCalls[b] + (IF b = a \/ (b = AlarmStart /\ Starts(mem, a)) THEN 1 ELSE 0)]
    /\ recorded' = (recorded \/ (timer /\ ~Known(mem, a)))
    /\ UNCHANGED <<timer, stack, mainCalls>>

ProfilerNext ==
    \/ \E a \in Arcs : Call(a)
    \/ FindEntry \/ FindArc \/ LoadCount \/ StoreCount
    \/ TestInit \/ ClearInit \/ Histogram \/ EnterAlarmStart \/ StartSampler
    \/ \E pc \in {"stopped", "started"} : SetInit(pc)
    \/ Record \/ StartTimer
    \/ \E a \in IrqArcs : Interrupt(a)

ProfilerSpec == ProfilerInit /\ [][ProfilerNext]_profilerVars
-----------------------------------------------------------------------------
(* Properties.                                                              *)

Pcs == {"entry", "arc", "load", "store", "record", "clear", "histogram", "alarm", "start",
        "started", "stopped", "add"}

ProfilerTypes ==
    /\ mem \in Globals /\ timer \in BOOLEAN /\ recorded \in BOOLEAN
    /\ stack \in Seq([pc : Pcs, call : AllArcs, fn_entry : Nat, arc : Nat, count : Nat])
    /\ Len(stack) <= 2
    /\ mainCalls \in [AllArcs -> Nat] /\ irqCalls \in [AllArcs -> Nat]

\* "There will always be at least one arc", says alt_mcount.S, and follows the
\* first one without a test.
AtLeastOneArc == \A e \in DOMAIN mem.entries : mem.entries[e].arcs # <<>>

\* The functions of which the application is in mcount once at a time: not
\* alt_alarm_start, when it calls that one itself.
OneAtATime ==
    {a \in AllArcs : a.self_pc = AlarmStart.self_pc => \A b \in Arcs : b.self_pc # a.self_pc}

\* However handlers cut in, such a function has at most two entries, a list at
\* most two copies of an arc, and the older entry one of each.
FewCopies ==
    \A a \in OneAtATime :
        /\ Cardinality(EntriesOf(mem, a)) <= 2
        /\ \A e \in EntriesOf(mem, a) :
              Cardinality(Copies(mem, e, a)) <= IF e = EntryOf(mem, a) THEN 2 ELSE 1

\* The calls that the copies of an arc have counted, one element each.
Counts(m, a) ==
    UNION {UNION {{<<e, k, n>> : n \in 1 .. m.entries[e].arcs[k].count} :
                  k \in Copies(m, e, a)} : e \in EntriesOf(m, a)}

\* The copies of an arc together have counted every call of the application,
\* and no call twice: only calls of handlers that fall between a load and a
\* store may be missing.
CallsCounted ==
    ~mem.wild => \A a \in AllArcs :
        /\ mainCalls[a] <= Cardinality(Counts(mem, a))
        /\ Cardinality(Counts(mem, a)) <= mainCalls[a] + irqCalls[a]

\* Once a new arc was recorded with the timer running, the sampler runs.
SamplerRuns == ~mem.wild /\ recorded /\ stack = <<>> => mem.started > 0

\* "This function might be called at interrupt time so must be able to cope
\* with reentrancy": the sampler's alarm is started once.
SamplerStartedOnce == mem.started <= 1

-----------------------------------------------------------------------------
(* The inductive invariant.                                                 *)

Frames == {stack[i] : i \in DOMAIN stack}

\* The second call is that of alt_alarm_start, made by the first.
StackInv ==
    /\ stack # <<>> => stack[1].call \in Arcs
    /\ Len(stack) = 2 =>
          /\ stack[1].pc = "start" /\ ~mem.need_init
          /\ stack[2].call = AlarmStart
          /\ stack[2].pc \in {"entry", "arc", "load", "store", "record", "add"}

\* A frame's pointers point to what it looked for, and a count it has loaded
\* is not ahead of the one in memory.
FrameInv(m, f) ==
    /\ f.fn_entry # NULL => f.fn_entry \in EntriesOf(m, f.call)
    /\ f.pc \in {"arc", "load", "store"} => f.fn_entry # NULL
    /\ f.pc \in {"load", "store"} => f.arc \in Copies(m, f.fn_entry, f.call)
    /\ f.pc = "store" => f.count <= m.entries[f.fn_entry].arcs[f.arc].count

\* Somebody is starting the sampler.
Starting == \E f \in Frames : f.pc \in {"histogram", "alarm", "start"}

\* Who finds pcsample_need_init cleared finds the sampler started, or about to
\* be, or the timer stopped.
SamplerInv ==
    /\ mem.need_init => mem.started = 0 /\ ~Starting
    /\ ~mem.need_init => mem.started > 0 \/ Starting \/ \E f \in Frames : f.pc = "stopped"
    /\ mem.started > 0 \/ Starting => timer
    /\ recorded => timer /\ (mem.started > 0 \/ Starting)
    /\ \A f \in Frames :
          /\ f.pc \in {"clear", "histogram", "alarm", "start"} => mem.started <= 1
          /\ f.pc = "started" => mem.started > 0
          /\ f.pc = "stopped" => ~timer /\ ~mem.need_init
          /\ f.pc = "add" => ~timer \/ mem.started > 0 \/ Starting

Once(m, e, a) == \A j, k \in Copies(m, e, a) : j = k
SameFunction(a) == {b \in AllArcs : b.self_pc = a.self_pc}

\* No third entry, no third copy, and an older entry has one of each.
AtMostTwo(m, a) ==
    /\ \A c, d, e \in EntriesOf(m, a) : ~(c < d /\ d < e)
    /\ \A d, e \in EntriesOf(m, a) : d < e => Once(m, d, a)
    /\ \A e \in EntriesOf(m, a) : \A i, j, k \in Copies(m, e, a) : ~(i < j /\ j < k)

\* What a call found, and did not find, leaves room for what it adds.
Room(m, f) ==
    IF f.fn_entry = NULL
    THEN \A d, e \in EntriesOf(m, f.call) :
            d = e /\ \A b \in SameFunction(f.call) : Once(m, e, b)
    ELSE /\ f.fn_entry = EntryOf(m, f.call)
         /\ f.pc \notin {"arc", "load", "store"} => Once(m, f.fn_entry, f.call)

CopiesInv ==
    /\ \A a \in OneAtATime : AtMostTwo(mem, a)
    /\ \A f \in Frames : f.call \in OneAtATime /\ f.pc # "entry" => Room(mem, f)

\* The counts that the call about to store its own will undo.
Undone ==
    IF stack # <<>> /\ top.pc = "store"
    THEN {<<top.fn_entry, top.arc, n>> :
             n \in top.count + 1 .. mem.entries[top.fn_entry].arcs[top.arc].count}
    ELSE {}

CountInv ==
    \A a \in AllArcs :
        /\ IsFiniteSet(Counts(mem, a))
        /\ mainCalls[a] <= Cardinality(Counts(mem, a) \ Undone)
        /\ Cardinality(Counts(mem, a)) <= mainCalls[a] + irqCalls[a]

ProfilerInv ==
    /\ ProfilerTypes /\ AtLeastOneArc /\ FewCopies
    /\ StackInv /\ (\A f \in Frames : FrameInv(mem, f)) /\ SamplerInv /\ CopiesInv /\ CountInv
=============================================================================
