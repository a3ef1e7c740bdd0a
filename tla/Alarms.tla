-------------------------------- MODULE Alarms --------------------------------
(***************************************************************************)
(* Interrupts and alarms of the HAL: the dispatcher of the internal        *)
(* interrupt controller, the registration of handlers, the nesting of      *)
(* alt_irq_disable_all, the doubly linked list of alarms, and alt_tick,    *)
(* which the handler of the system timer calls.                            *)
(*                                                                         *)
(* Two levels run library calls: the application ("app"), and a callback   *)
(* inside alt_tick ("cb").  An interrupt may come between any two steps of *)
(* the application as long as status.PIE is set.  A call consists of       *)
(* alt_irq_disable_all, its body, and alt_irq_enable_all with the context  *)
(* that the first one returned.                                            *)
(*                                                                         *)
(* left[a] is the number of ticks until alarm a is due, counted without    *)
(* wrapping; no code reads it.                                             *)
(***************************************************************************)
EXTENDS Integers, FiniteSets

CONSTANTS
    Alarm,          \* the alt_alarm structures of the application
    Head, NoLink,   \* &alt_alarm_list, and the null pointer
    Wrap,           \* 2^32: ticks are 32 bits wide
    Delays,         \* arguments nticks of alt_alarm_start
    Periods,        \* values a callback returns
    TimerIrq, UartIrq   \* interrupt numbers; a lower one has priority

ASSUME WrapAssumption == Wrap \in Nat /\ Wrap >= 2
ASSUME NodeAssumption == Head \notin Alarm /\ NoLink \notin Alarm \cup {Head}
\* alt_alarm_start cannot express Wrap ticks: a delay of Wrap - 1 fires at once.
ASSUME DelayAssumption == Delays \subseteq 0 .. Wrap - 2 /\ Periods \subseteq 0 .. Wrap - 1
ASSUME IrqAssumption == TimerIrq \in Nat /\ UartIrq \in Nat /\ TimerIrq # UartIrq

VARIABLES
    ticking,            \* _alt_tick_rate is not zero
    nticks,             \* _alt_nticks
    next, previous,     \* links of the list head and of the alarms
    time, rollover,     \* fields of the alarms
    left,               \* ticks until due
    pie, ienable,       \* status.PIE, and the interrupts enabled
    line,               \* the interrupt requests of the devices
    registered,         \* alt_irq: the interrupts with a handler
    isr, cursor, saved, \* where the interrupt handler is; alarm and next in alt_tick
    called,             \* the callback has made its call
    pc, op, ctx,        \* per level: the library call, what it does, saved context
    outer               \* the application is between a disable_all and enable_all of its own

links == <<next, previous>>
fields == <<time, rollover, left>>
alarms == <<nticks, links, fields>>
irqs == <<ienable, line, registered>>
handler == <<isr, cursor, saved, called>>
calls == <<pc, op, ctx>>
vars == <<ticking, alarms, pie, irqs, handler, calls, outer>>

Level == {"app", "cb"}
Irq == {TimerIrq, UartIrq}
Node == Alarm \cup {Head}

NoOp == [kind |-> "none"]
Ops == {NoOp} \cup [kind : {"start"}, alarm : Alarm, nticks : Delays]
       \cup [kind : {"stop"}, alarm : Alarm]
       \cup [kind : {"register"}, irq : Irq, isr : BOOLEAN]

\* An alarm is in the list when it is linked to another node.
InList(a) == next[a] \notin {a, NoLink}

TypeOK ==
    /\ ticking \in BOOLEAN /\ nticks \in 0 .. Wrap - 1
    /\ next \in [Node -> Node \cup {NoLink}] /\ previous \in [Node -> Node \cup {NoLink}]
    /\ time \in [Alarm -> 0 .. Wrap - 1] /\ rollover \in [Alarm -> BOOLEAN]
    /\ left \in [Alarm -> 0 .. Wrap - 1]
    /\ pie \in BOOLEAN /\ ienable \subseteq Irq /\ line \subseteq Irq /\ registered \subseteq Irq
    /\ isr \in {"off", "dispatch", "tick", "callback"}
    /\ cursor \in Node /\ saved \in Node /\ called \in BOOLEAN
    /\ pc \in [Level -> {"idle", "disable", "body", "link", "ienable", "enable"}]
    /\ op \in [Level -> Ops]
    /\ ctx \in [Level -> BOOLEAN] /\ outer \in BOOLEAN

\* After alt_irq_init: no handler, interrupts on; static storage is zero.
Init ==
    /\ ticking = FALSE /\ nticks = 0
    /\ next = [x \in Node |-> IF x = Head THEN Head ELSE NoLink]
    /\ previous = next
    /\ time = [a \in Alarm |-> 0] /\ rollover = [a \in Alarm |-> FALSE]
    /\ left = [a \in Alarm |-> 0]
    /\ pie = TRUE /\ ienable = {} /\ line = {} /\ registered = {}
    /\ isr = "off" /\ cursor = Head /\ saved = Head /\ called = FALSE
    /\ pc = [l \in Level |-> "idle"] /\ op = [l \in Level |-> NoOp]
    /\ ctx = [l \in Level |-> FALSE] /\ outer = FALSE

-----------------------------------------------------------------------------
(* The interrupt controller and the dispatcher *)

Pending == line \cap ienable
Lowest == CHOOSE i \in Pending : \A j \in Pending : i <= j

\* A device asks for service.
Request(i) ==
    /\ i \notin line
    /\ i = TimerIrq => ticking
    /\ line' = line \cup {i}
    /\ UNCHANGED <<ticking, alarms, pie, ienable, registered, handler, calls, outer>>

\* The exception entry clears PIE.
TakeInterrupt ==
    /\ pie /\ Pending # {}
    /\ pie' = FALSE
    /\ isr' = "dispatch"
    /\ UNCHANGED <<ticking, alarms, irqs, cursor, saved, called, calls, outer>>

Expiring(x) == IF InList(x) /\ left[x] > 0 THEN left[x] - 1 ELSE left[x]

\* alt_irq_handler calls the handler of the lowest number pending.  The one of
\* the timer clears the request and calls alt_tick; the other one clears its own.
Dispatch ==
    /\ isr = "dispatch"
    /\ Pending # {}
    /\ line' = line \ {Lowest}
    /\ IF Lowest = TimerIrq
       THEN /\ nticks' = (nticks + 1) % Wrap
            /\ cursor' = next[Head]
            /\ left' = [a \in Alarm |-> Expiring(a)]
            /\ isr' = "tick"
       ELSE UNCHANGED <<nticks, cursor, left, isr>>
    /\ UNCHANGED <<ticking, links, time, rollover, pie, ienable, registered, saved,
                   called, calls, outer>>

\* Nothing pending: eret restores the status of the application.
Return ==
    /\ isr = "dispatch"
    /\ Pending = {}
    /\ isr' = "off"
    /\ pie' = TRUE
    /\ UNCHANGED <<ticking, alarms, irqs, cursor, saved, called, calls, outer>>

-----------------------------------------------------------------------------
(* alt_tick *)

\* The flag is cleared in the tick in which the counter wraps.
RollsOver(a) == rollover[a] /\ nticks # 0

Visit ==
    /\ isr = "tick" /\ cursor # Head
    /\ saved' = next[cursor]
    /\ rollover' = [rollover EXCEPT ![cursor] = RollsOver(cursor)]
    /\ IF time[cursor] <= nticks /\ ~RollsOver(cursor)
       THEN isr' = "callback" /\ UNCHANGED cursor
       ELSE cursor' = next[cursor] /\ UNCHANGED isr
    /\ UNCHANGED <<ticking, nticks, links, time, left, pie, irqs, called, calls, outer>>

TickEnd ==
    /\ isr = "tick" /\ cursor = Head
    /\ isr' = "dispatch"
    /\ saved' = Head
    /\ UNCHANGED <<ticking, alarms, pie, irqs, cursor, called, calls, outer>>

\* alt_llist_remove: out of the list, and linked to itself.
Remove(a) ==
    IF next[a] = a THEN UNCHANGED links
    ELSE /\ previous' = [previous EXCEPT ![next[a]] = previous[a], ![a] = a]
         /\ next' = [next EXCEPT ![previous[a]] = next[a], ![a] = a]

\* Mutant: the next alarm is read after the callback.
CallbackReturnsFollow(r) ==
    /\ isr = "callback" /\ pc["cb"] = "idle"
    /\ IF r = 0
       THEN Remove(cursor) /\ UNCHANGED fields
       ELSE /\ time' = [time EXCEPT ![cursor] = (@ + r) % Wrap]
            /\ rollover' = [rollover EXCEPT ![cursor] = @ \/ time'[cursor] < nticks]
            /\ left' = [left EXCEPT ![cursor] = r]
            /\ UNCHANGED links
    /\ cursor' = next'[cursor]
    /\ isr' = "tick"
    /\ called' = FALSE
    /\ UNCHANGED <<ticking, nticks, pie, irqs, saved, calls, outer>>

\* The callback returns r: off with the alarm, or once more r ticks later.
CallbackReturns(r) ==
    /\ isr = "callback" /\ pc["cb"] = "idle"
    /\ IF r = 0
       THEN Remove(cursor) /\ UNCHANGED fields
       ELSE /\ time' = [time EXCEPT ![cursor] = (@ + r) % Wrap]
            /\ rollover' = [rollover EXCEPT ![cursor] = @ \/ time'[cursor] < nticks]
            /\ left' = [left EXCEPT ![cursor] = r]
            /\ UNCHANGED links
    /\ cursor' = saved
    /\ isr' = "tick"
    /\ called' = FALSE
    /\ UNCHANGED <<ticking, nticks, pie, irqs, saved, calls, outer>>

-----------------------------------------------------------------------------
(* Library calls *)

Runs(l) == IF l = "app" THEN isr = "off" ELSE isr = "callback"

Begin(l, o) ==
    /\ Runs(l) /\ pc[l] = "idle"
    /\ l = "cb" => ~called
    /\ called' = (called \/ l = "cb")
    /\ pc' = [pc EXCEPT ![l] = "disable"]
    /\ op' = [op EXCEPT ![l] = o]
    /\ UNCHANGED <<ticking, alarms, pie, irqs, isr, cursor, saved, ctx, outer>>

\* The other level is about to do this to the alarm.
About(kind, a) == \E l \in Level : op[l].kind = kind /\ op[l].alarm = a

\* alt_alarm_start, of an alarm that is not in the list, and not by its own
\* callback, which starts it again by what it returns.  Without a system clock it
\* fails and changes nothing.
CallStart(l, a, n) ==
    /\ ticking /\ ~InList(a)
    /\ ~About("start", a) /\ ~About("stop", a)
    /\ l = "cb" => a # cursor
    /\ Begin(l, [kind |-> "start", alarm |-> a, nticks |-> n])

\* alt_alarm_stop, of any alarm that was started once.
CallStop(l, a) ==
    /\ next[a] # NoLink /\ ~About("start", a)
    /\ Begin(l, [kind |-> "stop", alarm |-> a])

\* alt_ic_isr_register with a handler or with NULL; for a number with an entry in alt_irq.
CallRegister(l, i, h) ==
    /\ i \in Irq
    /\ Begin(l, [kind |-> "register", irq |-> i, isr |-> h])

\* Mutant: interrupts stay on.
DisableNothing(l) ==
    /\ Runs(l) /\ pc[l] = "disable"
    /\ ctx' = [ctx EXCEPT ![l] = pie]
    /\ pc' = [pc EXCEPT ![l] = "body"]
    /\ UNCHANGED <<ticking, alarms, pie, irqs, handler, op, outer>>

DisableAll(l) ==
    /\ Runs(l) /\ pc[l] = "disable"
    /\ ctx' = [ctx EXCEPT ![l] = pie]
    /\ pie' = FALSE
    /\ pc' = [pc EXCEPT ![l] = "body"]
    /\ UNCHANGED <<ticking, alarms, irqs, handler, op, outer>>

\* Mutant: the flag is not set.
NeverWraps(t) == FALSE

WrapsAround(t) == t < nticks

\* alt_alarm_start: due date, and alt_llist_insert up to the links of the entry.
StartBody(l) ==
    /\ Runs(l) /\ pc[l] = "body" /\ op[l].kind = "start"
    /\ LET a == op[l].alarm
           t == (op[l].nticks + nticks + 1) % Wrap
       IN /\ time' = [time EXCEPT ![a] = t]
          /\ rollover' = [rollover EXCEPT ![a] = WrapsAround(t)]
          /\ left' = [left EXCEPT ![a] = op[l].nticks + 1]
          /\ previous' = [previous EXCEPT ![a] = Head]
          /\ next' = [next EXCEPT ![a] = next[Head]]
    /\ pc' = [pc EXCEPT ![l] = "link"]
    /\ UNCHANGED <<ticking, nticks, pie, irqs, handler, op, ctx, outer>>

\* The rest of alt_llist_insert: the links of its neighbours.
Link(l) ==
    /\ Runs(l) /\ pc[l] = "link"
    /\ previous' = [previous EXCEPT ![next[Head]] = op[l].alarm]
    /\ next' = [next EXCEPT ![Head] = op[l].alarm]
    /\ pc' = [pc EXCEPT ![l] = "enable"]
    /\ UNCHANGED <<ticking, nticks, fields, pie, irqs, handler, op, ctx, outer>>

StopBody(l) ==
    /\ Runs(l) /\ pc[l] = "body" /\ op[l].kind = "stop"
    /\ Remove(op[l].alarm)
    /\ pc' = [pc EXCEPT ![l] = "enable"]
    /\ UNCHANGED <<ticking, nticks, fields, pie, irqs, handler, op, ctx, outer>>

With(set, i, in) == IF in THEN set \cup {i} ELSE set \ {i}

\* alt_iic_isr_register: the table, then ienable.
RegisterBody(l) ==
    /\ Runs(l) /\ pc[l] = "body" /\ op[l].kind = "register"
    /\ registered' = With(registered, op[l].irq, op[l].isr)
    /\ pc' = [pc EXCEPT ![l] = "ienable"]
    /\ UNCHANGED <<ticking, alarms, pie, ienable, line, handler, op, ctx, outer>>

\* alt_irq_enable and alt_irq_disable of one interrupt.
SetIenable(l) ==
    /\ Runs(l) /\ pc[l] = "ienable"
    /\ ienable' = With(ienable, op[l].irq, op[l].isr)
    /\ pc' = [pc EXCEPT ![l] = "enable"]
    /\ UNCHANGED <<ticking, alarms, pie, line, registered, handler, op, ctx, outer>>

\* Mutant: interrupts are turned on, whatever they were before.
EnableAlways(l) ==
    /\ Runs(l) /\ pc[l] = "enable"
    /\ pie' = TRUE
    /\ pc' = [pc EXCEPT ![l] = "idle"]
    /\ op' = [op EXCEPT ![l] = NoOp]
    /\ ctx' = [ctx EXCEPT ![l] = FALSE]
    /\ UNCHANGED <<ticking, alarms, irqs, handler, outer>>

EnableAll(l) ==
    /\ Runs(l) /\ pc[l] = "enable"
    /\ pie' = ctx[l]
    /\ pc' = [pc EXCEPT ![l] = "idle"]
    /\ op' = [op EXCEPT ![l] = NoOp]
    /\ ctx' = [ctx EXCEPT ![l] = FALSE]
    /\ UNCHANGED <<ticking, alarms, irqs, handler, outer>>

\* The application around a critical section of its own: calls nest in it.
OuterDisable ==
    /\ isr = "off" /\ pc["app"] = "idle" /\ ~outer
    /\ outer' = TRUE /\ pie' = FALSE
    /\ UNCHANGED <<ticking, alarms, irqs, handler, calls>>

OuterEnable ==
    /\ isr = "off" /\ pc["app"] = "idle" /\ outer
    /\ outer' = FALSE /\ pie' = TRUE
    /\ UNCHANGED <<ticking, alarms, irqs, handler, calls>>

\* alt_sysclk_init: the driver of the system timer gives the tick rate.
SysclkInit ==
    /\ isr = "off" /\ ~ticking
    /\ ticking' = TRUE
    /\ UNCHANGED <<alarms, pie, irqs, handler, calls, outer>>

-----------------------------------------------------------------------------
Handler ==
    \/ TakeInterrupt \/ Dispatch \/ Return \/ Visit \/ TickEnd
    \/ \E r \in Periods : CallbackReturns(r)

CallStep(l) ==
    \/ DisableAll(l) \/ StartBody(l) \/ Link(l) \/ StopBody(l)
    \/ RegisterBody(l) \/ SetIenable(l) \/ EnableAll(l)

Call(l) ==
    \/ \E a \in Alarm : CallStop(l, a) \/ \E n \in Delays : CallStart(l, a, n)
    \/ \E i \in Irq, h \in BOOLEAN : CallRegister(l, i, h)

Next ==
    \/ \E i \in Irq : Request(i)
    \/ Handler
    \/ \E l \in Level : Call(l) \/ CallStep(l)
    \/ OuterDisable \/ OuterEnable \/ SysclkInit

(***************************************************************************)
(* The CPU runs the handler to its end, callbacks included; nothing is     *)
(* assumed of the devices and of the application.                          *)
(***************************************************************************)
Fairness ==
    /\ WF_vars(Handler)
    /\ WF_vars(CallStep("cb"))

Spec == Init /\ [][Next]_vars /\ Fairness

-----------------------------------------------------------------------------
(* Properties *)

\* The list is being changed: between the two halves of an insertion.
Linking == \E l \in Level : pc[l] = "link"

\* The nodes of R, head included, are one ring, linked the same way in both
\* directions.
RingOn(R) ==
    /\ \A x \in R : /\ next[x] \in R /\ previous[next[x]] = x
                    /\ previous[x] \in R /\ next[previous[x]] = x
    /\ \A S \in SUBSET R : Head \in S /\ (\A x \in S : next[x] \in S) => S = R

Listed == {x \in Node : x = Head \/ InList(x)}

\* No interrupt is taken inside a handler, inside a library call or inside a
\* critical section of the application, however they nest.
Exclusive ==
    /\ isr # "off" => ~pie
    /\ outer => ~pie
    /\ \A l \in Level : pc[l] \notin {"idle", "disable"} => ~pie

\* The handler finds a sound list: it never starts between the two halves of an
\* insertion.
SoundList == isr # "off" /\ ~(pc["cb"] = "link") => RingOn(Listed)

\* The dispatcher never calls a null handler.
HandlerPresent == isr = "dispatch" /\ Pending # {} => Lowest \in registered

\* A callback is made exactly in the tick in which its alarm is due, also across
\* the wrap of the tick counter, and no alarm is left behind.
OnTime ==
    /\ isr = "callback" /\ ~called => left[cursor] = 0
    /\ isr \notin {"tick", "callback"} =>
           \A a \in Alarm : InList(a) /\ ~Linking => left[a] > 0

(***************************************************************************)
(* The inductive invariant.                                                *)
(***************************************************************************)
Inside(l) == pc[l] \notin {"idle", "disable"}

\* The handler runs outside the calls of the application, a callback inside the
\* handler; what enable_all will restore is what holds outside of the call.
CallInv ==
    /\ isr # "off" => ~Inside("app") /\ ~outer
    /\ isr # "callback" => pc["cb"] = "idle"
    /\ Inside("app") => ~(ctx["app"] /\ outer)
    /\ Inside("cb") => ~ctx["cb"]
    /\ \A l \in Level : /\ pc[l] = "idle" => op[l] = NoOp
                        /\ pc[l] = "link" => op[l].kind = "start"
                        /\ pc[l] = "ienable" => op[l].kind = "register"

\* alt_tick makes a callback for an alarm, never for the head of the list.
CursorInv == isr = "callback" => cursor # Head

\* An interrupt is enabled without a handler only while one is being removed.
TableInv ==
    /\ \A i \in ienable \ registered :
          \E l \in Level : pc[l] = "ienable" /\ op[l].irq = i /\ ~op[l].isr
    /\ \A l \in Level : pc[l] = "ienable" => (op[l].irq \in registered <=> op[l].isr)

\* The nodes with links are linked to each other: no null pointer is followed.
Linked == {x \in Node : next[x] # NoLink}

LinkInv ==
    /\ Head \in Linked /\ cursor \in Linked /\ saved \in Linked
    /\ \A x \in Linked : next[x] \in Linked /\ previous[x] \in Linked
    /\ \A l \in Level : op[l].kind = "stop" => op[l].alarm \in Linked

\* The alarm whose neighbours do not know of it yet.
Inserting(a) == \E l \in Level : pc[l] = "link" /\ op[l].alarm = a

\* An alarm to be started is in no list; while it is inserted it points into this one.
Starting(l) ==
    LET a == op[l].alarm
    IN /\ op[l].kind = "start" /\ pc[l] \in {"disable", "body"} => ~InList(a)
       /\ pc[l] = "link" => next[a] = next[Head] /\ previous[a] = Head

ListInv ==
    /\ RingOn({x \in Listed : ~Inserting(x)})
    /\ \A l \in Level : Starting(l)
    /\ op["app"].kind = "start" /\ op["cb"].kind = "start" => op["app"].alarm # op["cb"].alarm

CoreInv ==
    /\ TypeOK /\ Exclusive /\ HandlerPresent
    /\ CallInv /\ CursorInv /\ TableInv /\ LinkInv /\ ListInv

\* The nodes from c on, up to the head.
Ahead(c) ==
    {x \in Node : \A S \in SUBSET Node :
        c \in S /\ (\A y \in S \ {Head} : next[y] \in S) => x \in S}

\* The alarms that alt_tick has still to visit in this tick.
ToVisit ==
    CASE isr = "tick" -> Ahead(cursor) \ {Head}
      [] isr = "callback" -> Ahead(saved) \ {Head}
      [] OTHER -> {}

\* The flag is set as long as the counter has to wrap before the alarm is due.
FlagRight(a) == rollover[a] <=> nticks + left[a] >= Wrap

\* In the tick in which the counter wraps the flags of the alarms still to be visited
\* are stale.
OnSchedule(a) ==
    /\ time[a] = (nticks + left[a]) % Wrap
    /\ a \in ToVisit /\ nticks # 0 => FlagRight(a)
    /\ a \notin ToVisit => FlagRight(a) /\ (left[a] = 0 => isr = "callback" /\ a = cursor)

\* The alarm of the callback is due; the callback starts another one.
CallbackInv ==
    /\ saved # cursor /\ left[cursor] = 0 /\ ~rollover[cursor]
    /\ op["cb"] # NoOp => called
    /\ op["cb"].kind = "start" => op["cb"].alarm # cursor

\* alt_tick is to go on with an alarm that is in no list: linked to itself, it is
\* the next one for ever.
Astray(x) == x # Head /\ ~InList(x)
Lost ==
    \/ isr = "tick" /\ Astray(cursor)
    \/ isr = "callback" /\ Astray(saved)

\* A callback has stopped the alarm that alt_tick has saved.
Undercut == Lost /\ isr = "callback" /\ saved # cursor

Punctual ==
    /\ ~Lost
    /\ isr = "callback" => CallbackInv
    /\ \A a \in Alarm : InList(a) => OnSchedule(a)

\* The alarm that alt_tick is left with.
Stray == IF isr = "tick" THEN cursor ELSE saved

\* Even then a callback is made when it is due.  Nothing brings the alarm back.
LostInv ==
    /\ Lost
    /\ time[Stray] = (nticks + left[Stray]) % Wrap
    /\ nticks # 0 => FlagRight(Stray)
    /\ isr = "callback" =>
          /\ saved # cursor => called
          /\ saved = cursor => left[cursor] = 0 /\ ~rollover[cursor]
          /\ op["cb"].kind = "start" => op["cb"].alarm \notin {saved, cursor}

TimeInv == Punctual \/ LostInv

IInv == CoreInv /\ TimeInv

\* alt_tick ends, whatever the callbacks start and stop: unless one of them stops
\* the alarm that alt_tick has saved to go on with.
TickEnds == isr \in {"tick", "callback"} /\ ~Lost ~> isr = "dispatch" \/ Undercut

\* alt_alarm.h:72-75 has no such exception.  Not so: the stopped alarm is linked
\* to itself, and alt_tick follows it for ever.
TickAlwaysEnds == isr \in {"tick", "callback"} ~> isr = "dispatch"
=============================================================================
