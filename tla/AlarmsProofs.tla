---------------------------- MODULE AlarmsProofs ----------------------------
(***************************************************************************)
(* Proofs about the interrupts and alarms of the HAL.  Whatever the        *)
(* devices, the application and the callbacks do, library calls, critical  *)
(* sections and handlers exclude each other, the dispatcher finds a        *)
(* handler, and the list of alarms is one ring whenever it is walked.      *)
(***************************************************************************)
EXTENDS Alarms, TLAPS

\* What a call under way carries with it.
LEMMA OpTypes ==
    ASSUME TypeOK, NEW l \in Level
    PROVE  /\ op[l].kind = "start" => op[l].alarm \in Alarm /\ op[l].nticks \in Delays
           /\ op[l].kind = "stop" => op[l].alarm \in Alarm
           /\ op[l].kind = "register" => op[l].irq \in Irq /\ op[l].isr \in BOOLEAN
<1>1. op[l] \in Ops
  BY DEF TypeOK
<1>2. QED
  BY <1>1 DEF Ops, NoOp

\* Both levels are named.
LEMMA Levels == Level = {"app", "cb"} /\ "app" \in Level /\ "cb" \in Level
BY DEF Level

\* The initial state satisfies the invariant.
LEMMA InitInv == Init => CoreInv
<1> SUFFICES ASSUME Init PROVE CoreInv
  OBVIOUS
<1> USE WrapAssumption, NodeAssumption
<1>1. /\ next \in [Node -> Node \cup {NoLink}] /\ next[Head] = Head
      /\ \A a \in Alarm : next[a] = NoLink
      /\ previous = next
  BY DEF Init, Node
<1>2. TypeOK
  <2>1. /\ pc \in [Level -> {"idle", "disable", "body", "link", "ienable", "enable"}]
        /\ ctx \in [Level -> BOOLEAN]
    BY DEF Init
  <2>2. op \in [Level -> Ops]
    BY DEF Init, Ops
  <2>3. /\ time \in [Alarm -> 0 .. Wrap - 1] /\ left \in [Alarm -> 0 .. Wrap - 1]
        /\ rollover \in [Alarm -> BOOLEAN] /\ nticks \in 0 .. Wrap - 1
    BY DEF Init
  <2>4. /\ previous \in [Node -> Node \cup {NoLink}]
        /\ cursor \in Node /\ saved \in Node
    BY <1>1 DEF Init, Node
  <2>5. QED
    BY <1>1, <2>1, <2>2, <2>3, <2>4 DEF Init, TypeOK
<1>3. Exclusive /\ HandlerPresent
  BY DEF Init, Exclusive, HandlerPresent, Level
<1>4. CallInv /\ CursorInv /\ TableInv
  BY DEF Init, CallInv, CursorInv, TableInv, Inside, Level
<1>5. \A l \in Level : op[l].kind = "none" /\ pc[l] = "idle"
  BY DEF Init, NoOp
<1>6. \A x \in Node : next[x] # NoLink <=> x = Head
  BY <1>1 DEF Node
<1>7. LinkInv
  BY <1>1, <1>5, <1>6 DEF Init, LinkInv, Linked, Node
<1>8. \A a \in Alarm : ~InList(a)
  BY <1>1 DEF InList
<1>9. {x \in Listed : ~Inserting(x)} = {Head}
  BY <1>5, <1>8 DEF Listed, Node, Inserting
<1>10. RingOn({Head})
  BY <1>1 DEF RingOn
<1>11. ListInv
  BY <1>5, <1>9, <1>10, Levels DEF ListInv, Starting
<1>12. QED
  BY <1>2, <1>3, <1>4, <1>7, <1>11 DEF CoreInv

\* Removing a node writes links of linked nodes only.
LEMMA RemoveTypes ==
    ASSUME TypeOK, LinkInv, NEW a \in Linked, Remove(a)
    PROVE  /\ next' \in [Node -> Node \cup {NoLink}]
           /\ previous' \in [Node -> Node \cup {NoLink}]
           /\ \A x \in Node : next'[x] # NoLink <=> next[x] # NoLink
           /\ \A x \in Linked : next'[x] \in Linked /\ previous'[x] \in Linked
<1>1. /\ a \in Node /\ next[a] \in Linked /\ previous[a] \in Linked /\ Linked \subseteq Node
      /\ NoLink \notin Node
  BY NodeAssumption DEF LinkInv, Linked, Node
<1>2. CASE next[a] = a
  BY <1>1, <1>2 DEF Remove, links, TypeOK, LinkInv, Linked
<1>3. CASE next[a] # a
  <2>1. /\ previous' = [previous EXCEPT ![next[a]] = previous[a], ![a] = a]
        /\ next' = [next EXCEPT ![previous[a]] = next[a], ![a] = a]
    BY <1>3 DEF Remove
  <2>2. /\ next' \in [Node -> Node \cup {NoLink}]
        /\ previous' \in [Node -> Node \cup {NoLink}]
    BY <1>1, <2>1 DEF TypeOK
  <2>3. \A x \in Node : next'[x] = next[x] \/ (next'[x] \in Linked /\ x \in Linked)
    BY <1>1, <2>1 DEF TypeOK
  <2>4. \A x \in Node : previous'[x] = previous[x] \/ (previous'[x] \in Linked /\ x \in Linked)
    BY <1>1, <2>1 DEF TypeOK
  <2>5. \A x \in Linked : x \in Node /\ next[x] # NoLink /\ x # NoLink
    BY <1>1 DEF Linked
  <2>6. \A x \in Node : next'[x] # NoLink <=> next[x] # NoLink
    BY <2>3, <2>5
  <2>7. \A x \in Linked : next'[x] \in Linked /\ previous'[x] \in Linked
    BY <1>1, <2>3, <2>4 DEF LinkInv
  <2>8. QED
    BY <2>2, <2>6, <2>7
<1>4. QED
  BY <1>2, <1>3

\* Every step keeps the types.
LEMMA TypeStep == CoreInv /\ Next => TypeOK'
<1> SUFFICES ASSUME CoreInv, Next PROVE TypeOK'
  OBVIOUS
<1> USE WrapAssumption, NodeAssumption, DelayAssumption, IrqAssumption
<1>0. TypeOK /\ LinkInv
  BY DEF CoreInv
<1>1. ASSUME NEW i \in Irq, Request(i) PROVE TypeOK'
  BY <1>0, <1>1 DEF TypeOK, Request, vars, alarms, links, fields, irqs, handler, calls
<1>2. CASE TakeInterrupt
  BY <1>0, <1>2 DEF TypeOK, TakeInterrupt, vars, alarms, links, fields, irqs, handler, calls
<1>3. CASE Dispatch
  <2>1. next[Head] \in Node /\ \A a \in Alarm : Expiring(a) \in 0 .. Wrap - 1
    BY <1>0 DEF TypeOK, LinkInv, Linked, Expiring, Node
  <2>2. line' \subseteq Irq
    BY <1>0, <1>3 DEF TypeOK, Dispatch
  <2>3. CASE Lowest = TimerIrq
    <3>1. left' \in [Alarm -> 0 .. Wrap - 1] /\ cursor' \in Node
      BY <1>3, <2>1, <2>3 DEF Dispatch
    <3>2. nticks' \in 0 .. Wrap - 1 /\ isr' = "tick"
      BY <1>0, <1>3, <2>3 DEF Dispatch, TypeOK
    <3>3. QED
      BY <1>0, <1>3, <2>2, <3>1, <3>2 DEF TypeOK, Dispatch, links, calls
  <2>4. CASE Lowest # TimerIrq
    BY <1>0, <1>3, <2>2, <2>4 DEF TypeOK, Dispatch, links, calls
  <2>5. QED
    BY <2>3, <2>4
<1>4. CASE Return
  BY <1>0, <1>4 DEF TypeOK, Return, alarms, links, fields, irqs, calls
<1>5. CASE Visit
  <2>1. next[cursor] \in Node /\ cursor \in Alarm
    BY <1>0, <1>5 DEF TypeOK, LinkInv, Linked, Node, Visit
  <2>2. RollsOver(cursor) \in BOOLEAN
    BY <1>0, <2>1 DEF RollsOver, TypeOK
  <2>3. rollover' \in [Alarm -> BOOLEAN]
    BY <1>0, <1>5, <2>2 DEF Visit, TypeOK
  <2>4. QED
    BY <1>0, <1>5, <2>1, <2>3 DEF TypeOK, Visit, links, irqs, calls
<1>6. CASE TickEnd
  BY <1>0, <1>6 DEF TypeOK, TickEnd, alarms, links, fields, irqs, calls, Node
<1>7. ASSUME NEW r \in Periods, CallbackReturns(r) PROVE TypeOK'
  <2>1. CASE r = 0
    <3>1. Remove(cursor) /\ UNCHANGED fields /\ cursor \in Linked
      BY <1>0, <1>7, <2>1 DEF CallbackReturns, LinkInv
    <3>2. /\ next' \in [Node -> Node \cup {NoLink}]
          /\ previous' \in [Node -> Node \cup {NoLink}]
      BY <1>0, <3>1, RemoveTypes
    <3>3. QED
      BY <1>0, <1>7, <3>1, <3>2 DEF TypeOK, CallbackReturns, fields, irqs, calls
  <2>2. CASE r # 0
    <3>1. /\ time' = [time EXCEPT ![cursor] = (@ + r) % Wrap]
          /\ left' = [left EXCEPT ![cursor] = r]
          /\ rollover' = [rollover EXCEPT ![cursor] = @ \/ time'[cursor] < nticks]
          /\ UNCHANGED links
      BY <1>7, <2>2 DEF CallbackReturns
    <3>2. left' \in [Alarm -> 0 .. Wrap - 1] /\ rollover' \in [Alarm -> BOOLEAN]
      BY <1>0, <3>1 DEF TypeOK
    <3>3. r \in Nat /\ \A t \in 0 .. Wrap - 1 : (t + r) % Wrap \in 0 .. Wrap - 1
      OBVIOUS
    <3>4. time' \in [Alarm -> 0 .. Wrap - 1]
      BY <1>0, <3>1, <3>3 DEF TypeOK
    <3>5. QED
      BY <1>0, <1>7, <3>1, <3>2, <3>4 DEF TypeOK, CallbackReturns, links, irqs, calls
  <2>3. QED
    BY <2>1, <2>2
<1>8. ASSUME NEW l \in Level, NEW o \in Ops, Begin(l, o) PROVE TypeOK'
  BY <1>0, <1>8 DEF TypeOK, Begin, alarms, links, fields, irqs
<1>9. ASSUME NEW l \in Level, Call(l) PROVE TypeOK'
  <2>1. ASSUME NEW a \in Alarm, NEW n \in Delays, CallStart(l, a, n) PROVE TypeOK'
    <3>1. [kind |-> "start", alarm |-> a, nticks |-> n] \in Ops
      BY DEF Ops
    <3>2. QED
      BY <1>8, <2>1, <3>1 DEF CallStart
  <2>2. ASSUME NEW a \in Alarm, CallStop(l, a) PROVE TypeOK'
    <3>1. [kind |-> "stop", alarm |-> a] \in Ops
      BY DEF Ops
    <3>2. QED
      BY <1>8, <2>2, <3>1 DEF CallStop
  <2>3. ASSUME NEW i \in Irq, NEW h \in BOOLEAN, CallRegister(l, i, h) PROVE TypeOK'
    <3>1. [kind |-> "register", irq |-> i, isr |-> h] \in Ops
      BY DEF Ops
    <3>2. QED
      BY <1>8, <2>3, <3>1 DEF CallRegister
  <2>4. QED
    BY <1>9, <2>1, <2>2, <2>3 DEF Call
<1>10. ASSUME NEW l \in Level, CallStep(l) PROVE TypeOK'
  <2>1. CASE DisableAll(l)
    BY <1>0, <2>1 DEF TypeOK, DisableAll, alarms, links, fields, irqs, handler
  <2>2. CASE StartBody(l)
    <3> DEFINE a == op[l].alarm
               t == (op[l].nticks + nticks + 1) % Wrap
    <3>1. a \in Alarm /\ op[l].nticks \in Delays
      BY <1>0, <2>2, OpTypes DEF StartBody
    <3>2. /\ time' = [time EXCEPT ![a] = t]
          /\ rollover' = [rollover EXCEPT ![a] = WrapsAround(t)]
          /\ left' = [left EXCEPT ![a] = op[l].nticks + 1]
          /\ previous' = [previous EXCEPT ![a] = Head]
          /\ next' = [next EXCEPT ![a] = next[Head]]
          /\ pc' = [pc EXCEPT ![l] = "link"]
          /\ UNCHANGED <<ticking, nticks, pie, irqs, handler, op, ctx, outer>>
      BY <2>2 DEF StartBody
    <3>c. op[l].nticks \in 0 .. Wrap - 2
      BY <3>1
    <3>d. nticks \in Nat
      BY <1>0 DEF TypeOK
    <3>a. nticks \in Nat /\ op[l].nticks \in Nat /\ op[l].nticks + 1 \in 0 .. Wrap - 1
      BY <3>c, <3>d
    <3>b. \A d, k \in Nat : (d + k + 1) % Wrap \in 0 .. Wrap - 1
      OBVIOUS
    <3>3. t \in 0 .. Wrap - 1 /\ WrapsAround(t) \in BOOLEAN
      BY <3>a, <3>b DEF WrapsAround
    <3> HIDE DEF a, t
    <3>4. time' \in [Alarm -> 0 .. Wrap - 1] /\ rollover' \in [Alarm -> BOOLEAN]
      BY <1>0, <3>1, <3>2, <3>3 DEF TypeOK
    <3>5. left' \in [Alarm -> 0 .. Wrap - 1]
      BY <1>0, <3>1, <3>2, <3>a DEF TypeOK
    <3>6. /\ previous' \in [Node -> Node \cup {NoLink}]
          /\ next' \in [Node -> Node \cup {NoLink}]
      BY <1>0, <3>1, <3>2 DEF TypeOK, Node
    <3>7. QED
      BY <1>0, <3>2, <3>4, <3>5, <3>6 DEF TypeOK, irqs, handler
  <2>3. CASE Link(l)
    <3>1. op[l].alarm \in Alarm
      BY <1>0, <2>3, OpTypes DEF Link, CoreInv, CallInv
    <3>2. QED
      BY <1>0, <2>3, <3>1 DEF TypeOK, Link, Node, fields, irqs, handler
  <2>4. CASE StopBody(l)
    <3>1. op[l].alarm \in Linked /\ Remove(op[l].alarm)
      BY <1>0, <2>4 DEF StopBody, LinkInv
    <3>2. /\ next' \in [Node -> Node \cup {NoLink}]
          /\ previous' \in [Node -> Node \cup {NoLink}]
      BY <1>0, <3>1, RemoveTypes
    <3>3. QED
      BY <1>0, <2>4, <3>2 DEF TypeOK, StopBody, fields, irqs, handler
  <2>5. CASE RegisterBody(l)
    <3>1. op[l].irq \in Irq
      BY <1>0, <2>5, OpTypes DEF RegisterBody
    <3>2. registered' \subseteq Irq
      BY <1>0, <2>5, <3>1 DEF RegisterBody, With, TypeOK
    <3>3. QED
      BY <1>0, <2>5, <3>2 DEF TypeOK, RegisterBody, alarms, links, fields, handler
  <2>6. CASE SetIenable(l)
    <3>1. op[l].irq \in Irq
      BY <1>0, <2>6, OpTypes DEF SetIenable, CoreInv, CallInv
    <3>2. ienable' \subseteq Irq
      BY <1>0, <2>6, <3>1 DEF SetIenable, With, TypeOK
    <3>3. QED
      BY <1>0, <2>6, <3>2 DEF TypeOK, SetIenable, alarms, links, fields, handler
  <2>7. CASE EnableAll(l)
    <3>1. NoOp \in Ops
      BY DEF Ops
    <3>2. QED
      BY <1>0, <2>7, <3>1 DEF TypeOK, EnableAll, alarms, links, fields, irqs, handler
  <2>8. QED
    BY <1>10, <2>1, <2>2, <2>3, <2>4, <2>5, <2>6, <2>7 DEF CallStep
<1>11. CASE OuterDisable
  BY <1>0, <1>11 DEF TypeOK, OuterDisable, alarms, links, fields, irqs, handler, calls
<1>12. CASE OuterEnable
  BY <1>0, <1>12 DEF TypeOK, OuterEnable, alarms, links, fields, irqs, handler, calls
<1>13. CASE SysclkInit
  BY <1>0, <1>13 DEF TypeOK, SysclkInit, alarms, links, fields, irqs, handler, calls
<1>14. QED
  BY <1>1, <1>2, <1>3, <1>4, <1>5, <1>6, <1>7, <1>9, <1>10, <1>11, <1>12, <1>13 DEF Next, Handler

\* Where interrupts may come, and what enable_all restores: every step keeps both.
LEMMA ControlStep == CoreInv /\ Next => Exclusive' /\ CallInv'
<1> SUFFICES ASSUME CoreInv, Next PROVE Exclusive' /\ CallInv'
  OBVIOUS
<1> USE Levels
<1>0. TypeOK /\ Exclusive /\ CallInv
  BY DEF CoreInv
<1>1. CASE \/ \E i \in Irq : Request(i)
           \/ SysclkInit
  <2>1. UNCHANGED <<pie, isr, pc, op, ctx, outer>>
    BY <1>1 DEF Request, SysclkInit, handler, calls
  <2>2. QED
    BY <1>0, <2>1 DEF Exclusive, CallInv, Inside
<1>2. CASE TakeInterrupt
  <2>1. pie /\ pie' = FALSE /\ isr' = "dispatch" /\ UNCHANGED <<pc, op, ctx, outer>>
    BY <1>2 DEF TakeInterrupt, calls
  <2>2. isr = "off" /\ ~Inside("app") /\ ~outer /\ pc["cb"] = "idle"
    BY <1>0, <2>1 DEF Exclusive, CallInv, Inside
  <2>3. QED
    BY <1>0, <2>1, <2>2 DEF Exclusive, CallInv, Inside
<1>3. CASE Dispatch \/ Visit \/ TickEnd
  <2>1. /\ isr \in {"dispatch", "tick"} /\ isr' \in {"dispatch", "tick", "callback"}
        /\ UNCHANGED <<pie, pc, op, ctx, outer>>
    BY <1>0, <1>3 DEF Dispatch, Visit, TickEnd, calls
  <2>2. QED
    BY <1>0, <2>1 DEF Exclusive, CallInv, Inside
<1>4. CASE Return
  <2>1. isr = "dispatch" /\ isr' = "off" /\ pie' = TRUE /\ UNCHANGED <<pc, op, ctx, outer>>
    BY <1>4 DEF Return, calls
  <2>2. ~outer /\ ~Inside("app") /\ pc["cb"] = "idle"
    BY <1>0, <2>1 DEF Exclusive, CallInv
  <2>3. QED
    BY <1>0, <2>1, <2>2 DEF Exclusive, CallInv, Inside
<1>5. ASSUME NEW r \in Periods, CallbackReturns(r) PROVE Exclusive' /\ CallInv'
  <2>1. /\ isr = "callback" /\ isr' = "tick" /\ pc["cb"] = "idle"
        /\ UNCHANGED <<pie, pc, op, ctx, outer>>
    BY <1>5 DEF CallbackReturns, calls
  <2>2. QED
    BY <1>0, <2>1 DEF Exclusive, CallInv, Inside
<1>6. ASSUME NEW l \in Level, Call(l) PROVE Exclusive' /\ CallInv'
  <2>1. /\ Runs(l) /\ pc[l] = "idle" /\ pc' = [pc EXCEPT ![l] = "disable"]
        /\ \E o : op' = [op EXCEPT ![l] = o]
        /\ UNCHANGED <<pie, isr, ctx, outer>>
    BY <1>6 DEF Call, CallStart, CallStop, CallRegister, Begin
  <2>2. QED
    BY <1>0, <2>1 DEF Exclusive, CallInv, Inside, Runs, TypeOK
<1>7. ASSUME NEW l \in Level, CallStep(l) PROVE Exclusive' /\ CallInv'
  <2>0. \/ l = "app" /\ isr = "off" /\ pc["cb"] = "idle"
        \/ l = "cb" /\ isr = "callback"
    BY <1>0, <1>7 DEF CallStep, DisableAll, StartBody, Link, StopBody, RegisterBody,
                      SetIenable, EnableAll, Runs, CallInv
  <2>1. CASE DisableAll(l)
    <3>1. /\ pc[l] = "disable" /\ ctx' = [ctx EXCEPT ![l] = pie] /\ pie' = FALSE
          /\ pc' = [pc EXCEPT ![l] = "body"]
          /\ UNCHANGED <<isr, op, outer>>
      BY <2>1 DEF DisableAll, handler
    <3>2. Exclusive'
      BY <1>0, <3>1 DEF Exclusive
    <3>3. CASE l = "app"
      <4>1. ctx'["app"] = pie /\ pc'["cb"] = "idle" /\ pc'["app"] = "body"
        BY <1>0, <2>0, <3>1, <3>3 DEF TypeOK
      <4>2. QED
        BY <1>0, <2>0, <3>1, <3>2, <3>3, <4>1 DEF Exclusive, CallInv, Inside
    <3>4. CASE l = "cb"
      <4>1. ctx'["cb"] = pie /\ pc'["cb"] = "body" /\ pc'["app"] = pc["app"]
        BY <1>0, <3>1, <3>4 DEF TypeOK
      <4>2. ~pie /\ isr = "callback"
        BY <1>0, <2>0, <3>4 DEF Exclusive
      <4>3. QED
        BY <1>0, <3>1, <3>2, <3>4, <4>1, <4>2 DEF CallInv, Inside
    <3>5. QED
      BY <3>3, <3>4
  <2>2. CASE StartBody(l) \/ Link(l) \/ StopBody(l) \/ RegisterBody(l) \/ SetIenable(l)
    <3>1. /\ pc[l] \in {"body", "link", "ienable"} /\ UNCHANGED <<pie, isr, op, ctx, outer>>
          /\ \/ pc' = [pc EXCEPT ![l] = "link"] /\ op[l].kind = "start"
             \/ pc' = [pc EXCEPT ![l] = "enable"]
             \/ pc' = [pc EXCEPT ![l] = "ienable"] /\ op[l].kind = "register"
      BY <2>2 DEF StartBody, Link, StopBody, RegisterBody, SetIenable, handler
    <3>2. ~pie /\ Inside(l) /\ pc'[l] \in {"link", "enable", "ienable"}
      BY <1>0, <3>1 DEF Exclusive, Inside, TypeOK
    <3>3. \A k \in Level : k # l => pc'[k] = pc[k]
      BY <1>0, <3>1 DEF TypeOK
    <3>4. Exclusive'
      BY <1>0, <3>1, <3>2, <3>3 DEF Exclusive
    <3>5. QED
      BY <1>0, <2>0, <3>1, <3>2, <3>3, <3>4 DEF CallInv, Inside, TypeOK
  <2>3. CASE EnableAll(l)
    <3>1. /\ pc[l] = "enable" /\ pie' = ctx[l] /\ pc' = [pc EXCEPT ![l] = "idle"]
          /\ op' = [op EXCEPT ![l] = NoOp] /\ ctx' = [ctx EXCEPT ![l] = FALSE]
          /\ UNCHANGED <<isr, outer>>
      BY <2>3 DEF EnableAll, handler
    <3>2. CASE l = "app"
      <4>1. pc'["app"] = "idle" /\ pc'["cb"] = "idle" /\ op'["app"] = NoOp /\ op'["cb"] = op["cb"]
        BY <1>0, <2>0, <3>1, <3>2 DEF TypeOK
      <4>2. isr' = "off" /\ ~(pie' /\ outer')
        BY <1>0, <2>0, <3>1, <3>2 DEF CallInv, Inside
      <4>3. outer' => ~pie'
        BY <4>2
      <4>4. Exclusive'
        BY <4>1, <4>2, <4>3 DEF Exclusive
      <4>5. CallInv'
        BY <1>0, <2>0, <3>2, <4>1, <4>2 DEF CallInv, Inside
      <4>6. QED
        BY <4>4, <4>5
    <3>3. CASE l = "cb"
      <4>1. ~ctx["cb"] /\ pie' = FALSE
        BY <1>0, <3>1, <3>3, Zenon DEF CallInv, Inside, TypeOK
      <4>2. /\ pc'["cb"] = "idle" /\ pc'["app"] = pc["app"] /\ ctx'["app"] = ctx["app"]
            /\ op'["cb"] = NoOp /\ op'["app"] = op["app"] /\ isr' = "callback"
        BY <1>0, <2>0, <3>1, <3>3 DEF TypeOK
      <4>3. Exclusive'
        BY <4>1 DEF Exclusive
      <4>4. QED
        BY <1>0, <2>0, <3>1, <3>3, <4>2, <4>3 DEF CallInv, Inside
    <3>4. QED
      BY <3>2, <3>3
  <2>4. QED
    BY <1>7, <2>1, <2>2, <2>3 DEF CallStep
<1>8. CASE OuterDisable \/ OuterEnable
  <2>1. /\ isr = "off" /\ pc["app"] = "idle" /\ UNCHANGED <<isr, pc, op, ctx>>
        /\ outer' => ~pie'
    BY <1>8 DEF OuterDisable, OuterEnable, handler, calls
  <2>2. pc["cb"] = "idle"
    BY <1>0, <2>1 DEF CallInv
  <2>3. QED
    BY <1>0, <2>1, <2>2 DEF Exclusive, CallInv, Inside
<1>9. QED
  BY <1>1, <1>2, <1>3, <1>4, <1>5, <1>6, <1>7, <1>8 DEF Next, Handler

\* While the dispatcher runs no registration is under way: every enabled interrupt
\* has its handler.
LEMMA Dispatchable == TypeOK /\ CallInv /\ TableInv => HandlerPresent
<1> SUFFICES ASSUME TypeOK, CallInv, TableInv, isr = "dispatch", Pending # {}
             PROVE  Lowest \in registered
  BY DEF HandlerPresent
<1>1. \A l \in Level : pc[l] # "ienable"
  BY DEF CallInv, Inside, Level
<1>2. Pending \subseteq registered
  BY <1>1 DEF TableInv, Pending
<1>3. Pending \subseteq {TimerIrq, UartIrq}
  BY DEF Pending, TypeOK, Irq
<1>4. \E i \in Pending : \A j \in Pending : i <= j
  <2>1. CASE TimerIrq <= UartIrq /\ TimerIrq \in Pending
    BY <1>3, <2>1, IrqAssumption
  <2>2. CASE UartIrq <= TimerIrq /\ UartIrq \in Pending
    BY <1>3, <2>2, IrqAssumption
  <2>3. CASE TimerIrq \notin Pending \/ UartIrq \notin Pending
    <3>1. PICK i \in Pending : TRUE
      OBVIOUS
    <3>2. \A j \in Pending : j = i
      BY <1>3, <2>3, <3>1
    <3>3. i \in Nat
      BY <1>3, <3>1, IrqAssumption
    <3>4. QED
      BY <3>2, <3>3
  <2>4. QED
    BY <1>3, <2>1, <2>2, <2>3, IrqAssumption
<1>5. Lowest \in Pending
  BY <1>4, Zenon DEF Lowest
<1>6. QED
  BY <1>2, <1>5

\* A call under way at one level is alone: the other one is idle or has not begun.
LEMMA Alone ==
    ASSUME TypeOK, CallInv, NEW l \in Level, Inside(l), Runs(l)
    PROVE  \A k \in Level : k # l => ~Inside(k)
BY DEF CallInv, Inside, Runs, Level

\* The handler table and ienable fit together after every step.
LEMMA TableStep == CoreInv /\ Next => TableInv'
<1> SUFFICES ASSUME CoreInv, Next PROVE TableInv'
  OBVIOUS
<1>0. TypeOK /\ CallInv /\ TableInv
  BY DEF CoreInv
<1>1. ASSUME UNCHANGED <<ienable, registered, pc, op>> PROVE TableInv'
  BY <1>0, <1>1 DEF TableInv
<1>2. ASSUME NEW i \in Irq, Request(i) PROVE TableInv'
  BY <1>1, <1>2 DEF Request, calls
<1>3. CASE Handler
  BY <1>1, <1>3 DEF Handler, TakeInterrupt, Dispatch, Return, Visit, TickEnd, CallbackReturns,
                    irqs, calls
<1>4. CASE OuterDisable \/ OuterEnable \/ SysclkInit
  BY <1>1, <1>4 DEF OuterDisable, OuterEnable, SysclkInit, irqs, calls
<1>5. ASSUME NEW l \in Level, Call(l) PROVE TableInv'
  <2>1. /\ pc[l] = "idle" /\ pc' = [pc EXCEPT ![l] = "disable"]
        /\ \E o : op' = [op EXCEPT ![l] = o]
        /\ UNCHANGED <<ienable, registered>>
    BY <1>5 DEF Call, CallStart, CallStop, CallRegister, Begin, irqs
  <2>2. \A k \in Level : /\ pc'[k] = "ienable" <=> pc[k] = "ienable"
                         /\ pc[k] = "ienable" => op'[k] = op[k]
    BY <1>0, <2>1 DEF TypeOK
  <2>3. QED
    BY <1>0, <2>1, <2>2 DEF TableInv
<1>6. ASSUME NEW l \in Level, CallStep(l) PROVE TableInv'
  <2>1. CASE DisableAll(l) \/ StartBody(l) \/ Link(l) \/ StopBody(l)
    <3>1. /\ pc[l] # "ienable" /\ UNCHANGED <<op, ienable, registered>>
          /\ \E s : s # "ienable" /\ pc' = [pc EXCEPT ![l] = s]
      BY <2>1 DEF DisableAll, StartBody, Link, StopBody, irqs
    <3>2. \A k \in Level : pc'[k] = "ienable" <=> pc[k] = "ienable"
      BY <1>0, <3>1 DEF TypeOK
    <3>3. QED
      BY <1>0, <3>1, <3>2 DEF TableInv
  <2>2. CASE RegisterBody(l)
    <3>1. /\ Runs(l) /\ pc[l] = "body" /\ op[l].kind = "register"
          /\ registered' = With(registered, op[l].irq, op[l].isr)
          /\ pc' = [pc EXCEPT ![l] = "ienable"] /\ UNCHANGED <<ienable, op>>
      BY <2>2 DEF RegisterBody
    <3>2. \A k \in Level : pc[k] # "ienable"
      BY <1>0, <3>1, Alone DEF Inside
    <3>3. ienable \subseteq registered
      BY <1>0, <3>2 DEF TableInv
    <3>4. pc'[l] = "ienable" /\ \A k \in Level : pc'[k] = "ienable" => k = l
      BY <1>0, <3>1, <3>2 DEF TypeOK
    <3>5. op[l].isr \in BOOLEAN
      BY <1>0, <3>1, OpTypes
    <3>6. \A i \in ienable \ registered' : op[l].irq = i /\ ~op[l].isr
      BY <3>1, <3>3 DEF With
    <3>7. op[l].irq \in registered' <=> op[l].isr
      BY <3>1, <3>5 DEF With
    <3>8. QED
      BY <3>1, <3>4, <3>6, <3>7 DEF TableInv
  <2>3. CASE SetIenable(l)
    <3>1. /\ Runs(l) /\ pc[l] = "ienable"
          /\ ienable' = With(ienable, op[l].irq, op[l].isr)
          /\ pc' = [pc EXCEPT ![l] = "enable"] /\ UNCHANGED <<registered, op>>
      BY <2>3 DEF SetIenable
    <3>2. \A k \in Level : k # l => pc[k] # "ienable"
      BY <1>0, <3>1, Alone DEF Inside
    <3>3. \A k \in Level : pc'[k] # "ienable"
      BY <1>0, <3>1, <3>2 DEF TypeOK
    <3>4. op[l].isr \in BOOLEAN
      BY <1>0, <3>1, OpTypes DEF CallInv
    <3>5. op[l].irq \in registered <=> op[l].isr
      BY <1>0, <3>1 DEF TableInv
    <3>6. \A i \in ienable \ registered : op[l].irq = i /\ ~op[l].isr
      BY <1>0, <3>2 DEF TableInv
    <3>7. ienable' \subseteq registered
      BY <3>1, <3>4, <3>5, <3>6 DEF With
    <3>8. QED
      BY <3>1, <3>3, <3>7 DEF TableInv
  <2>4. CASE EnableAll(l)
    <3>1. /\ pc[l] = "enable" /\ pc' = [pc EXCEPT ![l] = "idle"]
          /\ op' = [op EXCEPT ![l] = NoOp] /\ UNCHANGED <<ienable, registered>>
      BY <2>4 DEF EnableAll, irqs
    <3>2. \A k \in Level : /\ pc'[k] = "ienable" <=> pc[k] = "ienable"
                           /\ pc[k] = "ienable" => op'[k] = op[k]
      BY <1>0, <3>1 DEF TypeOK
    <3>3. QED
      BY <1>0, <3>1, <3>2 DEF TableInv
  <2>5. QED
    BY <1>6, <2>1, <2>2, <2>3, <2>4 DEF CallStep
<1>7. QED
  BY <1>2, <1>3, <1>4, <1>5, <1>6 DEF Next

\* No null pointer gets into the linked nodes.
LEMMA LinkStep == CoreInv /\ Next => LinkInv'
<1> SUFFICES ASSUME CoreInv, Next PROVE LinkInv'
  OBVIOUS
<1> USE NodeAssumption
<1>0. TypeOK /\ CallInv /\ LinkInv /\ Linked \subseteq Node /\ Linked' \subseteq Node
  BY DEF CoreInv, Linked
<1>1. ASSUME UNCHANGED <<next, previous, op>>, cursor' \in Linked, saved' \in Linked
      PROVE  LinkInv'
  BY <1>0, <1>1 DEF LinkInv, Linked
<1>2. CASE \/ \E i \in Irq : Request(i)
           \/ TakeInterrupt \/ Return \/ OuterDisable \/ OuterEnable \/ SysclkInit
  <2>1. UNCHANGED <<next, previous, op, cursor, saved>>
    BY <1>2 DEF Request, TakeInterrupt, Return, OuterDisable, OuterEnable, SysclkInit,
                alarms, links, handler, calls
  <2>2. QED
    BY <1>0, <1>1, <2>1 DEF LinkInv
<1>3. CASE Dispatch \/ Visit \/ TickEnd
  <2>1. /\ UNCHANGED <<next, previous, op>>
        /\ cursor' \in {cursor, next[Head], next[cursor]} /\ saved' \in {saved, Head, next[cursor]}
    BY <1>3 DEF Dispatch, Visit, TickEnd, alarms, links, calls
  <2>2. QED
    BY <1>0, <1>1, <2>1 DEF LinkInv
<1>4. ASSUME NEW a \in Linked, Remove(a), UNCHANGED saved, cursor' \in {cursor, saved},
             \A l \in Level : op'[l].kind = "stop" => op'[l].alarm \in Linked
      PROVE  LinkInv'
  <2>1. /\ \A x \in Node : next'[x] # NoLink <=> next[x] # NoLink
        /\ \A x \in Linked : next'[x] \in Linked /\ previous'[x] \in Linked
    BY <1>0, <1>4, RemoveTypes
  <2>2. Linked' = Linked
    BY <2>1 DEF Linked
  <2>3. QED
    BY <1>0, <1>4, <2>1, <2>2 DEF LinkInv
<1>5. ASSUME NEW r \in Periods, CallbackReturns(r) PROVE LinkInv'
  <2>1. cursor \in Linked /\ saved \in Linked /\ UNCHANGED <<saved, op>> /\ cursor' = saved
    BY <1>0, <1>5 DEF CallbackReturns, LinkInv, calls
  <2>2. CASE r = 0
    BY <1>0, <1>4, <1>5, <2>1, <2>2 DEF CallbackReturns, LinkInv
  <2>3. CASE r # 0
    BY <1>1, <1>5, <2>1, <2>3 DEF CallbackReturns, links
  <2>4. QED
    BY <2>2, <2>3
<1>6. ASSUME NEW l \in Level, Call(l) PROVE LinkInv'
  <2>1. /\ \E o : /\ op' = [op EXCEPT ![l] = o]
                  /\ o.kind = "stop" => o.alarm \in Alarm /\ next[o.alarm] # NoLink
        /\ UNCHANGED <<next, previous, cursor, saved>>
    <3>1. ASSUME NEW a \in Alarm, NEW n \in Delays, CallStart(l, a, n) PROVE <2>1!1 /\ <2>1!2
      <4> DEFINE o == [kind |-> "start", alarm |-> a, nticks |-> n]
      <4>1. o.kind # "stop" /\ op' = [op EXCEPT ![l] = o]
        BY <3>1 DEF CallStart, Begin
      <4>2. QED
        BY <3>1, <4>1 DEF CallStart, Begin, alarms, links
    <3>2. ASSUME NEW a \in Alarm, CallStop(l, a) PROVE <2>1!1 /\ <2>1!2
      <4> DEFINE o == [kind |-> "stop", alarm |-> a]
      <4>1. o.alarm = a /\ op' = [op EXCEPT ![l] = o] /\ next[a] # NoLink
        BY <3>2 DEF CallStop, Begin
      <4>2. QED
        BY <3>2, <4>1 DEF CallStop, Begin, alarms, links
    <3>3. ASSUME NEW i \in Irq, NEW h \in BOOLEAN, CallRegister(l, i, h) PROVE <2>1!1 /\ <2>1!2
      <4> DEFINE o == [kind |-> "register", irq |-> i, isr |-> h]
      <4>1. o.kind # "stop" /\ op' = [op EXCEPT ![l] = o]
        BY <3>3 DEF CallRegister, Begin
      <4>2. QED
        BY <3>3, <4>1 DEF CallRegister, Begin, alarms, links
    <3>4. QED
      BY <1>6, <3>1, <3>2, <3>3 DEF Call
  <2>2. \A k \in Level : op'[k].kind = "stop" => op'[k].alarm \in Linked
    BY <1>0, <2>1 DEF LinkInv, Linked, Node, TypeOK
  <2>3. Linked' = Linked
    BY <2>1 DEF Linked
  <2>4. QED
    BY <1>0, <2>1, <2>2, <2>3 DEF LinkInv
<1>7. ASSUME NEW l \in Level, CallStep(l) PROVE LinkInv'
  <2>1. CASE DisableAll(l) \/ RegisterBody(l) \/ SetIenable(l)
    <3>1. UNCHANGED <<next, previous, op, cursor, saved>>
      BY <2>1 DEF DisableAll, RegisterBody, SetIenable, alarms, links, handler
    <3>2. QED
      BY <1>0, <1>1, <3>1 DEF LinkInv
  <2>2. CASE StartBody(l)
    <3>1. PICK a \in Alarm : a = op[l].alarm
      BY <1>0, <2>2, OpTypes DEF StartBody
    <3>2. /\ previous' = [previous EXCEPT ![a] = Head] /\ next' = [next EXCEPT ![a] = next[Head]]
          /\ UNCHANGED <<op, cursor, saved>>
      BY <2>2, <3>1 DEF StartBody, handler
    <3>3. next[Head] \in Linked /\ next[Head] # NoLink /\ a \in Node
      BY <1>0 DEF LinkInv, Linked, Node
    <3>4. Linked' = Linked \cup {a}
      BY <1>0, <3>2, <3>3 DEF Linked, TypeOK
    <3>5. \A x \in Linked' : next'[x] \in Linked' /\ previous'[x] \in Linked'
      BY <1>0, <3>2, <3>3, <3>4 DEF LinkInv, TypeOK
    <3>6. QED
      BY <1>0, <3>2, <3>4, <3>5 DEF LinkInv
  <2>3. CASE Link(l)
    <3>1. PICK a \in Alarm : a = op[l].alarm
      BY <1>0, <2>3, OpTypes DEF Link, CallInv
    <3>2. /\ previous' = [previous EXCEPT ![next[Head]] = a] /\ next' = [next EXCEPT ![Head] = a]
          /\ UNCHANGED <<op, cursor, saved>>
      BY <2>3, <3>1 DEF Link, handler
    <3>3. next[a] = next[Head] /\ next[Head] \in Linked /\ next[Head] # NoLink
      BY <1>0, <2>3, <3>1 DEF CoreInv, ListInv, Starting, Link, LinkInv, Linked
    <3>4. a \in Linked /\ a # NoLink /\ Head \in Node
      BY <3>3 DEF Linked, Node
    <3>5. Linked' = Linked
      BY <1>0, <3>2, <3>4 DEF Linked, TypeOK, LinkInv
    <3>6. \A x \in Linked : next'[x] \in Linked /\ previous'[x] \in Linked
      BY <1>0, <3>2, <3>4 DEF LinkInv, TypeOK
    <3>7. QED
      BY <1>0, <3>2, <3>5, <3>6 DEF LinkInv
  <2>4. CASE StopBody(l)
    <3>1. /\ op[l].alarm \in Linked /\ Remove(op[l].alarm)
          /\ UNCHANGED <<op, cursor, saved>>
      BY <1>0, <2>4 DEF StopBody, LinkInv, handler
    <3>2. QED
      BY <1>0, <1>4, <3>1 DEF LinkInv
  <2>5. CASE EnableAll(l)
    <3>1. op' = [op EXCEPT ![l] = NoOp] /\ UNCHANGED <<next, previous, cursor, saved>>
      BY <2>5 DEF EnableAll, alarms, links, handler
    <3>2. NoOp.kind # "stop"
      BY DEF NoOp
    <3>3. \A k \in Level : op'[k].kind = "stop" => op'[k] = op[k] /\ op[k].kind = "stop"
      BY <1>0, <3>1, <3>2 DEF TypeOK
    <3>4. Linked' = Linked
      BY <3>1 DEF Linked
    <3>5. QED
      BY <1>0, <3>1, <3>3, <3>4 DEF LinkInv
  <2>6. QED
    BY <1>7, <2>1, <2>2, <2>3, <2>4, <2>5 DEF CallStep
<1>8. QED
  BY <1>2, <1>3, <1>5, <1>6, <1>7 DEF Next, Handler

\* The nodes that the list consists of, an alarm being inserted excepted.
Members == {x \in Listed : ~Inserting(x)}

\* What the order of the steps leaves alone leaves the list alone.
LEMMA ListFrame ==
    ASSUME ListInv, UNCHANGED <<next, previous>>, Members' = Members,
           \A l \in Level : /\ op'[l].kind = "start" => op'[l] = op[l]
                            /\ pc'[l] \in {"disable", "body"} /\ op'[l].kind = "start" =>
                                  pc[l] \in {"disable", "body"}
                            /\ pc'[l] = "link" => pc[l] = "link" /\ op'[l] = op[l]
    PROVE  ListInv'
<1>1. RingOn(Members)'
  BY DEF ListInv, Members, RingOn
<1>2. ASSUME NEW l \in Level
      PROVE  Starting(l)'
  BY <1>2 DEF ListInv, Starting, InList
<1>3. (op["app"].kind = "start" /\ op["cb"].kind = "start" =>
          op["app"].alarm # op["cb"].alarm)'
  BY Levels DEF ListInv
<1>4. QED
  BY <1>1, <1>2, <1>3 DEF ListInv, Members

\* A ring stays a ring when one of its nodes, other than the head, is removed.
LEMMA RingRemove ==
    ASSUME TypeOK, NEW R \in SUBSET Node, Head \in R, RingOn(R),
           NEW a \in R, a # Head, next[a] # a, Remove(a)
    PROVE  /\ RingOn(R \ {a})'
           /\ next'[a] = a
           /\ \A x \in R \ {a} : x # Head => next'[x] \notin {x, NoLink}
           /\ \A x \in Node \ R : next'[x] = next[x]
<1> DEFINE p == previous[a]
           n == next[a]
<1>1. /\ p \in R /\ n \in R /\ next[p] = a /\ previous[n] = a /\ p # a /\ n # a
      /\ a \in Node /\ p \in Node /\ n \in Node
  BY DEF RingOn
<1>2. /\ previous' = [previous EXCEPT ![n] = p, ![a] = a]
      /\ next' = [next EXCEPT ![p] = n, ![a] = a]
  BY DEF Remove
<1> HIDE DEF p, n
<1>3. /\ next'[a] = a /\ previous'[a] = a /\ next'[p] = n /\ previous'[n] = p
      /\ \A x \in Node \ {a, p} : next'[x] = next[x]
      /\ \A x \in Node \ {a, n} : previous'[x] = previous[x]
  BY <1>1, <1>2 DEF TypeOK
<1>4. \A x \in R : /\ next[x] = a => x = p
                   /\ previous[x] = a => x = n
                   /\ next[x] = n => x = a
                   /\ previous[x] = p => x = a
  BY <1>1 DEF RingOn, p, n
<1>5. ASSUME NEW x \in R \ {a}
      PROVE  /\ next'[x] \in R \ {a} /\ previous'[x] \in R \ {a}
             /\ previous'[next'[x]] = x /\ next'[previous'[x]] = x
  <2>1. next'[x] \in R \ {a} /\ previous'[x] \in R \ {a}
    BY <1>1, <1>3, <1>4 DEF RingOn
  <2>2. previous'[next'[x]] = x
    <3>1. CASE x = p
      BY <1>3, <3>1
    <3>2. CASE x # p
      <4>1. next'[x] = next[x] /\ next[x] # n /\ next[x] # a /\ next[x] \in R
        BY <1>1, <1>3, <1>4, <3>2 DEF RingOn
      <4>2. previous'[next[x]] = previous[next[x]]
        BY <1>3, <4>1
      <4>3. QED
        BY <4>1, <4>2 DEF RingOn
    <3>3. QED
      BY <3>1, <3>2
  <2>3. next'[previous'[x]] = x
    <3>1. CASE x = n
      BY <1>3, <3>1
    <3>2. CASE x # n
      <4>1. previous'[x] = previous[x] /\ previous[x] # p /\ previous[x] # a /\ previous[x] \in R
        BY <1>1, <1>3, <1>4, <3>2 DEF RingOn
      <4>2. next'[previous[x]] = next[previous[x]]
        BY <1>3, <4>1
      <4>3. QED
        BY <4>1, <4>2 DEF RingOn
    <3>3. QED
      BY <3>1, <3>2
  <2>4. QED
    BY <2>1, <2>2, <2>3
<1>6. ASSUME NEW S \in SUBSET (R \ {a}), Head \in S, \A x \in S : next'[x] \in S
      PROVE  S = R \ {a}
  <2>1. CASE p \in S
    <3>1. \A x \in S \cup {a} : next[x] \in S \cup {a}
      <4>1. n \in S
        BY <1>3, <1>6, <2>1
      <4>2. next[a] = n /\ next[p] = a
        BY <1>1 DEF n
      <4>3. \A x \in S : x = p \/ next'[x] = next[x]
        BY <1>3, <1>6
      <4>4. QED
        BY <1>6, <4>1, <4>2, <4>3
    <3>2. S \cup {a} \in SUBSET R /\ Head \in S \cup {a}
      BY <1>6
    <3>a. S \cup {a} = R
      BY <3>1, <3>2 DEF RingOn
    <3>3. QED
      BY <1>6, <3>a
  <2>2. CASE p \notin S
    <3>1. \A x \in S : next[x] \in S
      BY <1>3, <1>6, <2>2
    <3>2. S = R
      BY <1>6, <3>1 DEF RingOn
    <3>3. QED
      BY <1>1, <2>2, <3>2
  <2>3. QED
    BY <2>1, <2>2
<1>7. ASSUME NEW x \in R \ {a}, x # Head PROVE next'[x] \notin {x, NoLink}
  <2>1. next'[x] \in Node /\ next'[x] # NoLink
    BY <1>5, NodeAssumption DEF Node
  <2>2. ASSUME next'[x] = x PROVE FALSE
    <3>1. \A y \in R \ {a, x} : next'[y] \in R \ {a, x}
      BY <1>5, <2>2
    <3>2. R \ {a, x} = R \ {a}
      BY <1>6, <1>7, <3>1
    <3>3. QED
      BY <1>7, <3>2
  <2>3. QED
    BY <2>1, <2>2
<1>8. \A x \in Node \ R : next'[x] = next[x]
  BY <1>1, <1>3
<1>9. RingOn(R \ {a})'
  BY <1>5, <1>6 DEF RingOn
<1>10. QED
  BY <1>3, <1>7, <1>8, <1>9

\* A ring stays a ring when its head gets a new neighbour.
LEMMA RingInsert ==
    ASSUME TypeOK, NEW R \in SUBSET Node, Head \in R, RingOn(R),
           NEW a \in Node \ R, next[a] = next[Head], previous[a] = Head,
           next' = [next EXCEPT ![Head] = a],
           previous' = [previous EXCEPT ![next[Head]] = a]
    PROVE  RingOn(R \cup {a})'
<1> DEFINE n == next[Head]
<1>1. n \in R /\ previous[n] = Head /\ a # n /\ a # Head
  BY DEF RingOn
<1>a. previous' = [previous EXCEPT ![n] = a] /\ next[a] = n
  OBVIOUS
<1>b. \A x \in R : next[x] = n => x = Head
  BY DEF RingOn
<1> HIDE DEF n
<1>2. /\ next'[Head] = a /\ previous'[n] = a /\ next'[a] = n /\ previous'[a] = Head
      /\ \A x \in R \ {Head} : next'[x] = next[x]
      /\ \A x \in R \ {n} : previous'[x] = previous[x]
  BY <1>1, <1>a DEF TypeOK
<1>3. \A x \in R : previous[x] = Head => x = n
  BY DEF RingOn, n
<1>4. ASSUME NEW x \in R
      PROVE  /\ next'[x] \in R \cup {a} /\ previous'[next'[x]] = x
             /\ previous'[x] \in R \cup {a} /\ next'[previous'[x]] = x
  <2>1. next'[x] \in R \cup {a} /\ previous'[next'[x]] = x
    <3>1. CASE x = Head
      BY <1>2, <3>1
    <3>2. CASE x # Head
      <4>1. next'[x] = next[x] /\ next[x] # n /\ next[x] \in R
        BY <1>b, <1>2, <3>2 DEF RingOn
      <4>2. previous'[next[x]] = previous[next[x]]
        BY <1>2, <4>1
      <4>3. QED
        BY <4>1, <4>2 DEF RingOn
    <3>3. QED
      BY <3>1, <3>2
  <2>2. previous'[x] \in R \cup {a} /\ next'[previous'[x]] = x
    <3>1. CASE x = n
      BY <1>2, <3>1
    <3>2. CASE x # n
      <4>1. previous'[x] = previous[x] /\ previous[x] # Head /\ previous[x] \in R
        BY <1>2, <1>3, <3>2 DEF RingOn
      <4>2. next'[previous[x]] = next[previous[x]]
        BY <1>2, <4>1
      <4>3. QED
        BY <4>1, <4>2 DEF RingOn
    <3>3. QED
      BY <3>1, <3>2
  <2>3. QED
    BY <2>1, <2>2
<1>5. /\ next'[a] \in R \cup {a} /\ previous'[next'[a]] = a
      /\ previous'[a] \in R \cup {a} /\ next'[previous'[a]] = a
  BY <1>1, <1>2
<1>6. ASSUME NEW S \in SUBSET (R \cup {a}), Head \in S, \A x \in S : next'[x] \in S
      PROVE  S = R \cup {a}
  <2>1. a \in S /\ n \in S
    BY <1>2, <1>6
  <2>2. \A x \in S \ {a} : next[x] \in S \ {a}
    <3>1. ASSUME NEW x \in S \ {a}, x # Head PROVE next[x] \in S \ {a}
      BY <1>2, <1>6, <3>1 DEF RingOn
    <3>2. next[Head] \in S \ {a}
      BY <1>1, <2>1 DEF n
    <3>3. QED
      BY <3>1, <3>2
  <2>3. S \ {a} \in SUBSET R /\ Head \in S \ {a}
    BY <1>1, <1>6
  <2>4. S \ {a} = R
    BY <2>2, <2>3 DEF RingOn
  <2>5. QED
    BY <2>1, <2>4
<1>7. QED
  BY <1>4, <1>5, <1>6 DEF RingOn

\* Taking an alarm out of the list while nothing is being inserted.
LEMMA ListRemove ==
    ASSUME CoreInv, NEW a \in Alarm, a \in Linked, Remove(a), UNCHANGED op,
           \A l \in Level : /\ pc[l] # "link" /\ pc'[l] # "link"
                            /\ pc'[l] \in {"disable", "body"} => pc'[l] = pc[l]
    PROVE  ListInv'
<1>0. TypeOK /\ ListInv
  BY DEF CoreInv
<1>1. Members = Listed /\ Members' = Listed'
  BY DEF Members, Inserting
<1>2. CASE next[a] = a
  <2>1. UNCHANGED <<next, previous>>
    BY <1>2 DEF Remove, links
  <2>2. Members' = Members
    BY <1>1, <2>1 DEF Listed, InList
  <2>3. QED
    BY <1>0, <2>1, <2>2, ListFrame
<1>3. CASE next[a] # a
  <2>1. PICK R \in SUBSET Node : R = Members
    BY DEF Members, Listed
  <2>2. Head \in R /\ RingOn(R) /\ a \in R /\ a # Head
    BY <1>0, <1>1, <1>3, <2>1, NodeAssumption
       DEF ListInv, Members, Listed, InList, Linked, Node
  <2>3. /\ RingOn(R \ {a})'
        /\ next'[a] = a
        /\ \A x \in R \ {a} : x # Head => next'[x] \notin {x, NoLink}
        /\ \A x \in Node \ R : next'[x] = next[x]
    BY <1>0, <1>3, <2>2, RingRemove
  <2>b. Members' = R \ {a}
    BY <1>1, <2>1, <2>2, <2>3 DEF Listed, InList
  <2>a. RingOn(Members)'
    BY <2>3, <2>b DEF RingOn
  <2>4. ASSUME NEW l \in Level PROVE Starting(l)'
    <3>1. CASE op[l].kind = "start" /\ pc'[l] \in {"disable", "body"}
      <4>1. op[l].alarm \in Alarm /\ ~InList(op[l].alarm)
        BY <1>0, <3>1, OpTypes DEF ListInv, Starting
      <4>2. op[l].alarm \in Node \ R
        BY <1>1, <2>1, <4>1, NodeAssumption DEF Listed, Node
      <4>3. QED
        BY <2>3, <4>1, <4>2 DEF Starting, InList
    <3>2. CASE ~(op[l].kind = "start" /\ pc'[l] \in {"disable", "body"})
      BY <3>2 DEF Starting
    <3>3. QED
      BY <3>1, <3>2
  <2>5. (op["app"].kind = "start" /\ op["cb"].kind = "start" =>
            op["app"].alarm # op["cb"].alarm)'
    BY <1>0 DEF ListInv
  <2>6. QED
    BY <2>a, <2>4, <2>5 DEF ListInv, Members
<1>4. QED
  BY <1>2, <1>3

\* The list is one ring again after every step, the inserted alarm excepted.
LEMMA ListStep == CoreInv /\ Next => ListInv'
<1> SUFFICES ASSUME CoreInv, Next PROVE ListInv'
  OBVIOUS
<1>0. TypeOK /\ CallInv /\ CursorInv /\ LinkInv /\ ListInv
  BY DEF CoreInv
<1>1. ASSUME UNCHANGED <<next, previous, pc, op>> PROVE ListInv'
  <2>1. Members' = Members
    BY <1>1 DEF Members, Listed, InList, Inserting
  <2>2. QED
    BY <1>0, <1>1, <2>1, ListFrame
<1>2. CASE \/ \E i \in Irq : Request(i)
           \/ TakeInterrupt \/ Dispatch \/ Return \/ Visit \/ TickEnd
           \/ OuterDisable \/ OuterEnable \/ SysclkInit
  BY <1>1, <1>2 DEF Request, TakeInterrupt, Dispatch, Return, Visit, TickEnd, OuterDisable,
                    OuterEnable, SysclkInit, alarms, links, calls
<1>3. ASSUME NEW r \in Periods, CallbackReturns(r) PROVE ListInv'
  <2>1. isr = "callback" /\ pc["cb"] = "idle" /\ UNCHANGED <<pc, op>>
    BY <1>3 DEF CallbackReturns, calls
  <2>2. CASE r = 0
    <3>1. Remove(cursor) /\ cursor \in Alarm /\ cursor \in Linked
      BY <1>0, <1>3, <2>1, <2>2 DEF CallbackReturns, CursorInv, LinkInv, TypeOK, Node
    <3>2. \A l \in Level : pc[l] # "link"
      BY <1>0, <2>1, Levels DEF CallInv, Inside
    <3>3. QED
      BY <2>1, <3>1, <3>2, ListRemove
  <2>3. CASE r # 0
    BY <1>1, <1>3, <2>1, <2>3 DEF CallbackReturns, links
  <2>4. QED
    BY <2>2, <2>3
<1>4. ASSUME NEW l \in Level, NEW o \in Ops, Begin(l, o),
             o.kind = "start" => /\ o.alarm \in Alarm /\ ~InList(o.alarm)
                                 /\ ~About("start", o.alarm)
      PROVE  ListInv'
  <2>1. /\ pc[l] = "idle" /\ pc' = [pc EXCEPT ![l] = "disable"]
        /\ op' = [op EXCEPT ![l] = o] /\ UNCHANGED <<next, previous>>
    BY <1>4 DEF Begin, alarms, links
  <2>2. \A k \in Level : /\ pc'[k] = IF k = l THEN "disable" ELSE pc[k]
                         /\ op'[k] = IF k = l THEN o ELSE op[k]
    BY <1>0, <2>1 DEF TypeOK
  <2>3. Members' = Members
    BY <2>1, <2>2 DEF Members, Listed, InList, Inserting
  <2>4. RingOn(Members)'
    BY <1>0, <2>1, <2>3 DEF ListInv, Members, RingOn
  <2>5. ASSUME NEW k \in Level PROVE Starting(k)'
    <3>1. CASE k = l
      BY <1>4, <2>1, <2>2, <3>1 DEF Starting, InList
    <3>2. CASE k # l
      BY <1>0, <2>1, <2>2, <3>2 DEF ListInv, Starting, InList
    <3>3. QED
      BY <3>1, <3>2
  <2>6. (op["app"].kind = "start" /\ op["cb"].kind = "start" =>
            op["app"].alarm # op["cb"].alarm)'
    BY <1>0, <1>4, <2>2, Levels DEF ListInv, About
  <2>7. QED
    BY <2>4, <2>5, <2>6 DEF ListInv, Members
<1>5. ASSUME NEW l \in Level, Call(l) PROVE ListInv'
  <2>1. ASSUME NEW a \in Alarm, NEW n \in Delays, CallStart(l, a, n) PROVE ListInv'
    <3> DEFINE o == [kind |-> "start", alarm |-> a, nticks |-> n]
    <3>1. o \in Ops /\ o.alarm = a
      BY DEF Ops
    <3>2. QED
      BY <1>4, <2>1, <3>1 DEF CallStart
  <2>2. ASSUME NEW a \in Alarm, CallStop(l, a) PROVE ListInv'
    <3> DEFINE o == [kind |-> "stop", alarm |-> a]
    <3>1. o \in Ops /\ o.kind # "start"
      BY DEF Ops
    <3>2. QED
      BY <1>4, <2>2, <3>1 DEF CallStop
  <2>3. ASSUME NEW i \in Irq, NEW h \in BOOLEAN, CallRegister(l, i, h) PROVE ListInv'
    <3> DEFINE o == [kind |-> "register", irq |-> i, isr |-> h]
    <3>1. o \in Ops /\ o.kind # "start"
      BY DEF Ops
    <3>2. QED
      BY <1>4, <2>3, <3>1 DEF CallRegister
  <2>4. QED
    BY <1>5, <2>1, <2>2, <2>3 DEF Call
<1>6. ASSUME NEW l \in Level, CallStep(l) PROVE ListInv'
  <2>1. CASE DisableAll(l) \/ RegisterBody(l) \/ SetIenable(l)
    <3>1. /\ UNCHANGED <<next, previous, op>>
          /\ \/ pc[l] = "disable" /\ pc' = [pc EXCEPT ![l] = "body"]
             \/ pc[l] \in {"body", "ienable"} /\ pc' = [pc EXCEPT ![l] = "ienable"]
             \/ pc[l] \in {"body", "ienable"} /\ pc' = [pc EXCEPT ![l] = "enable"]
      BY <2>1 DEF DisableAll, RegisterBody, SetIenable, alarms, links
    <3>2. \A k \in Level : /\ pc'[k] = "link" <=> pc[k] = "link"
                           /\ pc'[k] \in {"disable", "body"} => pc[k] \in {"disable", "body"}
      BY <1>0, <3>1 DEF TypeOK
    <3>3. Members' = Members
      BY <3>1, <3>2 DEF Members, Listed, InList, Inserting
    <3>4. QED
      BY <1>0, <3>1, <3>2, <3>3, ListFrame
  <2>2. CASE StartBody(l)
    <3>1. PICK a \in Alarm : a = op[l].alarm
      BY <1>0, <2>2, OpTypes DEF StartBody
    <3>2. /\ previous' = [previous EXCEPT ![a] = Head] /\ next' = [next EXCEPT ![a] = next[Head]]
          /\ Runs(l) /\ pc[l] = "body" /\ op[l].kind = "start"
          /\ pc' = [pc EXCEPT ![l] = "link"] /\ UNCHANGED op
      BY <2>2, <3>1 DEF StartBody
    <3>3. \A k \in Level : /\ k # l => ~Inside(k) /\ pc'[k] = pc[k] /\ pc[k] # "link"
                           /\ pc[l] # "link" /\ pc'[l] = "link"
      BY <1>0, <3>2, Alone DEF Inside, TypeOK
    <3>4. ~InList(a) /\ a # Head
      BY <1>0, <3>1, <3>2, NodeAssumption DEF ListInv, Starting
    <3>5. PICK R \in SUBSET Node : R = Members
      BY DEF Members, Listed
    <3>6. a \notin R /\ R = Listed /\ Head \in R /\ RingOn(R)
      BY <1>0, <3>3, <3>4, <3>5 DEF Members, Listed, Inserting, ListInv, Node
    <3>7. /\ next'[a] = next[Head] /\ previous'[a] = Head /\ next'[Head] = next[Head]
          /\ \A x \in Node \ {a} : next'[x] = next[x] /\ previous'[x] = previous[x]
      BY <1>0, <3>2, <3>4 DEF TypeOK, Node
    <3>8. \A x \in Node : Inserting(x)' <=> x = a
      BY <3>1, <3>2, <3>3 DEF Inserting
    <3>9. Members' = R
      BY <3>6, <3>7, <3>8 DEF Members, Listed, InList
    <3>10. RingOn(R)'
      BY <3>6, <3>7 DEF RingOn
    <3>11. RingOn(Members)'
      BY <3>9, <3>10 DEF RingOn
    <3>12. ASSUME NEW k \in Level PROVE Starting(k)'
      <4>1. CASE k = l
        BY <3>1, <3>2, <3>3, <3>7, <4>1 DEF Starting
      <4>2. CASE k # l
        <5>1. pc'[k] = pc[k] /\ pc[k] # "link" /\ op'[k] = op[k]
          BY <3>2, <3>3, <4>2
        <5>2. op[k].kind = "start" => op[k].alarm \in Alarm /\ op[k].alarm # a
          BY <1>0, <3>1, <3>2, <4>2, OpTypes, Levels DEF ListInv
        <5>3. QED
          BY <1>0, <3>7, <5>1, <5>2 DEF ListInv, Starting, InList, Node
      <4>3. QED
        BY <4>1, <4>2
    <3>13. (op["app"].kind = "start" /\ op["cb"].kind = "start" =>
               op["app"].alarm # op["cb"].alarm)'
      BY <1>0, <3>2 DEF ListInv
    <3>14. QED
      BY <3>11, <3>12, <3>13 DEF ListInv, Members
  <2>3. CASE Link(l)
    <3>1. PICK a \in Alarm : a = op[l].alarm
      BY <1>0, <2>3, OpTypes DEF Link, CallInv
    <3>2. /\ previous' = [previous EXCEPT ![next[Head]] = a] /\ next' = [next EXCEPT ![Head] = a]
          /\ Runs(l) /\ pc[l] = "link" /\ pc' = [pc EXCEPT ![l] = "enable"] /\ UNCHANGED op
      BY <2>3, <3>1 DEF Link
    <3>3. \A k \in Level : pc'[k] # "link" /\ (k # l => pc[k] # "link" /\ pc'[k] = pc[k])
      BY <1>0, <3>2, Alone DEF Inside, TypeOK
    <3>4. \A x \in Node : Inserting(x) <=> x = a
      BY <3>1, <3>2, <3>3 DEF Inserting
    <3>5. PICK R \in SUBSET Node : R = Members
      BY DEF Members, Listed
    <3>6. a # Head /\ a \in Node \ R /\ Head \in R /\ RingOn(R) /\ R = Listed \ {a}
      BY <1>0, <3>4, <3>5, NodeAssumption DEF Members, Listed, ListInv, Node
    <3>7. next[a] = next[Head] /\ previous[a] = Head
      BY <1>0, <3>1, <3>2 DEF ListInv, Starting
    <3>8. RingOn(R \cup {a})'
      BY <1>0, <3>2, <3>6, <3>7, RingInsert
    <3>9. /\ \A x \in Node \ {Head} : next'[x] = next[x]
          /\ next[Head] \in R
      BY <1>0, <3>2, <3>6 DEF TypeOK, RingOn
    <3>10. InList(a)
      BY <3>6, <3>7, <3>9, NodeAssumption DEF InList, Node
    <3>11. Members' = R \cup {a}
      BY <3>3, <3>6, <3>9, <3>10 DEF Members, Listed, InList, Inserting, Node
    <3>12. RingOn(Members)'
      BY <3>8, <3>11 DEF RingOn
    <3>13. ASSUME NEW k \in Level PROVE Starting(k)'
      <4>1. CASE op[k].kind = "start" /\ pc'[k] \in {"disable", "body"}
        <5>1. k # l
          BY <1>0, <3>2, <4>1 DEF TypeOK
        <5>2. op[k].alarm \in Alarm /\ ~InList(op[k].alarm)
          BY <1>0, <3>3, <4>1, <5>1, OpTypes DEF ListInv, Starting
        <5>3. op[k].alarm \in Node \ {Head}
          BY <5>2, NodeAssumption DEF Node
        <5>4. QED
          BY <3>2, <3>3, <3>9, <5>2, <5>3 DEF Starting, InList
      <4>2. CASE ~(op[k].kind = "start" /\ pc'[k] \in {"disable", "body"})
        BY <3>2, <3>3, <4>2 DEF Starting
      <4>3. QED
        BY <4>1, <4>2
    <3>14. (op["app"].kind = "start" /\ op["cb"].kind = "start" =>
               op["app"].alarm # op["cb"].alarm)'
      BY <1>0, <3>2 DEF ListInv
    <3>15. QED
      BY <3>12, <3>13, <3>14 DEF ListInv, Members
  <2>4. CASE StopBody(l)
    <3>1. /\ Runs(l) /\ pc[l] = "body" /\ op[l].kind = "stop" /\ Remove(op[l].alarm)
          /\ pc' = [pc EXCEPT ![l] = "enable"] /\ UNCHANGED op
      BY <2>4 DEF StopBody
    <3>2. op[l].alarm \in Alarm /\ op[l].alarm \in Linked
      BY <1>0, <3>1, OpTypes DEF LinkInv
    <3>3. \A k \in Level : /\ pc[k] # "link" /\ pc'[k] # "link"
                           /\ pc'[k] \in {"disable", "body"} => pc'[k] = pc[k]
      BY <1>0, <3>1, Alone DEF Inside, TypeOK
    <3>4. QED
      BY <3>1, <3>2, <3>3, ListRemove
  <2>5. CASE EnableAll(l)
    <3>1. /\ pc[l] = "enable" /\ pc' = [pc EXCEPT ![l] = "idle"]
          /\ op' = [op EXCEPT ![l] = NoOp] /\ UNCHANGED <<next, previous>>
      BY <2>5 DEF EnableAll, alarms, links
    <3>2. NoOp.kind # "start"
      BY DEF NoOp
    <3>3. \A k \in Level : /\ pc'[k] = IF k = l THEN "idle" ELSE pc[k]
                           /\ op'[k] = IF k = l THEN NoOp ELSE op[k]
      BY <1>0, <3>1 DEF TypeOK
    <3>4. Members' = Members
      BY <3>1, <3>3 DEF Members, Listed, InList, Inserting
    <3>5. QED
      BY <1>0, <3>1, <3>2, <3>3, <3>4, ListFrame
  <2>6. QED
    BY <1>6, <2>1, <2>2, <2>3, <2>4, <2>5 DEF CallStep
<1>7. QED
  BY <1>2, <1>3, <1>5, <1>6 DEF Next, Handler

\* alt_tick leaves the loop at the head of the list.
LEMMA CursorStep == CoreInv /\ Next => CursorInv'
<1> SUFFICES ASSUME CoreInv, Next, isr' = "callback" PROVE cursor' # Head
  BY DEF CursorInv
<1>0. CursorInv
  BY DEF CoreInv
<1>1. (isr = "callback" /\ cursor' = cursor) \/ Visit
  BY DEF Next, Request, Handler, TakeInterrupt, Dispatch, Return, TickEnd, CallbackReturns,
         Call, CallStart, CallStop, CallRegister, Begin, CallStep, DisableAll, StartBody, Link,
         StopBody, RegisterBody, SetIenable, EnableAll, OuterDisable, OuterEnable, SysclkInit,
         handler
<1>2. QED
  BY <1>0, <1>1 DEF CursorInv, Visit

\* Every step keeps the invariant.
LEMMA NextInv == CoreInv /\ [Next]_vars => CoreInv'
<1>1. ASSUME CoreInv, Next PROVE CoreInv'
  <2>1. TypeOK' /\ Exclusive' /\ CallInv' /\ CursorInv' /\ TableInv' /\ LinkInv' /\ ListInv'
    BY <1>1, TypeStep, ControlStep, CursorStep, TableStep, LinkStep, ListStep
  <2>2. HandlerPresent'
    BY <2>1, Dispatchable, PTL
  <2>3. QED
    BY <2>1, <2>2 DEF CoreInv
<1>2. ASSUME CoreInv, UNCHANGED vars PROVE CoreInv'
  <2>1. UNCHANGED <<ticking, nticks, next, previous, time, rollover, left, pie, ienable, line,
                    registered, isr, cursor, saved, called, pc, op, ctx, outer>>
    BY <1>2 DEF vars, alarms, links, fields, irqs, handler, calls
  <2>2. TypeOK'
    BY <1>2, <2>1 DEF CoreInv, TypeOK
  <2>3. Exclusive' /\ CallInv' /\ CursorInv' /\ TableInv'
    BY <1>2, <2>1 DEF CoreInv, Exclusive, CallInv, CursorInv, TableInv, Inside
  <2>4. HandlerPresent'
    BY <2>2, <2>3, Dispatchable, PTL
  <2>5. LinkInv'
    BY <1>2, <2>1 DEF CoreInv, LinkInv, Linked
  <2>6. ListInv'
    <3>1. Members' = Members
      BY <2>1 DEF Members, Listed, InList, Inserting
    <3>2. QED
      BY <1>2, <2>1, <3>1, ListFrame DEF CoreInv
  <2>7. QED
    BY <2>2, <2>3, <2>4, <2>5, <2>6 DEF CoreInv
<1>3. QED
  BY <1>1, <1>2

\* For any alarms, delays, periods and width of the counter: calls, critical sections
\* and handlers exclude each other, no null handler is called and no null link is
\* followed, however the devices and the callbacks cut in.
THEOREM AlarmsSound == Spec => []CoreInv
<1>1. QED
  BY InitInv, NextInv, PTL DEF Spec

\* A handler always finds the list of alarms a single ring, linked the same way in both
\* directions.
THEOREM SoundTheorem == Spec => []SoundList
<1>1. CoreInv => SoundList
  <2> SUFFICES ASSUME CoreInv, isr # "off", pc["cb"] # "link" PROVE RingOn(Listed)
    BY DEF SoundList
  <2>1. \A l \in Level : pc[l] # "link"
    BY Levels DEF CoreInv, CallInv, Inside
  <2>2. Members = Listed
    BY <2>1 DEF Members, Inserting
  <2>3. QED
    BY <2>2 DEF CoreInv, ListInv, Members
<1>2. QED
  BY <1>1, AlarmsSound, PTL

-----------------------------------------------------------------------------
(* The time of the alarms: whatever the width of the tick counter, a        *)
(* callback comes in the tick in which its alarm is due, and alt_tick       *)
(* leaves no alarm behind, even if callbacks start and stop alarms while it *)
(* goes through the list.                                                   *)

\* The counter goes round once at most until an alarm is due.
LEMMA OneTurn ==
    ASSUME NEW t \in 0 .. Wrap - 1, NEW d \in 0 .. Wrap - 1
    PROVE  (t + d) % Wrap = IF t + d >= Wrap THEN t + d - Wrap ELSE t + d
<1>1. \A k \in Nat : k < Wrap => k % Wrap = k
  BY WrapAssumption
<1>2. \A k \in Nat : Wrap <= k /\ k < 2 * Wrap => k % Wrap = k - Wrap
  BY WrapAssumption
<1>3. t + d \in Nat /\ t + d < 2 * Wrap
  BY WrapAssumption
<1>4. QED
  BY <1>1, <1>2, <1>3, WrapAssumption

\* The values that the time of an alarm is made of.
LEMMA TimeTypes ==
    ASSUME TypeOK
    PROVE  /\ Wrap \in Nat /\ Wrap >= 2 /\ nticks \in 0 .. Wrap - 1
           /\ \A a \in Alarm : /\ time[a] \in 0 .. Wrap - 1 /\ left[a] \in 0 .. Wrap - 1
                               /\ rollover[a] \in BOOLEAN
BY WrapAssumption DEF TypeOK

-----------------------------------------------------------------------------
(* The nodes ahead *)

\* A step along the list leaves one node behind.
LEMMA AheadNext ==
    ASSUME NEW c \in Node, next[c] \in Node, c # Head
    PROVE  c \in Ahead(c) /\ Ahead(c) \subseteq Ahead(next[c]) \cup {c}
<1>1. c \in Ahead(c)
  BY DEF Ahead
<1>2. ASSUME NEW x \in Ahead(c), x # c,
             NEW S \in SUBSET Node, next[c] \in S, \A y \in S \ {Head} : next[y] \in S
      PROVE  x \in S
  <2>1. S \cup {c} \in SUBSET Node /\ \A y \in (S \cup {c}) \ {Head} : next[y] \in S \cup {c}
    BY <1>2
  <2>2. x \in S \cup {c}
    BY <1>2, <2>1 DEF Ahead
  <2>3. QED
    BY <1>2, <2>2
<1>3. Ahead(c) \subseteq Node
  BY DEF Ahead
<1>4. QED
  BY <1>1, <1>2, <1>3 DEF Ahead

\* At the head there is nothing ahead.
LEMMA AheadHead == Ahead(Head) \ {Head} = {}
<1>1. {Head} \in SUBSET Node
  BY DEF Node
<1>2. QED
  BY <1>1 DEF Ahead

\* From the first node on the whole list is ahead.
LEMMA AheadAll ==
    ASSUME NEW R \in SUBSET Node, Head \in R, RingOn(R)
    PROVE  R \ {Head} \subseteq Ahead(next[Head])
<1> SUFFICES ASSUME NEW x \in R, x # Head,
                    NEW S \in SUBSET Node, next[Head] \in S, \A y \in S \ {Head} : next[y] \in S
             PROVE  x \in S
  BY DEF Ahead
<1> DEFINE T == (S \cup {Head}) \cap R
<1>1. T \in SUBSET R /\ Head \in T
  OBVIOUS
<1>2. \A y \in T : next[y] \in T
  BY DEF RingOn
<1>3. T = R
  BY <1>1, <1>2 DEF RingOn
<1>4. QED
  BY <1>3

\* Links behind the head, and those of the head itself, do not matter.
LEMMA AheadSame ==
    ASSUME NEW c \in Node, NEW R \in SUBSET Node, Head \in R, RingOn(R), c \in R,
           \A y \in R \ {Head} : next'[y] = next[y]
    PROVE  Ahead(c) \subseteq Ahead(c)'
<1> SUFFICES ASSUME NEW x \in Ahead(c),
                    NEW S \in SUBSET Node, c \in S, \A y \in S \ {Head} : next'[y] \in S
             PROVE  x \in S
  BY DEF Ahead
<1>1. \A y \in (S \cap R) \ {Head} : next[y] \in S \cap R
  BY DEF RingOn
<1>2. QED
  BY <1>1 DEF Ahead

\* Removing another node leaves the rest of the nodes ahead where they are.
LEMMA AheadRemove ==
    ASSUME TypeOK, NEW R \in SUBSET Node, Head \in R, RingOn(R),
           NEW b \in R, b # Head, next[b] # b, NEW c \in R, c # b, Remove(b)
    PROVE  Ahead(c) \ {b} \subseteq Ahead(c)'
<1> SUFFICES ASSUME NEW x \in Ahead(c), x # b,
                    NEW S \in SUBSET Node, c \in S, \A y \in S \ {Head} : next'[y] \in S
             PROVE  x \in S
  BY DEF Ahead
<1> DEFINE p == previous[b]
<1>1. /\ p \in R /\ next[p] = b /\ next[b] \in R /\ p # b
      /\ \A y \in R : next[y] = b => y = p
  BY DEF RingOn
<1>2. next' = [next EXCEPT ![p] = next[b], ![b] = b]
  BY DEF Remove
<1> HIDE DEF p
<1>3. next'[p] = next[b] /\ \A y \in R \ {b, p} : next'[y] = next[y]
  BY <1>1, <1>2 DEF TypeOK
<1>4. CASE p \in S /\ p # Head
  <2> DEFINE T == (S \cap R) \cup {b}
  <2>1. T \in SUBSET Node /\ c \in T
    OBVIOUS
  <2>2. ASSUME NEW y \in T, y # Head PROVE next[y] \in T
    <3>1. CASE y = b
      BY <1>1, <1>3, <1>4, <3>1
    <3>2. CASE y = p
      BY <1>1, <3>2
    <3>3. CASE y # b /\ y # p
      BY <1>3, <2>2, <3>3 DEF RingOn
    <3>4. QED
      BY <3>1, <3>2, <3>3
  <2>3. x \in T
    BY <2>1, <2>2 DEF Ahead
  <2>4. QED
    BY <2>3
<1>5. CASE p \notin S \/ p = Head
  <2> DEFINE T == (S \cap R) \ {b}
  <2>1. T \in SUBSET Node /\ c \in T
    OBVIOUS
  <2>2. ASSUME NEW y \in T, y # Head PROVE next[y] \in T
    <3>1. y # p /\ y # b /\ y \in R /\ y \in S
      BY <1>5, <2>2
    <3>2. next'[y] = next[y] /\ next[y] # b /\ next[y] \in R
      BY <1>1, <1>3, <3>1 DEF RingOn
    <3>3. QED
      BY <2>2, <3>1, <3>2
  <2>3. x \in T
    BY <2>1, <2>2 DEF Ahead
  <2>4. QED
    BY <2>3
<1>6. QED
  BY <1>4, <1>5

\* What removing an alarm does to the others.
LEMMA RemoveEffect ==
    ASSUME CoreInv, NEW b \in Alarm, b \in Linked, Remove(b), \A l \in Level : pc[l] # "link"
    PROVE  /\ \A a \in Alarm : InList(a)' => InList(a) /\ a # b
           /\ \A c \in Node : (c = Head \/ InList(c)) /\ c # b =>
                 (c = Head \/ InList(c)') /\ Ahead(c) \ {b} \subseteq Ahead(c)'
<1>0. TypeOK /\ ListInv /\ b \in Node /\ b # Head
  BY NodeAssumption DEF CoreInv, Node
<1>1. PICK R \in SUBSET Node : R = Members
  BY DEF Members, Listed
<1>2. R = Listed /\ Head \in R /\ RingOn(R)
  BY <1>0, <1>1 DEF ListInv, Members, Listed, Inserting, Node
<1>3. CASE next[b] = b
  <2>1. UNCHANGED next
    BY <1>3 DEF Remove, links
  <2>2. ~InList(b)
    BY <1>3 DEF InList
  <2>3. ASSUME NEW c \in Node PROVE Ahead(c) \subseteq Ahead(c)' /\ (InList(c)' <=> InList(c))
    BY <2>1 DEF Ahead, InList
  <2>4. \A a \in Alarm : InList(a)' => InList(a) /\ a # b
    BY <2>2, <2>3 DEF Node
  <2>5. QED
    BY <2>3, <2>4
<1>4. CASE next[b] # b
  <2>1. b \in R
    BY <1>0, <1>2, <1>4 DEF Listed, InList, Linked
  <2>2. /\ next'[b] = b
        /\ \A x \in R \ {b} : x # Head => next'[x] \notin {x, NoLink}
        /\ \A x \in Node \ R : next'[x] = next[x]
    BY <1>0, <1>2, <1>4, <2>1, RingRemove
  <2>3. ASSUME NEW a \in Alarm, InList(a)' PROVE InList(a) /\ a # b
    <3>1. a # b /\ a \in Node /\ a # Head
      BY <2>2, <2>3, NodeAssumption DEF InList, Node
    <3>2. a \in R => InList(a)
      BY <1>2, <3>1 DEF Listed
    <3>3. a \notin R => InList(a)
      BY <2>2, <2>3, <3>1 DEF InList
    <3>4. QED
      BY <3>1, <3>2, <3>3
  <2>4. ASSUME NEW c \in Node, c = Head \/ InList(c), c # b
        PROVE  (c = Head \/ InList(c)') /\ Ahead(c) \ {b} \subseteq Ahead(c)'
    <3>1. c \in R
      BY <1>2, <2>4 DEF Listed
    <3>2. Ahead(c) \ {b} \subseteq Ahead(c)'
      BY <1>0, <1>2, <1>4, <2>1, <2>4, <3>1, AheadRemove
    <3>3. QED
      BY <2>2, <2>4, <3>1, <3>2 DEF InList
  <2>5. QED
    BY <2>3, <2>4
<1>5. QED
  BY <1>3, <1>4

-----------------------------------------------------------------------------
(* The steps *)

\* Alarms are in the list together with the head, when nothing is being inserted.
LEMMA WholeList ==
    ASSUME CoreInv, \A l \in Level : pc[l] # "link"
    PROVE  \E R \in SUBSET Node :
              /\ Head \in R /\ RingOn(R)
              /\ \A x \in Node : x \in R <=> x = Head \/ InList(x)
<1>1. Members = {x \in Node : x = Head \/ InList(x)}
  BY DEF Members, Listed, Inserting
<1>2. Members \in SUBSET Node /\ RingOn(Members) /\ Head \in Members
  BY <1>1 DEF CoreInv, ListInv, Members, Node
<1>3. \A x \in Node : x \in Members <=> x = Head \/ InList(x)
  BY <1>1
<1>4. QED
  BY <1>2, <1>3

\* Nobody inserts an alarm in a handler outside of callbacks.
LEMMA NoLinking ==
    ASSUME CoreInv, isr \in {"dispatch", "tick"}
    PROVE  /\ \A l \in Level : pc[l] # "link"
           /\ op["cb"] = NoOp
BY Levels DEF CoreInv, CallInv, Inside

\* alt_tick goes on with the head of the list or with an alarm in the list.
LEMMA OnTheWay ==
    ASSUME Punctual
    PROVE  /\ isr = "tick" => cursor = Head \/ InList(cursor)
           /\ isr = "callback" => CallbackInv /\ (saved = Head \/ InList(saved))
BY DEF Punctual, Lost, Astray

\* What leaves list, times and handler alone leaves the schedule alone.
LEMMA TimeFrame ==
    ASSUME Punctual, UNCHANGED <<nticks, next, fields, isr, cursor, saved>>,
           isr = "callback" => /\ op'["cb"] # NoOp => called'
                               /\ op'["cb"].kind = "start" => op'["cb"].alarm # cursor
    PROVE  Punctual'
<1>1. ToVisit' = ToVisit
  BY DEF ToVisit, Ahead
<1>2. \A a \in Alarm : InList(a)' => OnSchedule(a)'
  BY <1>1 DEF Punctual, OnSchedule, FlagRight, InList, fields
<1>3. isr' = "callback" => CallbackInv'
  BY DEF Punctual, CallbackInv, fields
<1>4. ~Lost'
  BY DEF Punctual, Lost, Astray, InList
<1>5. QED
  BY <1>2, <1>3, <1>4 DEF Punctual

\* A tick of the counter brings every alarm in the list one tick nearer.
LEMMA TimeDispatch == CoreInv /\ Punctual /\ Dispatch => Punctual'
<1> SUFFICES ASSUME CoreInv, Punctual, Dispatch PROVE Punctual'
  OBVIOUS
<1>0. TypeOK /\ isr = "dispatch" /\ UNCHANGED <<next, time, rollover, saved, op>>
  BY DEF CoreInv, Dispatch, links, calls
<1>1. CASE Lowest = TimerIrq
  <2>1. /\ nticks' = (nticks + 1) % Wrap /\ cursor' = next[Head] /\ isr' = "tick"
        /\ left' = [a \in Alarm |-> Expiring(a)]
    BY <1>1 DEF Dispatch
  <2>2. PICK R \in SUBSET Node :
            /\ Head \in R /\ RingOn(R)
            /\ \A x \in Node : x \in R <=> x = Head \/ InList(x)
    BY <1>0, NoLinking, WholeList
  <2>3. next[Head] \in R
    BY <2>2 DEF RingOn
  <2>4. (cursor = Head \/ InList(cursor))'
    BY <1>0, <2>1, <2>2, <2>3 DEF InList
  <2>5. ASSUME NEW c \in Node PROVE Ahead(c)' = Ahead(c)
    BY <1>0 DEF Ahead
  <2>6. R \ {Head} \subseteq Ahead(next[Head])
    BY <2>2, AheadAll
  <2>7. ToVisit' = Ahead(next[Head]) \ {Head}
    BY <1>0, <2>1 DEF ToVisit, Ahead
  <2>8. ASSUME NEW a \in Alarm, InList(a)' PROVE OnSchedule(a)'
    <3>1. InList(a) /\ a \in R /\ a # Head
      BY <1>0, <2>2, <2>8, NodeAssumption DEF InList, Node
    <3>2. a \in ToVisit'
      BY <2>6, <2>7, <3>1
    <3>3. time[a] = (nticks + left[a]) % Wrap /\ FlagRight(a) /\ left[a] # 0
      BY <1>0, <3>1 DEF Punctual, OnSchedule, ToVisit
    <3>4. /\ nticks' = IF nticks + 1 = Wrap THEN 0 ELSE nticks + 1
          /\ left'[a] = left[a] - 1 /\ time'[a] = time[a]
      <4>1. 1 \in 0 .. Wrap - 1
        BY WrapAssumption
      <4>2. nticks \in 0 .. Wrap - 1 /\ left[a] \in 0 .. Wrap - 1
        BY <1>0, TimeTypes
      <4>3. nticks' = IF nticks + 1 >= Wrap THEN nticks + 1 - Wrap ELSE nticks + 1
        BY <2>1, <4>1, <4>2, OneTurn
      <4>4. left'[a] = left[a] - 1
        BY <2>1, <3>1, <3>3, <4>2 DEF Expiring
      <4>5. QED
        BY <1>0, <4>2, <4>3, <4>4, WrapAssumption
    <3>5. /\ time[a] = IF nticks + left[a] >= Wrap THEN nticks + left[a] - Wrap ELSE nticks + left[a]
          /\ (nticks' + left'[a]) % Wrap = IF nticks' + left'[a] >= Wrap
                                           THEN nticks' + left'[a] - Wrap ELSE nticks' + left'[a]
      <4>1. /\ nticks \in 0 .. Wrap - 1 /\ left[a] \in 0 .. Wrap - 1
            /\ nticks' \in 0 .. Wrap - 1 /\ left'[a] \in 0 .. Wrap - 1
        <5>1. /\ Wrap \in Nat /\ Wrap >= 2
              /\ nticks \in 0 .. Wrap - 1 /\ left[a] \in 0 .. Wrap - 1
          BY <1>0, TimeTypes
        <5>2. nticks' \in 0 .. Wrap - 1
          BY <3>4, <5>1
        <5>3. left'[a] \in 0 .. Wrap - 1
          BY <3>3, <3>4, <5>1
        <5>4. QED
          BY <5>1, <5>2, <5>3
      <4>2. QED
        BY <3>3, <4>1, OneTurn
    <3>6. time'[a] = (nticks' + left'[a]) % Wrap
      BY <1>0, <3>3, <3>4, <3>5, TimeTypes
    <3>7. nticks' # 0 => FlagRight(a)'
      BY <1>0, <3>3, <3>4, TimeTypes DEF FlagRight
    <3>8. QED
      BY <3>2, <3>6, <3>7 DEF OnSchedule
  <2>9. ~Lost'
    BY <2>1, <2>4 DEF Lost, Astray
  <2>10. QED
    BY <2>1, <2>8, <2>9 DEF Punctual
<1>2. CASE Lowest # TimerIrq
  BY <1>0, <1>2, TimeFrame DEF Dispatch, fields
<1>3. QED
  BY <1>1, <1>2

\* alt_tick recognises exactly the alarms that are due.
LEMMA TimeVisit == CoreInv /\ Punctual /\ Visit => Punctual'
<1> SUFFICES ASSUME CoreInv, Punctual, Visit PROVE Punctual'
  OBVIOUS
<1>0. /\ TypeOK /\ isr = "tick" /\ cursor # Head /\ cursor \in Alarm /\ InList(cursor)
      /\ UNCHANGED <<nticks, next, time, left, op>> /\ saved' = next[cursor]
      /\ rollover' = [rollover EXCEPT ![cursor] = RollsOver(cursor)]
  BY OnTheWay DEF CoreInv, TypeOK, Visit, links, calls, Node
<1>1. PICK R \in SUBSET Node :
          /\ Head \in R /\ RingOn(R)
          /\ \A x \in Node : x \in R <=> x = Head \/ InList(x)
  BY <1>0, NoLinking, WholeList
<1>2. cursor \in R /\ next[cursor] \in R /\ next[cursor] \in Node /\ next[cursor] # cursor
  BY <1>0, <1>1 DEF RingOn, InList, Node
<1>3. /\ cursor \in Ahead(cursor)
      /\ Ahead(cursor) \subseteq Ahead(next[cursor]) \cup {cursor}
  BY <1>0, <1>2, AheadNext DEF Node
<1>4. cursor \in ToVisit
  BY <1>0, <1>3 DEF ToVisit
<1>5. /\ time[cursor] = IF nticks + left[cursor] >= Wrap THEN nticks + left[cursor] - Wrap
                        ELSE nticks + left[cursor]
      /\ RollsOver(cursor) <=> nticks + left[cursor] >= Wrap
  <2>1. OnSchedule(cursor) /\ nticks \in 0 .. Wrap - 1 /\ left[cursor] \in 0 .. Wrap - 1
    BY <1>0, TimeTypes DEF Punctual
  <2>2. nticks = 0 => ~(nticks + left[cursor] >= Wrap)
    BY <2>1, WrapAssumption
  <2>3. nticks # 0 => (rollover[cursor] <=> nticks + left[cursor] >= Wrap)
    BY <1>4, <2>1 DEF OnSchedule, FlagRight
  <2>4. RollsOver(cursor) <=> nticks + left[cursor] >= Wrap
    BY <2>2, <2>3 DEF RollsOver
  <2>5. QED
    BY <2>1, <2>4, OneTurn DEF OnSchedule
<1>6. time[cursor] <= nticks /\ ~RollsOver(cursor) <=> left[cursor] = 0
  BY <1>0, <1>5, TimeTypes
<1>7. rollover'[cursor] <=> nticks + left[cursor] >= Wrap
  BY <1>0, <1>5 DEF TypeOK
<1>8. \A a \in Alarm \ {cursor} : rollover'[a] = rollover[a]
  BY <1>0 DEF TypeOK
<1>9. /\ ToVisit' = Ahead(next[cursor]) \ {Head}
      /\ IF left[cursor] = 0 THEN isr' = "callback" /\ cursor' = cursor
         ELSE isr' = "tick" /\ cursor' = next[cursor]
  <2>1. IF left[cursor] = 0 THEN isr' = "callback" /\ cursor' = cursor
        ELSE isr' = "tick" /\ cursor' = next[cursor]
    BY <1>0, <1>6 DEF Visit
  <2>2. QED
    BY <1>0, <2>1 DEF ToVisit, Ahead
<1>10. ASSUME NEW a \in Alarm, InList(a)' PROVE OnSchedule(a)'
  <2>1. InList(a) /\ time'[a] = (nticks' + left'[a]) % Wrap
    BY <1>0, <1>10 DEF InList, Punctual, OnSchedule
  <2>2. CASE a = cursor
    <3>1. FlagRight(a)'
      BY <1>0, <1>7, <2>2 DEF FlagRight
    <3>2. left'[a] = 0 => isr' = "callback" /\ a = cursor'
      BY <1>0, <1>9, <2>2
    <3>3. QED
      BY <2>1, <3>1, <3>2 DEF OnSchedule
  <2>3. CASE a # cursor
    <3>1. a \notin ToVisit' => a \notin ToVisit
      BY <1>0, <1>3, <1>9, <2>3 DEF ToVisit
    <3>2. FlagRight(a)' <=> FlagRight(a)
      BY <1>0, <1>8, <2>3 DEF FlagRight
    <3>3. OnSchedule(a)
      BY <2>1 DEF Punctual
    <3>4. nticks # 0 => FlagRight(a)
      BY <3>3 DEF OnSchedule
    <3>5. a \notin ToVisit' => FlagRight(a) /\ left[a] # 0
      BY <1>0, <3>1, <3>3 DEF OnSchedule
    <3>6. QED
      BY <1>0, <2>1, <3>2, <3>4, <3>5 DEF OnSchedule
  <2>4. QED
    BY <2>2, <2>3
<1>11. ~Lost'
  <2>1. (saved = Head \/ InList(saved))'
    BY <1>0, <1>1, <1>2 DEF InList
  <2>2. isr' = "tick" => cursor' = saved'
    BY <1>0, <1>9
  <2>3. QED
    BY <2>1, <2>2 DEF Lost, Astray, InList
<1>12. isr' = "callback" => CallbackInv'
  <2>1. ASSUME isr' = "callback" PROVE CallbackInv'
    <3>1. left[cursor] = 0 /\ cursor' = cursor /\ ~rollover'[cursor]
      BY <1>0, <1>5, <1>6, <1>7, <1>9, <2>1
    <3>2. op'["cb"] = NoOp /\ op'["cb"].kind = "none"
      BY <1>0, NoLinking DEF NoOp
    <3>3. QED
      BY <1>0, <1>2, <3>1, <3>2 DEF CallbackInv
  <2>2. QED
    BY <2>1
<1>13. QED
  BY <1>10, <1>11, <1>12 DEF Punctual

\* Removing an alarm, in a library call or when its callback is over.
LEMMA TimeRemove ==
    ASSUME CoreInv, Punctual, NEW b \in Alarm, b \in Linked, Remove(b),
           \A l \in Level : pc[l] # "link",
           UNCHANGED <<nticks, fields, saved, op>>,
           \/ isr # "tick" /\ UNCHANGED <<isr, cursor, called>>
           \/ isr = "callback" /\ isr' = "tick" /\ cursor' = saved /\ b = cursor,
           isr = "callback" => b # saved
    PROVE  Punctual'
<1>1. /\ \A a \in Alarm : InList(a)' => InList(a) /\ a # b
      /\ \A c \in Node : (c = Head \/ InList(c)) /\ c # b =>
            (c = Head \/ InList(c)') /\ Ahead(c) \ {b} \subseteq Ahead(c)'
  BY RemoveEffect
<1>2. PICK c \in Node : c = saved
  BY DEF CoreInv, TypeOK
<1>3. /\ ToVisit \ {b} \subseteq ToVisit'
      /\ isr = "callback" => c = Head \/ InList(c)'
  <2>1. CASE isr = "callback"
    <3>1. ToVisit = Ahead(c) \ {Head} /\ isr' \in {"callback", "tick"} /\ c # b
      BY <1>2, <2>1 DEF ToVisit
    <3>2. ToVisit' = Ahead(c)' \ {Head}
      BY <1>2, <2>1 DEF ToVisit, Ahead
    <3>3. c = Head \/ InList(c)
      BY <1>2, <2>1, OnTheWay
    <3>4. QED
      BY <1>1, <3>1, <3>2, <3>3
  <2>2. CASE isr # "callback"
    BY <2>2 DEF ToVisit
  <2>3. QED
    BY <2>1, <2>2
<1>4. ASSUME NEW a \in Alarm, InList(a)' PROVE OnSchedule(a)'
  <2>1. InList(a) /\ a # b /\ OnSchedule(a)
    BY <1>1, <1>4 DEF Punctual
  <2>2. FlagRight(a)' <=> FlagRight(a)
    BY DEF FlagRight, fields
  <2>3. time'[a] = (nticks' + left'[a]) % Wrap /\ (nticks' # 0 => FlagRight(a))
    BY <2>1 DEF OnSchedule, fields
  <2>4. a \notin ToVisit' => FlagRight(a) /\ (left[a] = 0 => isr = "callback" /\ a = cursor)
    BY <1>3, <2>1 DEF OnSchedule
  <2>5. left'[a] = 0 /\ isr = "callback" /\ a = cursor => isr' = "callback" /\ a = cursor'
    BY <2>1
  <2>6. QED
    BY <2>2, <2>3, <2>4, <2>5 DEF OnSchedule, fields
<1>5. isr' = "callback" => CallbackInv'
  <2>1. ASSUME isr' = "callback" PROVE CallbackInv'
    <3>1. isr = "callback" /\ cursor' = cursor /\ called' = called /\ CallbackInv
      BY <2>1 DEF Punctual
    <3>2. QED
      BY <3>1 DEF CallbackInv, fields
  <2>2. QED
    BY <2>1
<1>6. ~Lost'
  <2>1. isr' \in {"tick", "callback"} => isr = "callback" /\ (saved = Head \/ InList(saved))'
    BY <1>2, <1>3 DEF InList
  <2>2. isr' = "tick" => cursor' = saved'
    OBVIOUS
  <2>3. QED
    BY <2>1, <2>2 DEF Lost, Astray, InList
<1>7. QED
  BY <1>4, <1>5, <1>6 DEF Punctual

\* The callback is over: its alarm is off the list, or due again after its period.
LEMMA TimeReturn ==
    ASSUME CoreInv, Punctual, NEW r \in Periods, CallbackReturns(r)
    PROVE  Punctual'
<1>0. /\ TypeOK /\ isr = "callback" /\ isr' = "tick" /\ cursor' = saved /\ cursor \in Alarm
      /\ UNCHANGED <<nticks, saved, op>> /\ CallbackInv
  BY DEF CoreInv, CursorInv, TypeOK, Node, Punctual, CallbackReturns, calls
<1>1. CASE r = 0
  <2>1. Remove(cursor) /\ UNCHANGED fields
    BY <1>1 DEF CallbackReturns
  <2>2. cursor \in Linked /\ \A l \in Level : pc[l] # "link"
    BY <1>0, Levels DEF CoreInv, LinkInv, CallInv, Inside, CallbackReturns
  <2>3. PICK b \in Alarm : b = cursor
    BY <1>0
  <2>4. QED
    BY <1>0, <2>1, <2>2, <2>3, TimeRemove DEF CallbackInv
<1>2. CASE r # 0
  <2>1. /\ time' = [time EXCEPT ![cursor] = (@ + r) % Wrap]
        /\ rollover' = [rollover EXCEPT ![cursor] = @ \/ time'[cursor] < nticks]
        /\ left' = [left EXCEPT ![cursor] = r]
        /\ UNCHANGED <<next, previous>>
    BY <1>2 DEF CallbackReturns, links
  <2>2. ToVisit' = Ahead(saved) \ {Head} /\ ToVisit = Ahead(saved) \ {Head}
    BY <1>0, <2>1 DEF ToVisit, Ahead
  <2>3. \A a \in Alarm \ {cursor} :
            time'[a] = time[a] /\ rollover'[a] = rollover[a] /\ left'[a] = left[a]
    BY <1>0, <2>1 DEF TypeOK
  <2>4. ASSUME NEW a \in Alarm, InList(a)' PROVE OnSchedule(a)'
    <3>1. InList(a) /\ OnSchedule(a)
      BY <2>1, <2>4 DEF InList, Punctual
    <3>2. CASE a # cursor
      BY <1>0, <2>2, <2>3, <3>1, <3>2 DEF OnSchedule, FlagRight
    <3>3. CASE a = cursor
      <4>1. /\ nticks \in 0 .. Wrap - 1 /\ r \in 1 .. Wrap - 1 /\ 0 \in 0 .. Wrap - 1
            /\ Wrap \in Nat
        BY <1>0, <1>2, TimeTypes, DelayAssumption
      <4>2. time[a] = nticks
        BY <1>0, <3>1, <3>3, <4>1, OneTurn DEF OnSchedule, CallbackInv
      <4>3. /\ time'[a] = (nticks + r) % Wrap /\ left'[a] = r
            /\ rollover'[a] <=> time'[a] < nticks
        BY <1>0, <2>1, <3>3, <4>2 DEF TypeOK, CallbackInv
      <4>4. (nticks + r) % Wrap = IF nticks + r >= Wrap THEN nticks + r - Wrap ELSE nticks + r
        BY <4>1, OneTurn
      <4>5. FlagRight(a)'
        BY <1>0, <4>1, <4>3, <4>4 DEF FlagRight
      <4>6. QED
        BY <1>0, <4>1, <4>3, <4>5 DEF OnSchedule
    <3>4. QED
      BY <3>2, <3>3
  <2>5. ~Lost'
    BY <1>0, <2>1, OnTheWay DEF Lost, Astray, InList
  <2>6. QED
    BY <1>0, <2>4, <2>5 DEF Punctual
<1>3. QED
  BY <1>1, <1>2

\* alt_alarm_start computes due date and flag for any tick of the counter.
LEMMA TimeStart ==
    ASSUME CoreInv, Punctual, NEW l \in Level, StartBody(l)
    PROVE  Punctual'
<1>0. TypeOK /\ CallInv /\ ListInv
  BY DEF CoreInv
<1>1. PICK a \in Alarm : a = op[l].alarm
  BY <1>0, OpTypes DEF StartBody
<1>2. PICK d \in Delays : d = op[l].nticks
  BY <1>0, OpTypes DEF StartBody
<1>3. PICK t : t = (d + nticks + 1) % Wrap
  OBVIOUS
<1>4. /\ Runs(l) /\ pc[l] = "body" /\ op[l].kind = "start"
      /\ time' = [time EXCEPT ![a] = t]
      /\ rollover' = [rollover EXCEPT ![a] = t < nticks]
      /\ left' = [left EXCEPT ![a] = d + 1]
      /\ next' = [next EXCEPT ![a] = next[Head]]
      /\ UNCHANGED <<nticks, isr, cursor, saved, called, op>>
  BY <1>1, <1>2, <1>3 DEF StartBody, WrapsAround, handler
<1>5. /\ time'[a] = t /\ (rollover'[a] <=> t < nticks) /\ left'[a] = d + 1
      /\ \A b \in Alarm \ {a} :
            time'[b] = time[b] /\ rollover'[b] = rollover[b] /\ left'[b] = left[b]
      /\ \A x \in Node \ {a} : next'[x] = next[x]
  BY <1>0, <1>4 DEF TypeOK, Node
<1>6. ~InList(a) /\ a # Head
  BY <1>0, <1>1, <1>4, NodeAssumption DEF ListInv, Starting
<1>7. \A k \in Level : pc[k] # "link"
  BY <1>0, <1>4, Alone DEF Inside
<1>8. PICK R \in SUBSET Node :
          /\ Head \in R /\ RingOn(R)
          /\ \A x \in Node : x \in R <=> x = Head \/ InList(x)
  BY <1>7, WholeList
<1>9. isr # "tick"
  BY <1>4 DEF Runs
<1>10. ToVisit \subseteq ToVisit'
  <2>1. CASE isr = "callback"
    <3>1. PICK c \in Node : c = saved
      BY <1>0 DEF TypeOK
    <3>2. c \in R
      BY <1>8, <2>1, <3>1, OnTheWay
    <3>3. \A y \in R \ {Head} : next'[y] = next[y]
      BY <1>5, <1>6, <1>8 DEF Node
    <3>4. Ahead(c) \subseteq Ahead(c)'
      BY <1>8, <3>2, <3>3, AheadSame
    <3>5. ToVisit = Ahead(c) \ {Head} /\ ToVisit' = Ahead(c)' \ {Head}
      BY <1>4, <2>1, <3>1 DEF ToVisit, Ahead
    <3>6. QED
      BY <3>4, <3>5
  <2>2. CASE isr # "callback"
    BY <1>9, <2>2 DEF ToVisit
  <2>3. QED
    BY <2>1, <2>2
<1>11. ASSUME NEW b \in Alarm, InList(b)' PROVE OnSchedule(b)'
  <2>1. CASE b = a
    <3>1. /\ Wrap \in Nat /\ nticks \in 0 .. Wrap - 1 /\ d + 1 \in 1 .. Wrap - 1 /\ d \in Nat
      BY <1>0, TimeTypes, DelayAssumption
    <3>2. d + nticks + 1 = nticks + (d + 1)
      BY <3>1
    <3>3. t = (nticks + (d + 1)) % Wrap
      BY <1>3, <3>2
    <3>4. t = IF nticks + (d + 1) >= Wrap THEN nticks + (d + 1) - Wrap ELSE nticks + (d + 1)
      <4>1. d + 1 \in 0 .. Wrap - 1
        BY <3>1
      <4>2. QED
        BY <3>1, <3>3, <4>1, OneTurn
    <3>5. FlagRight(b)'
      BY <1>4, <1>5, <2>1, <3>1, <3>4 DEF FlagRight
    <3>6. left'[b] # 0 /\ time'[b] = (nticks' + left'[b]) % Wrap
      BY <1>4, <1>5, <2>1, <3>1, <3>3
    <3>7. QED
      BY <3>5, <3>6 DEF OnSchedule
  <2>2. CASE b # a
    <3>1. InList(b) /\ OnSchedule(b)
      BY <1>5, <1>11, <2>2 DEF InList, Punctual, Node
    <3>2. (FlagRight(b)' <=> FlagRight(b)) /\ left'[b] = left[b] /\ time'[b] = time[b]
      BY <1>4, <1>5, <2>2 DEF FlagRight
    <3>3. nticks' # 0 => FlagRight(b)
      BY <1>4, <3>1 DEF OnSchedule
    <3>4. b \notin ToVisit' => FlagRight(b) /\ (left[b] = 0 => isr' = "callback" /\ b = cursor')
      BY <1>4, <1>10, <3>1 DEF OnSchedule
    <3>5. QED
      BY <1>4, <3>1, <3>2, <3>3, <3>4 DEF OnSchedule
  <2>3. QED
    BY <2>1, <2>2
<1>12. isr' = "callback" => CallbackInv'
  <2>1. ASSUME isr' = "callback" PROVE CallbackInv'
    <3>1. isr = "callback" /\ CallbackInv /\ l = "cb"
      BY <1>4, <2>1 DEF Punctual, Runs, Level
    <3>2. cursor # a /\ cursor \in Alarm
      BY <1>0, <1>1, <1>4, <3>1 DEF CallbackInv, CoreInv, CursorInv, TypeOK, Node
    <3>3. left'[cursor] = 0 /\ ~rollover'[cursor]
      BY <1>5, <3>1, <3>2 DEF CallbackInv
    <3>4. QED
      BY <1>4, <3>1, <3>3 DEF CallbackInv
  <2>2. QED
    BY <2>1
<1>13. ~Lost'
  <2>1. ASSUME isr = "callback" PROVE (saved = Head \/ InList(saved))'
    <3>1. saved \in Node /\ (saved = Head \/ InList(saved))
      BY <1>0, <2>1, OnTheWay DEF TypeOK
    <3>2. saved # a
      BY <1>6, <3>1
    <3>3. QED
      BY <1>4, <1>5, <3>1, <3>2 DEF InList
  <2>2. QED
    BY <1>4, <1>9, <2>1 DEF Lost, Astray
<1>14. QED
  BY <1>11, <1>12, <1>13 DEF Punctual

\* The links of the neighbours, which complete an insertion.
LEMMA TimeLink ==
    ASSUME CoreInv, Punctual, NEW l \in Level, Link(l)
    PROVE  Punctual'
<1>0. /\ TypeOK /\ isr # "tick"
      /\ next' = [next EXCEPT ![Head] = op[l].alarm]
      /\ UNCHANGED <<nticks, fields, isr, cursor, saved, called, op>>
  BY DEF CoreInv, Link, Runs, handler
<1>1. \A x \in Node \ {Head} : next'[x] = next[x]
  BY <1>0 DEF TypeOK
<1>2. ASSUME NEW c \in Node PROVE Ahead(c)' = Ahead(c)
  BY <1>1 DEF Ahead
<1>3. ToVisit' = ToVisit
  <2>1. PICK c \in Node : c = saved
    BY <1>0 DEF TypeOK
  <2>2. isr = "callback" => ToVisit = Ahead(c) \ {Head} /\ ToVisit' = Ahead(c)' \ {Head}
    BY <1>0, <2>1 DEF ToVisit, Ahead
  <2>3. isr # "callback" => ToVisit = {} /\ ToVisit' = {}
    BY <1>0 DEF ToVisit
  <2>4. QED
    BY <1>2, <2>2, <2>3
<1>4. ASSUME NEW a \in Alarm, InList(a)' PROVE OnSchedule(a)'
  <2>1. InList(a)
    BY <1>1, <1>4, NodeAssumption DEF InList, Node
  <2>2. QED
    BY <1>0, <1>3, <2>1 DEF Punctual, OnSchedule, FlagRight, fields
<1>5. isr' = "callback" => CallbackInv'
  BY <1>0 DEF Punctual, CallbackInv, fields
<1>6. ~Lost'
  BY <1>0, <1>1, OnTheWay DEF Lost, Astray, InList, TypeOK
<1>7. QED
  BY <1>4, <1>5, <1>6 DEF Punctual

\* A callback starts another alarm than its own.
LEMMA StartsAnother ==
    ASSUME TypeOK, Call("cb"), op'["cb"].kind = "start"
    PROVE  op'["cb"].alarm # cursor
<1>1. ASSUME NEW o, op' = [op EXCEPT !["cb"] = o] PROVE op'["cb"] = o
  BY <1>1, Levels DEF TypeOK
<1>2. ASSUME NEW a \in Alarm, NEW n \in Delays, CallStart("cb", a, n)
      PROVE  op'["cb"].alarm # cursor
  <2>1. op'["cb"] = [kind |-> "start", alarm |-> a, nticks |-> n] /\ a # cursor
    BY <1>1, <1>2 DEF CallStart, Begin
  <2>2. QED
    BY <2>1
<1>3. ASSUME NEW a \in Alarm, CallStop("cb", a) PROVE FALSE
  <2>1. op'["cb"] = [kind |-> "stop", alarm |-> a]
    BY <1>1, <1>3 DEF CallStop, Begin
  <2>2. QED
    BY <2>1
<1>4. ASSUME NEW i \in Irq, NEW h \in BOOLEAN, CallRegister("cb", i, h) PROVE FALSE
  <2>1. op'["cb"] = [kind |-> "register", irq |-> i, isr |-> h]
    BY <1>1, <1>4 DEF CallRegister, Begin
  <2>2. QED
    BY <2>1
<1>5. QED
  BY <1>2, <1>3, <1>4 DEF Call

\* A callback that stops the alarm which alt_tick has saved.
LEMMA TimeUndercut ==
    ASSUME CoreInv, Punctual, StopBody("cb"), op["cb"].alarm = saved
    PROVE  LostInv'
<1>0. /\ TypeOK /\ isr = "callback" /\ pc["cb"] = "body" /\ op["cb"].kind = "stop"
      /\ UNCHANGED <<nticks, fields, handler, op>>
  BY DEF CoreInv, StopBody, Runs
<1>1. PICK b \in Alarm : b = saved
  BY <1>0, OpTypes, Levels
<1>2. Remove(b) /\ b \in Linked /\ b \in Node /\ b # Head /\ \A k \in Level : pc[k] # "link"
  BY <1>0, <1>1, Levels, Alone, NodeAssumption DEF StopBody, CoreInv, LinkInv, Inside, Node
<1>3. ~InList(b)'
  BY <1>2, RemoveEffect
<1>4. /\ saved # cursor /\ called /\ InList(b)
  BY <1>0, <1>1, <1>2, OnTheWay DEF CallbackInv, NoOp
<1>5. b \in ToVisit
  <2>1. next[b] \in Node
    BY <1>2 DEF CoreInv, LinkInv, Linked
  <2>2. b \in Ahead(b)
    BY <1>2, <2>1, AheadNext
  <2>3. QED
    BY <1>0, <1>1, <1>2, <2>2 DEF ToVisit, Ahead
<1>6. time[b] = (nticks + left[b]) % Wrap /\ (nticks # 0 => FlagRight(b))
  BY <1>4, <1>5 DEF Punctual, OnSchedule
<1>7. Lost' /\ Stray' = b
  BY <1>0, <1>1, <1>2, <1>3 DEF Lost, Astray, Stray, InList, handler
<1>8. time'[b] = (nticks' + left'[b]) % Wrap /\ (nticks' # 0 => FlagRight(b)')
  BY <1>0, <1>6 DEF FlagRight, fields
<1>9. QED
  BY <1>0, <1>4, <1>7, <1>8 DEF LostInv, FlagRight, handler

\* The stray is an alarm that is linked to itself.
LEMMA StrayNode ==
    ASSUME CoreInv, Lost
    PROVE  Stray \in Alarm /\ ~InList(Stray) /\ next[Stray] = Stray /\ ~pie
BY DEF CoreInv, TypeOK, Exclusive, LinkInv, Linked, Lost, Astray, Stray, InList, Node

\* What leaves list, times and handler alone leaves the stray alone.
LEMMA LostFrame ==
    ASSUME LostInv, UNCHANGED <<nticks, next, fields, isr, cursor, saved>>,
           isr = "callback" => /\ called => called'
                               /\ op'["cb"].kind = "start" => op'["cb"].alarm \notin {saved, cursor}
    PROVE  LostInv'
<1>1. Lost' /\ Stray' = Stray
  BY DEF LostInv, Lost, Astray, Stray, InList
<1>2. time'[Stray] = (nticks' + left'[Stray]) % Wrap /\ (nticks' # 0 => FlagRight(Stray)')
  BY <1>1 DEF LostInv, FlagRight, fields
<1>3. QED
  BY <1>1, <1>2 DEF LostInv, FlagRight, fields

\* alt_tick visits the stray again and again.
LEMMA LostVisit == CoreInv /\ LostInv /\ Visit => LostInv'
<1> SUFFICES ASSUME CoreInv, LostInv, Visit PROVE LostInv'
  OBVIOUS
<1>0. /\ TypeOK /\ isr = "tick" /\ saved' = next[cursor]
      /\ UNCHANGED <<nticks, next, time, left, op>>
      /\ rollover' = [rollover EXCEPT ![cursor] = RollsOver(cursor)]
      /\ IF time[cursor] <= nticks /\ ~RollsOver(cursor)
         THEN isr' = "callback" /\ UNCHANGED cursor
         ELSE cursor' = next[cursor] /\ UNCHANGED isr
  BY DEF CoreInv, Visit, links, calls
<1>1. PICK c \in Alarm : c = cursor
  BY <1>0, StrayNode DEF LostInv, Stray
<1>2. /\ cursor = c /\ ~InList(c) /\ next[c] = c /\ c # Head
      /\ time[c] = (nticks + left[c]) % Wrap /\ (nticks # 0 => FlagRight(c))
  BY <1>0, <1>1, StrayNode, NodeAssumption DEF LostInv, Stray
<1>3. saved' = c /\ cursor' = c /\ isr' \in {"tick", "callback"}
  BY <1>0, <1>2
<1>4. Lost' /\ Stray' = c
  BY <1>0, <1>2, <1>3 DEF Lost, Astray, Stray, InList
<1>5. rollover'[c] <=> RollsOver(c)
  BY <1>0, <1>1 DEF TypeOK
<1>6. time'[c] = (nticks' + left'[c]) % Wrap /\ (nticks' # 0 => FlagRight(c)')
  BY <1>0, <1>2, <1>5 DEF FlagRight, RollsOver
<1>7. ASSUME isr' = "callback" PROVE left'[c] = 0 /\ ~rollover'[c]
  <2>1. time[c] <= nticks /\ ~RollsOver(c)
    BY <1>0, <1>2, <1>7
  <2>2. nticks \in 0 .. Wrap - 1 /\ left[c] \in 0 .. Wrap - 1 /\ Wrap \in Nat
    BY <1>0, TimeTypes
  <2>3. time[c] = IF nticks + left[c] >= Wrap THEN nticks + left[c] - Wrap ELSE nticks + left[c]
    BY <1>2, <2>2, OneTurn
  <2>4. nticks # 0 => ~(nticks + left[c] >= Wrap)
    BY <1>2, <2>1 DEF FlagRight, RollsOver
  <2>5. left[c] = 0
    BY <2>1, <2>2, <2>3, <2>4
  <2>6. QED
    BY <1>0, <1>5, <2>1, <2>5
<1>8. op'["cb"].kind = "none"
  BY <1>0, NoLinking DEF NoOp
<1>9. QED
  BY <1>3, <1>4, <1>6, <1>7, <1>8 DEF LostInv, FlagRight

\* After the callback alt_tick goes on with the stray.
LEMMA LostReturn ==
    ASSUME CoreInv, LostInv, NEW r \in Periods, CallbackReturns(r)
    PROVE  LostInv'
<1>0. /\ TypeOK /\ isr = "callback" /\ isr' = "tick" /\ cursor' = saved /\ cursor \in Alarm
      /\ UNCHANGED nticks
  BY DEF CoreInv, CursorInv, TypeOK, Node, CallbackReturns
<1>1. PICK c \in Alarm : c = saved
  BY <1>0, StrayNode DEF LostInv, Stray
<1>2. /\ saved = c /\ ~InList(c) /\ c # Head
      /\ time[c] = (nticks + left[c]) % Wrap /\ (nticks # 0 => FlagRight(c))
      /\ c = cursor => left[c] = 0 /\ ~rollover[c]
  BY <1>0, <1>1, StrayNode, NodeAssumption DEF LostInv, Stray
<1>3. ASSUME ~InList(c)', time'[c] = (nticks' + left'[c]) % Wrap, nticks' # 0 => FlagRight(c)'
      PROVE  LostInv'
  <2>1. Lost' /\ Stray' = c
    BY <1>0, <1>2, <1>3 DEF Lost, Astray, Stray, InList
  <2>2. QED
    BY <1>0, <1>3, <2>1 DEF LostInv, FlagRight
<1>4. CASE r = 0
  <2>1. Remove(cursor) /\ UNCHANGED fields
    BY <1>4 DEF CallbackReturns
  <2>2. PICK b \in Alarm : b = cursor
    BY <1>0
  <2>3. Remove(b) /\ b \in Linked /\ \A l \in Level : pc[l] # "link"
    BY <1>0, <2>1, <2>2, Levels DEF CoreInv, LinkInv, CallInv, Inside, CallbackReturns
  <2>4. ~InList(c)'
    BY <1>2, <2>3, RemoveEffect
  <2>5. QED
    BY <1>0, <1>2, <1>3, <2>1, <2>4 DEF FlagRight, fields
<1>5. CASE r # 0
  <2>1. /\ time' = [time EXCEPT ![cursor] = (@ + r) % Wrap]
        /\ rollover' = [rollover EXCEPT ![cursor] = @ \/ time'[cursor] < nticks]
        /\ left' = [left EXCEPT ![cursor] = r]
        /\ UNCHANGED <<next, previous>>
    BY <1>5 DEF CallbackReturns, links
  <2>2. ~InList(c)'
    BY <1>2, <2>1 DEF InList
  <2>3. CASE c # cursor
    <3>1. time'[c] = time[c] /\ rollover'[c] = rollover[c] /\ left'[c] = left[c]
      BY <1>0, <2>1, <2>3 DEF TypeOK
    <3>2. QED
      BY <1>0, <1>2, <1>3, <2>2, <3>1 DEF FlagRight
  <2>4. CASE c = cursor
    <3>1. /\ nticks \in 0 .. Wrap - 1 /\ r \in 1 .. Wrap - 1 /\ 0 \in 0 .. Wrap - 1
          /\ Wrap \in Nat
      BY <1>0, <1>5, TimeTypes, DelayAssumption
    <3>2. time[c] = nticks
      <4>1. time[c] = (nticks + 0) % Wrap
        BY <1>2, <2>4
      <4>2. (nticks + 0) % Wrap = IF nticks + 0 >= Wrap THEN nticks + 0 - Wrap ELSE nticks + 0
        BY <3>1, OneTurn
      <4>3. QED
        BY <3>1, <4>1, <4>2
    <3>3. /\ time'[c] = (nticks + r) % Wrap /\ left'[c] = r
          /\ rollover'[c] <=> time'[c] < nticks
      BY <1>0, <1>2, <2>1, <2>4, <3>2 DEF TypeOK
    <3>4. (nticks + r) % Wrap = IF nticks + r >= Wrap THEN nticks + r - Wrap ELSE nticks + r
      BY <3>1, OneTurn
    <3>5. FlagRight(c)'
      BY <1>0, <3>1, <3>3, <3>4 DEF FlagRight
    <3>6. QED
      BY <1>0, <1>3, <2>2, <3>3, <3>5
  <2>5. QED
    BY <2>3, <2>4
<1>6. QED
  BY <1>4, <1>5

\* The calls of a callback leave the stray where it is.
LEMMA LostCallStep ==
    ASSUME CoreInv, LostInv, CallStep("cb")
    PROVE  LostInv'
<1>0. TypeOK /\ isr = "callback"
  BY DEF CoreInv, CallStep, DisableAll, StartBody, Link, StopBody, RegisterBody, SetIenable,
         EnableAll, Runs
<1>1. PICK c \in Alarm : c = saved
  BY <1>0, StrayNode DEF LostInv, Stray
<1>2. /\ saved = c /\ ~InList(c) /\ c # Head /\ c \in Node
      /\ time[c] = (nticks + left[c]) % Wrap /\ (nticks # 0 => FlagRight(c))
      /\ c = cursor => left[c] = 0 /\ ~rollover[c]
      /\ c # cursor => called
      /\ op["cb"].kind = "start" => op["cb"].alarm \notin {c, cursor}
  BY <1>0, <1>1, StrayNode, NodeAssumption DEF LostInv, Stray, Node
<1>3. ASSUME ~InList(c)', UNCHANGED <<nticks, handler, op>>,
             time'[c] = time[c], left'[c] = left[c], rollover'[c] = rollover[c]
      PROVE  LostInv'
  <2>1. Lost' /\ Stray' = c
    BY <1>0, <1>2, <1>3 DEF Lost, Astray, Stray, InList, handler
  <2>2. time'[c] = (nticks' + left'[c]) % Wrap /\ (nticks' # 0 => FlagRight(c)')
    BY <1>2, <1>3 DEF FlagRight
  <2>3. QED
    BY <1>2, <1>3, <2>1, <2>2 DEF LostInv, FlagRight, handler
<1>4. CASE DisableAll("cb") \/ RegisterBody("cb") \/ SetIenable("cb")
  BY <1>2, <1>3, <1>4 DEF DisableAll, RegisterBody, SetIenable, alarms, links, fields, InList
<1>5. CASE StartBody("cb")
  <2>1. PICK a \in Alarm : a = op["cb"].alarm
    BY <1>0, <1>5, OpTypes, Levels DEF StartBody
  <2>2. a # c
    BY <1>2, <1>5, <2>1 DEF StartBody
  <2>3. PICK t, n : /\ time' = [time EXCEPT ![a] = t]
                    /\ rollover' = [rollover EXCEPT ![a] = WrapsAround(t)]
                    /\ left' = [left EXCEPT ![a] = n]
                    /\ next' = [next EXCEPT ![a] = next[Head]]
                    /\ UNCHANGED <<nticks, handler, op>>
    BY <1>5, <2>1 DEF StartBody
  <2>4. /\ next'[c] = next[c] /\ time'[c] = time[c] /\ left'[c] = left[c]
        /\ rollover'[c] = rollover[c]
    BY <1>0, <1>2, <2>2, <2>3 DEF TypeOK
  <2>5. ~InList(c)'
    BY <1>2, <2>4 DEF InList
  <2>6. QED
    BY <1>3, <2>3, <2>4, <2>5
<1>6. CASE Link("cb")
  <2>1. next'[c] = next[c]
    BY <1>0, <1>2, <1>6 DEF Link, TypeOK
  <2>2. ~InList(c)'
    BY <1>2, <2>1 DEF InList
  <2>3. QED
    BY <1>3, <1>6, <2>2 DEF Link, fields
<1>7. CASE StopBody("cb")
  <2>1. PICK b \in Alarm : b = op["cb"].alarm
    BY <1>0, <1>7, OpTypes, Levels DEF StopBody
  <2>2. Remove(b) /\ b \in Linked /\ \A k \in Level : pc[k] # "link"
    BY <1>0, <1>7, <2>1, Levels, Alone DEF StopBody, CoreInv, LinkInv, Inside
  <2>3. ~InList(c)'
    BY <1>2, <2>2, RemoveEffect
  <2>4. QED
    BY <1>3, <1>7, <2>3 DEF StopBody, fields
<1>8. CASE EnableAll("cb")
  <2>1. op'["cb"].kind = "none" /\ UNCHANGED <<nticks, next, fields, isr, cursor, saved, called>>
    BY <1>0, <1>8, Levels DEF EnableAll, TypeOK, NoOp, alarms, links, handler
  <2>2. QED
    BY <2>1, LostFrame
<1>9. QED
  BY <1>4, <1>5, <1>6, <1>7, <1>8 DEF CallStep

\* Nothing helps alt_tick once it is lost.
LEMMA LostStep == CoreInv /\ LostInv /\ [Next]_vars => LostInv'
<1> SUFFICES ASSUME CoreInv, LostInv, [Next]_vars PROVE LostInv'
  OBVIOUS
<1>0. /\ TypeOK /\ isr \in {"tick", "callback"} /\ ~pie
      /\ isr = "tick" => cursor # Head
  BY StrayNode DEF CoreInv, LostInv, Lost, Astray
<1>1. CASE UNCHANGED vars \/ \E i \in Irq : Request(i)
  BY <1>1, LostFrame DEF vars, alarms, links, handler, calls, Request, LostInv
<1>2. ASSUME Handler PROVE LostInv'
  BY <1>0, <1>2, LostVisit, LostReturn DEF Handler, TakeInterrupt, Dispatch, Return, TickEnd
<1>3. ~OuterDisable /\ ~OuterEnable /\ ~SysclkInit
  BY <1>0 DEF OuterDisable, OuterEnable, SysclkInit
<1>4. ASSUME NEW l \in Level, Runs(l) PROVE l = "cb" /\ isr = "callback"
  BY <1>0, <1>4 DEF Runs, Level
<1>5. ASSUME NEW l \in Level, CallStep(l) PROVE LostInv'
  <2>1. Runs(l)
    BY <1>5 DEF CallStep, DisableAll, StartBody, Link, StopBody, RegisterBody, SetIenable,
                EnableAll
  <2>2. QED
    BY <1>4, <1>5, <2>1, LostCallStep
<1>6. ASSUME NEW l \in Level, Call(l) PROVE LostInv'
  <2>1. /\ Runs(l) /\ (l = "cb" => ~called)
        /\ called' = (called \/ l = "cb")
        /\ UNCHANGED <<nticks, next, fields, isr, cursor, saved>>
    BY <1>6 DEF Call, CallStart, CallStop, CallRegister, Begin, alarms, links
  <2>2. l = "cb" /\ isr = "callback" /\ saved = cursor /\ called'
    BY <1>4, <2>1 DEF LostInv
  <2>3. op'["cb"].kind = "start" => op'["cb"].alarm # cursor
    BY <1>0, <1>6, <2>2, StartsAnother
  <2>4. QED
    BY <2>1, <2>2, <2>3, LostFrame
<1>7. QED
  BY <1>1, <1>2, <1>3, <1>5, <1>6 DEF Next

\* Every step keeps the schedule, until a callback stops the saved alarm.
LEMMA TimeStep == CoreInv /\ Punctual /\ [Next]_vars => TimeInv'
<1> SUFFICES ASSUME CoreInv, Punctual, [Next]_vars PROVE Punctual' \/ LostInv'
  BY DEF TimeInv
<1>0. TypeOK
  BY DEF CoreInv
<1>1. ASSUME UNCHANGED <<nticks, next, fields, isr, cursor, saved, called, op>> PROVE Punctual'
  BY <1>1, TimeFrame DEF Punctual, CallbackInv
<1>2. CASE UNCHANGED vars
  BY <1>1, <1>2 DEF vars, alarms, links, handler, calls
<1>3. CASE \/ \E i \in Irq : Request(i)
           \/ OuterDisable \/ OuterEnable \/ SysclkInit
  BY <1>1, <1>3 DEF Request, OuterDisable, OuterEnable, SysclkInit, alarms, links, handler, calls
<1>4. CASE TakeInterrupt \/ Return \/ TickEnd
  <2>1. /\ UNCHANGED <<nticks, next, fields, cursor>> /\ isr' \in {"off", "dispatch"}
        /\ \/ isr \in {"off", "dispatch"}
           \/ isr = "tick" /\ cursor = Head
    BY <1>4 DEF TakeInterrupt, Return, TickEnd, alarms, links, CoreInv, Exclusive
  <2>2. ToVisit = {} /\ ToVisit' = {}
    BY <2>1, AheadHead DEF ToVisit
  <2>3. \A a \in Alarm : InList(a)' => OnSchedule(a)'
    BY <2>1, <2>2 DEF Punctual, OnSchedule, FlagRight, InList, fields
  <2>4. QED
    BY <2>1, <2>3 DEF Punctual, Lost
<1>5. ASSUME NEW l \in Level, Call(l) PROVE Punctual'
  <2>1. /\ Runs(l) /\ (isr = "callback" => called')
        /\ UNCHANGED <<nticks, next, fields, isr, cursor, saved>>
    BY <1>5 DEF Call, CallStart, CallStop, CallRegister, Begin, alarms, links, Runs, Level
  <2>2. isr = "callback" /\ op'["cb"].kind = "start" => op'["cb"].alarm # cursor
    <3>1. CASE isr = "callback"
      <4>1. l = "cb"
        BY <2>1, <3>1 DEF Runs, Level
      <4>2. QED
        BY <1>0, <1>5, <4>1, StartsAnother
    <3>2. QED
      BY <3>1
  <2>3. QED
    BY <2>1, <2>2, TimeFrame
<1>6. ASSUME NEW l \in Level, CallStep(l) PROVE Punctual' \/ LostInv'
  <2>1. CASE DisableAll(l) \/ RegisterBody(l) \/ SetIenable(l)
    BY <1>1, <2>1 DEF DisableAll, RegisterBody, SetIenable, alarms, links, handler
  <2>2. CASE StopBody(l)
    <3>1. PICK b \in Alarm : b = op[l].alarm
      BY <1>0, <2>2, OpTypes DEF StopBody
    <3>2. /\ Runs(l) /\ pc[l] = "body" /\ op[l].kind = "stop" /\ Remove(b)
          /\ UNCHANGED <<nticks, fields, isr, cursor, saved, called, op>>
      BY <2>2, <3>1 DEF StopBody, handler
    <3>3. b \in Linked /\ \A k \in Level : pc[k] # "link"
      BY <1>0, <3>1, <3>2, Alone DEF CoreInv, LinkInv, Inside
    <3>4. isr # "tick" /\ (isr = "callback" => l = "cb")
      BY <3>2 DEF Runs, Level
    <3>5. CASE isr = "callback" /\ b = saved
      BY <2>2, <3>1, <3>4, <3>5, TimeUndercut
    <3>6. CASE isr = "callback" => b # saved
      BY <3>2, <3>3, <3>4, <3>6, TimeRemove
    <3>7. QED
      BY <3>5, <3>6
  <2>3. CASE EnableAll(l)
    <3>1. /\ op' = [op EXCEPT ![l] = NoOp]
          /\ UNCHANGED <<nticks, next, fields, isr, cursor, saved, called>>
      BY <2>3 DEF EnableAll, alarms, links, handler
    <3>2. \/ op'["cb"] = op["cb"]
          \/ op'["cb"] = NoOp /\ op'["cb"].kind = "none"
      BY <1>0, <3>1, Levels DEF TypeOK, NoOp
    <3>3. QED
      BY <3>1, <3>2, TimeFrame DEF Punctual, CallbackInv
  <2>4. QED
    BY <1>6, <2>1, <2>2, <2>3, TimeStart, TimeLink DEF CallStep
<1>7. QED
  BY <1>2, <1>3, <1>4, <1>5, <1>6, TimeDispatch, TimeVisit, TimeReturn DEF Next, Handler

\* The whole invariant holds for any alarms, delays and periods, for a tick counter of
\* any width, and whatever the callbacks start and stop.
THEOREM AlarmsInvariant == Spec => []IInv
<1>1. Init => TimeInv
  <2> SUFFICES ASSUME Init PROVE Punctual
    BY DEF TimeInv
  <2>1. \A a \in Alarm : ~InList(a)
    BY NodeAssumption DEF Init, InList, Node
  <2>2. QED
    BY <2>1 DEF Init, Punctual, Lost
<1>2. CoreInv /\ TimeInv /\ [Next]_vars => TimeInv'
  BY TimeStep, LostStep DEF TimeInv
<1>3. QED
  BY <1>1, <1>2, AlarmsSound, PTL DEF Spec, IInv

\* A callback is made exactly in the tick in which its alarm is due, and no tick ends
\* with an alarm left behind.
THEOREM PunctualTheorem == Spec => []OnTime
<1>1. IInv => OnTime
  <2> SUFFICES ASSUME IInv PROVE OnTime
    OBVIOUS
  <2>1. ASSUME isr = "callback", ~called PROVE left[cursor] = 0
    BY <2>1 DEF IInv, TimeInv, Punctual, CallbackInv, LostInv
  <2>2. ASSUME isr \notin {"tick", "callback"}, NEW a \in Alarm, InList(a) PROVE left[a] > 0
    <3>1. Punctual
      BY <2>2 DEF IInv, TimeInv, LostInv, Lost
    <3>2. left[a] # 0
      BY <2>2, <3>1 DEF Punctual, OnSchedule, ToVisit
    <3>3. QED
      BY <2>2, <3>2, TimeTypes DEF IInv, CoreInv
  <2>3. QED
    BY <2>1, <2>2 DEF OnTime
<1>2. QED
  BY <1>1, AlarmsInvariant, PTL
=============================================================================
