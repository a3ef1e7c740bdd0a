----------------------------- MODULE MCProfiler -----------------------------
(* Two functions, one of them called from two places and by a handler too.  *)
EXTENDS Profiler
C(f, from) == [self_pc |-> f, from_pc |-> from]
MCArcs == {C("f", "main"), C("f", "loop"), C("g", "main")}
MCIrqArcs == {C("f", "main"), C("f", "isr")}
MCAlarmStart == C("alt_alarm_start", "init")
=============================================================================
