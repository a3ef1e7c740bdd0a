----------------------------- MODULE MCProcessor -----------------------------
(* Two machines in one run, one at a time: a processor that starts, and a    *)
(* processor that runs a program.  Words of four bits, all operands.  The    *)
(* memory: code, the exception handler and the image it is copied from, two  *)
(* variables and their initial values, bss.                                  *)
EXTENDS Exceptions, Startup

VARIABLE starting

MCPow2 == [i \in 0 .. W |-> 2 ^ i]

Section(from, to, words) == [from |-> from, to |-> to, end |-> to + words]
MCSections == <<Section(5, 3, 2), Section(2, 1, 1), Section(0, 0, 1)>>
MCImage == [w \in Addresses |-> IF w \in {0, 2, 5, 7} THEN 1 ELSE 0]

ProcessorInit ==
    /\ starting \in BOOLEAN
    /\ IF starting
       THEN ExceptionInit /\ kind = "plain" /\ StartupInit
       ELSE /\ ExceptionInit /\ StartupInit
            /\ dcache = [w \in Addresses |-> Absent] /\ icache = [w \in Code |-> Absent]

ProcessorNext ==
    \/ starting /\ StartupNext /\ UNCHANGED <<starting, exceptionVars, vars>>
    \/ ~starting /\ ExceptionNext /\ UNCHANGED <<starting, startupVars>>

ProcessorSpec == ProcessorInit /\ [][ProcessorNext]_<<starting, startupVars, exceptionVars, vars>>
=============================================================================
