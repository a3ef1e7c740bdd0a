----------------------------- MODULE Exceptions -----------------------------
(* The exception handler around the emulation: alt_exception_entry.S with    *)
(* the test for interrupts, the emulation, the trap handler and the API for  *)
(* instruction-related exceptions linked into it, and a program that runs in *)
(* a loop.  What has to be right is the address the handler returns to: that *)
(* of the instruction, or of the one behind it.                              *)
EXTENDS MulDiv, Sequences

CONSTANTS LoopLength,        \* instructions of the program's loop
          TrapHandler,   \* ALT_TRAP_HANDLER
          Emulation,     \* ALT_NO_INSTRUCTION_EMULATION is not defined
          Api            \* ALT_INCLUDE_INSTRUCTION_RELATED_EXCEPTION_API

ASSUME ProgramAssumption ==
    LoopLength \in Nat \ {0} /\ {TrapHandler, Emulation, Api} \subseteq BOOLEAN

Kinds == {"plain", "muldiv", "trap", "faulting"}

VARIABLES
    where,      \* the program, or the section of the handler
    at, kind,   \* the next instruction of the program
    saved,      \* 72(sp): the address to return to
    enabled,    \* interrupts are
    ipending,   \* some interrupt is
    handler,    \* alt_instruction_exception_handler is set
    withdrawn,  \* an interrupt went away after it had been taken
    fates       \* what became of the instructions so far

programVars == <<at, kind, fates>>
machineVars == <<enabled, ipending, handler, withdrawn>>
exceptionVars == <<where, saved, programVars, machineVars>>

ExceptionInit ==
    /\ Init
    /\ where = "program" /\ at = 0 /\ kind \in Kinds /\ saved = 0 /\ fates = <<>>
    /\ enabled = FALSE /\ ipending = FALSE /\ handler = FALSE /\ withdrawn = FALSE

\* The instruction is done with: carried out, or passed over.
Fate(how) == fates' = Append(fates, [kind |-> kind, how |-> how, withdrawn |-> withdrawn])

-----------------------------------------------------------------------------
\* The program.  A plain instruction may be the last of a call of
\* alt_irq_disable_all(), alt_irq_enable_all() or
\* alt_instruction_exception_register().
Execute ==
    /\ where = "program" /\ at < LoopLength /\ kind = "plain"
    /\ at' = at + 1 /\ kind' \in Kinds /\ Fate("ran")
    /\ enabled' \in BOOLEAN /\ handler' \in (IF Api THEN BOOLEAN ELSE {FALSE})
    /\ UNCHANGED <<where, saved, ipending, withdrawn, vars>>

Loop ==
    /\ where = "program" /\ at = LoopLength
    /\ at' = 0 /\ fates' = <<>>
    /\ UNCHANGED <<where, kind, saved, machineVars, vars>>

\* A device raises its request, or withdraws it, also after it was taken.
Request ==
    /\ ipending' = ~ipending
    /\ withdrawn' = (withdrawn \/ (where = "entry" /\ enabled /\ ipending))
    /\ UNCHANGED <<where, saved, programVars, enabled, handler, vars>>

\* The CPU takes an interrupt before the instruction, or does not know it; ea
\* is the address behind it either way.  The registers are saved, and for the
\* time being the address of the instruction.
Exception ==
    /\ where = "program" /\ at < LoopLength
    /\ (enabled /\ ipending) \/ (kind # "plain")
    /\ where' = "entry" /\ saved' = at /\ withdrawn' = FALSE
    /\ UNCHANGED <<programVars, enabled, ipending, handler, vars>>

-----------------------------------------------------------------------------
\* alt_irq_handler() returns when no interrupt is pending, and the instruction
\* the interrupt was taken before comes again.
IrqTest ==
    /\ where = "entry"
    /\ IF enabled /\ ipending THEN where' = "exit" /\ ipending' = FALSE
       ELSE where' = "notirq" /\ UNCHANGED ipending
    /\ UNCHANGED <<saved, programVars, enabled, handler, withdrawn, vars>>

\* Mutant: the address is left as it was.
AddressSaved == saved

Behind == at + 1

\* Don't re-issue.
NotIrq ==
    /\ where = "notirq" /\ where' = "soft" /\ saved' = Behind
    /\ UNCHANGED <<programVars, machineVars, vars>>

Emulated == Emulation /\ kind = "muldiv"
Trapped == TrapHandler /\ kind = "trap"

Emulate ==
    /\ where = "soft" /\ Emulated
    /\ \/ pc = "idle" /\ \E o \in Ops, x \in Words, y \in Words : Divide(o, x, y) \/ Multiply(o, x, y)
       \/ DivideLoop \/ DivideEnd \/ MultiplyLoop \/ MultiplyEnd
    /\ UNCHANGED exceptionVars

EmulationDone ==
    /\ where = "soft" /\ Emulated /\ Resume
    /\ where' = "exit" /\ Fate("emulated")
    /\ UNCHANGED <<at, kind, saved, machineVars>>

Soft ==
    /\ where = "soft" /\ ~Emulated
    /\ where' = IF Trapped THEN "break" ELSE "unknown"
    /\ UNCHANGED <<saved, programVars, machineVars, vars>>

\* alt_instruction_exception_entry() with a handler registered.  It has put
\* right what was wrong, or the instruction would come back here, and has it
\* issued again (0), or has it skipped (1).
Unknown ==
    /\ where = "unknown" /\ Api /\ handler
    /\ where' = "exit"
    /\ \/ saved' = at /\ kind' \in {kind, "plain"} /\ UNCHANGED fates
       \/ Fate("skipped") /\ UNCHANGED <<saved, kind>>
    /\ UNCHANGED <<at, machineVars, vars>>

Unhandled ==
    /\ where = "unknown" /\ ~(Api /\ handler) /\ where' = "break"
    /\ UNCHANGED <<saved, programVars, machineVars, vars>>

\* Whoever has a debugger attached may go on.  Behind the trap handler's break
\* and without the API the instruction is passed over; the break in
\* alt_instruction_exception_entry() returns "re-issue".
Continue ==
    /\ where = "break" /\ where' = "exit"
    /\ IF Api /\ ~Trapped THEN saved' = at /\ UNCHANGED fates
       ELSE Fate("skipped") /\ UNCHANGED saved
    /\ UNCHANGED <<at, kind, machineVars, vars>>

Exit ==
    /\ where = "exit" /\ where' = "program"
    /\ at' = saved
    /\ kind' \in (IF saved = at THEN {kind} ELSE Kinds)
    /\ UNCHANGED <<saved, fates, machineVars, vars>>

ExceptionNext ==
    \/ Execute \/ Loop \/ Request \/ Exception
    \/ IrqTest \/ NotIrq \/ Emulate \/ EmulationDone \/ Soft \/ Unknown \/ Unhandled \/ Continue \/ Exit

ExceptionSpec == ExceptionInit /\ [][ExceptionNext]_<<exceptionVars, vars>>

-----------------------------------------------------------------------------
\* Whatever interrupts, faults and emulated instructions come one upon another,
\* each instruction of the program is done with once, in its turn.  One that is
\* passed over is one the CPU cannot carry out, unless an interrupt that was
\* withdrawn made the handler look at an instruction with nothing wrong; those
\* that the emulation can carry out it does even then.
InstructionsOnce ==
    /\ where = "program" => Len(fates) = at
    /\ \A i \in DOMAIN fates :
          fates[i].how = "skipped" =>
              \/ fates[i].kind \in {"trap", "faulting"}
              \/ fates[i].kind = "muldiv" /\ ~Emulation
              \/ fates[i].kind = "plain" /\ fates[i].withdrawn
=============================================================================
