------------------------------- MODULE Startup -------------------------------
(* From reset to main(): crt0.S and alt_load(), a word of memory at a time.  *)
(* The program lies in a memory that keeps its contents over a reset, with   *)
(* the initial values of its variables beside the variables (linker.x), and  *)
(* a reset comes at any moment: a start must not need what an earlier run,   *)
(* or an earlier start, has left in memory or in the caches.                 *)
EXTENDS Integers, Sequences

CONSTANTS
    Addresses,   \* the words of memory
    Contents,    \* what a word may hold; 0 is one
    Sections,    \* alt_load()'s sections, in its order: where from, where to, up to where
    BssStart, BssEnd,
    Code,        \* where instructions are fetched from
    Variables,   \* what the program writes: its variables, heap and stack
    Image,       \* the memory as it was downloaded
    Absent       \* a cache does not hold the word

Moved(c) == c.from # c.to
Target(c) == c.to .. c.end - 1
Source(c) == c.from .. c.from + (c.end - c.to) - 1
Bss == BssStart .. BssEnd - 1
MovedSections == {k \in DOMAIN Sections : Moved(Sections[k])}
Targets == UNION {Target(Sections[k]) : k \in MovedSections}

\* What nothing writes: initial values, and the rest of the image.
Kept == Addresses \ (Variables \cup Targets \cup Bss)

\* What linker.x sees to.
ASSUME LayoutAssumption ==
    /\ Addresses \subseteq Int /\ 0 \in Contents /\ Absent \notin Contents
    /\ Image \in [Addresses -> Contents]
    /\ Sections \in Seq([from : Int, to : Int, end : Int])
    /\ BssStart \in Int /\ BssEnd \in Int /\ BssStart <= BssEnd /\ Bss \subseteq Addresses
    /\ Code \subseteq Addresses /\ Variables \subseteq Addresses
    /\ Code \cap (Variables \cup Bss) = {}
    /\ \A k \in DOMAIN Sections : Sections[k].to <= Sections[k].end
    /\ \A k \in MovedSections :
          /\ Target(Sections[k]) \subseteq Addresses /\ Source(Sections[k]) \subseteq Kept
          /\ Target(Sections[k]) \cap Bss = {}
          /\ \A j \in MovedSections \ {k} : Target(Sections[k]) \cap Target(Sections[j]) = {}

VARIABLES
    crt,       \* the step of crt0
    section,   \* alt_load()'s section
    ptr,       \* the next word of a loop
    ram,       \* the memory
    dcache,    \* the words the data cache holds and memory does not
    icache     \* the words the instruction cache holds

startupVars == <<crt, section, ptr, ram, dcache, icache>>

Seen(a) == IF dcache[a] = Absent THEN ram[a] ELSE dcache[a]
Store(a, v) == dcache' = [dcache EXCEPT ![a] = v]

\* After power-up the caches hold anything.
StartupInit ==
    /\ crt = "entry" /\ section = 1 /\ ptr = BssStart
    /\ ram = Image
    /\ dcache \in [Addresses -> Contents \cup {Absent}]
    /\ icache \in [Code -> Contents \cup {Absent}]

-----------------------------------------------------------------------------
\* initi and initd drop what the caches hold, written back or not.
InitICache ==
    /\ crt = "entry" /\ crt' = "start"
    /\ icache' = [a \in Code |-> Absent]
    /\ UNCHANGED <<section, ptr, ram, dcache>>

\* Mutant: what ALT_SIM_OPTIMIZE makes of it, on hardware.
DCacheLeft == UNCHANGED dcache

DropDCache == dcache' = [a \in Addresses |-> Absent]

NextSection(k) ==
    /\ section' = k
    /\ ptr' = IF k \in DOMAIN Sections THEN Sections[k].to ELSE ptr

InitDCache ==
    /\ crt = "start" /\ DropDCache
    /\ IF BssStart = BssEnd THEN crt' = "load" /\ NextSection(1)
       ELSE crt' = "bss" /\ ptr' = BssStart /\ UNCHANGED section
    /\ UNCHANGED <<ram, icache>>

\* The word is cleared before the end is looked at.
ClearBss ==
    /\ crt = "bss" /\ Store(ptr, 0)
    /\ IF ptr + 1 < BssEnd THEN crt' = crt /\ ptr' = ptr + 1 /\ UNCHANGED section
       ELSE crt' = "load" /\ NextSection(1)
    /\ UNCHANGED <<ram, icache>>

LoadSection ==
    /\ crt = "load" /\ section \in DOMAIN Sections
    /\ LET c == Sections[section]
       IN IF ~Moved(c) \/ ptr = c.end
          THEN NextSection(section + 1) /\ UNCHANGED dcache
          ELSE /\ Store(ptr, Seen(c.from + (ptr - c.to)))
               /\ ptr' = ptr + 1 /\ UNCHANGED section
    /\ UNCHANGED <<crt, ram, icache>>

DCacheFlushAll ==
    /\ crt = "load" /\ section \notin DOMAIN Sections
    /\ ram' = [a \in Addresses |-> Seen(a)]
    /\ dcache' = [a \in Addresses |-> Absent]
    /\ crt' = "flush"
    /\ UNCHANGED <<section, ptr, icache>>

ICacheFlushAll ==
    /\ crt = "flush" /\ crt' = "alt_main"
    /\ icache' = [a \in Code |-> Absent]
    /\ UNCHANGED <<section, ptr, ram, dcache>>

-----------------------------------------------------------------------------
\* The program writes its variables.
ProgramStores ==
    /\ crt \in {"alt_main", "running"} /\ crt' = "running"
    /\ \E a \in Variables, v \in Contents : Store(a, v)
    /\ UNCHANGED <<section, ptr, ram, icache>>

\* Instructions are fetched past the data cache, those behind a jump or in the
\* same line as others also before they are wanted.
Fetch ==
    /\ crt # "entry"
    /\ \E a \in Code : icache[a] = Absent /\ icache' = [icache EXCEPT ![a] = ram[a]]
    /\ UNCHANGED <<crt, section, ptr, ram, dcache>>

\* The data cache makes room, once it is used.  A core without it writes every
\* word back at once.
WriteBack ==
    /\ crt \notin {"entry", "start"}
    /\ \E a \in Addresses :
          /\ dcache[a] # Absent
          /\ ram' = [ram EXCEPT ![a] = dcache[a]] /\ dcache' = [dcache EXCEPT ![a] = Absent]
    /\ UNCHANGED <<crt, section, ptr, icache>>

\* Memory and caches stay as they are.
ResetCpu ==
    /\ crt # "entry" /\ crt' = "entry"
    /\ UNCHANGED <<section, ptr, ram, dcache, icache>>

StartupNext ==
    \/ InitICache \/ InitDCache \/ ClearBss \/ LoadSection \/ DCacheFlushAll \/ ICacheFlushAll
    \/ ProgramStores \/ Fetch \/ WriteBack \/ ResetCpu

StartupSpec == StartupInit /\ [][StartupNext]_startupVars

-----------------------------------------------------------------------------
\* What every word holds that alt_load() has copied up to section k, word p.
LoadedUpTo(k, p) ==
    \A j \in MovedSections : \A a \in Target(Sections[j]) :
        (j < k \/ (j = k /\ a < p)) => Seen(a) = Image[Sections[j].from + (a - Sections[j].to)]

Cleared(p) == \A a \in BssStart .. p - 1 : Seen(a) = 0

DataLoaded ==
    crt = "alt_main" =>
        /\ LoadedUpTo(Len(Sections) + 1, 0) /\ Cleared(BssEnd)
        /\ \A a \in Kept : Seen(a) = Image[a]

\* What the program's code is, where it was linked to run.
Loaded(a) ==
    IF a \in Targets
    THEN {Image[Sections[j].from + (a - Sections[j].to)] : j \in {i \in MovedSections : a \in Target(Sections[i])}}
    ELSE {Image[a]}

CodeLoaded ==
    crt \in {"alt_main", "running"} => \A a \in Code : icache[a] \in Loaded(a) \cup {Absent}

\* However often a start or a run was cut short by a reset, whatever the run
\* had written and whatever the caches held, alt_main() finds every variable
\* with its initial value and the rest of the image as it was downloaded
\* ("crt0 will copy from LMA to VMA on reset", linker.x), and from there on the
\* instructions that are fetched are those of the image, also where alt_load()
\* has put them.
StartsClean == DataLoaded /\ CodeLoaded
=============================================================================
