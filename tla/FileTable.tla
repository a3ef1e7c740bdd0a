------------------------------ MODULE FileTable ------------------------------
(***************************************************************************)
(* The file descriptors of the HAL: the boot sequence that registers the   *)
(* drivers and puts stdin, stdout and stderr on their devices, and the     *)
(* calls of the application on the pool of descriptors, in both builds of  *)
(* the source (direct: ALT_USE_DIRECT_DRIVERS, no pool at all).            *)
(*                                                                         *)
(* A name is a model value; Answers says which names a driver answers to   *)
(* (its own for a device, every name below its mount point for a file      *)
(* system).  The application is one thread and calls the HAL with a        *)
(* descriptor it holds, with a standard one, or with the negative result   *)
(* of a failed open.                                                       *)
(***************************************************************************)
EXTENDS Integers, Sequences

CONSTANTS
    MaxFd,          \* ALT_MAX_FD (4)
    Devices,        \* drivers that are devices, except /dev/null
    FileSystems,    \* drivers that are file systems
    Null,           \* alt_dev_null
    NoDev,          \* the null pointer
    Names,          \* names of files and devices
    Answers,        \* [driver -> the names it answers to]
    Methods,        \* [driver -> the functions it has]
    StdName,        \* [0 .. 2 -> ALT_STDIN, ALT_STDOUT, ALT_STDERR]
    Modes,          \* access modes that are tried
    Directs         \* the values of direct that are considered

Drivers == Devices \cup FileSystems \cup {Null}
Function == {"open", "close", "read", "write", "lseek", "fstat", "ioctl"}

ASSUME MaxFdAssumption == MaxFd \in Nat /\ MaxFd >= 3
ASSUME DriverAssumption ==
    /\ Devices \cap FileSystems = {}
    /\ Null \notin Devices \cup FileSystems
    /\ NoDev \notin Drivers
    /\ Answers \in [Drivers -> SUBSET Names]
    /\ Methods \in [Drivers -> SUBSET Function]
    /\ StdName \in [0 .. 2 -> Names]
    /\ Modes \subseteq {"O_RDONLY", "O_WRONLY", "O_RDWR"}
    /\ Directs \subseteq BOOLEAN

VARIABLES
    direct,             \* build: ALT_USE_DIRECT_DRIVERS
    phase,              \* how far alt_main is
    devList, fsList,    \* alt_dev_list, alt_fs_list
    table, maxFd,       \* alt_fd_list, alt_max_fd
    held,               \* what the application opened and did not close
    result              \* of the last call: "ok" or ALT_ERRNO

lists == <<devList, fsList>>
vars == <<direct, phase, lists, table, maxFd, held, result>>

Fd == 0 .. MaxFd - 1
Standard == 0 .. 2

\* An entry of the pool; flags are taken apart: access mode, O_NONBLOCK, and
\* the two marks ALT_FD_DEV and ALT_FD_EXCL.
Entry == [dev : Drivers \cup {NoDev}, mode : {"O_RDONLY", "O_WRONLY", "O_RDWR"},
          nonblock : BOOLEAN, marks : SUBSET {"DEV", "EXCL"}]

\* All bits zero, and the static initialisation of the standard descriptors.
Unused == [dev |-> NoDev, mode |-> "O_RDONLY", nonblock |-> FALSE, marks |-> {}]
OnNull == [dev |-> Null, mode |-> "O_RDONLY", nonblock |-> FALSE, marks |-> {}]

Boot == {"sys", "stdout", "stdin", "stderr"}

TypeOK ==
    /\ direct \in BOOLEAN
    /\ phase \in Boot \cup {"main", "halted"}
    /\ devList \in Seq(Devices \cup {Null}) /\ fsList \in Seq(FileSystems)
    /\ table \in [Fd -> Entry]
    /\ maxFd \in -1 .. MaxFd - 1
    /\ held \in [Fd -> Drivers \cup {NoDev}]
    /\ result \in {"ok", "ENODEV", "EMFILE", "EACCES", "EIO", "EBADFD", "EWOULDBLOCK",
                   "ENOTTY", "ENOTSUP", "EINVAL", "ENOSYS", "ESRCH", "ECHILD"}

Init ==
    /\ direct \in Directs
    /\ phase = "sys"
    /\ devList = <<Null>> /\ fsList = <<>>
    /\ table = [f \in Fd |-> IF f \in Standard THEN OnNull ELSE Unused]
    /\ maxFd = -1
    /\ held = [f \in Fd |-> NoDev]
    /\ result = "ok"

-----------------------------------------------------------------------------
(* Finding a driver, allocating and releasing a descriptor *)

Answering(list, name) == {i \in DOMAIN list : name \in Answers[list[i]]}

\* The first of the list: the one registered last.
FirstAnswering(list, name) ==
    list[CHOOSE i \in Answering(list, name) : \A j \in Answering(list, name) : i <= j]

\* alt_find_dev, else alt_find_file
Find(name) ==
    IF Answering(devList, name) # {} THEN FirstAnswering(devList, name)
    ELSE IF Answering(fsList, name) # {} THEN FirstAnswering(fsList, name)
    ELSE NoDev

Free == {f \in Fd : table[f].dev = NoDev}

\* alt_get_fd
GetFd == CHOOSE f \in Free : \A g \in Free : f <= g

\* Mutant: the flags of a descriptor that is released are not cleared.
ReleaseDevice(t, f) == IF f > 2 THEN [t EXCEPT ![f].dev = NoDev] ELSE t

\* alt_release_fd: the standard descriptors stay.
Release(t, f) == IF f > 2 THEN [t EXCEPT ![f] = Unused] ELSE t

\* Mutant: another descriptor that holds the device is no obstacle.
NeverLocked(d, f, top) == FALSE

\* alt_file_locked
FileLocked(d, f, top) ==
    \E g \in (0 .. top) \ {f} : table[g].dev = d /\ "EXCL" \in table[g].marks

Higher(m, f) == IF f > m THEN f ELSE m

\* What open() of a name may come to; a function of the driver may fail.
OpenOutcomes(name) ==
    LET d == Find(name) IN
    IF d = NoDev THEN {"ENODEV"}
    ELSE IF Free = {} THEN {"EMFILE"}
    ELSE IF d \notin FileSystems /\ FileLocked(d, GetFd, Higher(maxFd, GetFd)) THEN {"EACCES"}
    ELSE IF "open" \in Methods[d] THEN {"ok", "EIO"} ELSE {"ok"}

Opened(name, mode, nonblock) ==
    [dev |-> Find(name), mode |-> mode, nonblock |-> nonblock,
     marks |-> IF Find(name) \in FileSystems THEN {} ELSE {"DEV"}]

\* Mutant: the descriptor of an open that failed is not given back.
AfterOpenLeaks(rc, name, mode, nonblock) ==
    IF rc \in {"ENODEV", "EMFILE"} THEN table
    ELSE [table EXCEPT ![GetFd] = Opened(name, mode, nonblock)]

\* The pool after ALT_OPEN with that outcome.
AfterOpen(rc, name, mode, nonblock) ==
    IF rc \in {"ENODEV", "EMFILE"} THEN table
    ELSE LET t == [table EXCEPT ![GetFd] = Opened(name, mode, nonblock)]
         IN IF rc = "ok" THEN t ELSE Release(t, GetFd)

HighWater(rc) == IF rc \in {"ENODEV", "EMFILE"} THEN maxFd ELSE Higher(maxFd, GetFd)

-----------------------------------------------------------------------------
(* alt_main *)

Registered == {devList[i] : i \in DOMAIN devList} \cup {fsList[i] : i \in DOMAIN fsList}

\* alt_sys_init: alt_dev_reg of a device, alt_fs_reg of a file system, at the head.
Register(d) ==
    /\ phase = "sys" /\ ~direct
    /\ d \notin Registered
    /\ \/ d \in Devices /\ devList' = <<d>> \o devList /\ UNCHANGED fsList
       \/ d \in FileSystems /\ fsList' = <<d>> \o fsList /\ UNCHANGED devList
    /\ UNCHANGED <<direct, phase, table, maxFd, held, result>>

SysInitDone ==
    /\ phase = "sys"
    /\ direct \/ Registered = Drivers
    /\ phase' = IF direct THEN "main" ELSE "stdout"
    /\ UNCHANGED <<direct, lists, table, maxFd, held, result>>

\* Mutant: the temporary descriptor stays open.
RedirectNoRelease(s, mode, next) ==
    \E rc \in OpenOutcomes(StdName[s]) :
        LET t == AfterOpen(rc, StdName[s], mode, FALSE)
        IN /\ table' = IF rc = "ok" THEN [t EXCEPT ![s] = t[GetFd]] ELSE t
           /\ maxFd' = HighWater(rc) /\ result' = rc /\ phase' = next
           /\ UNCHANGED <<direct, lists, held>>

\* alt_open_fd: open the name, copy the entry, release the temporary descriptor.
RedirectTo(s, mode, next) ==
    \E rc \in OpenOutcomes(StdName[s]) :
        LET t == AfterOpen(rc, StdName[s], mode, FALSE)
        IN /\ table' = IF rc = "ok" THEN Release([t EXCEPT ![s] = t[GetFd]], GetFd) ELSE t
           /\ maxFd' = HighWater(rc) /\ result' = rc /\ phase' = next
           /\ UNCHANGED <<direct, lists, held>>

\* alt_io_redirect
Redirect ==
    \/ phase = "stdout" /\ RedirectTo(1, "O_WRONLY", "stdin")
    \/ phase = "stdin" /\ RedirectTo(0, "O_RDONLY", "stderr")
    \/ phase = "stderr" /\ RedirectTo(2, "O_WRONLY", "main")

-----------------------------------------------------------------------------
(* The calls of the application *)

Running == phase = "main"
Calling == Running /\ ~direct /\ UNCHANGED <<direct, phase, lists>>

\* The descriptors the application may name.
InUse == Standard \cup {f \in Fd : held[f] # NoDev}

Returns(rc) == result' = rc

Open(name, mode, nonblock) ==
    /\ Calling
    /\ \E rc \in OpenOutcomes(name) :
          /\ table' = AfterOpen(rc, name, mode, nonblock)
          /\ maxFd' = HighWater(rc)
          /\ held' = IF rc = "ok" THEN [held EXCEPT ![GetFd] = Find(name)] ELSE held
          /\ Returns(rc)

\* A driver that has output left does not wait for it on a nonblocking descriptor.
CloseOutcomes(f) ==
    IF "close" \in Methods[table[f].dev] /\ table[f].nonblock THEN {"ok", "EWOULDBLOCK"} ELSE {"ok"}

\* ALT_CLOSE: the descriptor is released whatever the driver says.
Close(f) ==
    /\ \E rc \in CloseOutcomes(f) : Returns(rc)
    /\ table' = Release(table, f)
    /\ held' = [held EXCEPT ![f] = NoDev]
    /\ UNCHANGED maxFd

CallClose(f) == Calling /\ f \in InUse /\ Close(f)

SamePool == UNCHANGED <<table, maxFd, held>>

\* What a function of the driver may return.
DriverOutcomes(f) ==
    {"ok"} \cup (IF table[f].nonblock THEN {"EWOULDBLOCK"} ELSE {})
           \cup (IF table[f].dev \in FileSystems THEN {"EIO"} ELSE {})

\* ALT_READ, and ALT_WRITE with the other access mode.
Transfer(f, func, denied) ==
    /\ Calling /\ f \in InUse /\ SamePool
    /\ IF table[f].mode # denied /\ func \in Methods[table[f].dev]
       THEN \E rc \in DriverOutcomes(f) : Returns(rc)
       ELSE Returns("EACCES")

Read(f) == Transfer(f, "read", "O_WRONLY")
Write(f) == Transfer(f, "write", "O_RDONLY")

\* ALT_LSEEK; ALT_FSTAT and ALT_ISATTY set no error (without fstat it is a terminal).
Seek(f) ==
    /\ Calling /\ f \in InUse /\ SamePool
    /\ Returns(IF "lseek" \in Methods[table[f].dev] THEN "ok" ELSE "ENOTSUP")

Stat(f) == Calling /\ f \in InUse /\ SamePool /\ Returns("ok")

\* ALT_FCNTL: F_SETFL sets O_NONBLOCK (and O_APPEND) only.
SetFlags(f, nonblock) ==
    /\ Calling /\ f \in InUse
    /\ table' = [table EXCEPT ![f].nonblock = nonblock]
    /\ Returns("ok")
    /\ UNCHANGED <<maxFd, held>>

OtherCommand(f) == Calling /\ f \in InUse /\ SamePool /\ Returns("EINVAL")

\* alt_fd_lock looks at the descriptors below alt_max_fd, not at that one itself.
Shared(f) == \E g \in (0 .. maxFd - 1) \ {f} : table[g].dev = table[f].dev

\* What a file system, or a driver with its own ioctl, answers.
Forward(f) ==
    /\ SamePool
    /\ Returns(IF "ioctl" \in Methods[table[f].dev] THEN "ok" ELSE "ENOTTY")

\* ALT_IOCTL(TIOCEXCL)
Lock(f) ==
    /\ Calling /\ f \in InUse
    /\ \/ "DEV" \notin table[f].marks /\ Forward(f)
       \/ "DEV" \in table[f].marks /\ Shared(f) /\ SamePool /\ Returns("EACCES")
       \/ /\ "DEV" \in table[f].marks /\ ~Shared(f)
          /\ table' = [table EXCEPT ![f].marks = @ \cup {"EXCL"}]
          /\ Returns("ok") /\ UNCHANGED <<maxFd, held>>

\* ALT_IOCTL(TIOCNXCL)
Unlock(f) ==
    /\ Calling /\ f \in InUse
    /\ \/ "DEV" \notin table[f].marks /\ Forward(f)
       \/ /\ "DEV" \in table[f].marks
          /\ table' = [table EXCEPT ![f].marks = @ \ {"EXCL"}]
          /\ Returns("ok") /\ UNCHANGED <<maxFd, held>>

Control(f) == Calling /\ f \in InUse /\ Forward(f)

\* Any call with the negative result of a failed open.
BadDescriptor == Calling /\ SamePool /\ Returns("EBADFD")

\* ALT_STAT: open(), fstat() and close().  Without a descriptor close() has the
\* last word about the error.
StatName(name) ==
    /\ Calling /\ UNCHANGED held
    /\ \E rc \in OpenOutcomes(name) :
          LET t == AfterOpen(rc, name, "O_RDONLY", FALSE)
          IN /\ table' = IF rc = "ok" THEN Release(t, GetFd) ELSE t
             /\ maxFd' = HighWater(rc)
             /\ Returns(IF rc = "ok" THEN "ok" ELSE "EBADFD")

(* The direct build: the stdio devices, by number *)

DirectRead(f) == IF f = 0 THEN "ok" ELSE "EBADFD"
DirectWrite(f) == IF f \in {1, 2} THEN "ok" ELSE "EBADFD"
DirectControl(f) == IF f \in Standard THEN "ok" ELSE "EBADFD"

\* It sets no error.
DirectStat(f) == IF f \in Standard THEN "ok" ELSE result

\* open, close and lseek are stubs, and stat with them.
DirectCall(f, func) ==
    /\ Running /\ direct
    /\ Returns(CASE func = "read" -> DirectRead(f)
                 [] func = "write" -> DirectWrite(f)
                 [] func = "ioctl" -> DirectControl(f)
                 [] func = "fstat" -> DirectStat(f)
                 [] OTHER -> "ENOSYS")
    /\ UNCHANGED <<direct, phase, lists>> /\ SamePool

(* Both builds: there are no processes *)

\* ALT_LINK, as ALT_UNLINK, ALT_RENAME, ALT_EXECVE and ALT_FORK; ALT_WAIT.
Unsupported ==
    /\ Running /\ SamePool /\ UNCHANGED <<direct, phase, lists>>
    /\ \E rc \in {"ENOSYS", "ECHILD"} : Returns(rc)

Signals == {"null", "fatal", "ignored", "unknown"}

\* ALT_EXIT spins for ever.
Halt == phase' = "halted"

\* ALT_KILL: the one process is 0, or all of them; a signal is the null signal,
\* one that ends the process, one that is ignored, or an unknown one.
Kill(process, signal) ==
    /\ Running /\ SamePool /\ UNCHANGED <<direct, lists>>
    /\ \/ process > 0 /\ Returns("ESRCH") /\ UNCHANGED phase
       \/ process <= 0 /\ signal \in {"null", "ignored"} /\ Returns("ok") /\ UNCHANGED phase
       \/ process <= 0 /\ signal = "unknown" /\ Returns("EINVAL") /\ UNCHANGED phase
       \/ process <= 0 /\ signal = "fatal" /\ Halt /\ UNCHANGED result

\* main returns: close(STDOUT_FILENO), exit.
Exit ==
    /\ Running
    /\ Halt
    /\ IF direct THEN SamePool /\ Returns("ENOSYS") ELSE Close(1)
    /\ UNCHANGED <<direct, lists>>

-----------------------------------------------------------------------------
BootStep == (\E d \in Drivers : Register(d)) \/ SysInitDone \/ Redirect

CallOn(f) ==
    \/ CallClose(f) \/ Read(f) \/ Write(f) \/ Seek(f) \/ Stat(f)
    \/ \E b \in BOOLEAN : SetFlags(f, b)
    \/ OtherCommand(f) \/ Lock(f) \/ Unlock(f) \/ Control(f)

Next ==
    \/ BootStep
    \/ \E n \in Names, m \in Modes, b \in BOOLEAN : Open(n, m, b)
    \/ \E f \in Fd : CallOn(f)
    \/ \E f \in Fd, func \in Function : DirectCall(f, func)
    \/ \E n \in Names : StatName(n)
    \/ \E process \in {-1, 0, 1}, signal \in Signals : Kill(process, signal)
    \/ BadDescriptor \/ Unsupported \/ Exit

Spec == Init /\ [][Next]_vars

-----------------------------------------------------------------------------
(* Properties *)

Holders(d) == {f \in Fd : table[f].dev = d}
Locked(f) == "EXCL" \in table[f].marks

\* A free entry has no flags left that its next owner would inherit.
FreeIsClean == \A f \in Fd : table[f].dev = NoDev => table[f] = Unused

\* The standard descriptors always have a driver; the calls never follow a null
\* pointer.
AlwaysBound ==
    /\ \A s \in Standard : table[s].dev # NoDev
    /\ \A f \in Fd : held[f] # NoDev => f \notin Standard /\ table[f].dev = held[f]

\* No descriptor stays allocated that nobody holds.
NoneLeaked ==
    \A f \in Fd \ Standard : table[f].dev # NoDev => held[f] # NoDev

\* The high water mark covers every descriptor that can be locked.
BelowMark ==
    /\ \A f \in Fd \ Standard : table[f].dev # NoDev => f <= maxFd
    /\ maxFd = -1 \/ maxFd > 2

\* Two descriptors never both have the same device for themselves, although
\* alt_fd_lock misses the descriptor at the high water mark.
OneOwner ==
    \A f, g \in Fd : Locked(f) /\ Locked(g) /\ table[f].dev = table[g].dev => f = g

MarkedDevices ==
    \A f \in Fd : /\ Locked(f) => "DEV" \in table[f].marks
                  /\ "DEV" \in table[f].marks => table[f].dev \notin FileSystems
                  /\ "DEV" \in table[f].marks => maxFd > 2

\* alt_fd_lock misses at most the descriptor that was the highest then: a locked
\* device has no second descriptor below the locked one.
LockedBelow ==
    \A f, g \in Fd : Locked(f) /\ g # f /\ table[g].dev = table[f].dev => f < g

\* Until main starts nothing is open but the standard descriptors, nothing is
\* locked, and those that were redirected are where StdioReady wants them; the
\* direct build has no lists and no pool at all.
Redirected(s) ==
    LET d == Find(StdName[s])
    IN d # NoDev /\ "open" \notin Methods[d] => table[s].dev = d

BootInv ==
    /\ phase \in Boot => \A f \in Fd : held[f] = NoDev /\ ~Locked(f)
    /\ direct => phase \notin Boot \ {"sys"}
    /\ ~direct /\ MaxFd > 3 =>
           /\ phase \notin {"sys", "stdout"} => Redirected(1)
           /\ phase \in {"stderr", "main", "halted"} => Redirected(0)
           /\ phase \in {"main", "halted"} => Redirected(2)

IInv ==
    /\ TypeOK /\ FreeIsClean /\ AlwaysBound /\ NoneLeaked /\ BelowMark
    /\ OneOwner /\ MarkedDevices /\ LockedBelow /\ BootInv

\* While a descriptor has its device for itself nobody else gets one on it.
LockKeepsOut ==
    [][\A f \in Fd : Locked(f) /\ Locked(f)' =>
           Holders(table[f].dev)' \subseteq Holders(table[f].dev)]_vars

\* A call that fails leaves the pool as it was, except for close(), which gives
\* up the descriptor whatever the driver says.
FailureChangesNothing ==
    [][Running /\ result' # "ok" =>
           table' = table \/ (result' = "EWOULDBLOCK" /\ held' # held)]_vars

\* When main starts, and from then on, every standard descriptor is on the device
\* of its name if there is such a device: one spare descriptor is enough.
StdioReady ==
    Running /\ ~direct /\ MaxFd > 3 => \A s \in Standard : Redirected(s)
=============================================================================
