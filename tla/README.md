# LIVIPS: models and proofs

TLA+ models of LIVIPS (Light Invariant Photometric Stereo): how a command travels from a
MATLAB script to an LED, what the scan and calibration scripts may rely on when they trigger
the camera, what a run leaves behind for the next one on the bench and in the files, and the
board support package (BSP) under the firmware: the UART driver, and the parts of the hardware
abstraction layer (HAL) that keep state or are easy to get wrong.  The numeric side
(filtering, photometric stereo, evaluation) is modelled only where the control side depends on
it.

Paths below are relative to `src/`; `bsp` is
`hardware/nios_led/software/uart_handler_bsp`.

## The system

    MATLAB session                      FPGA (hardware/nios_led)
    +---------------------+   RS-232   +-----------+  RXDATA  +-----------+  PIO   +------+
    | scan / calibration  |----------->| UART core |<---poll--| Nios II   |------->| bus1 |--> LED 1
    | scripts, ledcontroll|  1 byte    | 1 register|          | firmware  |        | bus2 |--> LED 2
    +---------------------+            +-----------+          +-----------+        | bus3 |--> LED 3
       ^ camera (getdata)                    ^                 | BSP: HAL, |         +------+
       |                                     +-----------------| drivers   |
       +------ pictures, light_directions.txt --> PSBox        +-----------+

A command is one byte: `a/64` selects the bus (1..3), the low six bits are the
blinking code (0 off, 56 constant).  There is no acknowledgement: the firmware
prints an answer that no program reads.  The firmware of this commit polls RXDATA
itself and is linked with the small variants of the BSP; the BSP ships both
variants in source, and its models cover both.

| component | source | state | operations | modelled in |
|---|---|---|---|---|
| firmware | `hardware/nios_led/software/uart_handler/hello_world_small.c` | local `a`, the delay counter | `ledDemo`, `delay`, `main` | `LedLink` |
| UART core, receive | `.../submodules/nios_led_rs232.v` | `rx_data`, `rx_char_ready`, `rx_overrun`, framing error, control register | character arrives, RXDATA read, status cleared | `UartCore`, `UartDriver` |
| UART core, transmit | same | TXDATA, TRDY, shift register | TXDATA written, shifter loaded | `UartDriver` |
| PIO cores | `.../submodules/nios_led_bus{1,2,3}.v` | `data_out` | write | `LedLink` |
| LED units | `led_unit.vhd`, not in the repository | blinking phase | | external: a code means a frequency |
| scan scripts | `scanner/DemoScan.m`, `demoStaticScan.m` | workspace, serial object, movie, pictures | command, pause, shoot, compute, save | `ScanScripts`, `ScanHost` |
| calibration scripts | `calibrate/calibrateWithBall*.m` | same, and `light_directions.txt` | same | `ScanScripts`, `ScanHost` |
| LED control window | `led control/ledcontroll.m` | serial object, one byte per button | open, press, choose | `ControlWindow`; `ScanHost` (open, press) |
| camera helpers | `LIVItools/InitCameraRaw_.m`, `CaptureMovie_.m` | video object | init, trigger, getdata | `ScanHost` |
| frequency separation | `LIVItools/FindFreqFromMovRaw.m` | none | peaks, order | `ScanHost` (order) |
| PSBox | `PSBox-v0.3.1/` | `data/Objects`, `light_directions.txt` | reconstruct | `ReconstructionData` (its files); `ScanHost` (one step) |
| simulations | `simulation/generic/` | pictures and directions in PSBox's data | write, reconstruct | `ReconstructionData` |
| UART driver | `bsp/drivers/src/` | two ring buffers, enabled interrupts, termios | read, write, close, interrupt handler; ioctl | `UartDriver`; `UartSettings` |
| file descriptors, boot | `bsp/HAL/src/alt_open.c` ... `alt_main.c` | `alt_fd_list`, `alt_max_fd`, lists of drivers | boot, redirect, open, close, lock, ioctl, stat, kill ... | `FileTable` |
| interrupts, alarms | `bsp/HAL/src/alt_tick.c`, `alt_alarm_start.c`, `alt_irq_handler.c`, ... | `alt_nticks`, `alt_alarm_list`, `alt_irq`, `ienable`, PIE | dispatch, register, start, stop, tick | `Alarms` |
| profiling | `bsp/HAL/src/alt_mcount.S`, `alt_gmon.c`, `alt_sbrk.c` | call graph, slab, heap, sampler | `mcount`, start of the sampler | `Profiler` |
| library routines | `bsp/HAL/src/alt_printf.c`, `alt_log_printf.c`, `alt_gettod.c`, `alt_settod.c`, `alt_busy_sleep.c`, `alt_*cache_flush*.c` | `alt_resettime` | print, log, set and get time, sleep, flush, remap | `HalLibrary` |
| exceptions | `bsp/HAL/src/alt_exception_*.S`, `alt_irq_entry.S`, `alt_instruction_exception_*.c` | return address, the registered handler | enter, test for interrupts, emulate, trap, ask the handler, return | `Exceptions` |
| instruction emulation | `bsp/HAL/src/alt_exception_muldiv.S` | registers | divide, multiply | `MulDiv` |
| reset, loader | `bsp/HAL/src/crt0.S`, `alt_load.c`, `bsp/linker.x` | memory, caches | drop the caches, clear bss, copy sections, flush | `Startup` |
| flash, uncached memory | `bsp/HAL/inc/sys/alt_flash.h`, `alt_uncached_malloc.c`, `alt_remap_*.c` | | write a block, remap, allocate | `HalLibrary` |
| DMA, list of flash devices | `bsp/HAL/src/` | | | not modelled |
| evaluation, image processing | `evaluate/`, `Image processing/` | none | | not modelled |

The hard parts: timing (a one-character register polled every 0.6 to 0.8 s by a firmware that
does not look at RRDY); what survives between two runs (LEDs, instrument objects, the open
port, the direction file); the implicit pairing of picture *k* with light *k* across runs;
interrupt handlers that share ring buffers, a list, a table of handlers and a call graph with
the code they interrupt; a counter that wraps; a pool with one descriptor to spare; and a reset
when memory is half copied.
`PROJECT.json` lists each hazard at its line with the properties that cover it, and for each
definition the lines it stands for, a function's own comment included.

## Modules

### The link and the bench

* `UartCore`: the receive registers as a record, one operator per clock-edge
  event.  When a read and an arrival fall in the same cycle the read gets the
  old character, the new one stays in the data register, and RRDY ends clear.
* `LedLink` (extends `UartCore`): line, core, firmware and buses; who sends is
  left to the modules that extend it.  Time is discrete.  `elapsed` counts the
  ticks since the last read of RXDATA; a read may happen from `MinPeriod` on and
  no tick passes `Period`, so the delay loop takes anything between.  A
  character (87 us) takes less than a tick.
* `LightBank`: what the link promises: three registers behind a queue.
* `PacedLink` (extends `LedLink`): a host that leaves at least `Gap` ticks
  between two commands.  `latest`, `unread` and `fresh` are history variables.
* `ControlWindow` (extends `LedLink`): the window as a host that presses when it
  likes.  `Menu` is the table of the menus, `Choose` a menu callback, `Press` a
  button; the window sends the byte it has stored, as `handles.byte1` to
  `byte3`.  `lastSent`, `unread` and `fresh` are history variables.
* `LossyBank`: what an overrun link still promises: a bank whose
  queue may lose commands, and never the last.
* `ScanScripts`: the scripts as sequences of steps, in the source's order with
  the source's codes and pauses (in ticks of 0.1 s, rounded down).
* `ScanHost` (extends `LedLink`, `ScanScripts`): the MATLAB session.  One action
  per kind of step, `Fail` for a MATLAB error (it ends the script and leaves
  objects, port and LEDs as they are), the operator (start, Ctrl-C, control
  window), and the link underneath.
* `ReconstructionData`: the files.  A *job* is a script as far as
  `light_directions.txt` and `data/Objects` go: the rig it works for, when it
  writes the directions, how many times it writes its pictures and runs
  `demoPSBox`.  `Stop` ends a script between any two files.

### The board support package

* `UartDriver` (extends `UartCore`): the driver in both builds.  `small` polls the status
  register; the fast build has two rings and `altera_avalon_uart_irq`.  `pc` is where the one
  caller is, between any two accesses to shared memory or to a register; `isr` is where the
  handler is.  The caller does not move while the handler runs, the core does.  A character is
  its number, so that order, loss and repetition are questions about numbers: `arrived`,
  `accepted` (taken by `write`), `sent` (shifted out) and `delivered` (given by `read`).
  `sp->rx_start = (++sp->rx_start) & MSK` has no sequence point between its two stores: it is
  one store or two (`RdAdvance`, `RdMask`).
* `CharQueue`: what either direction promises.  `UartDriver` instantiates it twice, for
  `accepted`/`sent` and for `arrived`/`delivered`.
* `FileTable`: `alt_main` (drivers registered in any order, then `alt_io_redirect`), and every
  call on a descriptor.  A driver's own functions may succeed or fail.  `direct` is the build
  with `ALT_USE_DIRECT_DRIVERS`, where the calls go to the drivers of the standard streams.
  `held` is what the application opened and has not closed: it calls the HAL with one of those,
  with a standard descriptor, or with the result of a failed open.  `stat` on a name opens, asks and
  closes again (in the direct build `open` is a stub that fails); `Unsupported` stands for the calls
  that are stubs, `Kill` for signals to this process and to others, `Halt` for the end of the program.
* `Alarms`: the dispatcher, `alt_iic_isr_register`, `alt_irq_disable_all` and `_enable_all`, the
  list of alarms, `alt_tick`.  Two levels make library calls, the application and a callback
  inside `alt_tick`; each call is disable - body - enable, an insertion has two bodies (`body`,
  `link`), and the application may be inside a critical section of its own (`outer`).
  A callback makes one call at most (`called`): it stops any alarm, its own and the one `alt_tick`
  has saved included, or starts one other than its own, which it starts again by what it returns.
  `left` counts down the ticks of each alarm without wrapping and is read by no action.
* `Profiler`: `mcount` of the application one memory access at a time, with `mcount` of a handler
  as one step in between (interrupts are off in a handler).  `StartSampler` calls
  `alt_alarm_start`, which is instrumented itself: `stack` has two calls then.  A list that grows
  at its head is a sequence read from its end.
* `HalLibrary` (extends the four below): one action per routine, which calls it with any of the
  arguments of the constants; the properties compare the result with what the C standard or the
  routine's comment says.  `port` is the one state that stays between calls.
  - `FormattedOutput`: `alt_printf`, `alt_log_printf_proc` and the echo of `write`, as functions
    from a format and arguments to a text; numbers have `Nibbles` hexadecimal digits and wrap.
  - `TimeOfDay`: `alt_settod`, `alt_gettod` with the width of each product, and `alt_busy_sleep`
    in turns of its loop.  `PerUs` is the code's truncated quotient of `ALT_CPU_FREQ` and
    10^6 `cycles_per_loop`: 5 turns of 9 cycles for a microsecond of 50.  The loop's inline assembly counts down a register the compiler
    believes unchanged: whether it is loaded again is left open (`reloaded`).
  - `CacheFlush`: the addresses the four flushing loops visit, and the bit of an address that
    bypasses the data cache (`Bypass`).  `Uncache` is `alt_remap_uncached` and the two functions of
    `alt_uncached_malloc.c`, `FlashBlock` a block written to flash: each owes a flush.
  - `UartSettings`: TIOCMGET, TIOCMSET, and any other request.
* `MulDiv`: the emulated multiply and divide instructions, one turn of a loop a step, with
  the operations on registers as they are in the assembly, on words of `W` bits.
* `Exceptions` (extends `MulDiv`): the exception handler around it, in the order `linker.x` puts
  its sections: registers saved with the instruction's address, the test for interrupts, `ea`
  saved instead, emulation, trap handler, API, return.  The program is a loop of instructions of
  four kinds; `fates` is a history of what became of each, with whether an interrupt was
  `withdrawn` between its exception and the test.  Three constants choose the build.
* `Startup`: crt0 and `alt_load`, one word of memory a step, with `initi`, `initd` and the
  flushes, what the caches may do by themselves (`Fetch`, `WriteBack`), a program that writes its
  variables, and a reset after any step, which leaves memory and caches as they are.  The layout
  is a constant; `LayoutAssumption` says what `linker.x` makes of it: the section copied from is
  written by nobody, targets and bss do not overlap, code is neither in bss nor among the
  program's variables.  The CPU of this system has no caches and copies `.rwdata` only: the
  instance with one moved section, where every store is written back at once.

`PacedLinkProofs`, `ControlWindowProofs`, `ScanHostProofs`, `ReconstructionDataProofs`,
`UartDriverProofs`, `AlarmsProofs`, `LibraryProofs` (about `FileTable` and `HalLibrary`) and
`HalProofs` (about `MulDiv`, `Exceptions`, `Startup` and `Profiler`) hold the theorems; the `MC`
modules the values of the constants for TLC.  Definitions marked *Mutant* are used only to show
that a property can fail: each takes the place of the definition after it and makes one property
false.

### What is abstracted

* A code is a light: pictures are sets of the lights that show in them, a movie
  is the set of code vectors the LEDs showed while it was recorded.
* `FindFreqFromMovRaw` separates a movie when three lights blink steadily with
  three frequencies; otherwise the model allows any pictures.
* In `ScanHost` a reconstruction uses the three pictures of the scan, as if
  `data/Objects` held no others; what other pictures do is the question of
  `ReconstructionData`, which leaves out the bench and keeps the files.
* A picture is the rig that took it (its camera gives its size) and whether the
  running script has written it; the contents are left out.  `demoPSBox` gets
  through when there are directions, one for each picture, and the pictures have
  one size: one direction too few is an index error in
  `EvalNEstimateByIError.m:36`, one too many a size error in
  `PSEstimateLightStrengthCost.m:23`.
* Everything after the reconstruction up to the next command is one step;
  `"processing"` in `Faults` lets the computations fail.
* The one-character line is `None` or a byte: MATLAB's `fprintf` returns when the
  character is gone, and the line is shorter than any pause.
* The bits of a character on the line, the baud counter and breaks; a misframed character is one
  whose number is in `Misframed`.  A parity error takes the path of a framing error.
* Semaphores and event flags of the driver: empty macros in this BSP (`ALT_SINGLE_THREADED`).
* `O_APPEND` and the private pointer of a descriptor, which no code of this BSP reads.
* The hash buckets of the call graph (a function is looked up among those of its own bucket),
  the counts of the histogram, the stack check in `sbrk`.  Memory is counted in records.
* Of `termios`, `c_cflag` stands for everything but the two speeds.
* Decoding an instruction and saving registers, around the loops of `MulDiv` and in `Exceptions`.
* Addresses and cache lines in `Startup`: a cache holds words.  The stack: one that grows into
  the image is outside `LayoutAssumption`.

## Runs

| run | question | bounds |
|---|---|---|
| `paced_link` | does a host that waits longer than a loop get the light bank? | loop of 2 to 3 ticks, gap 4; six commands: two codes on one channel, off, a third channel, and a byte below 64 |
| `control_window` | what survives when nothing paces the presses? | loop of 1 to 2 ticks; two buttons, two menu entries each and the code the window opens with |
| `scan_clean` | are the pauses and the order of the calibrations and the static scan right? | loop of 6 to 7 ticks of 0.1 s, three runs of any of three scripts |
| `scan_faults` | does what a failed run or the control window left reach the next movie? | same loop, three runs, every fault, one byte from the window |
| `reconstruction_data` | do the files of two scripts ever meet in one reconstruction? | every script as shipped (8 sources in the simulations), any order, stopped anywhere |
| `uart_driver` | do characters come and go in order, once, with the handler anywhere in between, and does nothing get stuck? | rings of 3 slots, requests of 1 and 2 characters, four events (arrivals, written characters, falls of CTS), the second arrival misframed; both builds, with and without flow control |
| `uart_full` | violated: does the handler ever empty a full ring? | the same |
| `file_table` | does boot leave the streams where they belong, do descriptors leak or dangle, does nobody open a locked device? | five descriptors, two devices, two file systems one below the other, six names, both builds |
| `alarms` | do critical sections nest, is the list sound under every interrupt, does each callback come in its tick, does `alt_tick` end? | counter wraps at 3, two alarms, delays 0 and 1, periods 0 and 2, one call by each callback, timer and UART |
| `profiler` | what can handlers inside `mcount` break? | two functions called from three places, two calls of each side, slabs of 4 records, heap of 18 |
| `hal_library` | is each routine's result what its arguments ask for? | numbers of two hexadecimal digits; clock and loops in words of 64, second of 12 us, 4 ticks or 600 cycles, 9 cycles a turn (a microsecond is 5 5/9 turns); caches of 4 and 2 lines, addresses to 20; two speeds |
| `processor` | is each emulated instruction right, is each instruction done with once, does every start find what the first one did? | words of 4 bits, all operands, 6 instructions; a loop of two instructions of four kinds; memory of eight words with two sections to copy and one to leave |

**Why these bounds.**  The properties of the link are about two consecutive
commands and the read between them; with a loop of 2 to 3 ticks a read can fall
before, between and after them in every order, and six bytes give each pair of
channels and each pair of codes that the firmware tells apart.  In `scan_*` the loop has its
real length: five volatile instructions a turn and 10^6 turns at 50 MHz on a
Nios II/e take at least 0.6 s; the upper end is what the scripts need
(`demoStaticScan.m:68` pauses 0.8 s between two commands that must both arrive).
A longer loop makes `CarriedOutBeforeNext` false, so `Period = 7` is an assumption
on the hardware, and the model says which pause depends on it.  Three runs are
enough for calibrate - failed scan - scan, and for calibrate twice then scan.
In `control_window` the number of presses is not bounded: the state keeps only
the last character sent and where it is.  `reconstruction_data` has no bound on the
number of scripts run; the files have finitely many contents.

A ring of three slots holds two characters, so that four events fill it, wrap both indices and
leave one over.  Three are enough for `uart_full`: two arrivals fill the ring behind a `read` that
has found it empty and is about to turn the interrupt on, the third empties it.  Five descriptors
are two besides the standard streams: a lock and a rival, with the rival at, below and above the
high-water mark.  Two alarms are the fewest for which a callback can stop the one that `alt_tick`
has saved as the next (`Undercut`, which the run reaches), and with a wrap at 3 every delay crosses it sooner or later.  Two calls of each side are the fewest
with which both enter the same function and the same arc.  In `hal_library` the constants keep
the relations of the real ones (a tick is a whole number of microseconds, a long loop fits in an
`INT_MAX`, regions shorter and longer than a cache).  In `processor` an exception can meet an
interrupt before and behind the instruction it is about, which takes two instructions; the
memory has code that is copied and code that is not, and a word of each other kind.  Where a theorem is listed below, the
bounds are gone.

**Deadlock** is not checked where the system really stops: `file_table` (a program returns from
`main` and halts), `uart_*` (the bound on events is used up), `profiler` (the bound on calls, or
memory ran out).

**Fairness.**  Weak fairness on arrival, firmware and clock: the FPGA's clock
runs, `main` loops for ever, a character on the line arrives.  In `ScanHost` also
on the steps of the running script (MATLAB executes it); nothing is assumed of
the operator, the control window or the faults, nor of `HostSend`.
In `ControlWindow` the clock has strong fairness: a character on the line takes less
than a tick and so disables `Clock` again and again when the operator never stops
pressing, but time does not stop for that.
In `UartDriver` the core shifts and the handler runs (weak); the fast caller's steps have strong
fairness, because interrupts disable them again and again and return every time; nothing is
assumed of the line, of CTS or of who calls.  In `Alarms` the handler and the callback's own calls
are executed (weak); nothing is assumed of the application, the devices or the timer.
The other modules have safety only.

## Properties

Of the link: `SettledAfterPeriod` (one longest loop after a command all buses show
the last commands), `NoRevert` (re-applying a stale character never
undoes a newer command), `ImplementsBank`.

Of the window: `LastPressWins` (if the operator stops, the last command is shown),
`QuietShowsLast` (nothing on its way: the last command is what its bus shows, although
nothing in the firmware knows that it is the last), `ImplementsLossyBank` (commands
overtaken by later ones may be skipped, none comes back or out of order).

Of the bench: `ShotShowsCommands` (during a shot the LEDs show exactly what this
run asked for), `CarriedOutBeforeNext` (before a script sends a
command or triggers the camera, its last one is on its bus; a command that is only repeated is excepted),
`PairedWithLight` (picture *k* and direction *k* are of the same single light, across
runs that use different frequencies and different scripts), `PortGranted`,
`DarkWhenClosed`, `RunEnds`.

Of the files: `Sound` (a reconstruction that gets through uses the pictures of the
running script, all of them, no others, and the directions of their lights),
`SimulationLoads` (no leftover keeps a simulation from getting through).
`LIVI_from_mov.m` is left out of both: it brings no directions, and with its `N=3`
after a simulation with eight sources `demoPSBox` takes its three pictures, five of the
simulation and the simulation's eight directions without an error.

Of the driver: `ImplementsTxQueue` (without flow control every character written is sent, in
order, once; with it one may be overwritten in TXDATA), `ImplementsRxQueue` (`read` gives
characters in the order of their arrival, none twice), `Drains` (what was written is sent, in the
builds without flow control), `ReaderFetches` (a reader always gets the receive interrupt back).

Of the descriptors: `StdioReady` (after boot the three streams are on their devices, although
each redirection takes a temporary descriptor of a small pool), `LockKeepsOut`,
`FailureChangesNothing`, and in `IInv` that nothing leaks, dangles or inherits flags.

Of interrupts and alarms: `SoundList` (a handler never sees half an insertion), `OnTime` (each
callback in its own tick, also across the wrap; none left behind), `TickEnds` (`alt_tick` ends,
whatever its callbacks start and stop, unless one of them stops the alarm saved as the next), and in
`IInv` that critical sections nest and that no null handler is dispatched.

Of profiling: `CallsCounted` (every call of the application is counted; only a handler's may be
lost), `SamplerRuns`, and in `ProfilerInv` at most two copies of anything and no entry without an arc.

Of the library: `TextRight` (what is printed, and what `write` echoes, is what it was given),
`TimeKept`, `SleepWithinRounding` (the turns of the delay loop are at least those asked for by the
code's own turns per microsecond, so that a delay is short by no more than the rounding of that
quotient, less than one turn in each microsecond), `RegionFlushed`, `SettingsKept`.
Of the emulation: `Exact`.  Of the exception handler: `InstructionsOnce` (each instruction is done
with once, in its turn, and only one the CPU cannot carry out is passed over).  Of the start:
`StartsClean` (whatever a run or an interrupted start has left, `alt_main` finds data, bss and
image as they were downloaded, and from then on only instructions of the image are fetched).

## Proofs

The provers check every theorem below for all values of the constants that satisfy the named
assumptions of the module.

| module | theorem | statement |
|---|---|---|
| `PacedLinkProofs` | `TypeCorrect` | `Safety => []TypeOK` |
| | `Invariance`, `Settled`, `NeverOverrun`, `NeverReverts`, `Implementation` | `Paced` implies `IInv`, `SettledAfterPeriod`, `NoOverrun`, `NoRevert`, `Bank!Safety` |
| `ControlWindowProofs` | `TypeCorrect`, `Invariance`, `LastShows`, `Implementation` | `TypeOK`, `IInv`, `QuietShowsLast`, `Bank!LossySafety` |
| `ScanHostProofs` | `TypeCorrect`, `PortIsGranted` | `Spec => []TypeOK`, `Spec => []PortGranted` |
| | `Invariance`, `CommandsCarriedOut`, `DarkAfterClose` | `FastLoop` implies `IInv`, `CarriedOutBeforeNext`, `DarkWhenClosed` |
| | `ShotsShowCommands` | `FastLoop /\ Modulated` implies `ShotShowsCommands` |
| | `PicturesPaired` | `FastLoop /\ (Modulated \/ Undisturbed)` implies `PairedWithLight` |
| `ReconstructionDataProofs` | `TypeCorrect`, `Invariance` | `TypeOK`, `IInv` |
| | `OneRig` | `NoSmallRig` implies `Spec => []Sound` |
| | `SimulationsLoad` | `OneSize(n)` implies `Spec => []SimulationLoads` |
| `UartDriverProofs` | `DriverSound` | `Spec => []IInv` |
| | `TxRefinement`, `RxRefinement` | `Spec => TxQueue!Spec`, `Spec => RxQueue!Spec` |
| `LibraryProofs` | `PoolSound`, `StdioTheorem` | `Spec => []IInv`, `Spec => []StdioReady` |
| | `LockTheorem`, `FailureTheorem` | `Spec => LockKeepsOut`, `Spec => FailureChangesNothing` |
| | `TextTheorem`, `EchoTheorem` | `LibrarySpec => []TextRight`, `LibrarySpec => []EchoRight` |
| | `SleepTheorem`, `SettingsTheorem`, `ClockTheorem`, `FlushTheorem` | `LibrarySpec` implies `SleepWithinRounding`, `SettingsKept`, `TimeKept`, `RegionFlushed` |
| `AlarmsProofs` | `SoundTheorem`, `AlarmsInvariant`, `PunctualTheorem` | `[]SoundList`, `[]IInv`, `[]OnTime` |
| `HalProofs` | `ExactTheorem`, `EmulationTheorem` | `Spec => []Exact`, `ExceptionSpec => Spec` |
| | `OnceTheorem`, `StartTheorem` | `ExceptionSpec => []InstructionsOnce`, `StartupSpec => []StartsClean` |
| | `ProfilerInvariance`, `CallsTheorem`, `SamplerTheorem` | `ProfilerSpec` implies `ProfilerInv`, `CallsCounted`, `SamplerRuns` |

**Assumptions beyond the types of the constants.**  `Paced` is `Period < Gap`: the host waits
longer than the longest loop.  `FastLoop` is `Period < 8`: the loop is over before the 0.8 s of
`demoStaticScan.m:68`, the shortest pause that has to outlast it; with a longer loop
`CarriedOutBeforeNext` is false.  `Modulated`: the operator does not run `demoStaticScan`, which
does not switch off the channels it leaves alone: with it both theorems about pictures are false as
soon as a failed run or the control window has left a light on.  `Undisturbed`: nothing fails or is
stopped and nobody presses a button of the window; then pictures and directions are paired for the
static scan too.  `NoSmallRig`: no simulation that writes directions has three
lights.  It is needed: the directions of such a simulation are as many as a scan's pictures, and
a scan that is run without a new calibration would take them.  `OneSize(n)`: the simulations that
write directions all have `n` lights, `n` being 8 or 9; with fewer than the eight shipped pictures
the ones above `n` would stay.  `DelayAssumption` of `Alarms`: delays below `Wrap - 1` (a delay of
`Wrap - 1` gets no flag and fires at once).  `BudgetAssumption` of `UartDriver`: at
most 255 events, since a character is its number and the data register has eight bits.
`ProfilerAssumption`: `AlarmStart` is the call of no other place, its `from_pc` being inside
`nios2_pcsample_init`.  `TimeAssumption`: the width of a word holds two seconds of microseconds, and a microsecond has at least one turn of
the delay loop and at most `INT_MAX` (with none the code divides by zero).  `LibraryAssumption`:
the regions that are flushed lie below `Bypass`, since a pointer with that bit is no address of the
block.  `FormatAssumption`: the numbers printed are words, the texts sequences of
characters, and what stands between `%` and the letter of a directive is digits and `l`.  `LayoutAssumption` of
`Startup` is described above; `ProgramAssumption` of `Exceptions` gives the types of its constants.

**Why the inductive invariants.**  None of the properties is inductive.

* `PacedLink`: `IInv` adds where a command can be (`OnePlace`: on the
  line, unread in the register, or read and not yet driven, and in one of them
  only), how old it can be there (`Timing`: not older than the last read, hence
  never a gap old), that a character already seen is on its bus (`StaleIsShown`), and
  that the buses with the pending command applied are `latest` (`LatestIsAhead`).
  `NoRevert` and the refinement follow from it and one look at `Drive`.
* `ControlWindow`: a newer character can only be nearer to the line
  (`Newest`: the last one sent is the last in line, register, firmware), and one already
  read and driven is on its bus (`SeenShows`); losing the older of two in the register keeps
  both.  The refinement shows the register overwritten as one `Lose` of the bank's queue.
* `ScanHost`: `IInv` says what a position in a script means for the state, by questions that can
  be answered from the script alone: is there a pause longer than the loop since the last command
  (`Quiet`), did the script only repeat its last command since (`Carried`), was the port released
  and not opened again (`Released`).  `QuietInv` counts the ticks of the pause under way
  against where the character is (`SettlesAfter`); `AskedInv` relates what the script asked for to
  what the buses will show when the one character on its way has arrived (`OneOnItsWay`,
  `Pending`); from both, `CarriedInv` and `ShotInv`.  `PairedInv` follows the order from the
  movie to the pictures and the directions of a run, and from there to the next run.  For the static
  scan `CleanInv` says that no light is on, or asked for, which the running script has not asked for
  itself (true only when every script gets to its end), and `StaticInv` that each of its movies
  shows one light, the one its picture will be numbered by.
* `ReconstructionData`: `Progress` (pictures 1 to `written` are the running script's, and so
  are the directions once it has written them) and `Numbering` (a picture's number is at most
  the number of its rig's lights, since nothing renames a picture).  A simulation: its
  directions are as many as the pictures there, and its own pictures are as many, so
  there are no others.  A scan: pictures of one size are all of the bench, numbered at most
  three, so they are its own; the directions are three, and only the bench has three.
* `UartDriver`: `TxInv` says which character each slot of the transmit ring holds, counted from
  the read index, and where TXDATA stands in that count; `HandlerInv` says that what the
  handler or the polling caller read in the status register still holds when it acts on it (with
  flow control it does not for TRDY, which is why that queue is lossy).  The receive ring cannot
  be described by its length, since a full one may be emptied (`uart_full`): `RxInv` orders the
  slots by age instead and says that every slot not yet read is newer than what was delivered,
  also between the two stores of `rx_start`.
* `FileTable`: `LockedBelow` makes the off-by-one of `alt_fd_lock` harmless: the descriptor it
  misses is at the high-water mark, so of two locks the second still finds the first.
  `BootInv` carries through the boot that the pool is empty but for the standard streams.
* `Alarms`: the list is a ring (`RingOn`: closed both ways, and no smaller set of nodes with
  the head is closed under `next`, which states reachability without recursion), with an alarm
  whose second pair of links is missing taken out (`ListInv`); `CallInv` says what a saved context is.
  `TimeInv` relates `time`, the flag and the wrapped counter to the ticks left: the flag is set
  exactly while the counter has to wrap first, and in the tick of the wrap the alarms that
  `alt_tick` has not reached yet (`ToVisit`) are the only ones whose flag is stale.  It has two
  cases, since a callback may stop the alarm that is saved: `Punctual` as long as none has, and
  `LostInv` afterwards, when nothing can bring that alarm back into the list and `alt_tick` visits
  it for ever; even then it calls back only an alarm that is due.
* `Profiler`: `FrameInv` says that what a call found stays where it was found, whatever handlers
  add (`Grows`).  `Room` says what a lookup that found nothing leaves room for: while the call of
  the application holds "no entry", handlers can have added one entry at most, because the next
  handler finds it; that is `AtMostTwo`.  `CountInv` counts elements: the set `Counts` has one for
  each counted call, and the store about to come removes those that handlers added after the
  load (`Undone`).  `SamplerInv` says who holds the duty to start the sampler.
* `HalLibrary`: each call is one step, so the work is arithmetic on quotients: the turns of the
  sleeping loops, borrow and carry of the clock, lines and their addresses (and, for an uncached
  pointer, the quotient by `Bypass`, which is its one bit).
* `HalLibrary`, the printfs: a format is read a character at a time, so the proof of `TextTheorem`
  is about what the state is after each part of it.  `PlaceValues` relates the digits that are
  counted to the place value they are printed by, and `NumeralReads` says that the digits printed
  read back to the number: each is the remainder of a quotient, none is beyond the base, and the
  first is 0 for 0 alone.  Between two directives the state is `Ready`, whatever the first has set
  (`DirectivePrinted`), which is why two of them print what each prints on its own; with
  `DirectiveKeepsZero` it would not be.  `alt_printf` starts at the first digit that is not 0,
  which has the same place values (`Sixteens`).  The inductions over digits and over characters
  go through `Inductive`: a set of numbers that has 0, and with each number the next one, has all
  (a least number that is missing would have none before it).
* `MulDiv`: `DivideKeeps`, `LowKeeps` and `HighKeeps` are the loops' invariants: after so many
  turns the dividend's high digits are divisor times quotient plus remainder, and the two
  products are those of the multiplier's high and low digits.  `ExactThroughout` carries the result
  over to the emulation within the exception handler.
* `Exceptions`: `ExceptionInv` says at which section of the handler the saved address is that of
  the instruction and where it is the one behind, and who can have come there: a plain
  instruction only if its interrupt was withdrawn (`PassedOver`).  `EmulationTheorem` maps each
  step of the handler to a step of `MulDiv` or a stutter, so `Exact` holds inside the handler.
* `Startup`: `KeptIntact` is what makes a start repeatable: nothing ever writes the copies the
  sections are loaded from, and once the data cache is initialized no line of them is in it.
  `LoopsDone` says how far the loops are as the program sees memory (cache before memory), which
  write-backs do not change; `CodeThere` moves it to memory with the first flush and to the
  instruction cache with the second.

**Only model-checked.**  Liveness (`Drains`, `ReaderFetches`, `TickEnds`, `RunEnds`,
`LastPressWins`, the fairness halves of `ImplementsBank` and `ImplementsLossyBank`), which is
beyond the provers used; and `NothingDiscarded`, which is violated.

## Findings

`uart_full` shows one: `altera_avalon_uart_read` turns the receive interrupt on when it returns,
with no look at the ring (`altera_avalon_uart_read.c:235`).  If the handler has filled the ring
since `read` last looked at it, and so turned the interrupt off, the next character moves `rx_end`
onto `rx_start`: the full ring reads as empty, and all of it is gone.  The comment at
`altera_avalon_uart_init.c:186-189` says that the interrupt comes back "when data is removed from
the buffer".  The firmware of this commit is linked with the small driver and is not exposed.

Other things the code does, stated as definitions beside the modules' properties and not part of
any run; each is false of the model:

| definition | where | what happens |
|---|---|---|
| `EchoNamesBus` | `hello_world_small.c:103` | the answer to a command for bus 2 names bus 1 |
| `OneLightPerPicture` | `demoStaticScan.m` | a light left on by the control window is in all pictures of a static scan |
| `PortListKept` | `calibrateWithBall.m:7` | `clear` after the query: a second calibration loses its list of ports |
| `StaticCalibrationShoots` | `calibrateWithBallStatic.m` | a missing argument stops it before the camera |
| `ResultsSaved` | `DemoScan.m:155` | a stray `bn` stops the scan before it saves |
| `LedsTurnedOff` | scan scripts | LEDs stay lit when the processing fails |
| `CalibratedScanLoads` | `demoPSBox.m` | a scan does not load beside pictures 4 to 8 of a simulation |
| `MisframedDiscarded` | `altera_avalon_uart_init.c:159` | the handler leaves a bad character in RXDATA; the next interrupt delivers it |
| `NeverStranded` | `altera_avalon_uart_init.c:125` | with flow control, a change of CTS between reading and clearing the status is lost and the ring stays as it is |
| `TickAlwaysEnds` | `alt_tick.c:102`, `alt_alarm.h:72-75` | a callback stops the alarm that is saved as the next: linked to itself, it is followed for ever |
| `SleepsLongEnough` | `alt_busy_sleep.c:75` | the turns in a microsecond are rounded down: at 50 MHz with 9 cycles a turn `usleep` takes 45 of 50 cycles |
| `EchoesFirst` | `alt_log_printf.c:437-439` | the last of the first 15 characters gives way to the end of the line, and a single character is not echoed |
| `SamplerStartedOnce` | `alt_gmon.c:169` | a handler between test and clearing starts the sampler twice |

Found while translating, and left out of the properties by a condition or a constant:

* `alt_settod.c:84` multiplies in 32 bits what `alt_gettod.c:93` multiplies in 64: set after 71
  minutes at 100 Hz the clock is wrong by up to a second (`TimeKept` has the condition).
* `alt_fd_lock.c:61` does not look at the highest descriptor, contrary to `alt_fd_lock.c:38-47`:
  a lock is granted although that descriptor has the device open.
* `alt_alarm_start` with 2^32 - 1 ticks fires at once (`DelayAssumption`).
* `alt_dcache_flush_no_writeback` of a region that is not aligned discards dirty data behind it;
  `RegionFlushed` allows the next line.
* `altera_avalon_uart.h:240` passes `(PARITY == 'N')` where `ALTERA_AVALON_UART_TERMIOS` expects
  the opposite: PARENB is set when there is no parity.
* TIOCMSET with speed 0 divides by zero (`Speeds` starts at 1).
* `alt_gmon.c` does not test `sbrk` for -1: when memory runs out `mcount` writes at the end of the
  address space (`wild` in `Profiler`, after which nothing is promised).
* An interrupt that is withdrawn after it was taken makes the handler look at an instruction with
  nothing wrong; without the cause register a handler of the API cannot tell, and one that
  answers "skip" loses it (`withdrawn` in `InstructionsOnce`).
* `alt_exception_entry.S:224` says "Return code was 0: Skip"; the branch below it and
  `alt_exceptions.h:91` have 0 for "re-issue".
* A polled write of no characters in blocking mode never returns (`CallWrite` has the guard).
* `FindGoodLightFrequencies.m:18` computes `rem(f,FPS/2)`, which is not the aliased frequency.

## Not modelled

* DMA of the HAL and the list of flash devices: lookups of devices this system has none of.  The
  logging of a JTAG UART and of the clock: no such device here.  Wrappers that only call
  a routine that is modelled, and headers of macros.
* Breaks, parity and the bit level of the UART core.
* `alt_irq_interruptible`: nested handlers, called by nothing.
* The numeric code (FFT, filters, photometric stereo, evaluation), the generated Quartus output,
  third-party toolboxes, and the Mitsuba renderer.
* `calibrateWithBall5.m` calls functions that are not in the repository.

More than half of the C lines are licence headers, macros, declarations and those drivers; the
models stand for what is left of the code that keeps state.

## Plan

1. `Spectrum`: peak picking and order of `FindFreqFromMovRaw` on the bins of the
   spectrum, aliasing of the codes above half the frame rate (menu entries from code 36
   on), and what `FindGoodLightFrequencies` computes instead.
2. `nframesloop.m` and `loop.m` in `ReconstructionData`; boundary cases of the evaluation
   (`calcMedian.m`, `calcSum.m`).
