# Models and proofs of the Nios V board support package

This directory holds TLA+ models, model-checking runs and machine-checked
proofs of the software and logic in this repository: seven small Nios V/g
projects for the DE2-115 board (`1_hello_world` ... `7_niosv_piece_control`),
each with the same hardware abstraction layer (HAL) and JTAG UART driver in
`software/hal_bsp`.  The copies of `HAL/` and `drivers/` are identical, so
every definition is mapped to the copy in
`src/7_niosv_piece_control/software/hal_bsp`, written `BSP/` below.

## 1. Inventory

The build these models follow: one processor, no operating system
(`alt_sem.h` and `alt_flag.h` expand to nothing), no nested interrupts, the
interrupt-driven JTAG UART driver (`ALTERA_AVALON_JTAG_UART_SMALL` is not
defined), stdin/stdout/stderr on the JTAG UART, 1000 system-clock ticks a
second from the RISC-V machine timer, `rv32im` code (a 64-bit variable is two
words).

| Part | State | Operations | Interacts with | Hard behaviour | Correct means |
|---|---|---|---|---|---|
| JTAG UART driver, `BSP/drivers/src/altera_avalon_jtag_uart_*.c` | two rings, `irq_enable`, `host_inactive`, `timeout` | read, write, close, ioctl, interrupt handler, timeout callback | device registers, alarms, descriptor layer | handler runs between any two accesses of the thread; the device between any two of the handler | characters kept once and in order; no interrupt left off with work to do; blocked calls return |
| Descriptor layer, `BSP/HAL/src/alt_{open,close,fd_lock,fd_unlock,get_fd,release_fd,read,write,ioctl,fcntl,io_redirect,dev}.c` | `alt_fd_list`, `alt_max_fd` | open, close, ioctl lock/unlock, fcntl, redirection | device list, drivers | long legal call sequences; exclusive locks over a table | one owner under a lock; a descriptor names the device it was opened on |
| Alarms and ticks, `BSP/HAL/src/alt_tick.c`, `alt_alarm_start.c`, `inc/sys/alt_llist.h` | `alt_alarm_list`, `_alt_nticks`, `_alt_tick_rate` | start, stop, tick | timer, drivers' callbacks | callbacks that start and stop alarms while the list is walked | every due alarm fires, once per period; the walk ends |
| Machine timer, `BSP/HAL/src/mtimer.c` | `mtime`, `mtimecmp` (two words each) | get, set, interrupt, init | alarms | the counter rolls over between the words; latency moves the next deadline | no stray interrupt, no torn reading |
| Boot, `BSP/HAL/src/alt_main.c`, `BSP/alt_sys_init.c` | what has been initialised | `alt_irq_init`, `alt_sys_init`, `alt_io_redirect` | all of the above | initialisers that need one another | each part is initialised before it is used |
| Trap and interrupt dispatch, `BSP/HAL/src/alt_irq_handler.c`, `alt_iic_isr_register.c`, `intel_niosv_irq.c` | handler table, `mie`, `mstatus` | register, enable, disable, dispatch | every handler | a pending bit that goes away before it is read | each pending interrupt is served, highest priority first |
| Heap and profiler, `BSP/HAL/src/alt_sbrk.c`, `alt_gmon.c`, `alt_mcount.S` | `heap_end`; slabs; the call graph; `pcsample_need_init` | sbrk, mcount, `__mcount_record`, start of the sampler | newlib, alarms, every instrumented function, handlers included | interrupts on during searches, off during insertions; two users of one heap | blocks never overlap or leave the heap; no search goes astray; counts add up |
| Device feature list, `BSP/HAL/src/intel_fpga_api_*.c` | table of interfaces, stack of parents, allocated blocks | scan, clean-up, open, close | the feature ROM, malloc | recursion in two passes with state kept between scans | every feature once and in order, nothing leaked or overrun |
| Time of day, `alt_gettod.c`, `alt_settod.c`, `alt_times.c`, `alt_busy_sleep.c`, `alt_usleep.c` | `alt_resettime`, `alt_timezone` | gettimeofday, settimeofday, times, usleep | ticks, timer | 64-bit counter read in two words; 32-bit products | time does not go backwards; a sleep lasts as long as asked |
| Name lookup, `alt_find_dev.c`, `alt_find_file.c`, `alt_fs_reg.c`, `alt_dev_llist_insert.c` | device and file-system lists | find, register | open | prefix matching | the right device is found |
| Applications, `*/software/hal_app/src/main.c` | PIO outputs | LED blink, UART echo, piece control | ticks, UART, VGA logic | modular tick difference; two outputs written one after the other while the screen is scanned | the light blinks on time; every position asked for is shown |
| VGA logic, `*/vga_timing.v`, `*/checkerboard_renderer.v`, `4_vga_test/vga_test.v` | pixel divider, counters | clock edge, reset by KEY[0] | PIO outputs | counter limits, truncated coordinates, reset in mid-frame | one whole picture in every frame of fixed length |
| Other HAL code (`alt_printf.c`, `alt_log_printf.c`, cache and assembly files, stubs for POSIX calls) | | | | | not modelled, see section 7 |

## 2. Plan

Done, most important behaviour first: `JtagUart` with its abstract
specification `ByteChannel`; `FdTable`, and `FileCalls` on top of it (names,
registration, the mode test of `read()` and `write()`); `Alarm`; `MTimer`, and
`SystemTime` on top of it (timestamps, sleeps, time of day, the blinker);
`Interrupts` (start-up and dispatch); `PieceDisplay` (application, ports and
VGA logic); `DflScan`; `Profiler` (heap, slabs, call graph); `JtagUartProofs`,
`FdTableProofs`, `PieceDisplayProofs`, `DflScanProofs`, `InterruptsProofs`,
`SystemTimeProofs`, `AlarmProofs` and `ProfilerProofs`.

Next:

1. Compositions: the driver under `FileCalls`; the alarm list under the timer
   with the driver's and the profiler's callbacks on it.
2. The profiler's histogram and the return of memory to the heap.

The runs are kept few: `FileCalls` and `SystemTime` took over the properties of
the modules they extend.

## 3. What each module models

Operators named `X_Wrong...` are slips one could make in `X`; a property that
would not notice any of them would be idle.  They are never part of a
specification.

### JtagUart, ByteChannel

Variables carry the names of `altera_avalon_jtag_uart_state`.  The thread's
program counter `pc` walks through `write()` (`WriteLoad` reads both indices
and computes the free run, `WriteCopy` is the memcpy, `WritePublish` the store
of `tx_in`, `WriteKick` the update of `irq_enable` with interrupts off,
`WriteSpin`/`WriteCheck` the wait for the ring or the timeout), `read()` in the
same way, and `close()`.  The handler's `isr` walks through one round of its
loop: CONTROL, the receive loop a character a step, RE off, the transmit loop,
WE off.  It runs between any two steps of the thread; the device's FIFOs and
the host (external) act between any two steps of anything.  `Timeout` is the
alarm callback.  A character is its position in its stream, so loss,
repetition and reordering all show.

`ByteChannel` is what either direction promises: a bounded queue into which
runs of consecutive characters go and out of which they come in order.
`TxIsChannel` maps the transmit ring together with the write FIFO to its queue;
`RxStream` says the same of the receive direction and of the bytes a `read()`
has copied but not yet released.

Left out: the semaphores and event flags (empty macros without an operating
system), and the
IGNORE_FIFO_FULL_ERROR variant, which is not compiled.

### FdTable, FileCalls, MCFileCalls

`dev`, `flags` and `maxFd` are the fields of `alt_fd_list` and `alt_max_fd`.
One thread calls the functions and no handler touches the table, so each call
is a step: `Opened` and `OpenFailed` (slot found, `alt_file_locked()`,
the file system's own open, the slot given back), `Close`, `Lock`, `Unlock`
(ioctl TIOCEXCL, TIOCNXCL), `SetFl` (fcntl F_SETFL), `Redirect` (one standard
stream of `alt_io_redirect()`).  `held` and `locks` are the application's view.

`FileCalls` adds how a name becomes a device.  `Register` is `alt_fs_reg()`,
which puts the newest file system at the head of its list; `Found` is
`alt_find_dev()` and then `alt_find_file()`, character by character, with the
two ways a mount point may end; `RedirectFound`, `RedirectUnknown` and `Open`
are the callers.  Names are sequences of characters with a Nul behind them,
spelled from the components that give them their meaning, so that the
property can speak of components and the search of characters.  `Readable` and
`Writable` are the tests with which `read()` and `write()` begin.  `Open` by
the application happens on the names of `Paths`; lock, close and fcntl are
those of `FdTable`.

### Alarm

`next` and `previous` are the links of every `alt_llist` entry, the list head
included; insertion and removal do the stores of `alt_llist.h` in their order.
`Tick`, `WalkPast`, `WalkCall`, `ReturnZero`, `ReturnPeriod`, `WalkEnd` are
`alt_tick()` with its local `next` (`following`) read before the callback.
Callbacks start and stop alarms, their own included; threads do so between
walks, since both ends disable interrupts.  Starting an alarm that is on the
list, and stopping one that never was, are misuse the code does not check and
the model's callers do not commit.  Due times and
ticks are 64 bits wide in the code and do not overflow within any run.

### MTimer, SystemTime, MCSystemTime

`mtime` runs on between any two accesses; `cmpHigh` and `cmpLow` are written
one after the other as in `alt_niosv_mtimecmp_set()`, `high` and `low` are the
words read so far by `alt_niosv_mtime_get()` in the program and in the handler.
A word has `Base` values.  `start`, `due` and `since` record the past for the
properties.

`SystemTime` gives the main program something to do with the time while the
handler goes on interrupting it: `alt_timestamp_start()`, `alt_timestamp()` and
`alt_busy_sleep()`, which share one offset; `settimeofday()` and
`gettimeofday()`, each with the two loads of `alt_nticks()` in either order; and,
as a program of its own, the blinker of project 2 with its 32-bit difference.
`told` remembers what was set and between which ticks.  Times of day are read
from the tick count the same handler advances, so every property of it is one of
the composition.

### Interrupts

`step` is the main program's place in `alt_irq_init()`, the driver's
initialisation, `alt_sysclk_init()`, the timer's registration and then an
application that registers and removes handlers; `level` is the place in
`handle_trap()` and `alt_irq_handler()`.  Every step of
`alt_iic_isr_register()` is an action, and lines rise at any time.  Lines are
levels that only their handler brings down.

### PieceDisplay, MCPieceDisplay

`h_count`, `v_count` and the wires of the two Verilog modules keep their names;
each wire is an operator over a pixel.  `Clock` is one pixel, `WriteRow`,
`WriteCol` and `Wake` are the program, `Press` and `Release` the key, which in
`niosv_top.bdf` resets the VGA timing only.  `drawn` collects the pixels painted
as piece in the frame under way.  Projects 4 to 6 hold earlier stages of the
same logic.

### DflScan

The ROM is a finite forest: headers, their blocks, which of them branch, and
how lists of blocks end.  `Scan` begins `common_dfl_scan_multi_interfaces()`;
`EnterCount`, `EnterCollect`, `PlainBlock`, `Branch`, `NoMoreBlocks`,
`NextHeader` and `EndOfList` are the walk, `frames` its C calls in progress, and
`Turn` leads from the counting pass to the collecting one.  `head` and `top` are
the program's own stack of parents, which is not emptied between passes or
scans.  `table` is `g_common_fpga_interface_info_vec` and `heap` the blocks it
owns; `OutOfMemory` is a malloc that fails while the stack grows, where the
code exits.  Between scans the table's users open and close interfaces and clean up.

### Profiler, MCProfiler

The main program and an interrupt handler both run instrumented functions; the
handler comes between any two accesses while interrupts are on.  `FindFunction`,
`FindArc`, `LoadCount`, `StoreCount` are `mcount()`; `TestInit` to
`StartSampling` the start of the sampler; `Mask` to `Unmask` the insertion with
interrupts off; `Allocate` the slabs over `sbrk()`, whose other user is the
program (`Grow`).  Lists grow at the head, so a search sees the list as it was
when it read the head and is one step.  `calls` and `spoilt` count what really
happened, for `CountsAddUp`.

## 4. Runs

| Run | Bounds | Shows |
|---|---|---|
| `jtag_tx` | ring 3, FIFO 2, 5 characters, calls of up to 2 | kick, close, refinement of the channel, characters arrive, calls return |
| `jtag_both` | ring 3, FIFO 2, 4 characters in, 1 out, no system clock | receive stream, re-arm, the two bits of `irq_enable`, the handler's loops end, readers wake |
| `fd_pool` | 5 descriptors, 2 character devices, 2 nested file systems, 8 names | intruders beside a lock, leaks, forged flags, lookup, standard streams |
| `alarm_walk` | 3 alarms, 3 ticks, 2 operations a callback, none of them a stop of the next alarm | list shape, due times, the walk ends |
| `system_time` | word of 4 values, period 2, 9 cycles, 2 calls | torn reads, stray interrupts, lost and extra ticks, time of day, sleeps, the blinker |
| `irq_dispatch` | 2 platform lines and the timer | null handlers, endless search, starvation |
| `piece_walk` | screen 11 by 10, board of 2 by 2 squares, 2 positions | clean frames, every position shown |
| `dfl_scan` | 4 headers, 2 blocks each, stack increment 4, 1 open interface | order and completeness, memory, the stack of parents, the walk ends |
| `profiler` | 3 calls a context, 1 function with 2 callers, slabs of 2 records, a heap of 40 bytes | searches, allocation, counts, copies, the sampler |
| `fd_lock`, `alarm_stop`, `dfl_parent` | as above | what the code says and does not do, section 6 |

Every property has a slip `X_Wrong...` in the operator `PROJECT.json` names
that makes its run fail.

Why these bounds suffice.  A ring of three slots has every case of the index
arithmetic (empty, full, wrapped, free run up to the end or up to `tx_out - 1`)
and the streams are longer than ring and FIFO together, so that a writer blocks.  Two descriptors
above the standard streams and the streams themselves allow a lock's owner and
an intruder above it; the names include one that is a device, one inside both
mount points, one inside the outer only and one that merely begins like it.  Three alarms give a callback with a neighbour on either
side.  A word of four values carries within the run, a period shorter than a
word puts deadlines on both sides of a carry, and a second of two ticks carries
within the run as well.  A list of four headers can be nested four deep, the
depth at which the stack of the run overruns, or branch twice at one header with
lists below, the shape of `dfl_parent`.  Three calls a context give a function
with two copies and an arc with three, the most there can be, and two slabs.  On the small screen the aliases
of a square appear both left of the board and right of it inside the visible
part, and a sleep is two frames long, the least the assumption admits.
`IntMax`, `MaxTime`, `MaxTicks`, `MaxOps`, `MaxTx`, `MaxRx`, `MaxCall`, `MaxCalls`,
`MaxGrowths` and `MaxOpen` are the only bounds in guards.  Deadlock checking is off
where these let a run stop (`system_time`, `profiler`) and where the program exits
(`dfl_scan`, `dfl_parent`).

`jtag_both` runs without the host alarm, as these projects come up (section 6);
`jtag_tx` has it, as the driver is written for.

Fairness.  `JtagUart`: a pending interrupt is taken and its handler runs on
(the processor), the thread runs when no handler does, the alarm keeps firing,
and the host takes characters if it is attached again and again (strong,
because it may come and go); nobody is forced to make calls or to send.
`Alarm`: the walk goes on once entered, and a callback returns.  `Interrupts`:
the main program and the handlers run on; a platform trap that is possible
again and again is taken, because each timer tick sets the next one a period
off, so the timer alone cannot hold the processor.  `DflScan`: nothing
preempts the scan, so it goes on.  The other modules state safety only and assume
no fairness.

## 5. Proofs

All constants are arbitrary under the modules' named assumptions.

`JtagUartProofs`: `TypeCorrect`, `KickNeverLost` (`TxKick`), `RearmNeverLost`
(`RxArmed`).  Type correctness needs `ChunkOK`: what `write()` and `read()`
have computed between their loads and their stores still fits the ring, although
the handler has moved the other index.  For the two interrupt properties
`ArmInv` adds why the handler may turn a bit off: it has seen RAVAIL with a full
ring, or space left with an empty one, and the thread cannot have moved in
between.

The streams are proved there too: `ReceivedInOrder` (`RxStream`), `TransmitsInOrder`
(`TxIsChannel`, the refinement of `ByteChannel`), `CloseLeavesNothing`
(`CloseDrains`).  A stream is a `Run` of consecutive characters; `RunJoin`,
`RunTail`, `Extend` and `Shrink` say how runs are joined, cut and moved through a
ring whose indices wrap.  `TxChunk` and `RxChunk` are what makes the order
inductive: the stretch `write()` fills and `read()` copies was free, or full, when
the indices were loaded and still is, since the handler only adds to it.
`StepRefines` takes each action to a put, a take or a stutter of the channel.
`CloseDrains` rests on `host_inactive` saturating where no timeout can reach it.

`FdTableProofs`: `TypeCorrect`, `AtMostOneIntruder`, `SingleOwner`,
`NothingLeaks` (`PoolIsHeld`), `LocksAreGranted` (`LockIsGranted`), under `FdTable`'s
specification and under `FileCalls`', which both implement `PoolSpec`; of
`FileCalls`, `NamesFindOwner` (`NamesReachOwner`) and `StreamsReachDevices`
(`StreamsWork`).  The lock's search stops short of `alt_max_fd`, so exclusiveness is
not inductive; what is, is that beside a locked descriptor at most one other
refers to the device, and it is a higher one.  With it come `InPool` (no
descriptor in use above `alt_max_fd`), `StdTaken`, `Marked` and `ExclMarked`.
`Ledger` adds the application's side: what it holds and has locked is what the
pool says, and before `main()` it holds nothing, since every slot a redirection
takes is given back whether `open()` succeeds or not.  `Streams` says that a stream is on
the null device until its turn and as `StreamOK` has it ever after, and that
nothing is locked before `main()`, so that no lock can refuse a redirection.

For the names, `Layout` says where each component stands in the string;
`SpelledLayout` that the spelling is such a layout; `SameIsPrefix` and
`PrefixIsSame` that two strings agree up to a slash or a Nul exactly when the one
path is a prefix of the other; `StopAtEnd` that the comparison stops at the end of
the mount point in both of its forms.  `NamesAssumption` states what this needs: no
component contains a slash or a Nul, and no component of a mount point is empty
(those of a program's name may be, as in a name with a final slash).
`LeastNat` takes the place of induction over components.

The proofs about recursive definitions (`DflScanProofs`, `ProfilerProofs`) begin with
lemmas about sets and functions, since no induction principle with an operator
parameter can be instantiated.  `LeastNat` and `LeastRank`: a statement that fails
somewhere fails at a place of least rank.  `Fixpoint`: an equation that gives each value of a function
from values of smaller rank (`Graded`) has a solution, so that the `CHOOSE` behind a
recursive function picks one and its equation may be used.

`DflScanProofs`: `ParentStackFits` (`StackFits`), `NothingLeaks` (`BlocksOwned`), and
over the two passes `StoresFit`, `EveryHeaderOnce` and `InListOrder`.  `Balanced` says
that between the calls of the walk the stack holds exactly one entry for each
level under way, and none between passes, so it is too small only if the list is
nested as deep as the increment; that needs every push to pair with the pop at
the end of its list, across branches and passes and after a failed or repeated
scan.  `Under` is what can be reached from a header, stated as the least closed
set, and `ToEnter` what the walk at hand and its waiting callers have left; `Apart`
says that these share nothing, since every header is reached one way (`Tree`).
`Agree` counts: entered and left together are all there are, in either pass, so
the second one fills exactly the table the first one sized, and `TableOK` ties
what is allocated to that table.  `Collected` adds what has been stored, `Nested`
and `InOrder` where: of two headers the one that `Precedes` the other is entered
first, and nothing left precedes what is stored: a header `Precedes` what hangs off
it, and an earlier branch a later one and the next header.  `LeastNode` and
`OrderTotal` take the place of induction over the list: a least counterexample would
have a smaller one.

`TableIsPreorder` (`ScanIsPreorder`) goes on to the recursive `Preorder` itself.
`Written` is the sequence that comes of a header past some of its blocks, defined
for each such place from later ones; `Rank` counts down along them, so `Fixpoint`
applies.  The same rank carries the induction that `Written` lists what lies under
the place, each header once and in the order of `Precedes` (`WrittenOrdered`).  Two
sequences of the same headers in the same order are one, so the table is `Preorder`.

`FirstBranchParents` (`FirstBranchHasParent`): `HeadsIs` solves the recursion that
leads back to the head of a list, `BranchHeads` and `OneBrancher` say that each list
but the first hangs on one block of one header.  `Lists` ties the list at hand, and
that of each waiting caller, to the block it hangs on, and `Pushed` the stack of
parents to those callers: where no earlier block of the caller branches, what was
pushed is the caller's own place in the table.

`ScanShrinks`: every step of a scan under way lowers the passes left, or else the
headers, the callers or the blocks left (`Less`), all of them numbers (`Counted`).
This is what the recursion owes to the shape of the list; that a scan which goes on
so ends (`ScanEnds`) needs fairness besides and is only model-checked.

`PieceDisplayProofs`: `TypeCorrect`, `CleanFramesAreWhole` (`CleanFrame`) for
every geometry, 640 by 480 included.  The invariant says that with the ports
left alone, `drawn` is the part of the disk the beam has passed.
`PaintedIsDisk` is the heart: the renderer's truncated subtractions, quotients
and remainders pick out a disk in one square; it rests on quotient and
remainder being unique and on `board_area` excluding the aliases.
`PositionsAreShown` (`EachShown`) counts pixels: `Beam` is the beam's place in its
frame, and `SleepInv` says that until a clean frame has ended the sleep is no longer
than the torn frame and the clean one so far; the assumption that a sleep is at
least two frames (a second is some sixty) then leaves no sleep without one.

`InterruptsProofs`: `TypeCorrect`, `HandlersInPlace` (`NoNullHandler`),
`SearchFinds` (`SearchEnds`), for any set of platform interrupts and whatever a
reset leaves in `mie` and on the lines.  `Covered` says that an enabled line has
its handler at every step where a trap can be taken, the one exception being the
line whose handler is being removed, with interrupts off; `Seen` that what a
trap has found pending stays so until it is served.

`SystemTimeProofs`, over `SystemTime` and so over `MTimer` with everything
programs do meanwhile: `NeverStray` (`NoStray`), `AlwaysArmed` (`NeverSilent`),
`TicksFit` (`NotFast`), `ReadsInWindow` (`GetInWindow`), `SleepsLast`
(`SleepLasts`), `BlinksOnTime` (`BlinkOnTime`), for words, periods and rates of
any size, and `TellsTime` (`TimeOfDayRight`), for any rate whose ticks are whole
microseconds.  `Readings` says that the low word read is that of some moment since the
call, and the high word at most that moment's; so when the high word still
agrees, both are that moment's.  `Armed` says that `mtimecmp` is whole or out of
reach, and `Counting` where the counted periods end in each phase of the
handler.  `Harmless` collects what any step of the program leaves alone.
`LowDistance` is the arithmetic of the blinker: the difference of two low words
is the true distance, short of a wrap, and never more.  For the time of day,
`TicksRead` says that each word of the tick count read is that of some moment since
the call, in either order of the loads; with no carry of the low word between, the
count is that of one moment (`WholeTicks`).  `ClockSet` keeps the reset time equal
to the time last set less the ticks of a moment of that call; `TickTime` is the
arithmetic of seconds and microseconds, `NormalValue` that the loops which bring
microseconds into a second change no time from zero on.  The bound on `mtime`
enters through `SizesAssumption`: it is what puts a masked deadline out of reach.

`AlarmProofs`: `ListStaysWhole` (`ListOK`), `NoAlarmMissed` (`NonePassed`),
`CalledOnTime` (`OnTime`), `OnlyNextIsUnsafe` (`StopIsFinal` where no callback stops
the next alarm), for any set of alarms, delays and periods.  `ListOK` says what
the list holds without recursion: the least set that contains the head and the
successor of each member.  `TwoWay` and `OffList` give the links of each entry,
but a ring of the registered alarms could still be two rings: `OneLap` excludes
that, no set of alarms is closed without the head.  `Place` and `Ahead` are the
walk: where its two pointers may be while a callback changes the list around
them, and that every alarm that is due is still in front of them.

`ProfilerProofs`: `SearchNeverEmpty` (`SearchSafe`), `SamplerStartsOnce`
(`SamplerSettles`), `CopiesAreFew` (`FewCopies`), `CountsAreCalls` (`CountsAddUp`),
`HeapHoldsApart` (`BlocksApart`).
`ModeInv` is the masking: a handler runs only where the program adds nothing.
`SearchInv` says that only the step from entry to arc may have an entry without
arcs.  For the copies, `EntryInv` and `ArcInv` count records together with the
contexts about to add one, so that a search in vain costs what an addition
returns; a handler searches later than the program it interrupts, so its own
search in vain tells that there was nothing, and `OlderInv` that the older of two
entries is not found again and has each arc once.  `QuietStep` sorts out the steps
that change none of this.  For the counts, `SumTake` is the lemma that a sum over a
set does not depend on the order in which it takes its elements away, again by a
least set that fails, and `SumAdd` and `SumChange` are what a new arc and a stored
count make of it.  `CountsAddUp` says nothing while the program is between its load
and its store; `Balance` does, with what the stale count is about to lose
(`Missing`): each handler that counts in vain adds one to it, and the store turns
what is missing into the loss already booked.  `PairInv` ties the indices a context
has found to the call it is in.  For the heap, `BlocksInv` and `SlabInv` add the part of
the slab not yet cut to the blocks.  The assumptions are that records are made of
words and that the linker script ends the heap on one (`SizesAssumption`).

Model-checked only: liveness (`TxDelivered`, `CallsReturn`, `IrqReturns`,
`ReaderWakes`, `WalkEnds`, `UartServed`, `ScanEnds`), which is beyond the prover's
reach.  Every other property of the passing runs is proved.

## 6. Where code and comments part

- `fd_lock`: `alt_fd_lock()` never looks at the highest descriptor, so TIOCEXCL
  is granted on a device that is open twice (`alt_fd_lock.c:61`).
- `alarm_stop`: a callback that stops the alarm following its own does not stop
  it from being called in the same walk (`alt_tick.c:102`).
- `dfl_parent`: the lists on a second branch of an interface are given the
  interface collected last as their parent (`intel_fpga_api_cmn_dfl.c:439`).

Observations the models contain without a run of their own:

- A blocking `write()` fails with -EIO, commented "Host not connected", after a
  single silent second although the ring has just been drained
  (`altera_avalon_jtag_uart_write.c:183`).
- The UART driver is initialised before the system clock runs, so its host alarm
  is refused and no host timeout exists in these projects (`alt_sys_init.c:94`).
- `alt_nticks()` reads 64 bits in two loads and is off by 2^32 if the low word
  wraps between them; the next tick is counted from the time the handler reads, so
  its latency accumulates (`NotFast`: the clock errs on the slow side only).
- `gettimeofday()` multiplies ticks by `ALT_US / tick_rate`, rounded down: with a
  rate that does not divide a million it would jump back at each second
  (`alt_gettod.c:93`).  `SystemTime` assumes a rate that does, as 1000 is.
- `alt_busy_sleep()` restarts the timestamp counter under any program that is
  measuring with it, and its product wraps after 85 seconds at 50 MHz
  (`alt_busy_sleep.c:99`).
- The stack of parents starts one slot late (`top` is 0, not -1) and overruns at
  eight levels of nesting (`intel_fpga_api_cmn_dfl.c:150`).
- `fpga_interrupt_open()` hands out an index of the table as the handle of an
  interrupt (`intel_fpga_api_cmn_inf.c:67`).
- A handler that comes between the test and the clearing of
  `pcsample_need_init` starts the sampling alarm a second time, which cuts the
  alarm list (`alt_gmon.c:165`); `SamplerSettles` allows for it.
- The comment at `alt_gmon.c:176` expects two copies of an arc at most, each with a
  count of 1; there can be three, and those found again are counted on.
- `mcount_allocate()` and the histogram use what `sbrk()` returns without looking
  for -1 (`alt_gmon.c:137`, `:229`); `sbrk()` checks only the upper end of the heap.
- A standard stream that could not be redirected has no mode, which `write()`
  takes for O_RDONLY and refuses, though the null device it sits on would accept
  anything (`alt_dev.c:84`).
- A file system mounted below another is hidden when the outer one is registered
  later (`alt_find_file.c:64`); `NamesReachOwner` says which one is found.

## 7. Not modelled, and why

- Instruction order as the compiler chooses it: the models take the C source's
  order, though the CSR macros have no memory clobber.
- `sbrk()` with a negative increment, the stack check (off in these projects) and
  the histogram the profiler's alarm callback fills: counters no property
  here depends on.
- The transfer of `read()` and `write()` from the descriptor to the driver: a call
  through a table; what precedes it is in `FileCalls`, what follows in `JtagUart`.
- The green light of the blinker, which works like the red one, and the programs
  of projects 1, 3 and 4, which print, echo and step through colours.
- Time zones, and `times()`, which returns the tick count.
- Instruction exceptions, the software interrupt and the CLIC modes, which these
  projects do not use.
- The polling UART driver: not compiled here.
- `alt_printf.c`, `alt_log_printf.c`, printing the table of interfaces, cache and
  start-up assembly files, POSIX stubs: formatting and constants, with no state
  that interacts.
- The sync pulses, the pixel clock divider and the colours other than the
  piece's: functions of the counters that no property here tells apart.
- Generated hardware, netlists and project files.
