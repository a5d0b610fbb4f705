# A verification project for the cs1217 kernels

The repository holds the kernels of an operating-systems course: `lab2` (xv6 on
several x86 processors, with a multi-level feedback queue and a lottery
scheduler added), `assignment3` (the same xv6 with a few system calls added),
`lab3` and `lab1/jos` (JOS, with its page allocator and kernel monitor), and a
vendored QEMU. This project models the parts whose correctness depends on the
order in which processors, processes and interrupts take their steps.

## The system

| part | state | operations | hard behaviour |
|---|---|---|---|
| process table (`lab2/proc.c`, `trap.c`, `sysproc.c`) | `ptable`, `nextpid`, `c->proc`, the contexts saved by `swtch`, `ptable.lock`, `tickslock`, `ticks` | `allocproc`, `fork`, `exit`, `wait`, `kill`, `sleep`, `wakeup`, `sched`, `yield`, `forkret`, `sys_sleep`, the timer interrupt | `ptable.lock` crosses `swtch`; wakeups race with going to sleep; `fork` works on its slot without the lock; parents exit before their children |
| round robin (`scheduler`) | the scan of each processor | pick, switch, come back | the table changes under the scan |
| feedback queue (`mlfqsched`, `adjustPriority`, `setpriority`) | `priority`, `budget`, `ticks`, `PromoteAtTime`, `current_priority`, `count` | pick by level, charge, demote, promote | does not look up while its level has work; priorities set from outside |
| lottery (`lotterysched`, `settickets`, `rand`) | `num_tickets`, the sum and the draw of each processor | sum, draw, pick | the sum is stale when the draw is looked up |
| spinlocks (`spinlock.c`) | `lk->locked`, `lk->cpu`, `ncli`, `intena` | `acquire`, `release`, `pushcli`, `popcli` | interrupts and nesting |
| sleep locks, buffer cache, disk queue (`sleeplock.c`, `bio.c`, `ide.c`) | lock owners, reference counts, LRU list, `idequeue` | `bget`, `bread`, `bwrite`, `brelse`, `iderw`, `ideintr` | eviction, one buffer per block, all buffers pinned |
| log (`log.c`) | header in memory and on disk, `outstanding`, `committing` | `begin_op`, `log_write`, `end_op`, `commit`, recovery | crash between any two disk writes, group commit, log space |
| inodes, files (`fs.c`, `file.c`, `sysfile.c`) | inode cache, link and reference counts, descriptors | `iget`, `ilock`, `iput`, `link`, `unlink`, `open` | last reference and last link go away together |
| pipes (`pipe.c`) | `nread`, `nwrite`, open ends | `pipewrite`, `piperead`, `pipeclose` | full, empty, closed while the other side sleeps |
| console (`console.c`) | the input ring `r`, `w`, `e`, `cons.lock` | `consoleintr`, `consoleread`, `cprintf` | interrupt against reader; lock order with `ptable.lock` |
| memory (`kalloc.c`, `vm.c`, `exec.c`) | free list, page tables | `kalloc`, `kfree`, `allocuvm`, `copyuvm`, `exec` | running out of memory half way |
| JOS memory and monitor (`lab3/kern`) | `pages`, free list, page tables, console ring | `page_alloc`, `page_insert`, `page_remove`, monitor commands | reference counts, re-insertion of the same page |

The parts meet in the process table: every blocking operation is a `sleep` on
a channel with a lock that `sleep` gives up, every completion a `wakeup`. They
are stacked: system calls use inodes and files, these the log, the log the
buffer cache, the cache the disk driver. Each layer is a module of its own that
uses the layer below by what that one is shown to implement.

## Modules

### ProcTable: the process table

One variable per field of `struct proc` that steers the control flow (`state`,
`pid`, `parent`, `chan`, `killed`), `cpuproc` for `c->proc`, and the holders of
the two locks. `pc` says where a process's kernel thread is when that outlives
a step; `resume` stands for the saved context: the caller of `sched()` that the
process will come back to. `np` is the local variable of `fork`, `left` what
remains of `sys_sleep`'s `n - (ticks - ticks0)`, and `intr` the progress of a
timer interrupt.

A critical section that takes a lock and gives it back is one step, guarded by
the lock being free: nobody else can touch what the lock protects in between.
`ptable.lock` is nevertheless a variable, because `sched()` leaves with the
lock held and the scheduler, or the next process, gives it back. The code that
works *without* the lock is split at its writes: `fork` takes its slot
(`ForkAlloc`), fills it (`ForkCopy`), publishes it (`ForkReady`) or gives it
back (`ForkFail`) in separate steps, and `sys_sleep` tests `killed`
(`SleepCheck`) before `sleep()` has `ptable.lock` (`SleepBlock`).

| code | actions |
|---|---|
| `allocproc`, `fork` | `ForkAlloc`, `ForkCopy`, `ForkReady`, `ForkFail` |
| `exit` and the ways to it in `trap` | `ExitStart`, `Fault`, `TimerExit`, `ExitFinish` |
| `wait` | `WaitReap`, `WaitFail`, `WaitSleep` |
| `kill` | `Kill` |
| `sys_sleep` with `sleep(&ticks, &tickslock)` | `SleepStart`, `SleepCheck`, `SleepBlock`, `SleepReturn`, `SleepRelock` |
| timer interrupt, `yield`, `forkret` | `TimerTick`, `TickWakeup`, `TimerOther`, `Yield`, `YieldReturn` |
| what all three schedulers do | `SchedAcquire`, `SchedRun`, `SchedDone`, `SchedRelease` |

Which RUNNABLE process `SchedRun` picks is open; the three schedulers restrict
the choice. `spinlock.c` is used by
its effect: a lock has one holder and interrupts are off while one is held.

### RoundRobin, Mlfq and Lottery: the three schedulers

All three extend `ProcTable`, add the scheduler's own variables, and conjoin to
each action what it does to them. That their behaviours are behaviours of
`ProcTable` holds by this construction and says nothing about the schedulers;
it is a lemma in the proofs, used to carry the theorems over. What the runs
check is what each scheduler adds: whom it picks, and when it picks nobody.

`RoundRobin` adds `scan`, the loop variable of `scheduler()`, and a history
variable `passed` that the code does not have: which processors have switched
to which processes since a process became RUNNABLE.

`Mlfq` adds the fields `priority` and `budget`, the level and the loop variable
(`slot`) of each processor, and the times as differences from `ticks` so that
the state space is finite. `setpriority` is modelled with its early return, which keeps
`ptable.lock`. `dispatched` is a history variable.

`Lottery` adds `num_tickets` and, per processor, the stage of the loop, the sum
and the chosen ticket. Sum (`LotterySum`) and lookup (`LotteryDraw`,
`LotteryRun`) are separate critical sections, as in the code, with anything in
between. `rand()` is the function of the time of day that the code computes;
the time is any. The code adds up the time in unsigned words and keeps it in an
`int`, so from 2038 on it is negative, and so are the seed, the number drawn and
the remainder, which C cuts off towards zero (`crem`). Sums are C ints: `wrap`
with a small `INT_MAX`.

### AtomicDisk and Log: the logging layer with crashes

`AtomicDisk` is what the comment at the head of `log.c` promises: calls join a
group, what the group has written becomes stable in one step after its last
call has ended, and a crash goes back to what is stable. `Log` is `log.c`. Its
variables are the three things on the disk (`disk`, the home blocks, `logblk`,
the blocks of the log, `head`, its header), the cached blocks, `log.lh`,
`log.outstanding`, and the progress of `commit()` or of recovery (`phase`,
`tail`). One `bwrite` is one step and atomic. `Crash` may come between any two
steps, during recovery too; it clears the memory and starts `initlog()`.

| code | actions |
|---|---|
| `begin_op` | `SysCall`, `BeginSleep`, `BeginEnter` |
| modification of a buffer and `log_write` | `Modify` up to the unlocked check, `LogWrite` |
| `end_op` | `EndOp`, `EndCommit` |
| `commit`, `recover_from_log` | `write_log`, `write_head`, `install_trans`, `erase`, `read_head` |

Past the last block of the log the disk has the inode blocks. `Slots` does not
say so, because `HasRoom` shows that a group of calls never gets there.

The refinement mapping makes `stable` what recovery would leave on the disk
(`Recovered`): it changes in `write_head()` and nowhere else.

### BlockStore and Bcache: buffer cache, sleep locks, disk driver

`BlockStore` is the interface comment of `bio.c`: each block has one content
and one user at a time. `Bcache` has the fields of `struct buf`, the owner of
each sleep lock, `idequeue`, the command given to the drive and its interrupt.
Critical sections of `bcache.lock`, `lk->lk` and `idelock` are steps; between
them anything may happen, in particular between `bget()` choosing a buffer and
locking it, and between the two halves of `brelse()`. `bget()` recycles any
unused clean buffer; without one it panics, and the step is disabled. The drive
(`DriveDone`) is external; it does not fail. A process holds one buffer at a
time. `write_log()`, `install_trans()` and `bmap()` hold a second one; that two
processes never wait for each other's buffers is therefore outside
`SleepersWoken`.

### Channel, Pipe and FileTable: open files that are pipes

`Channel` is a bounded queue with two ends. `Pipe` holds the operators of
`pipe.c` on the ring buffer, with counters modulo `WORD`; `FileTable` composes
them with the reference counts of `file.c`, the descriptor tables of
`sysfile.c`, and with what `fork`, `exit` and `kill` do to both. `p->lock` is a
variable because `sleep()` keeps it until `ptable.lock` is taken, a step in
which a `kill()` may fall; `fileclose()` is two steps, because the pipe end is
closed after `ftable.lock` was released. `pipe()` takes its two files one after
the other (`sys_pipe`, `filealloc`), keeps them in `hand`, and has the page and
two descriptors (`pipealloc`) or fails on the way: no second file or no page
(`pipebad`), or no descriptor (`pipenofd`). It then gives back both files by
`fileclose()` (`badclose`), which closes the ends of the pipe if there is one.
One pipe exists at a time: `pipe()` fails while `kalloc()` has no other page. The
history variable `unseen`, which
the code does not have, says that bytes were written since the last
`wakeup(&p->nread)`: a killed writer returns without one, and a reader that
sleeps then may have bytes to read (`NoMissedWakeup` allows this case only).

### Spinlock and Console: locks, interrupts, console input

In `Spinlock` the kernel code that a thread has still to execute is a sequence
of instructions: `Acquire(l)`, `Release(l)`, the switch into the scheduler and
back, and what the modules that use it add. `acquire()` is `pushcli()` and the
`xchg`, after which it may spin; interrupts may be taken by any processor whose
`IF_` is set; the timer makes a process `yield`, which may resume on the other
processor. `Console` adds `consoleintr()`, `consoleread()` (with `sleep()`
spelled out), `consolewrite()` and `getpinfo()`, and the input ring with its
wrapping indices. Left out are the `iunlock(ip)` before and the `ilock(ip)` after
a console read or write: they take their spin locks when no other lock is held
and so add no order between locks. One `cprintf()` stands for the loops of
`getpinfo()` and `procdump()`, which take and release `cons.lock` in the same
place every time.

### Icache: inodes, one directory, and the calls that use them

The same idea with one sequence of steps per process. `iget`, the halves of
`iput`, `ilock` and `iupdate` are the steps; `open`, `create`, `link`, `unlink`,
`read` and `close` are sequences of them, extended as the code finds out what
it has to do. There is one directory, whose entries are files; each call runs
in a transaction, which `Log` makes atomic, so there are no crashes here.

## Runs

| run | instance | what it shows |
|---|---|---|
| `proc_table` | 3 slots, 2 processors, pids up to 3; init may be killed or quit | the safety properties and the inductive invariant of `ProcTable` |
| `round_robin` | 3 slots, 1 processor | `scheduler()` passes nobody over twice; nobody starves, killed processes exit, sleepers return |
| `mlfq` | 3 slots, 1 processor, 3 levels | while priorities are in range, `mlfqsched()` overlooks nobody and starves nobody under the premise below |
| `lottery` | 2 slots, 2 processors, all seeds, sums that wrap | nobody is without a ticket; a pass that drew runs nobody only when its sum was out of date; processors do not lose their passes for ever |
| `log` | 2 processes, 3 blocks, a log of 3 blocks and its header | `Log` implements `AtomicDisk` through crashes; no call runs out of log; waiting calls are woken |
| `bcache` | 2 processes, 2 buffers, 3 blocks | `Bcache` implements `BlockStore`; `bread()` returns the right block; what is clean is on the disk; nobody sleeps for ever |
| `file_table` | 2 processes, 3 files, 2 descriptors, a pipe of 2 bytes, counters modulo 4 | reference counts, through every way in which `pipe()` can fail; the pipe implements `Channel`, is freed once, misses no wakeup; a reader meets the end |
| `console` | 2 processors, 2 processes, a ring of 2 characters, indices modulo 4 | interrupts are masked while locks are held; `intena` follows the thread; the ring stays in bounds; no line is missed; every deadlock of the two locks has `getpinfo()` in it |
| `icache` | 2 processes, 2 names, 2 inodes, 2 cache entries | reference and link counts; nothing in use is freed; every deadlock has an `iput()` of the directory in it |
| `mlfq_lock_leak` | 3 slots, priority out of range | *violated*: a process is in user mode with `ptable.lock` held |
| `inode_leak` | as `icache` | *violated*: an inode without name and user stays allocated |
| `lottery_overflow` | 2 slots, 1 processor, 2 tickets each, `INT_MAX` 3 | *violated*: the sum is negative and everybody is RUNNABLE |

Bounds. Three slots are a parent, a child and a third process that can be
handed over to init, be killed, or compete for the processor; two processors
are enough for every pair of interleaved critical sections. `MaxPid` bounds the
number of forks (a slot is used twice when it is at least `NPROC + 1`, or after
a failed fork). `SleepArgs`, `KillArgs`, `PriorityArgs` and `TicketArgs` are the
arguments that programs pass; `KillArgs` contains 0, the pid of free slots.
`Quitters` are the slots whose program may call `exit()`. `INT_MAX` is small,
so that two calls of `settickets()` make a sum wrap around, and `Seeds` are all
the values of `rand()`'s seed, the negative ones included.

In `log`, one call reserves two blocks of four and two calls can be in a group;
`LogBlocks` is equal to `LOGSIZE`, as mkfs makes it, so that there is room for
one block less than `begin_op()` counts on. `OpBlocks` is what a call really
writes; when all calls write as much as they reserve, `HasRoom` fails. Three
blocks and two buffers force evictions in `bcache`. In `file_table` one write
is longer than the pipe, so that the writer sleeps, and the counters wrap. Init
has the console open, so that of three files two are left: two `pipe()` calls at
the same time get one each and both fail, and with one descriptor free a call
gets both files and the page, and no second descriptor. In
`console` a full ring and a wrap of the indices happen. Its states are compared
by the view `LiveState`, which shifts the ring to index 0 (the code uses the
indices only as differences and modulo `INPUT_BUF`, which divides `WORD`) and
leaves out an `intena` that is written before it is read again. Processes, and
names, are symmetric in `console` and `icache`, which check no liveness.

Deadlock is checked in all passing runs except three. In `file_table` all
processes may wait on an empty pipe that one of them could write to. In
`console` `getpinfo()` can deadlock, which `OnlyGetpinfoDeadlocks` is about. In
`icache` the calls can deadlock, which `OnlyDirPutDeadlocks` is about.

Fairness. Kernel code that has begun goes on, so the steps of a kernel thread,
of an interrupt handler, of a scheduler and of the disk drive are fair; a
program need not call the kernel, so system calls are not. It is *strong*
fairness where an interrupt, a preemption or another holder of the lock can
disable the step again and again: a timer interrupt stays pending in the local
APIC while interrupts are off, and its period is longer than its handler, so
whatever it interrupts does get on. The timer itself is strongly fair for the
same reason. `EndOp` and `releasesleep` are strongly fair because the code
between `begin_op()` and `end_op()`, and between `bread()` and `brelse()`, is
finite. Crashes are not fair; between crashes the liveness properties hold, and
a crash satisfies them.

The liveness properties of `round_robin` and `mlfq` are checked on one processor.
On two, `xchg` in `acquire()` is not fair: a processor may spin for `ptable.lock`
while the other takes it again and again, so they hold only under a fairness that
the code does not give. The windows that need a second processor, such as a
`kill()` or a tick between a test and `sleep()`, are left to the invariants of
`proc_table`. `KeepsBusy` is checked on two: it asks only that somebody runs.

What `MlfqEveryoneRuns` does not promise. `mlfqsched()` stays at a level as long
as it finds somebody to run there. The level empties by demotion, but demotion
and promotion are done in the same pass: if the processes of a level can fill
the time between two promotions with their budgets, they are promoted as they
sink, and everybody above starves. The property therefore has the premise
`LevelsEmpty`, (NPROC - 1) * DEFAULT_BUDGET < TICKS_TO_PROMOTE; TLC finds the
starvation for budget 1 and 2 promotion ticks. With the constants of the code, 5
and 50, ten processes that never sleep are enough. Programs that call
`setpriority` for ever starve others too, hence the other disjunct.

What the lottery does not promise. That everybody who is RUNNABLE can win is not
a property: `rand()` has 199 results, and with 35 tickets one of them is never
drawn, whatever the seed. `LostPassIsStale` and `KeepsBusy` say what
is left, that a draw always finds somebody unless processes have gone away since
the sum was taken. Both have the premise `NoWrap`; `lottery_overflow` shows what
happens without it.

## Proofs

`ProcTableLocks`, `ProcTableFork` and `ProcTableProofs`, each of which extends
the one before, prove for any number of slots and processors and any arguments
that `IInv` is an invariant (`Invariance`), and from it every safety property
of the run `proc_table`. The properties are not inductive by
themselves. What is missing is where each thread can be and which locks it then
holds:

* `IntrInv`, `TicksLockInv`: an interrupt is only served on top of a process
  that holds no lock, and `tickslock` is held by the tick or by a process
  between its test and `sleep()`. They carry `SchedHoldsOnlyPtable` and
  `NoMissedTick`: no tick can pass while that process still has time left
  (`SleepInv`).
* `ForkInv`: a slot being forked belongs to one parent, is linked to it before
  it is RUNNABLE, and free slots have no parent. It carries `EmbryoOwned`,
  `NoEmbryoLeak` and `ParentsAlive`.
* `KilledNotInWait`, proved next to `IInv`: `wait()` tests `killed` and goes to
  sleep in one critical section of `ptable.lock`, so no `kill()` falls between.
  `sys_sleep()` tests it under `tickslock` only, and a killed process may sleep
  there until the next tick.
* `InitAlive`: init is never a zombie, because `exit()` panics first; orphans
  can be handed to it.
* `PidInv`: pids in the table are below `nextpid`; it carries `UniquePid`.

There is one lemma per conjunct, `<Conjunct>Step`, with one step per action
that writes a variable of the conjunct and one for all the others. The steps
do not use that slots and processors are numbers, only `Names`: the null values
name no slot and no processor. `ExitEffect`, `ForkBegins`, `ForkEnds`,
`ForkingFrame`, `EmbryoFrame` and `SleepFrame` say once what several lemmas need
of an action.

`SchedulerProofs` is about the three schedulers. Their specifications imply
`Spec` by construction (lemmas `RRRefines`, `MlfqRefines`, `LotteryRefines`), so
the theorems of `ProcTableProofs` hold with them. In `scheduler()` no processor switches to
another process twice while a process waits (`RRBounded`), from `BypassInv`:
what was run lies behind the scan, or beyond the process that waits.
`mlfqsched()` overlooks nobody (`MlfqWorkConserving`), from `AheadInv`: until it
has run somebody, every RUNNABLE process is on a lower level or further on in
the table. This rests on the lock, which is held over the whole loop: no other
step makes a process RUNNABLE meanwhile (`OthersWait`). The theorems on
`mlfqsched()` assume `InRange`, that programs only ask for priorities that
exist; `mlfq_lock_leak` shows what happens otherwise. With `lotterysched()`
everybody in use has a ticket, and no draw is taken modulo a sum that is not
positive (`LotteryTickets`, the invariant `TicketsHeld`), whatever `settickets()` is called with and however
sums overflow.

`LogProofs` proves `LogInvariant`, `LogInv` in every state: the accounts of
`begin_op()`, `log_write()` and `end_op()` (`CountInv`), and how far `commit()`
or the recovery has come on the disk (`PhaseInv`: the header lists the blocks of
the log that are complete, blocks that are installed agree with their copies,
and nobody modifies a block meanwhile). From it follow `LogRefines`, the log
implements `AtomicDisk` through crashes, and `LogDurable`, nothing is lost once
the last call of a group has returned. The accounts count `Reserved`, the pairs
of a call and a block it may still write, and show that the header never
outgrows `LOGSIZE`. `LogRoom` proves `HasRoom` from two premises on the
constants, which the instance of `log` meets: OpBlocks < Room, and
LOGSIZE - 2 * (MAXOPBLOCKS - OpBlocks) < Room. With the sizes of the code (10
blocks for a call, 30 in the log and one of them the header) they say that no
call writes all 10 blocks it reserves. `RoomInv` tells two cases apart: a call
that has been alone since the log was empty has logged only what it wrote
itself; once there were two, what they left of their reservations stays free.

`BcacheProofs` proves `BcacheInvariant`, `BcacheInv` in every
state: the reference counts and that no block is in two buffers (`RefInv`),
which process has which sleep lock (`LockInv`), and that the requests in
`idequeue` belong to sleeping holders of their buffers and the drive works on
the first (`IdeInv`). `BreadReturns` and `CleanIsOnDisk` follow
(`BcacheReturns`, `BcacheClean`), and with them the refinement of `BlockStore`
(`BcacheRefines`): reading in, writing back and recycling a buffer change
neither the content nor the user of any block.

`FileTableProofs` proves the three invariants of the run `file_table` and that
the pipe implements `Channel` (`FileRefs`, `FileNoUseAfterFree`, `PipeWakeups`,
`PipeRefines`) for any number of processes, files and descriptors, any size of
the pipe and any word that it divides. `RefCounts` is inductive only together
with who may have a file: only a `pipe()` in progress has files in hand
(`HandInv`), nobody else knows of them, and they are no ends of a pipe before the
call has a page (`OwnInv`); a free file has no type and no descriptor
(`DescInv`). So what `badclose` gives back is the last reference, with the ends
of the new pipe open or no pipe at all. From the counts it follows that the last reference
is the last, so each end of the pipe has one file or one `fileclose()` that is
about to close it (`EndInv`), and who reads or writes has a descriptor
(`UserInv`). `SleepInv` says what holds between the test and the `sleep()`.
`ReadUsed` and `WriteUsed` are the arithmetic of the wrapping counters.
`PipeRefines` is the refinement of `Channel`: `ReceiveStep`, `SendStep`,
`OpenStep` and `CloseStep` map the steps of the pipe, and all others leave the
mapped queue alone. It rests on two facts about positions in the ring: one that
is reduced modulo `WORD` stays in its slot, because `PIPESIZE` divides `WORD`
(`Slot`), and positions less than `PIPESIZE` apart have different slots
(`Apart`), so that a `pipewrite()` overwrites no byte that is still to be read.

`ConsoleProofs` proves the five invariants of the run `console`
(`SpinlockMasks`, `SchedIntena`, `ConsoleInput`, `ConsoleWakeup`,
`ConsoleDeadlock`) for any number of processors and processes, any size of the
input buffer and any word that it divides. In these modules the rest of a kernel
path is a sequence of instructions, so the inductive invariant has to speak of
every suffix of every path. `In` lists them, in system calls, in `yield()` on
top of what the timer cut, in `forkret()`, in `consoleintr()` and in the
scheduler, each with the set of locks held there; `AfterSleep` and `AfterYield`
are the places in `sched()` where a thread is switched away. A thread that spins
is where it was before `acquire()` (`Unspun`). `CpuInv` says that every
processor is at such a place with exactly these locks, that `ncli` counts them
and the one it spins for, and that `intena`, while `ncli` is not 0, is what
interrupts were before the first lock; `ProcInv` says the same of the flag that
`sched()` has saved for a thread that is switched away; `CurInv` that nobody runs
twice. `Instruction` and `Executes` are about the lists alone: what the next
instruction is, and that the code after it is in the list again with the locks
it then holds. `Move`, `Go` and `Switch` turn this into `CpuInv` after a step, and
there is one lemma `<Action>Step` per action. `SleepInv` adds that,
with a line in the buffer, `wakeup()` is still to be called or nobody sleeps or has
the `sched()` of `sleep()` ahead. `InputStep` is the arithmetic of the wrapping indices.

The constants are only assumed to have their types, with at least one slot and
one processor, finitely many processes, and null values that name nothing. That
pids do not wrap around is part of the model: `nextpid` is a natural number up
to `MaxPid`.

Only model-checked:

* everything under fairness (TLAPS does not prove liveness or reason about
  ENABLED here);
* `LostPassIsStale`: it is about a sum over a set, which needs induction;
* the invariants of `Icache`, where the rest of a kernel path is a sequence of
  instructions as in `Console`, but one with many more paths, and where the
  counts depend on what every suffix has still to give back.

## Findings

* `setpriority()` returns with `ptable.lock` held when the priority is out of
  range (`mlfq_lock_leak`); `testMLFQ.c` makes such a call.
* two `iput()` at the same time lose an unlinked inode (`inode_leak`): each sees
  the other's reference and leaves the freeing to it.
* `lotterysched()` sums the tickets in an `int` and `settickets()` takes any
  positive number; a sum that wraps below zero is taken for an idle system
  (`lottery_overflow`).

Met while modelling, without a line of the repository that says otherwise, and
so without a run of their own: `kill(0)` marks free slots; `p->ticks` survives
from one process to the next; `rand()` leaves some tickets out; a killed writer
of a full pipe does not wake the reader; `iput()` takes the inode's lock although
there is nothing to free, and `create()` and `sys_unlink()` put the directory
while they hold the file's lock, so that they and a lookup wait for each other,
as `link(old, ".")` waits for itself (the deadlocks that `OnlyDirPutDeadlocks`
leaves); `getpinfo()` prints with
`ptable.lock` held; a failed disk read marks the buffer valid; and the
starvation described above. `hazards` in `PROJECT.json` has the lines.

## Not modelled

* Memory (`kalloc.c`, `vm.c`, `exec.c`): sequential code over page tables and
  physical addresses. The shared free list is a stack under one lock; what other
  parts see of it, that an allocation fails, is in `ProcTable` and `FileTable`.
* The blocks of a file (`balloc`, `bmap`, `readi`, `writei`, `itrunc`) and path
  parsing: functions of the contents of one locked inode. Nested directories,
  `mkdir`, `mknod`, `chdir` and `fstat`: `Icache` has one directory of files.
  `itrunc` is part of the step `free`.
* All layers in one model: `bget()` running out of buffers depends on what every
  call holds at once, and is not covered.
* Errors of the disk drive, the polling in `idewait`, `memide.c`.
* Boot code and device registers; argument checking in `syscall.c`; user
  programs (they appear as the calls they may make); the screen and the scan
  codes of the keyboard.
* `assignment3` (the same kernel; its additions print or read), `assignment2`
  (load generators), `lab1` and `lab3` (JOS: a single-threaded kernel without
  processes, whose correctness is in page-table bits), and QEMU.
