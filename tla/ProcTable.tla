------------------------------ MODULE ProcTable ------------------------------
(***************************************************************************)
(* The process table of lab2: proc.c (allocproc, fork, exit, wait, kill,   *)
(* sleep, wakeup, sched, yield, forkret), the timer and exit paths of      *)
(* trap.c and sys_sleep of sysproc.c, on NCPU processors.                  *)
(*                                                                         *)
(* A critical section of ptable.lock or tickslock that does not leave the  *)
(* lock held is one step guarded by the lock being free.  ptable.lock is   *)
(* a variable of its own because sched() and the scheduler hand it over    *)
(* across swtch: it stays held between two steps.                          *)
(*                                                                         *)
(* Which RUNNABLE process a scheduler picks is left open here; RoundRobin, *)
(* Mlfq and Lottery restrict it to what the three schedulers do.           *)
(***************************************************************************)
EXTENDS Integers

CONSTANTS
    NPROC,      \* number of slots of ptable.proc
    NCPU,       \* number of processors
    MaxPid,     \* bound: the last pid that allocproc hands out
    SleepArgs,  \* the arguments programs pass to sleep(n)
    KillArgs,   \* the arguments programs pass to kill(pid)
    Quitters    \* the slots whose program may call exit() or fault

ASSUME ProcTableAssumption ==
    /\ NPROC \in Nat \ {0}
    /\ NCPU \in Nat \ {0}
    /\ MaxPid \in Nat
    /\ SleepArgs \subseteq Nat
    /\ KillArgs \subseteq Nat
    /\ Quitters \subseteq 1..NPROC

Proc == 1..NPROC
Cpu == 0..(NCPU - 1)
None == 0             \* the null struct proc *, and no channel
NoCpu == -1           \* the lock is free
TicksChan == NPROC + 1  \* the address &ticks, used as a sleep channel
initproc == 1         \* allocproc scans from slot 1, so userinit gets it

ProcState == {"UNUSED", "EMBRYO", "SLEEPING", "RUNNABLE", "RUNNING", "ZOMBIE"}

VARIABLES
    state,      \* p->state
    pid,        \* p->pid
    nextpid,
    parent,     \* p->parent
    chan,       \* p->chan
    killed,     \* p->killed
    pc,         \* where the process's kernel thread is, "user" outside it
    resume,     \* the caller of sched() saved in p->context, "none" while running
    np,         \* the local np of fork
    left,       \* n - (ticks - ticks0) of sys_sleep, not below 0
    cpuproc,    \* c->proc
    intr,       \* progress of the timer interrupt taken by the processor
    lock,       \* the processor that holds ptable.lock
    tickslock   \* the processor that holds tickslock

procVars == <<state, pid, nextpid, parent, killed>>
vars == <<state, pid, nextpid, parent, chan, killed, pc, resume, np, left,
          cpuproc, intr, lock, tickslock>>

PC == {"user", "forkcopy", "forkready", "exit", "panic",
       "sleep", "dosleep", "relock"}

\* The one type invariant of the module.
TypeOK ==
    /\ state \in [Proc -> ProcState]
    /\ pid \in [Proc -> Nat]
    /\ nextpid \in Nat
    /\ parent \in [Proc -> Proc \cup {None}]
    /\ chan \in [Proc -> Proc \cup {None, TicksChan}]
    /\ killed \in [Proc -> BOOLEAN]
    /\ pc \in [Proc -> PC]
    /\ resume \in [Proc -> {"none", "forkret", "yield", "wait", "sleep"}]
    /\ np \in [Proc -> Proc \cup {None}]
    /\ left \in [Proc -> Nat]
    /\ cpuproc \in [Cpu -> Proc \cup {None}]
    /\ intr \in [Cpu -> {"none", "tick", "yield"}]
    /\ lock \in Cpu \cup {NoCpu}
    /\ tickslock \in Cpu \cup {NoCpu}

-----------------------------------------------------------------------------
\* After userinit: the first process is RUNNABLE and every processor is about
\* to enter its scheduler.
Init ==
    /\ state = [p \in Proc |-> IF p = initproc THEN "RUNNABLE" ELSE "UNUSED"]
    /\ pid = [p \in Proc |-> IF p = initproc THEN 1 ELSE 0]
    /\ nextpid = 2
    /\ parent = [p \in Proc |-> None]
    /\ chan = [p \in Proc |-> None]
    /\ killed = [p \in Proc |-> FALSE]
    /\ pc = [p \in Proc |-> "user"]
    /\ resume = [p \in Proc |-> IF p = initproc THEN "forkret" ELSE "none"]
    /\ np = [p \in Proc |-> None]
    /\ left = [p \in Proc |-> 0]
    /\ cpuproc = [c \in Cpu |-> None]
    /\ intr = [c \in Cpu |-> "none"]
    /\ lock = NoCpu
    /\ tickslock = NoCpu

\* The process of processor c executes its own code at point at: it has been
\* switched to, has run past the release of ptable.lock, and no timer
\* interrupt is being served.
At(c, at) ==
    /\ cpuproc[c] # None
    /\ resume[cpuproc[c]] = "none"
    /\ pc[cpuproc[c]] = at
    /\ state[cpuproc[c]] = "RUNNING"
    /\ intr[c] = "none"

\* A system call of a live program: trap() exits first if it was killed.
InSyscall(c) == At(c, "user") /\ ~killed[cpuproc[c]]

\* The process has been switched to and comes back from sched() in caller.
Resumed(c, caller) ==
    /\ cpuproc[c] # None
    /\ lock = c
    /\ state[cpuproc[c]] = "RUNNING"
    /\ resume[cpuproc[c]] = caller

\* p is the slot that a scan of the table for the slots in S stops at.
IsFirst(p, S) == p \in S /\ \A q \in S : p <= q

wakeup1(st, ch) ==
    [p \in Proc |-> IF st[p] = "SLEEPING" /\ chan[p] = ch THEN "RUNNABLE" ELSE st[p]]

-----------------------------------------------------------------------------
(* fork                                                                    *)

\* Mutant: the new slot is not marked EMBRYO before the lock is released.
ForkAllocUnmarked(c, new) ==
    LET p == cpuproc[c]
    IN  /\ InSyscall(c) /\ lock = NoCpu
        /\ nextpid <= MaxPid
        /\ IsFirst(new, {q \in Proc : state[q] = "UNUSED"})
        /\ pid' = [pid EXCEPT ![new] = nextpid]
        /\ nextpid' = nextpid + 1
        /\ resume' = [resume EXCEPT ![new] = "forkret"]
        /\ np' = [np EXCEPT ![p] = new]
        /\ pc' = [pc EXCEPT ![p] = "forkcopy"]
        /\ UNCHANGED <<state, parent, chan, killed, left, cpuproc, intr, lock, tickslock>>

\* allocproc, called by fork: with no free slot fork returns -1 and nothing
\* changes.  killed is not reset.
ForkAlloc(c, new) ==
    LET p == cpuproc[c]
    IN  /\ InSyscall(c) /\ lock = NoCpu
        /\ nextpid <= MaxPid
        /\ IsFirst(new, {q \in Proc : state[q] = "UNUSED"})
        /\ state' = [state EXCEPT ![new] = "EMBRYO"]
        /\ pid' = [pid EXCEPT ![new] = nextpid]
        /\ nextpid' = nextpid + 1
        /\ resume' = [resume EXCEPT ![new] = "forkret"]
        /\ np' = [np EXCEPT ![p] = new]
        /\ pc' = [pc EXCEPT ![p] = "forkcopy"]
        /\ UNCHANGED <<parent, chan, killed, left, cpuproc, intr, lock, tickslock>>

\* kalloc or copyuvm fails: the slot is given back without taking ptable.lock.
ForkFail(c) ==
    LET p == cpuproc[c]
    IN  /\ At(c, "forkcopy")
        /\ state' = [state EXCEPT ![np[p]] = "UNUSED"]
        /\ np' = [np EXCEPT ![p] = None]
        /\ pc' = [pc EXCEPT ![p] = "user"]
        /\ UNCHANGED <<pid, nextpid, parent, chan, killed, resume, left,
                       cpuproc, intr, lock, tickslock>>

\* The copy of the parent, written without ptable.lock.
ForkCopy(c) ==
    LET p == cpuproc[c]
    IN  /\ At(c, "forkcopy")
        /\ parent' = [parent EXCEPT ![np[p]] = p]
        /\ pc' = [pc EXCEPT ![p] = "forkready", ![np[p]] = "user"]
        /\ UNCHANGED <<state, pid, nextpid, chan, killed, resume, np, left,
                       cpuproc, intr, lock, tickslock>>

ForkReady(c) ==
    LET p == cpuproc[c]
    IN  /\ At(c, "forkready") /\ lock = NoCpu
        /\ state' = [state EXCEPT ![np[p]] = "RUNNABLE"]
        /\ np' = [np EXCEPT ![p] = None]
        /\ pc' = [pc EXCEPT ![p] = "user"]
        /\ UNCHANGED <<pid, nextpid, parent, chan, killed, resume, left,
                       cpuproc, intr, lock, tickslock>>

-----------------------------------------------------------------------------
(* exit and wait                                                           *)

\* exit() is reached from the system call, or from trap() when killed is set;
\* init must not get there.  Closing the files is the file table's business.
ExitPoint(p) == IF p = initproc THEN "panic" ELSE "exit"

ExitStart(c) ==
    LET p == cpuproc[c]
    IN  /\ At(c, "user")
        /\ killed[p] \/ p \in Quitters
        /\ pc' = [pc EXCEPT ![p] = ExitPoint(p)]
        /\ UNCHANGED <<state, pid, nextpid, parent, chan, killed, resume, np,
                       left, cpuproc, intr, lock, tickslock>>

\* trap(), default case: a user-mode fault marks the process killed and exits.
Fault(c) ==
    LET p == cpuproc[c]
    IN  /\ At(c, "user") /\ p \in Quitters
        /\ killed' = [killed EXCEPT ![p] = TRUE]
        /\ pc' = [pc EXCEPT ![p] = ExitPoint(p)]
        /\ UNCHANGED <<state, pid, nextpid, parent, chan, resume, np, left,
                       cpuproc, intr, lock, tickslock>>

\* Mutant: the parent is not told.
ExitFinishNoParentWakeup(c) ==
    LET p == cpuproc[c]
    IN  /\ At(c, "exit") /\ lock = NoCpu
        /\ state' = [state EXCEPT ![p] = "ZOMBIE"]
        /\ parent' = [q \in Proc |-> IF parent[q] = p THEN initproc ELSE parent[q]]
        /\ lock' = c
        /\ UNCHANGED <<pid, nextpid, chan, killed, pc, resume, np, left,
                       cpuproc, intr, tickslock>>

\* Mutant: only zombie children are handed over.
ExitFinishNoReparent(c) ==
    LET p == cpuproc[c]
    IN  /\ At(c, "exit") /\ lock = NoCpu
        /\ state' = [wakeup1(wakeup1(state, parent[p]), initproc) EXCEPT ![p] = "ZOMBIE"]
        /\ parent' = [q \in Proc |-> IF parent[q] = p /\ state[q] = "ZOMBIE"
                                     THEN initproc ELSE parent[q]]
        /\ lock' = c
        /\ UNCHANGED <<pid, nextpid, chan, killed, pc, resume, np, left,
                       cpuproc, intr, tickslock>>

\* The critical section of exit, which ends in sched() with the lock held.
ExitFinish(c) ==
    LET p == cpuproc[c]
        st1 == wakeup1(state, parent[p])
        st2 == IF \E q \in Proc : parent[q] = p /\ state[q] = "ZOMBIE"
               THEN wakeup1(st1, initproc) ELSE st1
    IN  /\ At(c, "exit") /\ lock = NoCpu
        /\ state' = [st2 EXCEPT ![p] = "ZOMBIE"]
        /\ parent' = [q \in Proc |-> IF parent[q] = p THEN initproc ELSE parent[q]]
        /\ lock' = c
        /\ UNCHANGED <<pid, nextpid, chan, killed, pc, resume, np, left,
                       cpuproc, intr, tickslock>>

Children(p) == {q \in Proc : parent[q] = p}
ZombieChildren(p) == {q \in Children(p) : state[q] = "ZOMBIE"}

\* A scan of wait() begins: from the system call, or after sleep() returned
\* with ptable.lock still held.
WaitScan(c) == \/ InSyscall(c) /\ lock = NoCpu
               \/ Resumed(c, "wait")

WaitReap(c, z) ==
    LET p == cpuproc[c]
    IN  /\ WaitScan(c)
        /\ IsFirst(z, ZombieChildren(p))
        /\ pid' = [pid EXCEPT ![z] = 0]
        /\ parent' = [parent EXCEPT ![z] = None]
        /\ killed' = [killed EXCEPT ![z] = FALSE]
        /\ state' = [state EXCEPT ![z] = "UNUSED"]
        /\ chan' = [chan EXCEPT ![p] = None]
        /\ resume' = [resume EXCEPT ![p] = "none"]
        /\ lock' = NoCpu
        /\ UNCHANGED <<nextpid, pc, np, left, cpuproc, intr, tickslock>>

WaitFail(c) ==
    LET p == cpuproc[c]
    IN  /\ WaitScan(c)
        /\ ZombieChildren(p) = {}
        /\ Children(p) = {} \/ killed[p]
        /\ chan' = [chan EXCEPT ![p] = None]
        /\ resume' = [resume EXCEPT ![p] = "none"]
        /\ lock' = NoCpu
        /\ UNCHANGED <<state, pid, nextpid, parent, killed, pc, np, left,
                       cpuproc, intr, tickslock>>

\* Mutant: killed is not looked at before going to sleep again.
WaitSleepKilled(c) ==
    LET p == cpuproc[c]
    IN  /\ WaitScan(c)
        /\ ZombieChildren(p) = {} /\ Children(p) # {}
        /\ chan' = [chan EXCEPT ![p] = p]
        /\ state' = [state EXCEPT ![p] = "SLEEPING"]
        /\ resume' = [resume EXCEPT ![p] = "wait"]
        /\ lock' = c
        /\ UNCHANGED <<pid, nextpid, parent, killed, pc, np, left,
                       cpuproc, intr, tickslock>>

WaitSleep(c) ==
    LET p == cpuproc[c]
    IN  /\ WaitScan(c)
        /\ ZombieChildren(p) = {}
        /\ Children(p) # {} /\ ~killed[p]
        /\ chan' = [chan EXCEPT ![p] = p]
        /\ state' = [state EXCEPT ![p] = "SLEEPING"]
        /\ resume' = [resume EXCEPT ![p] = "wait"]
        /\ lock' = c
        /\ UNCHANGED <<pid, nextpid, parent, killed, pc, np, left,
                       cpuproc, intr, tickslock>>

\* Mutant: the victim is not woken.
KillNoWakeup(c, k, t) ==
    /\ InSyscall(c) /\ lock = NoCpu
    /\ IsFirst(t, {q \in Proc : pid[q] = k})
    /\ killed' = [killed EXCEPT ![t] = TRUE]
    /\ UNCHANGED <<state, pid, nextpid, parent, chan, pc, resume, np, left,
                   cpuproc, intr, lock, tickslock>>

\* kill(k): the first slot with this pid, whatever its state.
Kill(c, k, t) ==
    /\ InSyscall(c) /\ lock = NoCpu
    /\ IsFirst(t, {q \in Proc : pid[q] = k})
    /\ killed' = [killed EXCEPT ![t] = TRUE]
    /\ state' = [state EXCEPT ![t] = IF @ = "SLEEPING" THEN "RUNNABLE" ELSE @]
    /\ UNCHANGED <<pid, nextpid, parent, chan, pc, resume, np, left,
                   cpuproc, intr, lock, tickslock>>

-----------------------------------------------------------------------------
(* sys_sleep, with sleep(&ticks, &tickslock)                               *)

SleepStart(c, n) ==
    LET p == cpuproc[c]
    IN  /\ InSyscall(c) /\ tickslock = NoCpu
        /\ tickslock' = c
        /\ left' = [left EXCEPT ![p] = n]
        /\ pc' = [pc EXCEPT ![p] = "sleep"]
        /\ UNCHANGED <<procVars, chan, resume, np, cpuproc, intr, lock>>

\* Mutant: tickslock is released before sleep() has ptable.lock.
SleepCheckEarlyRelease(c) ==
    LET p == cpuproc[c]
        done == left[p] = 0 \/ killed[p]
    IN  /\ At(c, "sleep")
        /\ pc' = [pc EXCEPT ![p] = IF done THEN "user" ELSE "dosleep"]
        /\ left' = IF done THEN [left EXCEPT ![p] = 0] ELSE left
        /\ tickslock' = NoCpu
        /\ UNCHANGED <<procVars, chan, resume, np, cpuproc, intr, lock>>

\* The loop's test, made with tickslock held: killed is read without
\* ptable.lock, so kill() may follow before the process is asleep.
SleepCheck(c) ==
    LET p == cpuproc[c]
        done == left[p] = 0 \/ killed[p]
    IN  /\ At(c, "sleep")
        /\ pc' = [pc EXCEPT ![p] = IF done THEN "user" ELSE "dosleep"]
        /\ left' = IF done THEN [left EXCEPT ![p] = 0] ELSE left
        /\ tickslock' = IF done THEN NoCpu ELSE tickslock
        /\ UNCHANGED <<procVars, chan, resume, np, cpuproc, intr, lock>>

\* Mutant: sleep() does not release the lock it was given.
SleepBlockKeepLock(c) ==
    LET p == cpuproc[c]
    IN  /\ At(c, "dosleep") /\ lock = NoCpu
        /\ lock' = c
        /\ chan' = [chan EXCEPT ![p] = TicksChan]
        /\ state' = [state EXCEPT ![p] = "SLEEPING"]
        /\ resume' = [resume EXCEPT ![p] = "sleep"]
        /\ UNCHANGED <<pid, nextpid, parent, killed, pc, np, left, cpuproc, intr, tickslock>>

\* sleep(): take ptable.lock, then release tickslock, then sched().
SleepBlock(c) ==
    LET p == cpuproc[c]
    IN  /\ At(c, "dosleep") /\ lock = NoCpu
        /\ lock' = c
        /\ tickslock' = NoCpu
        /\ chan' = [chan EXCEPT ![p] = TicksChan]
        /\ state' = [state EXCEPT ![p] = "SLEEPING"]
        /\ resume' = [resume EXCEPT ![p] = "sleep"]
        /\ UNCHANGED <<pid, nextpid, parent, killed, pc, np, left, cpuproc, intr>>

\* sched() returned in sleep(): tidy up, release ptable.lock.
SleepReturn(c) ==
    LET p == cpuproc[c]
    IN  /\ Resumed(c, "sleep")
        /\ chan' = [chan EXCEPT ![p] = None]
        /\ resume' = [resume EXCEPT ![p] = "none"]
        /\ pc' = [pc EXCEPT ![p] = "relock"]
        /\ lock' = NoCpu
        /\ UNCHANGED <<procVars, np, left, cpuproc, intr, tickslock>>

\* Mutant: the lock is taken without waiting for it.
SleepRelockUnlocked(c) ==
    LET p == cpuproc[c]
    IN  /\ At(c, "relock")
        /\ tickslock' = c
        /\ pc' = [pc EXCEPT ![p] = "sleep"]
        /\ UNCHANGED <<procVars, chan, resume, np, left, cpuproc, intr, lock>>

SleepRelock(c) ==
    LET p == cpuproc[c]
    IN  /\ At(c, "relock") /\ tickslock = NoCpu
        /\ tickslock' = c
        /\ pc' = [pc EXCEPT ![p] = "sleep"]
        /\ UNCHANGED <<procVars, chan, resume, np, left, cpuproc, intr, lock>>

-----------------------------------------------------------------------------
(* The timer interrupt and yield                                           *)

\* Interrupts are on: no spinlock is held (pushcli) and the processor has not
\* panicked.
IntrOn(c) ==
    /\ intr[c] = "none"
    /\ lock # c /\ tickslock # c
    /\ cpuproc[c] # None => pc[cpuproc[c]] # "panic"

\* Processor 0 counts the tick under tickslock.
TimerTick(c) ==
    /\ IntrOn(c) /\ c = 0 /\ tickslock = NoCpu
    /\ tickslock' = c
    /\ left' = [p \in Proc |-> IF left[p] > 0 THEN left[p] - 1 ELSE 0]
    /\ intr' = [intr EXCEPT ![c] = "tick"]
    /\ UNCHANGED <<procVars, chan, pc, resume, np, cpuproc, lock>>

\* Mutant: the tick wakes nobody.
TickWakeupNone(c) ==
    /\ intr[c] = "tick" /\ lock = NoCpu
    /\ tickslock' = NoCpu
    /\ intr' = [intr EXCEPT ![c] = IF cpuproc[c] = None THEN "none" ELSE "yield"]
    /\ UNCHANGED <<state, pid, nextpid, parent, chan, killed, pc, resume, np, left,
                   cpuproc, lock>>

\* wakeup(&ticks), then the release of tickslock.
TickWakeup(c) ==
    /\ intr[c] = "tick" /\ lock = NoCpu
    /\ state' = wakeup1(state, TicksChan)
    /\ tickslock' = NoCpu
    /\ intr' = [intr EXCEPT ![c] = IF cpuproc[c] = None THEN "none" ELSE "yield"]
    /\ UNCHANGED <<pid, nextpid, parent, chan, killed, pc, resume, np, left,
                   cpuproc, lock>>

\* The other processors only use the timer to make their process yield.
TimerOther(c) ==
    /\ IntrOn(c) /\ c # 0 /\ cpuproc[c] # None
    /\ intr' = [intr EXCEPT ![c] = "yield"]
    /\ UNCHANGED <<procVars, chan, pc, resume, np, left, cpuproc, lock, tickslock>>

\* The end of trap(): a killed process interrupted in user mode exits.
TimerExit(c) ==
    LET p == cpuproc[c]
    IN  /\ intr[c] = "yield" /\ killed[p] /\ pc[p] = "user"
        /\ intr' = [intr EXCEPT ![c] = "none"]
        /\ pc' = [pc EXCEPT ![p] = ExitPoint(p)]
        /\ UNCHANGED <<procVars, chan, resume, np, left, cpuproc, lock, tickslock>>

\* The end of trap(): any other process yields, and sched() keeps the lock.
Yield(c) ==
    LET p == cpuproc[c]
    IN  /\ intr[c] = "yield" /\ ~(killed[p] /\ pc[p] = "user")
        /\ lock = NoCpu
        /\ intr' = [intr EXCEPT ![c] = "none"]
        /\ state' = [state EXCEPT ![p] = "RUNNABLE"]
        /\ resume' = [resume EXCEPT ![p] = "yield"]
        /\ lock' = c
        /\ UNCHANGED <<pid, nextpid, parent, chan, killed, pc, np, left,
                       cpuproc, tickslock>>

\* forkret, or yield after sched(): release ptable.lock.
YieldReturn(c) ==
    /\ Resumed(c, "yield") \/ Resumed(c, "forkret")
    /\ resume' = [resume EXCEPT ![cpuproc[c]] = "none"]
    /\ lock' = NoCpu
    /\ UNCHANGED <<procVars, chan, pc, np, left, cpuproc, intr, tickslock>>

-----------------------------------------------------------------------------
(* What every scheduler does                                               *)

SchedAcquire(c) ==
    /\ cpuproc[c] = None /\ intr[c] = "none" /\ lock = NoCpu
    /\ lock' = c
    /\ UNCHANGED <<procVars, chan, pc, resume, np, left, cpuproc, intr, tickslock>>

\* Mutant: the scheduler does not look at the state.
SchedRunAny(c, p) ==
    /\ cpuproc[c] = None /\ lock = c
    /\ cpuproc' = [cpuproc EXCEPT ![c] = p]
    /\ state' = [state EXCEPT ![p] = "RUNNING"]
    /\ UNCHANGED <<pid, nextpid, parent, chan, killed, pc, resume, np, left,
                   intr, lock, tickslock>>

SchedRun(c, p) ==
    /\ cpuproc[c] = None /\ lock = c
    /\ state[p] = "RUNNABLE"
    /\ cpuproc' = [cpuproc EXCEPT ![c] = p]
    /\ state' = [state EXCEPT ![p] = "RUNNING"]
    /\ UNCHANGED <<pid, nextpid, parent, chan, killed, pc, resume, np, left,
                   intr, lock, tickslock>>

\* swtch() came back from the process: c->proc = 0.
SchedDone(c) ==
    /\ cpuproc[c] # None /\ lock = c
    /\ state[cpuproc[c]] # "RUNNING"
    /\ cpuproc' = [cpuproc EXCEPT ![c] = None]
    /\ UNCHANGED <<procVars, chan, pc, resume, np, left, intr, lock, tickslock>>

SchedRelease(c) ==
    /\ cpuproc[c] = None /\ lock = c
    /\ lock' = NoCpu
    /\ UNCHANGED <<procVars, chan, pc, resume, np, left, cpuproc, intr, tickslock>>

-----------------------------------------------------------------------------
\* A step of the process on processor c, or of an interrupt it takes, other
\* than allocproc (which also sets the schedulers' fields).
ProcStep(c) ==
    \/ ForkFail(c) \/ ForkCopy(c) \/ ForkReady(c)
    \/ ExitStart(c) \/ Fault(c) \/ ExitFinish(c)
    \/ (\E z \in Proc : WaitReap(c, z)) \/ WaitFail(c) \/ WaitSleep(c)
    \/ \E k \in KillArgs, t \in Proc : Kill(c, k, t)
    \/ \E n \in SleepArgs : SleepStart(c, n)
    \/ SleepCheck(c) \/ SleepBlock(c) \/ SleepReturn(c) \/ SleepRelock(c)
    \/ TimerOther(c) \/ TimerExit(c) \/ Yield(c) \/ YieldReturn(c)
    \/ TickWakeup(c)

Next ==
    \E c \in Cpu :
        \/ \E new \in Proc : ForkAlloc(c, new)
        \/ ProcStep(c)
        \/ TimerTick(c)
        \/ SchedAcquire(c)
        \/ \E p \in Proc : SchedRun(c, p)
        \/ SchedDone(c)
        \/ SchedRelease(c)

Spec == Init /\ [][Next]_vars

(* Steps that the schedulers' specifications state fairness about.          *)

\* Kernel code that runs for a process, up to its next wait for something.
ThreadStep(c) ==
    \/ ForkFail(c) \/ ForkCopy(c) \/ ForkReady(c) \/ ExitFinish(c)
    \/ /\ Resumed(c, "wait")
       /\ (\E z \in Proc : WaitReap(c, z)) \/ WaitFail(c) \/ WaitSleep(c)
    \/ SleepCheck(c) \/ SleepBlock(c) \/ SleepReturn(c) \/ SleepRelock(c)

\* The rest of a timer interrupt that has begun, and the way back from it.
IntrStep(c) == TickWakeup(c) \/ TimerExit(c) \/ Yield(c) \/ YieldReturn(c)

-----------------------------------------------------------------------------
(* Properties                                                              *)

NoSharedProc ==
    \A c, d \in Cpu : cpuproc[c] # None /\ cpuproc[c] = cpuproc[d] => c = d

RunningHasCpu ==
    \A p \in Proc : state[p] = "RUNNING" => \E c \in Cpu : cpuproc[c] = p

LockedUntilSwitched ==
    \A c \in Cpu :
        cpuproc[c] # None =>
            \/ state[cpuproc[c]] = "RUNNING" /\ resume[cpuproc[c]] = "none"
            \/ lock = c

\* No process is on two processors, a process is RUNNING only while some
\* processor has it, and ptable.lock is held from the moment a process gives
\* up its state in sched() until c->proc = 0, and from its choice until it has
\* come back out of sched(): this hand-over of ptable.lock across swtch keeps
\* another processor from running on a kernel stack still in use.
OneCpuPerProc == NoSharedProc /\ RunningHasCpu /\ LockedUntilSwitched

\* sched() is entered holding ptable.lock and no other lock ("sched locks").
SchedHoldsOnlyPtable ==
    \A c \in Cpu :
        cpuproc[c] # None /\ state[cpuproc[c]] # "RUNNING"
            => lock = c /\ tickslock # c /\ intr[c] = "none"

\* A process asleep in wait() has no exited child to collect: the wakeups of
\* exit() are never missed, also for children handed over to init.
NoMissedChildExit ==
    \A p \in Proc : state[p] = "SLEEPING" /\ chan[p] = p => ZombieChildren(p) = {}

\* A process asleep in sleep(n) whose time is up is about to be woken by the
\* tick being served.
NoMissedTick ==
    \A p \in Proc :
        state[p] = "SLEEPING" /\ chan[p] = TicksChan /\ left[p] = 0
            => intr[0] = "tick"

\* Every process that was forked has a parent that can still wait for it:
\* exit() hands its children to init before it becomes a zombie.
ParentsAlive ==
    \A p \in Proc :
        /\ parent[p] # None =>
               state[parent[p]] \notin {"UNUSED", "EMBRYO", "ZOMBIE"}
        /\ state[p] \in {"SLEEPING", "RUNNABLE", "RUNNING", "ZOMBIE"} /\ p # initproc
               => parent[p] # None

\* A pid names at most one slot, also a pid left behind by a failed fork.
UniquePid ==
    \A p, q \in Proc : pid[p] = pid[q] /\ p # q => pid[p] = 0

Forking(p) == pc[p] \in {"forkcopy", "forkready"}

\* Every fork in progress owns an EMBRYO slot of its own.
EmbryoOwned ==
    /\ \A p \in Proc : Forking(p) => np[p] # None /\ state[np[p]] = "EMBRYO"
    /\ \A p, q \in Proc : Forking(p) /\ Forking(q) /\ np[p] = np[q] => p = q

\* No slot leaks: an EMBRYO slot belongs to a fork in progress, which makes it
\* RUNNABLE or gives it back.
NoEmbryoLeak ==
    \A p \in Proc : state[p] = "EMBRYO" => \E q \in Proc : Forking(q) /\ np[q] = p

\* kill() ends a wait() at once: wait() looks at killed under ptable.lock, which
\* kill() holds too, so no killed process is asleep there.  In sys_sleep(), where
\* killed is read without it, one may be, until the next tick.
KilledNotInWait ==
    \A p \in Proc : killed[p] /\ state[p] = "SLEEPING" => chan[p] = TicksChan

-----------------------------------------------------------------------------
(* The inductive invariant.  The conjuncts added to the properties say who  *)
(* may be at which program point, and which locks that thread holds.        *)

\* A timer interrupt is served on top of a process that runs freely, and the
\* tick is counted with tickslock held.
IntrInv ==
    \A c \in Cpu :
        /\ intr[c] = "tick" => tickslock = c
        /\ intr[c] = "yield" => cpuproc[c] # None /\ tickslock # c
        /\ intr[c] # "none" =>
               /\ lock # c
               /\ cpuproc[c] # None => /\ state[cpuproc[c]] = "RUNNING"
                                      /\ resume[cpuproc[c]] = "none"

\* tickslock is held by the tick or by a process between its test and sleep().
TicksLockInv ==
    \A c \in Cpu :
        tickslock = c =>
            \/ intr[c] = "tick"
            \/ /\ intr[c] = "none"
               /\ cpuproc[c] # None
               /\ state[cpuproc[c]] = "RUNNING"
               /\ resume[cpuproc[c]] = "none"
               /\ pc[cpuproc[c]] \in {"sleep", "dosleep"}

\* Slots without a live process are at no point of the kernel that matters;
\* a forked child is linked to its parent before it is made RUNNABLE.
ForkInv ==
    /\ \A p \in Proc : state[p] \in {"UNUSED", "EMBRYO", "ZOMBIE"} => pc[p] \in {"user", "exit"}
    /\ \A p \in Proc : pc[p] = "forkready" => parent[np[p]] = p
    /\ \A p \in Proc : pc[p] = "forkcopy" => parent[np[p]] = None
    /\ \A p \in Proc : state[p] = "UNUSED" => parent[p] = None

\* A process between its test and sleep() still has time left, and holds
\* tickslock so that no tick can pass.
SleepInv ==
    \A p \in Proc :
        /\ pc[p] = "sleep" => resume[p] = "none"
        /\ pc[p] = "dosleep" => resume[p] \in {"none", "sleep"}
        /\ resume[p] = "sleep" => pc[p] = "dosleep"
        /\ pc[p] \in {"sleep", "dosleep"} /\ resume[p] = "none" =>
               /\ state[p] = "RUNNING"
               /\ tickslock # NoCpu
               /\ cpuproc[tickslock] = p /\ intr[tickslock] = "none"
        /\ pc[p] = "dosleep" /\ resume[p] = "none" => left[p] > 0

InitAlive ==
    /\ state[initproc] \notin {"UNUSED", "EMBRYO", "ZOMBIE"}
    /\ pc[initproc] # "exit"
    /\ parent[initproc] = None
    /\ \A p \in Proc : parent[p] # p

PidInv ==
    \A p \in Proc : pid[p] < nextpid

IInv ==
    /\ TypeOK
    /\ OneCpuPerProc
    /\ SchedHoldsOnlyPtable
    /\ IntrInv
    /\ TicksLockInv
    /\ EmbryoOwned
    /\ NoEmbryoLeak
    /\ ForkInv
    /\ SleepInv
    /\ NoMissedTick
    /\ InitAlive
    /\ ParentsAlive
    /\ NoMissedChildExit
    /\ PidInv
    /\ UniquePid
=============================================================================
