------------------------------ MODULE Spinlock ------------------------------
(***************************************************************************)
(* Spin locks and interrupts of lab2: spinlock.c (acquire, release,        *)
(* pushcli, popcli), the part of sched() and of the scheduler that carries *)
(* ncli and intena across swtch, and the timer interrupt.                  *)
(*                                                                         *)
(* The kernel code that a thread has still to execute is a sequence of     *)
(* instructions: the lock operations, the switches, and what the modules   *)
(* that use this one add.  Code between two instructions touches no lock.  *)
(***************************************************************************)
EXTENDS Integers, Sequences

CONSTANTS Proc, NoProc, NCPU, Lock

Cpu == 0..(NCPU - 1)
NoCpu == -1
ptable == "ptable"      \* ptable.lock

ASSUME SpinlockAssumption == NCPU \in Nat \ {0} /\ ptable \in Lock /\ NoProc \notin Proc

VARIABLES
    IF_,        \* FL_IF of each processor: it takes interrupts
    ncli, intena,   \* of struct cpu
    holder,     \* lk->cpu, NoCpu when the lock is free
    cur,        \* c->proc, NoProc in the scheduler
    state,      \* p->state
    saved,      \* the local intena of sched()
    code,       \* what the kernel thread of a process has to execute
    scode,      \* the same of the scheduler of each processor
    hcode       \* the same of a device interrupt served by the processor

cliVars == <<IF_, ncli, intena>>
spinVars == <<IF_, ncli, intena, holder, cur, state, saved, code, scode, hcode>>

Acquire(l) == [op |-> "acquire", lock |-> l]
Spin(l) == [op |-> "spin", lock |-> l]      \* acquire() past its pushcli()
Release(l) == [op |-> "release", lock |-> l]
Op(name) == [op |-> name]

-----------------------------------------------------------------------------
(* Execution of the next instruction of processor c                        *)

Handling(c) == hcode[c] # <<>>
Thread(c) == IF Handling(c) THEN hcode[c] ELSE IF cur[c] # NoProc THEN code[cur[c]]
                                               ELSE scode[c]

At(c, op) == Thread(c) # <<>> /\ Head(Thread(c)).op = op

\* The thread executing on c goes on with the instructions s.
GoOn(c, s) ==
    /\ hcode' = IF Handling(c) THEN [hcode EXCEPT ![c] = s] ELSE hcode
    /\ code' = IF ~Handling(c) /\ cur[c] # NoProc THEN [code EXCEPT ![cur[c]] = s] ELSE code
    /\ scode' = IF ~Handling(c) /\ cur[c] = NoProc THEN [scode EXCEPT ![c] = s] ELSE scode

pushcli(c) ==
    /\ IF_' = [IF_ EXCEPT ![c] = FALSE]
    /\ intena' = IF ncli[c] = 0 THEN [intena EXCEPT ![c] = IF_[c]] ELSE intena
    /\ ncli' = [ncli EXCEPT ![c] = @ + 1]

\* Mutant: interrupts come on with the first of two nested locks.
popcliEarly(c) ==
    /\ ncli' = [ncli EXCEPT ![c] = @ - 1]
    /\ IF_' = [IF_ EXCEPT ![c] = @ \/ intena[c]]
    /\ UNCHANGED intena

popcli(c) ==
    /\ ncli' = [ncli EXCEPT ![c] = @ - 1]
    /\ IF_' = [IF_ EXCEPT ![c] = @ \/ (ncli[c] = 1 /\ intena[c])]
    /\ UNCHANGED intena

\* Takes the lock at once or, past its pushcli(), begins to spin.
acquire(c) ==
    LET l == Head(Thread(c)).lock
        free == holder[l] = NoCpu
    IN  /\ At(c, "acquire")
        /\ pushcli(c)
        /\ holder' = IF free THEN [holder EXCEPT ![l] = c] ELSE holder
        /\ GoOn(c, IF free THEN Tail(Thread(c)) ELSE <<Spin(l)>> \o Tail(Thread(c)))
        /\ UNCHANGED <<cur, state, saved>>

\* The xchg of a spinning acquire() that finds the lock free.
xchg(c) ==
    LET l == Head(Thread(c)).lock
    IN  /\ At(c, "spin") /\ holder[l] = NoCpu
        /\ holder' = [holder EXCEPT ![l] = c]
        /\ GoOn(c, Tail(Thread(c)))
        /\ UNCHANGED <<cliVars, cur, state, saved>>

release(c) ==
    LET l == Head(Thread(c)).lock
    IN  /\ At(c, "release") /\ holder[l] = c
        /\ holder' = [holder EXCEPT ![l] = NoCpu]
        /\ popcli(c)
        /\ GoOn(c, Tail(Thread(c)))
        /\ UNCHANGED <<cur, state, saved>>

\* sched(): the scheduler of c goes on.  The instruction names the new state.
sched(c) ==
    LET p == cur[c]
    IN  /\ p # NoProc /\ ~Handling(c) /\ (At(c, "RUNNABLE") \/ At(c, "SLEEPING"))
        /\ state' = [state EXCEPT ![p] = Head(code[p]).op]
        /\ saved' = [saved EXCEPT ![p] = intena[c]]
        /\ cur' = [cur EXCEPT ![c] = NoProc]
        /\ GoOn(c, Tail(code[p]))
        /\ UNCHANGED <<cliVars, holder>>

\* Mutant: intena stays the one of the processor.
restoreNot(c) ==
    /\ At(c, "restore")
    /\ saved' = [saved EXCEPT ![cur[c]] = FALSE]
    /\ GoOn(c, Tail(Thread(c)))
    /\ UNCHANGED <<cliVars, holder, cur, state>>

\* The end of sched(), on the processor the process is resumed on.
restore(c) ==
    /\ At(c, "restore")
    /\ intena' = [intena EXCEPT ![c] = saved[cur[c]]]
    /\ saved' = [saved EXCEPT ![cur[c]] = FALSE]
    /\ GoOn(c, Tail(Thread(c)))
    /\ UNCHANGED <<IF_, ncli, holder, cur, state>>

\* The return from a trap: the flags of the interrupted code had FL_IF set.
iret(c) ==
    /\ At(c, "iret") \/ At(c, "sysret")
    /\ IF_' = [IF_ EXCEPT ![c] = TRUE]
    /\ GoOn(c, Tail(Thread(c)))
    /\ UNCHANGED <<ncli, intena, holder, cur, state, saved>>

-----------------------------------------------------------------------------
(* The scheduler; which RUNNABLE process it takes is left open             *)

SchedLoop == <<Acquire(ptable), Op("pick")>>

\* The process takes over ptable.lock; sched() will come back to this point.
pick(c, p) ==
    /\ At(c, "pick") /\ state[p] = "RUNNABLE"
    /\ state' = [state EXCEPT ![p] = "RUNNING"]
    /\ cur' = [cur EXCEPT ![c] = p]
    /\ UNCHANGED <<cliVars, holder, saved, code, scode, hcode>>

\* The end of the table: release() and the sti() of the next turn.
pickNone(c) ==
    /\ At(c, "pick")
    /\ holder' = [holder EXCEPT ![ptable] = NoCpu]
    /\ ncli' = [ncli EXCEPT ![c] = @ - 1]
    /\ IF_' = [IF_ EXCEPT ![c] = TRUE]
    /\ UNCHANGED intena
    /\ GoOn(c, SchedLoop)
    /\ UNCHANGED <<cur, state, saved>>

-----------------------------------------------------------------------------
\* yield(), called by trap() for the timer: any code of a process that runs
\* with interrupts on may be cut here.
yield == <<Acquire(ptable), Op("RUNNABLE"), Op("restore"), Release(ptable)>>

timer(c) ==
    /\ IF_[c] /\ ~Handling(c) /\ cur[c] # NoProc
    /\ IF_' = [IF_ EXCEPT ![c] = FALSE]
    /\ code' = [code EXCEPT ![cur[c]] = yield \o <<Op("iret")>> \o @]
    /\ UNCHANGED <<ncli, intena, holder, cur, state, saved, scode, hcode>>

\* After userinit and fork, a process starts in forkret(); the schedulers have
\* just enabled interrupts.
SpinInit ==
    /\ IF_ = [c \in Cpu |-> TRUE]
    /\ ncli = [c \in Cpu |-> 0] /\ intena = [c \in Cpu |-> FALSE]
    /\ holder = [l \in Lock |-> NoCpu]
    /\ cur = [c \in Cpu |-> NoProc]
    /\ state = [p \in Proc |-> "RUNNABLE"]
    /\ saved = [p \in Proc |-> FALSE]
    /\ code = [p \in Proc |-> <<Release(ptable), Op("iret")>>]
    /\ scode = [c \in Cpu |-> SchedLoop]
    /\ hcode = [c \in Cpu |-> <<>>]

SpinStep(c) ==
    \/ acquire(c) \/ xchg(c) \/ release(c) \/ sched(c) \/ restore(c) \/ iret(c)
    \/ pickNone(c) \/ timer(c)
    \/ \E p \in Proc : pick(c, p)

-----------------------------------------------------------------------------
(* Properties                                                              *)

Spins(c, l) == At(c, "spin") /\ Head(Thread(c)).lock = l

\* Interrupts are off while a lock is held or waited for, so that no handler
\* spins on a lock of the code it interrupted; ncli counts exactly these, also
\* after ptable.lock was handed over in swtch; and no processor waits for a
\* lock it holds (the panics of acquire(), release(), popcli() and sched()).
LocksMaskInterrupts ==
    \A c \in Cpu :
        LET held == {l \in Lock : holder[l] = c}
            waits == {l \in Lock : Spins(c, l)}
        IN  /\ held \cap waits = {}
            /\ ncli[c] > 0 => ~IF_[c]
            /\ \A l \in Lock : At(c, "release") /\ Head(Thread(c)).lock = l => l \in held
            /\ (ncli[c] = 0) = (held \cup waits = {})
            /\ (ncli[c] = 1) = (\E l \in Lock : held \cup waits = {l})
            /\ At(c, "RUNNABLE") \/ At(c, "SLEEPING") => held = {ptable}

\* What the comment of sched() says, "intena is a property of this kernel
\* thread, not this CPU": a system call that has slept, perhaps resumed on
\* another processor, ends with interrupts on as it began.
IntenaFollowsThread == \A c \in Cpu : At(c, "sysret") => IF_[c]
=============================================================================
