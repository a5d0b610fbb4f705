-------------------------------- MODULE Mlfq --------------------------------
(***************************************************************************)
(* The multi-level feedback queue of lab2/proc.c: mlfqsched and            *)
(* adjustPriority, the fields of struct proc they use, setpriority and     *)
(* what allocproc does to these fields.  The module adds them to ProcTable *)
(* and so restricts which process SchedRun may pick.                       *)
(*                                                                         *)
(* Absolute times become differences, so that the model is finite: ran is  *)
(* ticks - time_in, cut off at DEFAULT_BUDGET (from there on the budget is *)
(* used up whatever it was), and promoteIn is PromoteAtTime - ticks, cut   *)
(* off at 0 (the promotion is due).  The statistic p->ticks is left out.   *)
(***************************************************************************)
EXTENDS ProcTable

CONSTANTS
    MAXPRIORITY,
    DEFAULT_BUDGET,
    TICKS_TO_PROMOTE,
    PriorityArgs    \* the priorities programs pass to setpriority()

ASSUME MlfqAssumption ==
    /\ MAXPRIORITY \in Nat
    /\ DEFAULT_BUDGET \in Nat \ {0}
    /\ TICKS_TO_PROMOTE \in Nat \ {0}
    /\ PriorityArgs \subseteq Int

VARIABLES
    priority,    \* p->priority
    budget,      \* p->budget
    promoteIn,   \* ptable.PromoteAtTime - ticks
    level,       \* current_priority of mlfqsched on each processor
    found,       \* count # 0
    slot,        \* the loop variable p
    ran,         \* ticks - time_in
    dispatched   \* history, not in the code: the processor switched to some
                 \* process since it entered the loop over the levels

schedVars == <<level, found, slot, ran, dispatched>>
fieldVars == <<priority, budget>>
mlfqVars == <<vars, fieldVars, promoteIn, schedVars>>

Priorities == 0..MAXPRIORITY

\* Every priority is a level that the scheduler looks at.
MlfqTypeOK ==
    /\ priority \in [Proc -> Priorities]
    /\ budget \in [Proc -> 0..DEFAULT_BUDGET]
    /\ promoteIn \in 0..TICKS_TO_PROMOTE
    /\ level \in [Cpu -> Priorities]
    /\ found \in [Cpu -> BOOLEAN]
    /\ slot \in [Cpu -> 1..(NPROC + 1)]
    /\ ran \in [Cpu -> 0..DEFAULT_BUDGET]
    /\ dispatched \in [Cpu -> BOOLEAN]

\* After userinit, whose allocproc has set the fields of init; the table is
\* zero otherwise.
MlfqInit ==
    /\ Init
    /\ priority = [p \in Proc |-> IF p = initproc THEN MAXPRIORITY ELSE 0]
    /\ budget = [p \in Proc |-> IF p = initproc THEN DEFAULT_BUDGET ELSE 0]
    /\ promoteIn = TICKS_TO_PROMOTE
    /\ level = [c \in Cpu |-> MAXPRIORITY]
    /\ found = [c \in Cpu |-> FALSE]
    /\ slot = [c \in Cpu |-> 1]
    /\ ran = [c \in Cpu |-> 0]
    /\ dispatched = [c \in Cpu |-> FALSE]

-----------------------------------------------------------------------------
\* allocproc resets the priority and the budget.
MlfqAlloc(c, new) ==
    /\ ForkAlloc(c, new)
    /\ priority' = [priority EXCEPT ![new] = MAXPRIORITY]
    /\ budget' = [budget EXCEPT ![new] = DEFAULT_BUDGET]
    /\ UNCHANGED <<promoteIn, schedVars>>

\* setpriority(k, v) sets the first slot t with pid k.  A priority out of
\* range is refused after ptable.lock was taken, and the lock is not released.
setpriority(c, t, k, v) ==
    LET valid == v \in Priorities
    IN  /\ InSyscall(c) /\ lock = NoCpu
        /\ valid => IsFirst(t, {q \in Proc : pid[q] = k})
        /\ priority' = [priority EXCEPT ![t] = IF valid THEN v ELSE @]
        /\ budget' = [budget EXCEPT ![t] = IF valid THEN DEFAULT_BUDGET ELSE @]
        /\ lock' = IF valid THEN NoCpu ELSE c
        /\ UNCHANGED <<procVars, chan, pc, resume, np, left, cpuproc, intr,
                       tickslock, promoteIn, schedVars>>

\* The tick is also counted for time_in and PromoteAtTime.
MlfqTick(c) ==
    /\ TimerTick(c)
    /\ ran' = [d \in Cpu |-> IF ran[d] < DEFAULT_BUDGET THEN ran[d] + 1 ELSE ran[d]]
    /\ promoteIn' = IF promoteIn > 0 THEN promoteIn - 1 ELSE 0
    /\ UNCHANGED <<fieldVars, level, found, slot, dispatched>>

-----------------------------------------------------------------------------
(* mlfqsched                                                               *)

MlfqAcquire(c) ==
    /\ SchedAcquire(c)
    /\ level' = [level EXCEPT ![c] = MAXPRIORITY]
    /\ found' = [found EXCEPT ![c] = FALSE]
    /\ slot' = [slot EXCEPT ![c] = 1]
    /\ dispatched' = [dispatched EXCEPT ![c] = FALSE]
    /\ UNCHANGED <<fieldVars, promoteIn, ran>>

\* Mutant: the first slot is not looked at.
AtLevelAfter(c) ==
    {q \in Proc : q > slot[c] /\ state[q] = "RUNNABLE" /\ priority[q] = level[c]}

AtLevel(c) ==
    {q \in Proc : q >= slot[c] /\ state[q] = "RUNNABLE" /\ priority[q] = level[c]}

MlfqRun(c, p) ==
    /\ IsFirst(p, AtLevel(c))
    /\ SchedRun(c, p)
    /\ found' = [found EXCEPT ![c] = TRUE]
    /\ slot' = [slot EXCEPT ![c] = p + 1]
    /\ ran' = [ran EXCEPT ![c] = 0]
    /\ dispatched' = [dispatched EXCEPT ![c] = TRUE]
    /\ UNCHANGED <<fieldVars, promoteIn, level>>

\* Mutant: nobody is promoted.
adjustPriorityNever(prio) == prio

\* Mutant: the highest level is not checked for.
adjustPriorityUnbounded(prio) ==
    [q \in Proc |-> IF state[q] # "ZOMBIE" THEN prio[q] + 1 ELSE prio[q]]

\* Every slot but the zombies, used or not, goes up a level.
adjustPriority(prio) ==
    [q \in Proc |-> IF state[q] # "ZOMBIE" /\ prio[q] < MAXPRIORITY
                    THEN prio[q] + 1 ELSE prio[q]]

\* swtch() came back: the budget is charged and, when it is used up, renewed
\* one level down; then a promotion that is due happens.
MlfqDone(c) ==
    LET p == cpuproc[c]
        used == budget[p] - ran[c] <= 0
        prio1 == [priority EXCEPT ![p] = IF used /\ @ > 0 THEN @ - 1 ELSE @]
        budg1 == [budget EXCEPT ![p] = IF used THEN DEFAULT_BUDGET ELSE @ - ran[c]]
        prio2 == IF promoteIn = 0 THEN adjustPriority(prio1) ELSE prio1
    IN  /\ SchedDone(c)
        /\ priority' = prio2
        /\ budget' = [q \in Proc |-> IF prio2[q] > prio1[q] THEN DEFAULT_BUDGET
                                                          ELSE budg1[q]]
        /\ promoteIn' = IF promoteIn = 0 THEN TICKS_TO_PROMOTE ELSE promoteIn
        /\ UNCHANGED schedVars

\* The end of the table: once more over this level if some process ran.
MlfqAgain(c) ==
    /\ cpuproc[c] = None /\ lock = c /\ AtLevel(c) = {}
    /\ found[c] \/ level[c] > 0
    /\ found' = [found EXCEPT ![c] = FALSE]
    /\ slot' = [slot EXCEPT ![c] = 1]
    /\ level' = [level EXCEPT ![c] = IF found[c] THEN @ ELSE @ - 1]
    /\ UNCHANGED <<vars, fieldVars, promoteIn, ran, dispatched>>

MlfqRelease(c) ==
    /\ AtLevel(c) = {} /\ ~found[c] /\ level[c] = 0
    /\ SchedRelease(c)
    /\ UNCHANGED <<fieldVars, promoteIn, schedVars>>

MlfqSched(c) ==
    \/ MlfqAcquire(c)
    \/ \E p \in Proc : MlfqRun(c, p)
    \/ MlfqDone(c)
    \/ MlfqAgain(c)
    \/ MlfqRelease(c)

MlfqNext ==
    \E c \in Cpu :
        \/ \E new \in Proc : MlfqAlloc(c, new)
        \/ ProcStep(c) /\ UNCHANGED <<fieldVars, promoteIn, schedVars>>
        \/ \E t \in Proc, k \in KillArgs, v \in PriorityArgs : setpriority(c, t, k, v)
        \/ MlfqTick(c)
        \/ MlfqSched(c)

MlfqSpec == MlfqInit /\ [][MlfqNext]_mlfqVars

\* The fairness of ProcTable's threads and interrupts and of the scheduler;
\* see RoundRobin for why it is strong.
Frozen == UNCHANGED <<fieldVars, promoteIn, schedVars>>
MlfqFairness ==
    \A c \in Cpu :
        /\ \A p \in Proc : SF_mlfqVars(cpuproc[c] = p /\ ThreadStep(c) /\ Frozen)
        /\ SF_mlfqVars(MlfqSched(c))
        /\ WF_mlfqVars(IntrStep(c) /\ Frozen)
        /\ SF_mlfqVars(MlfqTick(c))

MlfqFairSpec == MlfqSpec /\ MlfqFairness

-----------------------------------------------------------------------------
(* Properties                                                              *)

\* mlfqsched() overlooks nobody: when it ends its loop over the levels without
\* having switched to any process, no process is RUNNABLE.
WorkConserving ==
    [][\A c \in Cpu :
           /\ cpuproc[c] = None /\ lock = c /\ lock' = NoCpu
           /\ ~dispatched[c]
           => \A p \in Proc : state[p] # "RUNNABLE"]_mlfqVars

\* All processes but one use up their budgets between two promotions.
LevelsEmpty == (NPROC - 1) * DEFAULT_BUDGET < TICKS_TO_PROMOTE

\* Some setpriority() moves a process.
Moved ==
    \E c \in Cpu, t \in Proc, k \in KillArgs, v \in PriorityArgs :
        setpriority(c, t, k, v)

\* Nobody starves, although mlfqsched() does not look at the levels above as
\* long as there is something to run at its level: demotion empties the level,
\* unless promotion fills it again before it is empty, or programs do so by
\* calling setpriority() for ever.
MlfqEveryoneRuns ==
    LevelsEmpty =>
        \/ []<><<Moved>>_mlfqVars
        \/ \A p \in Proc : state[p] = "RUNNABLE" ~> state[p] = "RUNNING"

\* What trap() relies on when it lets the timer preempt: "If interrupts were on
\* while locks held, would need to check nlock."  Interrupts are on in user
\* mode, so a process must not be there with a lock held.
NoLockInUserMode ==
    \A c \in Cpu : At(c, "user") => lock # c /\ tickslock # c

-----------------------------------------------------------------------------
\* What makes WorkConserving inductive: what a scheduler that has not yet
\* switched to anybody may still find lies ahead of it, at its level or below.
AheadInv ==
    \A c \in Cpu :
        ~dispatched[c] =>
            /\ ~found[c] /\ cpuproc[c] = None
            /\ lock = c =>
                   \A p \in Proc : state[p] = "RUNNABLE" =>
                       \/ priority[p] < level[c]
                       \/ priority[p] = level[c] /\ slot[c] <= p
=============================================================================
