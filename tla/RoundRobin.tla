----------------------------- MODULE RoundRobin -----------------------------
(***************************************************************************)
(* scheduler() of lab2/proc.c: every processor scans the process table in  *)
(* order and runs what it finds RUNNABLE.  The module adds the scan to     *)
(* ProcTable and so restricts which process SchedRun may pick.             *)
(*                                                                         *)
(* The slots that the scan skips are skipped in the step that finds the    *)
(* next RUNNABLE one: ptable.lock is held meanwhile, and fork(), the only  *)
(* writer of p->state without it, neither makes nor unmakes RUNNABLE.      *)
(***************************************************************************)
EXTENDS ProcTable

VARIABLES
    scan,    \* the loop variable p of scheduler() on each processor
    passed   \* history, not in the code: the <<c, q>> such that processor c
             \* switched to q since p became RUNNABLE
rrVars == <<vars, scan, passed>>

\* The scan stays within the table and the slot after it.
RRTypeOK ==
    /\ scan \in [Cpu -> 1..(NPROC + 1)]
    /\ passed \in [Proc -> SUBSET (Cpu \X Proc)]

RRInit ==
    /\ Init
    /\ scan = [c \in Cpu |-> NPROC + 1]
    /\ passed = [p \in Proc |-> {}]

-----------------------------------------------------------------------------
\* How the history follows a step in which the pairs given were
\* switched to: it is kept while p stays RUNNABLE.
Observe(pairs) ==
    passed' = [p \in Proc |->
                  IF state[p] = "RUNNABLE" /\ state'[p] = "RUNNABLE"
                  THEN passed[p] \cup pairs ELSE {}]

RRAcquire(c) ==
    /\ SchedAcquire(c)
    /\ scan' = [scan EXCEPT ![c] = 1]
    /\ Observe({})

Candidates(c) == {q \in Proc : q >= scan[c] /\ state[q] = "RUNNABLE"}

\* Mutant: every switch starts the scan anew, as with a break out of the loop.
RRRunRestart(c, p) ==
    /\ IsFirst(p, Candidates(c))
    /\ SchedRun(c, p)
    /\ scan' = [scan EXCEPT ![c] = 1]
    /\ Observe({<<c, p>>})

RRRun(c, p) ==
    /\ IsFirst(p, Candidates(c))
    /\ SchedRun(c, p)
    /\ scan' = [scan EXCEPT ![c] = p + 1]
    /\ Observe({<<c, p>>})

\* The scan reaches the end of the table.
RRRelease(c) ==
    /\ Candidates(c) = {}
    /\ SchedRelease(c)
    /\ scan' = [scan EXCEPT ![c] = NPROC + 1]
    /\ Observe({})

RRSched(c) ==
    \/ RRAcquire(c)
    \/ \E p \in Proc : RRRun(c, p)
    \/ SchedDone(c) /\ UNCHANGED scan /\ Observe({})
    \/ RRRelease(c)

RROther(c) ==
    /\ \/ \E new \in Proc : ForkAlloc(c, new)
       \/ ProcStep(c)
       \/ TimerTick(c)
    /\ UNCHANGED scan
    /\ Observe({})

RRNext == \E c \in Cpu : RRSched(c) \/ RROther(c)

RRSpec == RRInit /\ [][RRNext]_rrVars

-----------------------------------------------------------------------------
(* Fairness.  The kernel goes on with what it has begun, but a program need *)
(* not call it.  A timer interrupt stays pending in the local APIC while    *)
(* interrupts are off, so it is taken if they are on again and again.  The  *)
(* timer's period is longer than its handler, so what an interrupt delays   *)
(* (a scheduler, or a process that was preempted in the kernel) goes on     *)
(* when it gets the processor again and again: strong fairness.             *)

Fairness ==
    \A c \in Cpu :
        /\ \A p \in Proc :
               SF_rrVars(cpuproc[c] = p /\ ThreadStep(c) /\ UNCHANGED scan /\ Observe({}))
        /\ SF_rrVars(RRSched(c))
        /\ WF_rrVars(IntrStep(c) /\ UNCHANGED scan /\ Observe({}))
        /\ SF_rrVars(TimerTick(c) /\ UNCHANGED scan /\ Observe({}))

RRFairSpec == RRSpec /\ Fairness

-----------------------------------------------------------------------------
(* Properties                                                              *)

\* Round robin: while a process waits to run, no processor runs any other
\* process twice.  A process waits for at most NCPU * (NPROC - 1) turns.
BoundedBypass ==
    [][\A c \in Cpu, p, q \in Proc :
           /\ state[p] = "RUNNABLE" /\ state'[p] = "RUNNABLE"
           /\ cpuproc[c] = None /\ cpuproc'[c] = q
           => <<c, q>> \notin passed[p]]_rrVars

\* scheduler() starves nobody: a RUNNABLE process is switched to.
EveryoneRuns ==
    \A p \in Proc : state[p] = "RUNNABLE" ~> state[p] = "RUNNING"

\* kill() works from wherever the victim is: asleep in wait() or sleep(),
\* inside fork(), waiting for a processor, or in user mode for ever.
KilledExits ==
    \A p \in Proc \ {initproc} :
        killed[p] /\ state[p] \in {"SLEEPING", "RUNNABLE", "RUNNING"}
            ~> state[p] \in {"ZOMBIE", "UNUSED"}

\* sys_sleep() returns, also when it has to sleep for several ticks.
SleepersReturn ==
    \A p \in Proc : pc[p] = "sleep" ~> pc[p] = "user"

-----------------------------------------------------------------------------
(* What makes BoundedBypass inductive: what a processor has already run     *)
(* lies behind its scan, or beyond the process that waits; and a processor  *)
(* that is outside its scan has finished it.                                *)
BypassInv ==
    /\ \A c \in Cpu : cpuproc[c] = None /\ lock # c => scan[c] = NPROC + 1
    /\ \A c \in Cpu, p, q \in Proc :
           <<c, q>> \in passed[p] =>
               \/ q < scan[c] /\ (scan[c] <= p \/ p < q)
               \/ scan[c] <= p /\ p < q
=============================================================================
