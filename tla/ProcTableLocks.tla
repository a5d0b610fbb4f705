--------------------------- MODULE ProcTableLocks ----------------------------
(***************************************************************************)
(* The first part of the proof that IInv is inductive: TypeOK and the      *)
(* conjuncts about processors and the two locks.  There is one lemma per   *)
(* conjunct, with one step per action that can disturb it and one step for *)
(* all the others.                                                         *)
(***************************************************************************)
EXTENDS ProcTable, TLAPS

\* What the proofs use of the numbering of slots, processors and channels: the
\* null values name no slot, processor or channel.
LEMMA Names ==
    /\ None \notin Proc /\ NoCpu \notin Cpu
    /\ TicksChan \notin Proc /\ TicksChan # None
    /\ initproc \in Proc /\ initproc # None /\ 0 \in Cpu
  BY ProcTableAssumption
     DEF Proc, Cpu, None, NoCpu, TicksChan, initproc

USE Names DEF procVars, At, InSyscall, Resumed

\* What exit() does to the table, without the way wakeup1 computes it: it
\* wakes some sleepers, becomes a zombie and keeps ptable.lock.
ExitFacts(c) ==
    /\ cpuproc[c] \in Proc
    /\ At(c, "exit") /\ lock = NoCpu /\ lock' = c
    /\ state' \in [Proc -> ProcState]
    /\ state'[cpuproc[c]] = "ZOMBIE"
    /\ \A q \in Proc : q # cpuproc[c] =>
           \/ state'[q] = state[q]
           \/ state[q] = "SLEEPING" /\ state'[q] = "RUNNABLE"
    /\ parent' = [q \in Proc |-> IF parent[q] = cpuproc[c] THEN initproc ELSE parent[q]]
    /\ UNCHANGED <<pid, nextpid, chan, killed, pc, resume, np, left, cpuproc, intr, tickslock>>

\* exit() has the effect that ExitFacts describes.
LEMMA ExitEffect ==
    ASSUME TypeOK, NEW c \in Cpu, ExitFinish(c)
    PROVE  ExitFacts(c)
<1>1. cpuproc[c] \in Proc
  BY Zenon DEF ExitFinish, TypeOK
<1>2. \A ch : /\ wakeup1(state, ch) \in [Proc -> ProcState]
              /\ \A q \in Proc : \/ wakeup1(state, ch)[q] = state[q]
                                 \/ /\ state[q] = "SLEEPING"
                                    /\ wakeup1(state, ch)[q] = "RUNNABLE"
  BY Zenon DEF wakeup1, TypeOK, ProcState
<1>3. PICK st1 \in [Proc -> ProcState] :
         /\ \A q \in Proc : \/ st1[q] = state[q]
                            \/ state[q] = "SLEEPING" /\ st1[q] = "RUNNABLE"
         /\ \/ state' = [st1 EXCEPT ![cpuproc[c]] = "ZOMBIE"]
            \/ state' = [wakeup1(st1, initproc) EXCEPT ![cpuproc[c]] = "ZOMBIE"]
  BY <1>2, Zenon DEF ExitFinish
<1>4. /\ wakeup1(st1, initproc) \in [Proc -> ProcState]
      /\ \A q \in Proc : \/ wakeup1(st1, initproc)[q] = st1[q]
                         \/ /\ st1[q] = "SLEEPING"
                            /\ wakeup1(st1, initproc)[q] = "RUNNABLE"
  BY <1>3, Zenon DEF wakeup1, ProcState
<1>5. /\ state' \in [Proc -> ProcState]
      /\ state'[cpuproc[c]] = "ZOMBIE"
      /\ \A q \in Proc : q # cpuproc[c] =>
             \/ state'[q] = state[q]
             \/ state[q] = "SLEEPING" /\ state'[q] = "RUNNABLE"
  BY <1>1, <1>3, <1>4 DEF ProcState
<1>6. QED BY <1>1, <1>5, Zenon DEF ExitFinish, ExitFacts


\* Every step keeps the types.
LEMMA TypeOKStep ==
    ASSUME TypeOK, [Next]_vars
    PROVE  TypeOK'
<1>1. ASSUME NEW c \in Cpu, NEW new \in Proc, ForkAlloc(c, new) PROVE TypeOK'
  <2>1. cpuproc[c] \in Proc
    BY <1>1, Zenon DEF ForkAlloc, TypeOK
  <2>2. nextpid' \in Nat /\ pid' \in [Proc -> Nat]
    BY <1>1 DEF ForkAlloc, TypeOK
  <2>3. state' \in [Proc -> ProcState] /\ np' \in [Proc -> Proc \cup {None}]
    BY <1>1, <2>1, Zenon DEF ForkAlloc, TypeOK, ProcState
  <2>4. /\ pc' \in [Proc -> PC]
        /\ resume' \in [Proc -> {"none", "forkret", "yield", "wait", "sleep"}]
    BY <1>1, <2>1, Zenon DEF ForkAlloc, TypeOK, PC
  <2>5. QED BY <1>1, <2>2, <2>3, <2>4, Zenon DEF ForkAlloc, TypeOK
<1>2. ASSUME NEW c \in Cpu, ForkFail(c) PROVE TypeOK'
  BY <1>2, Zenon DEF ForkFail, PC, ProcState, TypeOK
<1>3. ASSUME NEW c \in Cpu, ForkCopy(c) PROVE TypeOK'
  BY <1>3, Zenon DEF ForkCopy, PC, TypeOK
<1>4. ASSUME NEW c \in Cpu, ForkReady(c) PROVE TypeOK'
  BY <1>4, Zenon DEF ForkReady, PC, ProcState, TypeOK
<1>5. ASSUME NEW c \in Cpu, ExitStart(c) PROVE TypeOK'
  BY <1>5, Zenon DEF ExitStart, ExitPoint, PC, ProcState, TypeOK
<1>6. ASSUME NEW c \in Cpu, Fault(c) PROVE TypeOK'
  BY <1>6, Zenon DEF Fault, ExitPoint, PC, ProcState, TypeOK
<1>7. ASSUME NEW c \in Cpu, ExitFinish(c) PROVE TypeOK'
  <2>1. ExitFacts(c)
    BY <1>7, ExitEffect, Zenon
  <2>2. QED BY <2>1, Zenon DEF ExitFacts, TypeOK
<1>8. ASSUME NEW c \in Cpu, NEW z \in Proc, WaitReap(c, z) PROVE TypeOK'
  BY <1>8, Zenon DEF WaitReap, WaitScan, ZombieChildren, Children, IsFirst, PC,
     ProcState, TypeOK
<1>9. ASSUME NEW c \in Cpu, WaitFail(c) PROVE TypeOK'
  BY <1>9, Zenon DEF WaitFail, WaitScan, PC, ProcState, TypeOK
<1>10. ASSUME NEW c \in Cpu, WaitSleep(c) PROVE TypeOK'
  BY <1>10, Zenon DEF WaitSleep, WaitScan, PC, ProcState, TypeOK
<1>11. ASSUME NEW c \in Cpu, NEW k \in KillArgs, NEW t \in Proc, Kill(c, k, t)
      PROVE  TypeOK'
  BY <1>11, Zenon DEF Kill, IsFirst, PC, ProcState, TypeOK
<1>12. ASSUME NEW c \in Cpu, NEW n \in SleepArgs, SleepStart(c, n)
      PROVE  TypeOK'
  BY <1>12, ProcTableAssumption, Zenon DEF SleepStart, PC, TypeOK
<1>13. ASSUME NEW c \in Cpu, SleepCheck(c) PROVE TypeOK'
  BY <1>13, Zenon DEF SleepCheck, PC, ProcState, TypeOK
<1>14. ASSUME NEW c \in Cpu, SleepBlock(c) PROVE TypeOK'
  BY <1>14, Zenon DEF SleepBlock, PC, ProcState, TypeOK
<1>15. ASSUME NEW c \in Cpu, SleepReturn(c) PROVE TypeOK'
  BY <1>15, Zenon DEF SleepReturn, PC, ProcState, TypeOK
<1>16. ASSUME NEW c \in Cpu, SleepRelock(c) PROVE TypeOK'
  BY <1>16, Zenon DEF SleepRelock, PC, ProcState, TypeOK
<1>17. ASSUME NEW c \in Cpu, TimerTick(c) PROVE TypeOK'
  BY <1>17 DEF TimerTick, IntrOn, PC, ProcState, TypeOK
<1>18. ASSUME NEW c \in Cpu, TickWakeup(c) PROVE TypeOK'
  BY <1>18, Zenon DEF TickWakeup, wakeup1, PC, ProcState, TypeOK
<1>19. ASSUME NEW c \in Cpu, TimerOther(c) PROVE TypeOK'
  BY <1>19, Zenon DEF TimerOther, IntrOn, PC, ProcState, TypeOK
<1>20. ASSUME NEW c \in Cpu, TimerExit(c) PROVE TypeOK'
  BY <1>20, Zenon DEF TimerExit, ExitPoint, PC, TypeOK
<1>21. ASSUME NEW c \in Cpu, Yield(c) PROVE TypeOK'
  BY <1>21, Zenon DEF Yield, ProcState, TypeOK
<1>22. ASSUME NEW c \in Cpu, YieldReturn(c) PROVE TypeOK'
  BY <1>22, Zenon DEF YieldReturn, PC, ProcState, TypeOK
<1>23. ASSUME NEW c \in Cpu, SchedAcquire(c) PROVE TypeOK'
  BY <1>23, Zenon DEF SchedAcquire, PC, ProcState, TypeOK
<1>24. ASSUME NEW c \in Cpu, NEW p \in Proc, SchedRun(c, p) PROVE TypeOK'
  BY <1>24, Zenon DEF SchedRun, PC, ProcState, TypeOK
<1>25. ASSUME NEW c \in Cpu, SchedDone(c) PROVE TypeOK'
  BY <1>25, Zenon DEF SchedDone, PC, ProcState, TypeOK
<1>26. ASSUME NEW c \in Cpu, SchedRelease(c) PROVE TypeOK'
  BY <1>26, Zenon DEF SchedRelease, PC, ProcState, TypeOK
<1>27. CASE UNCHANGED vars
  BY <1>27, Zenon DEF vars, PC, ProcState, TypeOK
<1> QED BY <1>1, <1>2, <1>3, <1>4, <1>5, <1>6, <1>7, <1>8, <1>9, <1>10, <1>11,
       <1>12, <1>13, <1>14, <1>15, <1>16, <1>17, <1>18, <1>19, <1>20, <1>21,
       <1>22, <1>23, <1>24, <1>25, <1>26, <1>27, Zenon DEF Next, ProcStep

\* A scheduler only takes a RUNNABLE process, and a processor that still has
\* a RUNNABLE process holds ptable.lock, which the scheduler has.
LEMMA NoSharedProcStep ==
    ASSUME TypeOK, LockedUntilSwitched, NoSharedProc, [Next]_vars
    PROVE  NoSharedProc'
<1>1. ASSUME NEW c \in Cpu, NEW p \in Proc, SchedRun(c, p) PROVE NoSharedProc'
  BY <1>1, Zenon DEF SchedRun, TypeOK, LockedUntilSwitched, NoSharedProc
<1>2. ASSUME NEW c \in Cpu, SchedDone(c) PROVE NoSharedProc'
  BY <1>2, Zenon DEF SchedDone, TypeOK, LockedUntilSwitched, NoSharedProc
<1>3. ASSUME NEW c \in Cpu,
              \/ (\E new \in Proc : ForkAlloc(c, new)) \/ ForkFail(c)
              \/ ForkCopy(c)
              \/ ForkReady(c) \/ ExitStart(c) \/ Fault(c)
              \/ ExitFinish(c) \/ (\E z \in Proc : WaitReap(c, z))
              \/ WaitFail(c)
              \/ WaitSleep(c)
              \/ (\E k \in KillArgs, t \in Proc : Kill(c, k, t))
              \/ (\E n \in SleepArgs : SleepStart(c, n))
              \/ SleepCheck(c) \/ SleepBlock(c) \/ SleepReturn(c)
              \/ SleepRelock(c) \/ TimerTick(c) \/ TickWakeup(c)
              \/ TimerOther(c) \/ TimerExit(c) \/ Yield(c)
              \/ YieldReturn(c) \/ SchedAcquire(c) \/ SchedRelease(c)
      PROVE  NoSharedProc'
  <2>1. UNCHANGED <<cpuproc>>
    BY <1>3, Zenon DEF ForkAlloc, ForkFail, ForkCopy, ForkReady, ExitStart,
       Fault, ExitFinish, WaitReap, WaitFail, WaitSleep, Kill, SleepStart,
       SleepCheck, SleepBlock, SleepReturn, SleepRelock, TimerTick,
       TickWakeup, TimerOther, TimerExit, Yield, YieldReturn, SchedAcquire,
       SchedRelease
  <2>2. QED BY <2>1, Zenon DEF NoSharedProc
<1>4. CASE UNCHANGED vars
  BY <1>4, Zenon DEF vars, NoSharedProc
<1> QED BY <1>1, <1>2, <1>3, <1>4, Zenon DEF Next, ProcStep

\* RUNNING is set with c->proc and given up before c->proc = 0.
LEMMA RunningHasCpuStep ==
    ASSUME TypeOK, RunningHasCpu, [Next]_vars
    PROVE  RunningHasCpu'
<1>1. ASSUME NEW c \in Cpu, NEW new \in Proc, ForkAlloc(c, new)
      PROVE  RunningHasCpu'
  BY <1>1, Zenon DEF ForkAlloc, IsFirst, TypeOK, RunningHasCpu
<1>2. ASSUME NEW c \in Cpu, ForkFail(c) PROVE RunningHasCpu'
  BY <1>2, Zenon DEF ForkFail, TypeOK, RunningHasCpu
<1>3. ASSUME NEW c \in Cpu, ForkReady(c) PROVE RunningHasCpu'
  BY <1>3, Zenon DEF ForkReady, TypeOK, RunningHasCpu
<1>4. ASSUME NEW c \in Cpu, ExitFinish(c) PROVE RunningHasCpu'
  <2>1. ExitFacts(c)
    BY <1>4, ExitEffect, Zenon
  <2>2. QED BY <2>1 DEF ExitFacts, RunningHasCpu, TypeOK
<1>5. ASSUME NEW c \in Cpu, NEW z \in Proc, WaitReap(c, z)
      PROVE  RunningHasCpu'
  BY <1>5, Zenon DEF WaitReap, WaitScan, ZombieChildren, Children, IsFirst, TypeOK,
     RunningHasCpu
<1>6. ASSUME NEW c \in Cpu, WaitSleep(c) PROVE RunningHasCpu'
  BY <1>6, Zenon DEF WaitSleep, WaitScan, TypeOK, RunningHasCpu
<1>7. ASSUME NEW c \in Cpu, NEW k \in KillArgs, NEW t \in Proc, Kill(c, k, t)
      PROVE  RunningHasCpu'
  BY <1>7 DEF Kill, IsFirst, TypeOK, RunningHasCpu
<1>8. ASSUME NEW c \in Cpu, SleepBlock(c) PROVE RunningHasCpu'
  BY <1>8, Zenon DEF SleepBlock, TypeOK, RunningHasCpu
<1>9. ASSUME NEW c \in Cpu, TickWakeup(c) PROVE RunningHasCpu'
  BY <1>9, Zenon DEF TickWakeup, wakeup1, TypeOK, RunningHasCpu
<1>10. ASSUME NEW c \in Cpu, Yield(c) PROVE RunningHasCpu'
  BY <1>10, Zenon DEF Yield, TypeOK, RunningHasCpu
<1>11. ASSUME NEW c \in Cpu, NEW p \in Proc, SchedRun(c, p)
      PROVE  RunningHasCpu'
  BY <1>11 DEF SchedRun, TypeOK, RunningHasCpu
<1>12. ASSUME NEW c \in Cpu, SchedDone(c) PROVE RunningHasCpu'
  BY <1>12, Zenon DEF SchedDone, TypeOK, RunningHasCpu
<1>13. ASSUME NEW c \in Cpu,
              \/ ForkCopy(c) \/ ExitStart(c) \/ Fault(c)
              \/ WaitFail(c) \/ (\E n \in SleepArgs : SleepStart(c, n))
              \/ SleepCheck(c)
              \/ SleepReturn(c) \/ SleepRelock(c) \/ TimerTick(c)
              \/ TimerOther(c) \/ TimerExit(c) \/ YieldReturn(c)
              \/ SchedAcquire(c) \/ SchedRelease(c)
      PROVE  RunningHasCpu'
  <2>1. UNCHANGED <<state, cpuproc>>
    BY <1>13, Zenon DEF ForkCopy, ExitStart, Fault, WaitFail, SleepStart,
       SleepCheck, SleepReturn, SleepRelock, TimerTick, TimerOther, TimerExit,
       YieldReturn, SchedAcquire, SchedRelease
  <2>2. QED BY <2>1, Zenon DEF RunningHasCpu
<1>14. CASE UNCHANGED vars
  BY <1>14, Zenon DEF vars, RunningHasCpu
<1> QED BY <1>1, <1>2, <1>3, <1>4, <1>5, <1>6, <1>7, <1>8, <1>9, <1>10, <1>11,
       <1>12, <1>13, <1>14, Zenon DEF Next, ProcStep

\* ptable.lock stays with the processor across swtch, in both directions.
LEMMA LockedUntilSwitchedStep ==
    ASSUME TypeOK, LockedUntilSwitched, EmbryoOwned, IntrInv, NoSharedProc,
           [Next]_vars
    PROVE  LockedUntilSwitched'
<1>1. ASSUME NEW c \in Cpu, NEW new \in Proc, ForkAlloc(c, new)
      PROVE  LockedUntilSwitched'
  BY <1>1 DEF ForkAlloc, IsFirst, Forking, TypeOK, LockedUntilSwitched,
     EmbryoOwned, IntrInv, NoSharedProc
<1>2. ASSUME NEW c \in Cpu, ForkFail(c) PROVE LockedUntilSwitched'
  BY <1>2 DEF ForkFail, Forking, TypeOK, LockedUntilSwitched, EmbryoOwned,
     IntrInv, NoSharedProc
<1>3. ASSUME NEW c \in Cpu, ForkReady(c) PROVE LockedUntilSwitched'
  BY <1>3 DEF ForkReady, Forking, TypeOK, LockedUntilSwitched, EmbryoOwned,
     IntrInv, NoSharedProc
<1>4. ASSUME NEW c \in Cpu, ExitFinish(c) PROVE LockedUntilSwitched'
  <2>1. ExitFacts(c)
    BY <1>4, ExitEffect, Zenon
  <2>2. QED BY <2>1 DEF ExitFacts, LockedUntilSwitched, TypeOK, NoSharedProc
<1>5. ASSUME NEW c \in Cpu, NEW z \in Proc, WaitReap(c, z)
      PROVE  LockedUntilSwitched'
  BY <1>5 DEF WaitReap, WaitScan, ZombieChildren, Children, IsFirst, Forking,
     TypeOK, LockedUntilSwitched, EmbryoOwned, IntrInv, NoSharedProc
<1>6. ASSUME NEW c \in Cpu, WaitFail(c) PROVE LockedUntilSwitched'
  BY <1>6 DEF WaitFail, WaitScan, Forking, TypeOK, LockedUntilSwitched,
     EmbryoOwned, IntrInv, NoSharedProc
<1>7. ASSUME NEW c \in Cpu, WaitSleep(c) PROVE LockedUntilSwitched'
  BY <1>7 DEF WaitSleep, WaitScan, Forking, TypeOK, LockedUntilSwitched,
     EmbryoOwned, IntrInv, NoSharedProc
<1>8. ASSUME NEW c \in Cpu, NEW k \in KillArgs, NEW t \in Proc, Kill(c, k, t)
      PROVE  LockedUntilSwitched'
  BY <1>8 DEF Kill, IsFirst, Forking, TypeOK, LockedUntilSwitched,
     EmbryoOwned, IntrInv, NoSharedProc
<1>9. ASSUME NEW c \in Cpu, SleepBlock(c) PROVE LockedUntilSwitched'
  BY <1>9 DEF SleepBlock, Forking, TypeOK, LockedUntilSwitched, EmbryoOwned,
     IntrInv, NoSharedProc
<1>10. ASSUME NEW c \in Cpu, SleepReturn(c) PROVE LockedUntilSwitched'
  BY <1>10 DEF SleepReturn, Forking, TypeOK, LockedUntilSwitched, EmbryoOwned,
     IntrInv, NoSharedProc
<1>11. ASSUME NEW c \in Cpu, TickWakeup(c) PROVE LockedUntilSwitched'
  BY <1>11 DEF TickWakeup, wakeup1, Forking, TypeOK, LockedUntilSwitched,
     EmbryoOwned, IntrInv, NoSharedProc
<1>12. ASSUME NEW c \in Cpu, Yield(c) PROVE LockedUntilSwitched'
  BY <1>12 DEF Yield, Forking, TypeOK, LockedUntilSwitched, EmbryoOwned,
     IntrInv, NoSharedProc
<1>13. ASSUME NEW c \in Cpu, YieldReturn(c) PROVE LockedUntilSwitched'
  BY <1>13 DEF YieldReturn, Forking, TypeOK, LockedUntilSwitched, EmbryoOwned,
     IntrInv, NoSharedProc
<1>14. ASSUME NEW c \in Cpu, SchedAcquire(c) PROVE LockedUntilSwitched'
  BY <1>14 DEF SchedAcquire, Forking, TypeOK, LockedUntilSwitched,
     EmbryoOwned, IntrInv, NoSharedProc
<1>15. ASSUME NEW c \in Cpu, NEW p \in Proc, SchedRun(c, p)
      PROVE  LockedUntilSwitched'
  BY <1>15 DEF SchedRun, Forking, TypeOK, LockedUntilSwitched, EmbryoOwned,
     IntrInv, NoSharedProc
<1>16. ASSUME NEW c \in Cpu, SchedDone(c) PROVE LockedUntilSwitched'
  BY <1>16, Zenon DEF SchedDone, Forking, TypeOK, LockedUntilSwitched, EmbryoOwned,
     IntrInv, NoSharedProc
<1>17. ASSUME NEW c \in Cpu, SchedRelease(c) PROVE LockedUntilSwitched'
  BY <1>17, Zenon DEF SchedRelease, Forking, TypeOK, LockedUntilSwitched,
     EmbryoOwned, IntrInv, NoSharedProc
<1>18. ASSUME NEW c \in Cpu,
              \/ ForkCopy(c) \/ ExitStart(c) \/ Fault(c)
              \/ (\E n \in SleepArgs : SleepStart(c, n)) \/ SleepCheck(c)
              \/ SleepRelock(c)
              \/ TimerTick(c) \/ TimerOther(c) \/ TimerExit(c)
      PROVE  LockedUntilSwitched'
  <2>1. UNCHANGED <<state, cpuproc, lock, resume>>
    BY <1>18, Zenon DEF ForkCopy, ExitStart, Fault, SleepStart, SleepCheck,
       SleepRelock, TimerTick, TimerOther, TimerExit
  <2>2. QED BY <2>1, Zenon DEF Forking, LockedUntilSwitched
<1>19. CASE UNCHANGED vars
  BY <1>19, Zenon DEF vars, Forking, LockedUntilSwitched
<1> QED BY <1>1, <1>2, <1>3, <1>4, <1>5, <1>6, <1>7, <1>8, <1>9, <1>10, <1>11,
       <1>12, <1>13, <1>14, <1>15, <1>16, <1>17, <1>18, <1>19, Zenon DEF Next,
       ProcStep

\* Every path into sched() has given up tickslock.
LEMMA SchedHoldsOnlyPtableStep ==
    ASSUME TypeOK, LockedUntilSwitched, NoSharedProc, EmbryoOwned,
           SchedHoldsOnlyPtable, IntrInv, TicksLockInv, [Next]_vars
    PROVE  SchedHoldsOnlyPtable'
<1>1. ASSUME NEW c \in Cpu, NEW new \in Proc, ForkAlloc(c, new)
      PROVE  SchedHoldsOnlyPtable'
  BY <1>1 DEF ForkAlloc, IsFirst, Forking, TypeOK, LockedUntilSwitched,
     NoSharedProc, EmbryoOwned, SchedHoldsOnlyPtable, IntrInv, TicksLockInv
<1>2. ASSUME NEW c \in Cpu, ForkFail(c) PROVE SchedHoldsOnlyPtable'
  BY <1>2 DEF ForkFail, Forking, TypeOK, LockedUntilSwitched, NoSharedProc,
     EmbryoOwned, SchedHoldsOnlyPtable, IntrInv, TicksLockInv
<1>3. ASSUME NEW c \in Cpu, ForkReady(c) PROVE SchedHoldsOnlyPtable'
  BY <1>3 DEF ForkReady, Forking, TypeOK, LockedUntilSwitched, NoSharedProc,
     EmbryoOwned, SchedHoldsOnlyPtable, IntrInv, TicksLockInv
<1>4. ASSUME NEW c \in Cpu, ExitFinish(c) PROVE SchedHoldsOnlyPtable'
  <2>1. ExitFacts(c)
    BY <1>4, ExitEffect, Zenon
  <2>2. QED BY <2>1 DEF ExitFacts, SchedHoldsOnlyPtable, TypeOK,
         LockedUntilSwitched, NoSharedProc, TicksLockInv, IntrInv
<1>5. ASSUME NEW c \in Cpu, NEW z \in Proc, WaitReap(c, z)
      PROVE  SchedHoldsOnlyPtable'
  BY <1>5 DEF WaitReap, WaitScan, ZombieChildren, Children, IsFirst, Forking,
     TypeOK, LockedUntilSwitched, NoSharedProc, EmbryoOwned,
     SchedHoldsOnlyPtable, IntrInv, TicksLockInv
<1>6. ASSUME NEW c \in Cpu, WaitFail(c) PROVE SchedHoldsOnlyPtable'
  BY <1>6 DEF WaitFail, WaitScan, Forking, TypeOK, LockedUntilSwitched,
     NoSharedProc, EmbryoOwned, SchedHoldsOnlyPtable, IntrInv, TicksLockInv
<1>7. ASSUME NEW c \in Cpu, WaitSleep(c) PROVE SchedHoldsOnlyPtable'
  BY <1>7 DEF WaitSleep, WaitScan, Forking, TypeOK, LockedUntilSwitched,
     NoSharedProc, EmbryoOwned, SchedHoldsOnlyPtable, IntrInv, TicksLockInv
<1>8. ASSUME NEW c \in Cpu, NEW k \in KillArgs, NEW t \in Proc, Kill(c, k, t)
      PROVE  SchedHoldsOnlyPtable'
  BY <1>8 DEF Kill, IsFirst, Forking, TypeOK, LockedUntilSwitched,
     NoSharedProc, EmbryoOwned, SchedHoldsOnlyPtable, IntrInv, TicksLockInv
<1>9. ASSUME NEW c \in Cpu, NEW n \in SleepArgs, SleepStart(c, n)
      PROVE  SchedHoldsOnlyPtable'
  BY <1>9 DEF SleepStart, Forking, TypeOK, LockedUntilSwitched, NoSharedProc,
     EmbryoOwned, SchedHoldsOnlyPtable, IntrInv, TicksLockInv
<1>10. ASSUME NEW c \in Cpu, SleepCheck(c) PROVE SchedHoldsOnlyPtable'
  BY <1>10 DEF SleepCheck, Forking, TypeOK, LockedUntilSwitched, NoSharedProc,
     EmbryoOwned, SchedHoldsOnlyPtable, IntrInv, TicksLockInv
<1>11. ASSUME NEW c \in Cpu, SleepBlock(c) PROVE SchedHoldsOnlyPtable'
  BY <1>11 DEF SleepBlock, Forking, TypeOK, LockedUntilSwitched, NoSharedProc,
     EmbryoOwned, SchedHoldsOnlyPtable, IntrInv, TicksLockInv
<1>12. ASSUME NEW c \in Cpu, SleepReturn(c) PROVE SchedHoldsOnlyPtable'
  BY <1>12, Zenon DEF SleepReturn, Forking, TypeOK, LockedUntilSwitched,
     NoSharedProc, EmbryoOwned, SchedHoldsOnlyPtable, IntrInv, TicksLockInv
<1>13. ASSUME NEW c \in Cpu, SleepRelock(c) PROVE SchedHoldsOnlyPtable'
  BY <1>13 DEF SleepRelock, Forking, TypeOK, LockedUntilSwitched,
     NoSharedProc, EmbryoOwned, SchedHoldsOnlyPtable, IntrInv, TicksLockInv
<1>14. ASSUME NEW c \in Cpu, TimerTick(c) PROVE SchedHoldsOnlyPtable'
  BY <1>14 DEF TimerTick, IntrOn, Forking, TypeOK, LockedUntilSwitched,
     NoSharedProc, EmbryoOwned, SchedHoldsOnlyPtable, IntrInv, TicksLockInv
<1>15. ASSUME NEW c \in Cpu, TickWakeup(c) PROVE SchedHoldsOnlyPtable'
  BY <1>15 DEF TickWakeup, wakeup1, Forking, TypeOK, LockedUntilSwitched,
     NoSharedProc, EmbryoOwned, SchedHoldsOnlyPtable, IntrInv, TicksLockInv
<1>16. ASSUME NEW c \in Cpu, TimerOther(c) PROVE SchedHoldsOnlyPtable'
  BY <1>16 DEF TimerOther, IntrOn, Forking, TypeOK, LockedUntilSwitched,
     NoSharedProc, EmbryoOwned, SchedHoldsOnlyPtable, IntrInv, TicksLockInv
<1>17. ASSUME NEW c \in Cpu, TimerExit(c) PROVE SchedHoldsOnlyPtable'
  BY <1>17 DEF TimerExit, ExitPoint, Forking, TypeOK, LockedUntilSwitched,
     NoSharedProc, EmbryoOwned, SchedHoldsOnlyPtable, IntrInv, TicksLockInv
<1>18. ASSUME NEW c \in Cpu, Yield(c) PROVE SchedHoldsOnlyPtable'
  BY <1>18 DEF Yield, Forking, TypeOK, LockedUntilSwitched, NoSharedProc,
     EmbryoOwned, SchedHoldsOnlyPtable, IntrInv, TicksLockInv
<1>19. ASSUME NEW c \in Cpu, YieldReturn(c) PROVE SchedHoldsOnlyPtable'
  BY <1>19 DEF YieldReturn, Forking, TypeOK, LockedUntilSwitched,
     NoSharedProc, EmbryoOwned, SchedHoldsOnlyPtable, IntrInv, TicksLockInv
<1>20. ASSUME NEW c \in Cpu, SchedAcquire(c) PROVE SchedHoldsOnlyPtable'
  BY <1>20 DEF SchedAcquire, Forking, TypeOK, LockedUntilSwitched,
     NoSharedProc, EmbryoOwned, SchedHoldsOnlyPtable, IntrInv, TicksLockInv
<1>21. ASSUME NEW c \in Cpu, NEW p \in Proc, SchedRun(c, p)
      PROVE  SchedHoldsOnlyPtable'
  BY <1>21 DEF SchedRun, Forking, TypeOK, LockedUntilSwitched, NoSharedProc,
     EmbryoOwned, SchedHoldsOnlyPtable, IntrInv, TicksLockInv
<1>22. ASSUME NEW c \in Cpu, SchedDone(c) PROVE SchedHoldsOnlyPtable'
  BY <1>22 DEF SchedDone, Forking, TypeOK, LockedUntilSwitched, NoSharedProc,
     EmbryoOwned, SchedHoldsOnlyPtable, IntrInv, TicksLockInv
<1>23. ASSUME NEW c \in Cpu, SchedRelease(c) PROVE SchedHoldsOnlyPtable'
  BY <1>23, Zenon DEF SchedRelease, Forking, TypeOK, LockedUntilSwitched,
     NoSharedProc, EmbryoOwned, SchedHoldsOnlyPtable, IntrInv, TicksLockInv
<1>24. ASSUME NEW c \in Cpu,
              \/ ForkCopy(c) \/ ExitStart(c) \/ Fault(c)
      PROVE  SchedHoldsOnlyPtable'
  <2>1. UNCHANGED <<state, cpuproc, lock, tickslock, intr>>
    BY <1>24, Zenon DEF ForkCopy, ExitStart, Fault
  <2>2. QED BY <2>1, Zenon DEF Forking, SchedHoldsOnlyPtable
<1>25. CASE UNCHANGED vars
  BY <1>25, Zenon DEF vars, Forking, SchedHoldsOnlyPtable
<1> QED BY <1>1, <1>2, <1>3, <1>4, <1>5, <1>6, <1>7, <1>8, <1>9, <1>10, <1>11,
       <1>12, <1>13, <1>14, <1>15, <1>16, <1>17, <1>18, <1>19, <1>20, <1>21,
       <1>22, <1>23, <1>24, <1>25, Zenon DEF Next, ProcStep

\* A timer interrupt is taken with no lock held, on top of a running process.
LEMMA IntrInvStep ==
    ASSUME TypeOK, NoSharedProc, LockedUntilSwitched, EmbryoOwned, IntrInv,
           TicksLockInv, SleepInv, [Next]_vars
    PROVE  IntrInv'
<1>1. ASSUME NEW c \in Cpu, NEW new \in Proc, ForkAlloc(c, new) PROVE IntrInv'
  BY <1>1 DEF ForkAlloc, IsFirst, Forking, TypeOK, NoSharedProc,
     LockedUntilSwitched, EmbryoOwned, IntrInv, TicksLockInv, SleepInv
<1>2. ASSUME NEW c \in Cpu, ForkFail(c) PROVE IntrInv'
  BY <1>2 DEF ForkFail, Forking, TypeOK, NoSharedProc, LockedUntilSwitched,
     EmbryoOwned, IntrInv, TicksLockInv, SleepInv
<1>3. ASSUME NEW c \in Cpu, ForkReady(c) PROVE IntrInv'
  BY <1>3 DEF ForkReady, Forking, TypeOK, NoSharedProc, LockedUntilSwitched,
     EmbryoOwned, IntrInv, TicksLockInv, SleepInv
<1>4. ASSUME NEW c \in Cpu, ExitFinish(c) PROVE IntrInv'
  <2>1. ExitFacts(c)
    BY <1>4, ExitEffect, Zenon
  <2>2. QED BY <2>1 DEF ExitFacts, IntrInv, TypeOK, NoSharedProc,
         LockedUntilSwitched, TicksLockInv
<1>5. ASSUME NEW c \in Cpu, NEW z \in Proc, WaitReap(c, z) PROVE IntrInv'
  BY <1>5 DEF WaitReap, IsFirst, ZombieChildren, Children, IntrInv, TypeOK
<1>6. ASSUME NEW c \in Cpu, WaitFail(c) PROVE IntrInv'
  BY <1>6 DEF WaitFail, WaitScan, Forking, TypeOK, NoSharedProc,
     LockedUntilSwitched, EmbryoOwned, IntrInv, TicksLockInv, SleepInv
<1>7. ASSUME NEW c \in Cpu, WaitSleep(c) PROVE IntrInv'
  <2>1. cpuproc[c] \in Proc /\ intr[c] = "none" /\ lock \in {NoCpu, c}
    BY <1>7 DEF WaitSleep, WaitScan, IntrInv, TypeOK
  <2>2. \A d \in Cpu : d # c => cpuproc[d] # cpuproc[c]
    BY <2>1, Zenon DEF NoSharedProc
  <2>3. /\ state' = [state EXCEPT ![cpuproc[c]] = "SLEEPING"]
        /\ resume' = [resume EXCEPT ![cpuproc[c]] = "wait"]
        /\ lock' = c /\ UNCHANGED <<cpuproc, intr, tickslock>>
    BY <1>7, Zenon DEF WaitSleep
  <2>4. QED BY <2>1, <2>2, <2>3 DEF IntrInv, TypeOK
<1>8. ASSUME NEW c \in Cpu, NEW k \in KillArgs, NEW t \in Proc, Kill(c, k, t)
      PROVE  IntrInv'
  BY <1>8 DEF Kill, IntrInv, TypeOK
<1>9. ASSUME NEW c \in Cpu, NEW n \in SleepArgs, SleepStart(c, n)
      PROVE  IntrInv'
  BY <1>9 DEF SleepStart, Forking, TypeOK, NoSharedProc, LockedUntilSwitched,
     EmbryoOwned, IntrInv, TicksLockInv, SleepInv
<1>10. ASSUME NEW c \in Cpu, SleepCheck(c) PROVE IntrInv'
  BY <1>10 DEF SleepCheck, Forking, TypeOK, NoSharedProc, LockedUntilSwitched,
     EmbryoOwned, IntrInv, TicksLockInv, SleepInv
<1>11. ASSUME NEW c \in Cpu, SleepBlock(c) PROVE IntrInv'
  BY <1>11 DEF SleepBlock, Forking, TypeOK, NoSharedProc, LockedUntilSwitched,
     EmbryoOwned, IntrInv, TicksLockInv, SleepInv
<1>12. ASSUME NEW c \in Cpu, SleepReturn(c) PROVE IntrInv'
  BY <1>12 DEF SleepReturn, Forking, TypeOK, NoSharedProc,
     LockedUntilSwitched, EmbryoOwned, IntrInv, TicksLockInv, SleepInv
<1>13. ASSUME NEW c \in Cpu, SleepRelock(c) PROVE IntrInv'
  BY <1>13 DEF SleepRelock, Forking, TypeOK, NoSharedProc,
     LockedUntilSwitched, EmbryoOwned, IntrInv, TicksLockInv, SleepInv
<1>14. ASSUME NEW c \in Cpu, TimerTick(c) PROVE IntrInv'
  BY <1>14 DEF TimerTick, IntrOn, Forking, TypeOK, NoSharedProc,
     LockedUntilSwitched, EmbryoOwned, IntrInv, TicksLockInv, SleepInv
<1>15. ASSUME NEW c \in Cpu, TickWakeup(c) PROVE IntrInv'
  BY <1>15 DEF TickWakeup, wakeup1, Forking, TypeOK, NoSharedProc,
     LockedUntilSwitched, EmbryoOwned, IntrInv, TicksLockInv, SleepInv
<1>16. ASSUME NEW c \in Cpu, TimerOther(c) PROVE IntrInv'
  BY <1>16 DEF TimerOther, IntrOn, Forking, TypeOK, NoSharedProc,
     LockedUntilSwitched, EmbryoOwned, IntrInv, TicksLockInv, SleepInv
<1>17. ASSUME NEW c \in Cpu, TimerExit(c) PROVE IntrInv'
  BY <1>17 DEF TimerExit, ExitPoint, Forking, TypeOK, NoSharedProc,
     LockedUntilSwitched, EmbryoOwned, IntrInv, TicksLockInv, SleepInv
<1>18. ASSUME NEW c \in Cpu, Yield(c) PROVE IntrInv'
  BY <1>18 DEF Yield, Forking, TypeOK, NoSharedProc, LockedUntilSwitched,
     EmbryoOwned, IntrInv, TicksLockInv, SleepInv
<1>19. ASSUME NEW c \in Cpu, YieldReturn(c) PROVE IntrInv'
  BY <1>19 DEF YieldReturn, Forking, TypeOK, NoSharedProc,
     LockedUntilSwitched, EmbryoOwned, IntrInv, TicksLockInv, SleepInv
<1>20. ASSUME NEW c \in Cpu, SchedAcquire(c) PROVE IntrInv'
  BY <1>20 DEF SchedAcquire, Forking, TypeOK, NoSharedProc,
     LockedUntilSwitched, EmbryoOwned, IntrInv, TicksLockInv, SleepInv
<1>21. ASSUME NEW c \in Cpu, NEW p \in Proc, SchedRun(c, p) PROVE IntrInv'
  BY <1>21 DEF SchedRun, Forking, TypeOK, NoSharedProc, LockedUntilSwitched,
     EmbryoOwned, IntrInv, TicksLockInv, SleepInv
<1>22. ASSUME NEW c \in Cpu, SchedDone(c) PROVE IntrInv'
  BY <1>22 DEF SchedDone, Forking, TypeOK, NoSharedProc, LockedUntilSwitched,
     EmbryoOwned, IntrInv, TicksLockInv, SleepInv
<1>23. ASSUME NEW c \in Cpu, SchedRelease(c) PROVE IntrInv'
  BY <1>23 DEF SchedRelease, Forking, TypeOK, NoSharedProc,
     LockedUntilSwitched, EmbryoOwned, IntrInv, TicksLockInv, SleepInv
<1>24. ASSUME NEW c \in Cpu,
              \/ ForkCopy(c) \/ ExitStart(c) \/ Fault(c)
      PROVE  IntrInv'
  <2>1. UNCHANGED <<intr, tickslock, cpuproc, lock, state, resume>>
    BY <1>24, Zenon DEF ForkCopy, ExitStart, Fault
  <2>2. QED BY <2>1, Zenon DEF Forking, IntrInv
<1>25. CASE UNCHANGED vars
  BY <1>25, Zenon DEF vars, Forking, IntrInv
<1> QED BY <1>1, <1>2, <1>3, <1>4, <1>5, <1>6, <1>7, <1>8, <1>9, <1>10, <1>11,
       <1>12, <1>13, <1>14, <1>15, <1>16, <1>17, <1>18, <1>19, <1>20, <1>21,
       <1>22, <1>23, <1>24, <1>25 DEF Next, ProcStep

\* Who holds tickslock.
LEMMA TicksLockInvStep ==
    ASSUME TypeOK, NoSharedProc, LockedUntilSwitched, EmbryoOwned, IntrInv,
           TicksLockInv, [Next]_vars
    PROVE  TicksLockInv'
<1>1. ASSUME NEW c \in Cpu, NEW new \in Proc, ForkAlloc(c, new)
      PROVE  TicksLockInv'
  <2>1. /\ cpuproc[c] \in Proc /\ state[new] = "UNUSED"
        /\ intr[c] = "none" /\ pc[cpuproc[c]] = "user"
    BY <1>1, Zenon DEF ForkAlloc, IsFirst, TypeOK
  <2>2. \A d \in Cpu : d # c => cpuproc[d] # cpuproc[c]
    BY <2>1, Zenon DEF NoSharedProc
  <2>3. /\ state' = [state EXCEPT ![new] = "EMBRYO"]
        /\ resume' = [resume EXCEPT ![new] = "forkret"]
        /\ pc' = [pc EXCEPT ![cpuproc[c]] = "forkcopy"]
        /\ UNCHANGED <<cpuproc, intr, tickslock>>
    BY <1>1, Zenon DEF ForkAlloc
  <2>4. QED BY <2>1, <2>2, <2>3 DEF TicksLockInv, TypeOK
<1>2. ASSUME NEW c \in Cpu, ForkFail(c) PROVE TicksLockInv'
  BY <1>2 DEF ForkFail, Forking, TypeOK, NoSharedProc, LockedUntilSwitched,
     EmbryoOwned, IntrInv, TicksLockInv
<1>3. ASSUME NEW c \in Cpu, ForkCopy(c) PROVE TicksLockInv'
  BY <1>3 DEF ForkCopy, Forking, TypeOK, NoSharedProc, LockedUntilSwitched,
     EmbryoOwned, IntrInv, TicksLockInv
<1>4. ASSUME NEW c \in Cpu, ForkReady(c) PROVE TicksLockInv'
  BY <1>4 DEF ForkReady, Forking, TypeOK, NoSharedProc, LockedUntilSwitched,
     EmbryoOwned, IntrInv, TicksLockInv
<1>5. ASSUME NEW c \in Cpu, ExitStart(c) PROVE TicksLockInv'
  BY <1>5 DEF ExitStart, ExitPoint, Forking, TypeOK, NoSharedProc,
     LockedUntilSwitched, EmbryoOwned, IntrInv, TicksLockInv
<1>6. ASSUME NEW c \in Cpu, Fault(c) PROVE TicksLockInv'
  BY <1>6 DEF Fault, ExitPoint, Forking, TypeOK, NoSharedProc,
     LockedUntilSwitched, EmbryoOwned, IntrInv, TicksLockInv
<1>7. ASSUME NEW c \in Cpu, ExitFinish(c) PROVE TicksLockInv'
  <2>1. ExitFacts(c)
    BY <1>7, ExitEffect, Zenon
  <2>2. QED BY <2>1 DEF ExitFacts, TicksLockInv, TypeOK, NoSharedProc,
         LockedUntilSwitched, IntrInv
<1>8. ASSUME NEW c \in Cpu, NEW z \in Proc, WaitReap(c, z) PROVE TicksLockInv'
  BY <1>8 DEF WaitReap, WaitScan, ZombieChildren, Children, IsFirst, Forking,
     TypeOK, NoSharedProc, LockedUntilSwitched, EmbryoOwned, IntrInv,
     TicksLockInv
<1>9. ASSUME NEW c \in Cpu, WaitFail(c) PROVE TicksLockInv'
  BY <1>9 DEF WaitFail, WaitScan, Forking, TypeOK, NoSharedProc,
     LockedUntilSwitched, EmbryoOwned, IntrInv, TicksLockInv
<1>10. ASSUME NEW c \in Cpu, WaitSleep(c) PROVE TicksLockInv'
  BY <1>10 DEF WaitSleep, WaitScan, Forking, TypeOK, NoSharedProc,
     LockedUntilSwitched, EmbryoOwned, IntrInv, TicksLockInv
<1>11. ASSUME NEW c \in Cpu, NEW k \in KillArgs, NEW t \in Proc, Kill(c, k, t)
      PROVE  TicksLockInv'
  BY <1>11 DEF Kill, IsFirst, Forking, TypeOK, NoSharedProc,
     LockedUntilSwitched, EmbryoOwned, IntrInv, TicksLockInv
<1>12. ASSUME NEW c \in Cpu, NEW n \in SleepArgs, SleepStart(c, n)
      PROVE  TicksLockInv'
  BY <1>12 DEF SleepStart, Forking, TypeOK, NoSharedProc, LockedUntilSwitched,
     EmbryoOwned, IntrInv, TicksLockInv
<1>13. ASSUME NEW c \in Cpu, SleepCheck(c) PROVE TicksLockInv'
  BY <1>13 DEF SleepCheck, Forking, TypeOK, NoSharedProc, LockedUntilSwitched,
     EmbryoOwned, IntrInv, TicksLockInv
<1>14. ASSUME NEW c \in Cpu, SleepBlock(c) PROVE TicksLockInv'
  BY <1>14 DEF SleepBlock, Forking, TypeOK, NoSharedProc, LockedUntilSwitched,
     EmbryoOwned, IntrInv, TicksLockInv
<1>15. ASSUME NEW c \in Cpu, SleepReturn(c) PROVE TicksLockInv'
  BY <1>15 DEF SleepReturn, Forking, TypeOK, NoSharedProc,
     LockedUntilSwitched, EmbryoOwned, IntrInv, TicksLockInv
<1>16. ASSUME NEW c \in Cpu, SleepRelock(c) PROVE TicksLockInv'
  BY <1>16 DEF SleepRelock, Forking, TypeOK, NoSharedProc,
     LockedUntilSwitched, EmbryoOwned, IntrInv, TicksLockInv
<1>17. ASSUME NEW c \in Cpu, TimerTick(c) PROVE TicksLockInv'
  BY <1>17 DEF TimerTick, IntrOn, Forking, TypeOK, NoSharedProc,
     LockedUntilSwitched, EmbryoOwned, IntrInv, TicksLockInv
<1>18. ASSUME NEW c \in Cpu, TickWakeup(c) PROVE TicksLockInv'
  BY <1>18 DEF TickWakeup, wakeup1, Forking, TypeOK, NoSharedProc,
     LockedUntilSwitched, EmbryoOwned, IntrInv, TicksLockInv
<1>19. ASSUME NEW c \in Cpu, TimerOther(c) PROVE TicksLockInv'
  BY <1>19 DEF TimerOther, IntrOn, Forking, TypeOK, NoSharedProc,
     LockedUntilSwitched, EmbryoOwned, IntrInv, TicksLockInv
<1>20. ASSUME NEW c \in Cpu, TimerExit(c) PROVE TicksLockInv'
  BY <1>20 DEF TimerExit, ExitPoint, Forking, TypeOK, NoSharedProc,
     LockedUntilSwitched, EmbryoOwned, IntrInv, TicksLockInv
<1>21. ASSUME NEW c \in Cpu, Yield(c) PROVE TicksLockInv'
  BY <1>21 DEF Yield, Forking, TypeOK, NoSharedProc, LockedUntilSwitched,
     EmbryoOwned, IntrInv, TicksLockInv
<1>22. ASSUME NEW c \in Cpu, YieldReturn(c) PROVE TicksLockInv'
  BY <1>22 DEF YieldReturn, Forking, TypeOK, NoSharedProc,
     LockedUntilSwitched, EmbryoOwned, IntrInv, TicksLockInv
<1>23. ASSUME NEW c \in Cpu, NEW p \in Proc, SchedRun(c, p)
      PROVE  TicksLockInv'
  BY <1>23 DEF SchedRun, Forking, TypeOK, NoSharedProc, LockedUntilSwitched,
     EmbryoOwned, IntrInv, TicksLockInv
<1>24. ASSUME NEW c \in Cpu, SchedDone(c) PROVE TicksLockInv'
  BY <1>24 DEF SchedDone, Forking, TypeOK, NoSharedProc, LockedUntilSwitched,
     EmbryoOwned, IntrInv, TicksLockInv
<1>25. ASSUME NEW c \in Cpu,
              \/ SchedAcquire(c) \/ SchedRelease(c)
      PROVE  TicksLockInv'
  <2>1. UNCHANGED <<intr, tickslock, cpuproc, pc, state, resume>>
    BY <1>25, Zenon DEF SchedAcquire, SchedRelease
  <2>2. QED BY <2>1, Zenon DEF Forking, TicksLockInv
<1>26. CASE UNCHANGED vars
  BY <1>26, Zenon DEF vars, Forking, TicksLockInv
<1> QED BY <1>1, <1>2, <1>3, <1>4, <1>5, <1>6, <1>7, <1>8, <1>9, <1>10, <1>11,
       <1>12, <1>13, <1>14, <1>15, <1>16, <1>17, <1>18, <1>19, <1>20, <1>21,
       <1>22, <1>23, <1>24, <1>25, <1>26 DEF Next, ProcStep
=============================================================================
