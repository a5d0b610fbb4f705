--------------------------- MODULE ProcTableProofs ---------------------------
(***************************************************************************)
(* The last part of the proof that IInv is an inductive invariant of       *)
(* ProcTable for any number of slots and processors: the conjuncts about   *)
(* sleeping, exiting and pids.  The properties follow from it.             *)
(***************************************************************************)
EXTENDS ProcTableFork

USE Names DEF procVars, At, InSyscall, Resumed

\* Steps of processes that are not in sys_sleep do not matter to SleepInv.
LEMMA SleepFrame ==
    ASSUME SleepInv, UNCHANGED <<cpuproc, intr, tickslock>>,
           \A q \in Proc :
               \/ /\ pc'[q] = pc[q] /\ resume'[q] = resume[q]
                  /\ state'[q] = state[q] /\ left'[q] = left[q]
               \/ pc'[q] \notin {"sleep", "dosleep"} /\ resume'[q] # "sleep"
    PROVE  SleepInv'
  BY DEF SleepInv

\* tickslock is held from the test of the time left to sleep().
LEMMA SleepInvStep ==
    ASSUME TypeOK, NoSharedProc, IntrInv, TicksLockInv, EmbryoOwned, ForkInv,
           SleepInv, [Next]_vars
    PROVE  SleepInv'
<1>1. ASSUME NEW c \in Cpu, NEW new \in Proc, ForkAlloc(c, new)
      PROVE  SleepInv'
  <2>1. /\ cpuproc[c] \in Proc /\ resume[cpuproc[c]] = "none"
        /\ pc[new] \in {"user", "exit"} /\ state[new] # state[cpuproc[c]]
    BY <1>1, Zenon DEF ForkAlloc, IsFirst, ForkInv, TypeOK
  <2>2. /\ state' = [state EXCEPT ![new] = "EMBRYO"]
        /\ resume' = [resume EXCEPT ![new] = "forkret"]
        /\ pc' = [pc EXCEPT ![cpuproc[c]] = "forkcopy"]
        /\ UNCHANGED <<left, cpuproc, intr, tickslock>>
    BY <1>1, Zenon DEF ForkAlloc
  <2>3. \A q \in Proc :
               \/ /\ pc'[q] = pc[q] /\ resume'[q] = resume[q]
                  /\ state'[q] = state[q] /\ left'[q] = left[q]
               \/ pc'[q] \notin {"sleep", "dosleep"} /\ resume'[q] # "sleep"
    BY <2>1, <2>2, Zenon DEF TypeOK
  <2>4. QED BY <2>2, <2>3, SleepFrame, Zenon
<1>2. ASSUME NEW c \in Cpu, ForkFail(c) PROVE SleepInv'
  <2>1. /\ cpuproc[c] \in Proc /\ resume[cpuproc[c]] = "none"
        /\ np[cpuproc[c]] \in Proc
        /\ pc[np[cpuproc[c]]] \in {"user", "exit"} /\ resume[np[cpuproc[c]]] # "sleep"
    BY <1>2 DEF ForkFail, EmbryoOwned, Forking, ForkInv, SleepInv, TypeOK
  <2>2. /\ state' = [state EXCEPT ![np[cpuproc[c]]] = "UNUSED"]
        /\ pc' = [pc EXCEPT ![cpuproc[c]] = "user"]
        /\ UNCHANGED <<resume, left, cpuproc, intr, tickslock>>
    BY <1>2, Zenon DEF ForkFail
  <2>3. \A q \in Proc :
               \/ /\ pc'[q] = pc[q] /\ resume'[q] = resume[q]
                  /\ state'[q] = state[q] /\ left'[q] = left[q]
               \/ pc'[q] \notin {"sleep", "dosleep"} /\ resume'[q] # "sleep"
    BY <2>1, <2>2, Zenon DEF TypeOK
  <2>4. QED BY <2>2, <2>3, SleepFrame, Zenon
<1>3. ASSUME NEW c \in Cpu, ForkCopy(c) PROVE SleepInv'
  <2>1. /\ cpuproc[c] \in Proc /\ resume[cpuproc[c]] = "none"
        /\ np[cpuproc[c]] \in Proc
        /\ pc[np[cpuproc[c]]] \in {"user", "exit"} /\ resume[np[cpuproc[c]]] # "sleep"
    BY <1>3 DEF ForkCopy, EmbryoOwned, Forking, ForkInv, SleepInv, TypeOK
  <2>2. /\ state' = state
        /\ pc' = [pc EXCEPT ![cpuproc[c]] = "forkready", ![np[cpuproc[c]]] = "user"]
        /\ UNCHANGED <<resume, left, cpuproc, intr, tickslock>>
    BY <1>3, Zenon DEF ForkCopy
  <2>3. \A q \in Proc :
               \/ /\ pc'[q] = pc[q] /\ resume'[q] = resume[q]
                  /\ state'[q] = state[q] /\ left'[q] = left[q]
               \/ pc'[q] \notin {"sleep", "dosleep"} /\ resume'[q] # "sleep"
    BY <2>1, <2>2, Zenon DEF TypeOK
  <2>4. QED BY <2>2, <2>3, SleepFrame, Zenon
<1>4. ASSUME NEW c \in Cpu, ForkReady(c) PROVE SleepInv'
  <2>1. /\ cpuproc[c] \in Proc /\ resume[cpuproc[c]] = "none"
        /\ np[cpuproc[c]] \in Proc
        /\ pc[np[cpuproc[c]]] \in {"user", "exit"} /\ resume[np[cpuproc[c]]] # "sleep"
    BY <1>4 DEF ForkReady, EmbryoOwned, Forking, ForkInv, SleepInv, TypeOK
  <2>2. /\ state' = [state EXCEPT ![np[cpuproc[c]]] = "RUNNABLE"]
        /\ pc' = [pc EXCEPT ![cpuproc[c]] = "user"]
        /\ UNCHANGED <<resume, left, cpuproc, intr, tickslock>>
    BY <1>4, Zenon DEF ForkReady
  <2>3. \A q \in Proc :
               \/ /\ pc'[q] = pc[q] /\ resume'[q] = resume[q]
                  /\ state'[q] = state[q] /\ left'[q] = left[q]
               \/ pc'[q] \notin {"sleep", "dosleep"} /\ resume'[q] # "sleep"
    BY <2>1, <2>2, Zenon DEF TypeOK
  <2>4. QED BY <2>2, <2>3, SleepFrame, Zenon
<1>5. ASSUME NEW c \in Cpu, ExitStart(c) PROVE SleepInv'
  BY <1>5 DEF ExitStart, ExitPoint, Forking, TypeOK, NoSharedProc, IntrInv,
     TicksLockInv, EmbryoOwned, ForkInv, SleepInv
<1>6. ASSUME NEW c \in Cpu, Fault(c) PROVE SleepInv'
  BY <1>6 DEF Fault, ExitPoint, Forking, TypeOK, NoSharedProc, IntrInv,
     TicksLockInv, EmbryoOwned, ForkInv, SleepInv
<1>7. ASSUME NEW c \in Cpu, ExitFinish(c) PROVE SleepInv'
  <2>1. ExitFacts(c)
    BY <1>7, ExitEffect, Zenon
  <2>2. /\ cpuproc[c] \in Proc /\ pc[cpuproc[c]] = "exit"
        /\ resume[cpuproc[c]] = "none"
        /\ UNCHANGED <<pc, resume, left, cpuproc, intr, tickslock>>
    BY <2>1, Zenon DEF ExitFacts
  <2>3. \A q \in Proc : state[q] = "RUNNING" /\ q # cpuproc[c] => state'[q] = "RUNNING"
    BY <2>1, Zenon DEF ExitFacts
  <2>4. QED BY <2>2, <2>3, Zenon DEF SleepInv
<1>8. ASSUME NEW c \in Cpu, NEW z \in Proc, WaitReap(c, z) PROVE SleepInv'
  <2>1. /\ cpuproc[c] \in Proc /\ pc[cpuproc[c]] \notin {"sleep", "dosleep"}
        /\ pc[z] \in {"user", "exit"} /\ resume[z] # "sleep"
    BY <1>8 DEF WaitReap, WaitScan, IsFirst, ZombieChildren, Children,
       ForkInv, SleepInv, TypeOK
  <2>2. /\ state' = [state EXCEPT ![z] = "UNUSED"]
        /\ resume' = [resume EXCEPT ![cpuproc[c]] = "none"]
        /\ UNCHANGED <<pc, left, cpuproc, intr, tickslock>>
    BY <1>8, Zenon DEF WaitReap
  <2>3. \A q \in Proc :
               \/ /\ pc'[q] = pc[q] /\ resume'[q] = resume[q]
                  /\ state'[q] = state[q] /\ left'[q] = left[q]
               \/ pc'[q] \notin {"sleep", "dosleep"} /\ resume'[q] # "sleep"
    BY <2>1, <2>2, Zenon DEF TypeOK
  <2>4. QED BY <2>2, <2>3, SleepFrame, Zenon
<1>9. ASSUME NEW c \in Cpu, WaitFail(c) PROVE SleepInv'
  BY <1>9 DEF WaitFail, WaitScan, Forking, TypeOK, NoSharedProc, IntrInv,
     TicksLockInv, EmbryoOwned, ForkInv, SleepInv
<1>10. ASSUME NEW c \in Cpu, WaitSleep(c) PROVE SleepInv'
  BY <1>10 DEF WaitSleep, WaitScan, Forking, TypeOK, NoSharedProc, IntrInv,
     TicksLockInv, EmbryoOwned, ForkInv, SleepInv
<1>11. ASSUME NEW c \in Cpu, NEW k \in KillArgs, NEW t \in Proc, Kill(c, k, t)
      PROVE  SleepInv'
  BY <1>11 DEF Kill, IsFirst, Forking, TypeOK, NoSharedProc, IntrInv,
     TicksLockInv, EmbryoOwned, ForkInv, SleepInv
<1>12. ASSUME NEW c \in Cpu, NEW n \in SleepArgs, SleepStart(c, n)
      PROVE  SleepInv'
  BY <1>12 DEF SleepStart, Forking, TypeOK, NoSharedProc, IntrInv,
     TicksLockInv, EmbryoOwned, ForkInv, SleepInv
<1>13. ASSUME NEW c \in Cpu, SleepCheck(c) PROVE SleepInv'
  BY <1>13 DEF SleepCheck, Forking, TypeOK, NoSharedProc, IntrInv,
     TicksLockInv, EmbryoOwned, ForkInv, SleepInv
<1>14. ASSUME NEW c \in Cpu, SleepBlock(c) PROVE SleepInv'
  BY <1>14 DEF SleepBlock, Forking, TypeOK, NoSharedProc, IntrInv,
     TicksLockInv, EmbryoOwned, ForkInv, SleepInv
<1>15. ASSUME NEW c \in Cpu, SleepReturn(c) PROVE SleepInv'
  BY <1>15 DEF SleepReturn, Forking, TypeOK, NoSharedProc, IntrInv,
     TicksLockInv, EmbryoOwned, ForkInv, SleepInv
<1>16. ASSUME NEW c \in Cpu, SleepRelock(c) PROVE SleepInv'
  BY <1>16 DEF SleepRelock, Forking, TypeOK, NoSharedProc, IntrInv,
     TicksLockInv, EmbryoOwned, ForkInv, SleepInv
<1>17. ASSUME NEW c \in Cpu, TimerTick(c) PROVE SleepInv'
  BY <1>17, Zenon DEF TimerTick, IntrOn, Forking, TypeOK, NoSharedProc, IntrInv,
     TicksLockInv, EmbryoOwned, ForkInv, SleepInv
<1>18. ASSUME NEW c \in Cpu, TickWakeup(c) PROVE SleepInv'
  <2>1. \A q \in Proc : state[q] = "RUNNING" => state'[q] = "RUNNING"
    BY <1>18, Zenon DEF TickWakeup, wakeup1
  <2>2. tickslock = c /\ intr[tickslock] # "none"
    BY <1>18, Zenon DEF TickWakeup, IntrInv
  <2>3. \A q \in Proc : ~(pc[q] \in {"sleep", "dosleep"} /\ resume[q] = "none")
    BY <2>2, Zenon DEF SleepInv
  <2>4. QED BY <1>18, <2>3, Zenon DEF TickWakeup, SleepInv
<1>19. ASSUME NEW c \in Cpu, TimerOther(c) PROVE SleepInv'
  BY <1>19 DEF TimerOther, IntrOn, Forking, TypeOK, NoSharedProc, IntrInv,
     TicksLockInv, EmbryoOwned, ForkInv, SleepInv
<1>20. ASSUME NEW c \in Cpu, TimerExit(c) PROVE SleepInv'
  BY <1>20 DEF TimerExit, ExitPoint, Forking, TypeOK, NoSharedProc, IntrInv,
     TicksLockInv, EmbryoOwned, ForkInv, SleepInv
<1>21. ASSUME NEW c \in Cpu, Yield(c) PROVE SleepInv'
  BY <1>21 DEF Yield, Forking, TypeOK, NoSharedProc, IntrInv, TicksLockInv,
     EmbryoOwned, ForkInv, SleepInv
<1>22. ASSUME NEW c \in Cpu, YieldReturn(c) PROVE SleepInv'
  BY <1>22 DEF YieldReturn, Forking, TypeOK, NoSharedProc, IntrInv,
     TicksLockInv, EmbryoOwned, ForkInv, SleepInv
<1>23. ASSUME NEW c \in Cpu, NEW p \in Proc, SchedRun(c, p) PROVE SleepInv'
  BY <1>23 DEF SchedRun, Forking, TypeOK, NoSharedProc, IntrInv, TicksLockInv,
     EmbryoOwned, ForkInv, SleepInv
<1>24. ASSUME NEW c \in Cpu, SchedDone(c) PROVE SleepInv'
  BY <1>24 DEF SchedDone, Forking, TypeOK, NoSharedProc, IntrInv,
     TicksLockInv, EmbryoOwned, ForkInv, SleepInv
<1>25. ASSUME NEW c \in Cpu,
              \/ SchedAcquire(c) \/ SchedRelease(c)
      PROVE  SleepInv'
  <2>1. UNCHANGED <<pc, resume, state, cpuproc, tickslock, left, intr>>
    BY <1>25, Zenon DEF SchedAcquire, SchedRelease
  <2>2. QED BY <2>1, Zenon DEF Forking, SleepInv
<1>26. CASE UNCHANGED vars
  BY <1>26, Zenon DEF vars, Forking, SleepInv
<1> QED BY <1>1, <1>2, <1>3, <1>4, <1>5, <1>6, <1>7, <1>8, <1>9, <1>10, <1>11,
       <1>12, <1>13, <1>14, <1>15, <1>16, <1>17, <1>18, <1>19, <1>20, <1>21,
       <1>22, <1>23, <1>24, <1>25, <1>26, Zenon DEF Next, ProcStep

\* The last tick of a sleep is always followed by its wakeup.
LEMMA NoMissedTickStep ==
    ASSUME TypeOK, SleepInv, NoMissedTick, EmbryoOwned, IntrInv, [Next]_vars
    PROVE  NoMissedTick'
<1>1. ASSUME NEW c \in Cpu, NEW new \in Proc, ForkAlloc(c, new)
      PROVE  NoMissedTick'
  BY <1>1 DEF ForkAlloc, IsFirst, Forking, TypeOK, SleepInv, NoMissedTick,
     EmbryoOwned, IntrInv
<1>2. ASSUME NEW c \in Cpu, ForkFail(c) PROVE NoMissedTick'
  BY <1>2 DEF ForkFail, Forking, TypeOK, SleepInv, NoMissedTick, EmbryoOwned,
     IntrInv
<1>3. ASSUME NEW c \in Cpu, ForkReady(c) PROVE NoMissedTick'
  BY <1>3 DEF ForkReady, Forking, TypeOK, SleepInv, NoMissedTick, EmbryoOwned,
     IntrInv
<1>4. ASSUME NEW c \in Cpu, ExitFinish(c) PROVE NoMissedTick'
  <2>1. ExitFacts(c)
    BY <1>4, ExitEffect, Zenon
  <2>2. QED BY <2>1 DEF ExitFacts, NoMissedTick, TypeOK
<1>5. ASSUME NEW c \in Cpu, NEW z \in Proc, WaitReap(c, z) PROVE NoMissedTick'
  BY <1>5 DEF WaitReap, WaitScan, ZombieChildren, Children, IsFirst, Forking,
     TypeOK, SleepInv, NoMissedTick, EmbryoOwned, IntrInv
<1>6. ASSUME NEW c \in Cpu, WaitFail(c) PROVE NoMissedTick'
  BY <1>6 DEF WaitFail, WaitScan, Forking, TypeOK, SleepInv, NoMissedTick,
     EmbryoOwned, IntrInv
<1>7. ASSUME NEW c \in Cpu, WaitSleep(c) PROVE NoMissedTick'
  BY <1>7 DEF WaitSleep, WaitScan, Forking, TypeOK, SleepInv, NoMissedTick,
     EmbryoOwned, IntrInv
<1>8. ASSUME NEW c \in Cpu, NEW k \in KillArgs, NEW t \in Proc, Kill(c, k, t)
      PROVE  NoMissedTick'
  BY <1>8 DEF Kill, IsFirst, Forking, TypeOK, SleepInv, NoMissedTick,
     EmbryoOwned, IntrInv
<1>9. ASSUME NEW c \in Cpu, NEW n \in SleepArgs, SleepStart(c, n)
      PROVE  NoMissedTick'
  BY <1>9 DEF SleepStart, Forking, TypeOK, SleepInv, NoMissedTick,
     EmbryoOwned, IntrInv
<1>10. ASSUME NEW c \in Cpu, SleepCheck(c) PROVE NoMissedTick'
  BY <1>10 DEF SleepCheck, Forking, TypeOK, SleepInv, NoMissedTick,
     EmbryoOwned, IntrInv
<1>11. ASSUME NEW c \in Cpu, SleepBlock(c) PROVE NoMissedTick'
  BY <1>11 DEF SleepBlock, Forking, TypeOK, SleepInv, NoMissedTick,
     EmbryoOwned, IntrInv
<1>12. ASSUME NEW c \in Cpu, SleepReturn(c) PROVE NoMissedTick'
  BY <1>12 DEF SleepReturn, Forking, TypeOK, SleepInv, NoMissedTick,
     EmbryoOwned, IntrInv
<1>13. ASSUME NEW c \in Cpu, TimerTick(c) PROVE NoMissedTick'
  BY <1>13 DEF TimerTick, IntrOn, Forking, TypeOK, SleepInv, NoMissedTick,
     EmbryoOwned, IntrInv
<1>14. ASSUME NEW c \in Cpu, TickWakeup(c) PROVE NoMissedTick'
  BY <1>14, Zenon DEF TickWakeup, wakeup1, Forking, TypeOK, SleepInv, NoMissedTick,
     EmbryoOwned, IntrInv
<1>15. ASSUME NEW c \in Cpu, TimerOther(c) PROVE NoMissedTick'
  BY <1>15 DEF TimerOther, IntrOn, Forking, TypeOK, SleepInv, NoMissedTick,
     EmbryoOwned, IntrInv
<1>16. ASSUME NEW c \in Cpu, TimerExit(c) PROVE NoMissedTick'
  BY <1>16 DEF TimerExit, ExitPoint, Forking, TypeOK, SleepInv, NoMissedTick,
     EmbryoOwned, IntrInv
<1>17. ASSUME NEW c \in Cpu, Yield(c) PROVE NoMissedTick'
  BY <1>17 DEF Yield, Forking, TypeOK, SleepInv, NoMissedTick, EmbryoOwned,
     IntrInv
<1>18. ASSUME NEW c \in Cpu, NEW p \in Proc, SchedRun(c, p)
      PROVE  NoMissedTick'
  BY <1>18 DEF SchedRun, Forking, TypeOK, SleepInv, NoMissedTick, EmbryoOwned,
     IntrInv
<1>19. ASSUME NEW c \in Cpu,
              \/ ForkCopy(c) \/ ExitStart(c) \/ Fault(c)
              \/ SleepRelock(c) \/ YieldReturn(c) \/ SchedAcquire(c)
              \/ SchedDone(c) \/ SchedRelease(c)
      PROVE  NoMissedTick'
  <2>1. UNCHANGED <<state, chan, left, intr>>
    BY <1>19, Zenon DEF ForkCopy, ExitStart, Fault, SleepRelock, YieldReturn,
       SchedAcquire, SchedDone, SchedRelease
  <2>2. QED BY <2>1, Zenon DEF Forking, NoMissedTick
<1>20. CASE UNCHANGED vars
  BY <1>20, Zenon DEF vars, Forking, NoMissedTick
<1> QED BY <1>1, <1>2, <1>3, <1>4, <1>5, <1>6, <1>7, <1>8, <1>9, <1>10, <1>11,
       <1>12, <1>13, <1>14, <1>15, <1>16, <1>17, <1>18, <1>19, <1>20, Zenon DEF Next,
       ProcStep

\* init is never reused, reaped or given a parent.
LEMMA InitAliveStep ==
    ASSUME TypeOK, EmbryoOwned, ForkInv, InitAlive, IntrInv, [Next]_vars
    PROVE  InitAlive'
<1>1. ASSUME NEW c \in Cpu, NEW new \in Proc, ForkAlloc(c, new)
      PROVE  InitAlive'
  BY <1>1 DEF ForkAlloc, IsFirst, Forking, TypeOK, EmbryoOwned, ForkInv,
     InitAlive, IntrInv
<1>2. ASSUME NEW c \in Cpu, ForkFail(c) PROVE InitAlive'
  BY <1>2 DEF ForkFail, Forking, TypeOK, EmbryoOwned, ForkInv, InitAlive,
     IntrInv
<1>3. ASSUME NEW c \in Cpu, ForkCopy(c) PROVE InitAlive'
  BY <1>3 DEF ForkCopy, Forking, TypeOK, EmbryoOwned, ForkInv, InitAlive,
     IntrInv
<1>4. ASSUME NEW c \in Cpu, ForkReady(c) PROVE InitAlive'
  BY <1>4 DEF ForkReady, Forking, TypeOK, EmbryoOwned, ForkInv, InitAlive,
     IntrInv
<1>5. ASSUME NEW c \in Cpu, ExitStart(c) PROVE InitAlive'
  BY <1>5 DEF ExitStart, ExitPoint, Forking, TypeOK, EmbryoOwned, ForkInv,
     InitAlive, IntrInv
<1>6. ASSUME NEW c \in Cpu, Fault(c) PROVE InitAlive'
  BY <1>6 DEF Fault, ExitPoint, Forking, TypeOK, EmbryoOwned, ForkInv,
     InitAlive, IntrInv
<1>7. ASSUME NEW c \in Cpu, ExitFinish(c) PROVE InitAlive'
  <2>1. ExitFacts(c)
    BY <1>7, ExitEffect, Zenon
  <2>2. cpuproc[c] # initproc
    BY <2>1, Zenon DEF ExitFacts, InitAlive
  <2>3. QED BY <2>1, <2>2, Zenon DEF ExitFacts, InitAlive, TypeOK
<1>8. ASSUME NEW c \in Cpu, NEW z \in Proc, WaitReap(c, z) PROVE InitAlive'
  BY <1>8 DEF WaitReap, WaitScan, ZombieChildren, Children, IsFirst, Forking,
     TypeOK, EmbryoOwned, ForkInv, InitAlive, IntrInv
<1>9. ASSUME NEW c \in Cpu, WaitSleep(c) PROVE InitAlive'
  BY <1>9 DEF WaitSleep, WaitScan, Forking, TypeOK, EmbryoOwned, ForkInv,
     InitAlive, IntrInv
<1>10. ASSUME NEW c \in Cpu, NEW k \in KillArgs, NEW t \in Proc, Kill(c, k, t)
      PROVE  InitAlive'
  BY <1>10 DEF Kill, IsFirst, Forking, TypeOK, EmbryoOwned, ForkInv,
     InitAlive, IntrInv
<1>11. ASSUME NEW c \in Cpu, NEW n \in SleepArgs, SleepStart(c, n)
      PROVE  InitAlive'
  BY <1>11 DEF SleepStart, Forking, TypeOK, EmbryoOwned, ForkInv, InitAlive,
     IntrInv
<1>12. ASSUME NEW c \in Cpu, SleepCheck(c) PROVE InitAlive'
  BY <1>12, Zenon DEF SleepCheck, InitAlive, TypeOK
<1>13. ASSUME NEW c \in Cpu, SleepBlock(c) PROVE InitAlive'
  BY <1>13 DEF SleepBlock, Forking, TypeOK, EmbryoOwned, ForkInv, InitAlive,
     IntrInv
<1>14. ASSUME NEW c \in Cpu, SleepReturn(c) PROVE InitAlive'
  BY <1>14, Zenon DEF SleepReturn, InitAlive, TypeOK
<1>15. ASSUME NEW c \in Cpu, SleepRelock(c) PROVE InitAlive'
  BY <1>15, Zenon DEF SleepRelock, Forking, TypeOK, EmbryoOwned, ForkInv, InitAlive,
     IntrInv
<1>16. ASSUME NEW c \in Cpu, TickWakeup(c) PROVE InitAlive'
  BY <1>16, Zenon DEF TickWakeup, wakeup1, Forking, TypeOK, EmbryoOwned, ForkInv,
     InitAlive, IntrInv
<1>17. ASSUME NEW c \in Cpu, TimerExit(c) PROVE InitAlive'
  BY <1>17 DEF TimerExit, ExitPoint, Forking, TypeOK, EmbryoOwned, ForkInv,
     InitAlive, IntrInv
<1>18. ASSUME NEW c \in Cpu, Yield(c) PROVE InitAlive'
  BY <1>18, Zenon DEF Yield, Forking, TypeOK, EmbryoOwned, ForkInv, InitAlive,
     IntrInv
<1>19. ASSUME NEW c \in Cpu, NEW p \in Proc, SchedRun(c, p) PROVE InitAlive'
  BY <1>19 DEF SchedRun, Forking, TypeOK, EmbryoOwned, ForkInv, InitAlive,
     IntrInv
<1>20. ASSUME NEW c \in Cpu,
              \/ WaitFail(c) \/ TimerTick(c) \/ TimerOther(c)
              \/ YieldReturn(c) \/ SchedAcquire(c) \/ SchedDone(c)
              \/ SchedRelease(c)
      PROVE  InitAlive'
  <2>1. UNCHANGED <<state, pc, parent>>
    BY <1>20, Zenon DEF WaitFail, TimerTick, TimerOther, YieldReturn,
       SchedAcquire, SchedDone, SchedRelease
  <2>2. QED BY <2>1, Zenon DEF Forking, InitAlive
<1>21. CASE UNCHANGED vars
  BY <1>21, Zenon DEF vars, Forking, InitAlive
<1> QED BY <1>1, <1>2, <1>3, <1>4, <1>5, <1>6, <1>7, <1>8, <1>9, <1>10, <1>11,
       <1>12, <1>13, <1>14, <1>15, <1>16, <1>17, <1>18, <1>19, <1>20, <1>21
       DEF Next, ProcStep

\* A process hands its children over before it becomes a zombie.
LEMMA ParentsAliveStep ==
    ASSUME TypeOK, EmbryoOwned, ForkInv, InitAlive, ParentsAlive, IntrInv,
           [Next]_vars
    PROVE  ParentsAlive'
<1>1. ASSUME NEW c \in Cpu, NEW new \in Proc, ForkAlloc(c, new)
      PROVE  ParentsAlive'
  BY <1>1 DEF ForkAlloc, IsFirst, ParentsAlive, TypeOK
<1>2. ASSUME NEW c \in Cpu, ForkFail(c) PROVE ParentsAlive'
  BY <1>2 DEF ForkFail, Forking, TypeOK, EmbryoOwned, ForkInv, InitAlive,
     ParentsAlive, IntrInv
<1>3. ASSUME NEW c \in Cpu, ForkCopy(c) PROVE ParentsAlive'
  BY <1>3 DEF ForkCopy, Forking, TypeOK, EmbryoOwned, ForkInv, InitAlive,
     ParentsAlive, IntrInv
<1>4. ASSUME NEW c \in Cpu, ForkReady(c) PROVE ParentsAlive'
  BY <1>4 DEF ForkReady, Forking, TypeOK, EmbryoOwned, ForkInv, InitAlive,
     ParentsAlive, IntrInv
<1>5. ASSUME NEW c \in Cpu, ExitFinish(c) PROVE ParentsAlive'
  <2>1. ExitFacts(c)
    BY <1>5, ExitEffect, Zenon
  <2>2. QED BY <2>1 DEF ExitFacts, ParentsAlive, TypeOK, InitAlive
<1>6. ASSUME NEW c \in Cpu, NEW z \in Proc, WaitReap(c, z) PROVE ParentsAlive'
  BY <1>6 DEF WaitReap, WaitScan, ZombieChildren, Children, IsFirst, Forking,
     TypeOK, EmbryoOwned, ForkInv, InitAlive, ParentsAlive, IntrInv
<1>7. ASSUME NEW c \in Cpu, WaitSleep(c) PROVE ParentsAlive'
  BY <1>7 DEF WaitSleep, WaitScan, Forking, TypeOK, EmbryoOwned, ForkInv,
     InitAlive, ParentsAlive, IntrInv
<1>8. ASSUME NEW c \in Cpu, NEW k \in KillArgs, NEW t \in Proc, Kill(c, k, t)
      PROVE  ParentsAlive'
  BY <1>8 DEF Kill, IsFirst, Forking, TypeOK, EmbryoOwned, ForkInv, InitAlive,
     ParentsAlive, IntrInv
<1>9. ASSUME NEW c \in Cpu, SleepBlock(c) PROVE ParentsAlive'
  BY <1>9 DEF SleepBlock, Forking, TypeOK, EmbryoOwned, ForkInv, InitAlive,
     ParentsAlive, IntrInv
<1>10. ASSUME NEW c \in Cpu, TickWakeup(c) PROVE ParentsAlive'
  BY <1>10 DEF TickWakeup, wakeup1, Forking, TypeOK, EmbryoOwned, ForkInv,
     InitAlive, ParentsAlive, IntrInv
<1>11. ASSUME NEW c \in Cpu, Yield(c) PROVE ParentsAlive'
  BY <1>11 DEF Yield, Forking, TypeOK, EmbryoOwned, ForkInv, InitAlive,
     ParentsAlive, IntrInv
<1>12. ASSUME NEW c \in Cpu, NEW p \in Proc, SchedRun(c, p)
      PROVE  ParentsAlive'
  BY <1>12 DEF SchedRun, Forking, TypeOK, EmbryoOwned, ForkInv, InitAlive,
     ParentsAlive, IntrInv
<1>13. ASSUME NEW c \in Cpu,
              \/ ExitStart(c) \/ Fault(c) \/ WaitFail(c)
              \/ (\E n \in SleepArgs : SleepStart(c, n)) \/ SleepCheck(c)
              \/ SleepReturn(c)
              \/ SleepRelock(c) \/ TimerTick(c) \/ TimerOther(c)
              \/ TimerExit(c) \/ YieldReturn(c) \/ SchedAcquire(c)
              \/ SchedDone(c) \/ SchedRelease(c)
      PROVE  ParentsAlive'
  <2>1. UNCHANGED <<state, parent>>
    BY <1>13, Zenon DEF ExitStart, Fault, WaitFail, SleepStart, SleepCheck,
       SleepReturn, SleepRelock, TimerTick, TimerOther, TimerExit,
       YieldReturn, SchedAcquire, SchedDone, SchedRelease
  <2>2. QED BY <2>1, Zenon DEF Forking, ParentsAlive
<1>14. CASE UNCHANGED vars
  BY <1>14, Zenon DEF vars, Forking, ParentsAlive
<1> QED BY <1>1, <1>2, <1>3, <1>4, <1>5, <1>6, <1>7, <1>8, <1>9, <1>10, <1>11,
       <1>12, <1>13, <1>14, Zenon DEF Next, ProcStep

\* Whoever gets a zombie child is woken in the same critical section.
LEMMA NoMissedChildExitStep ==
    ASSUME TypeOK, EmbryoOwned, InitAlive, NoMissedChildExit, [Next]_vars
    PROVE  NoMissedChildExit'
<1>1. ASSUME NEW c \in Cpu, NEW new \in Proc, ForkAlloc(c, new)
      PROVE  NoMissedChildExit'
  BY <1>1 DEF ForkAlloc, IsFirst, Forking, ZombieChildren, Children, TypeOK,
     EmbryoOwned, InitAlive, NoMissedChildExit
<1>2. ASSUME NEW c \in Cpu, ForkFail(c) PROVE NoMissedChildExit'
  BY <1>2 DEF ForkFail, Forking, ZombieChildren, Children, TypeOK,
     EmbryoOwned, InitAlive, NoMissedChildExit
<1>3. ASSUME NEW c \in Cpu, ForkCopy(c) PROVE NoMissedChildExit'
  BY <1>3 DEF ForkCopy, Forking, ZombieChildren, Children, TypeOK,
     EmbryoOwned, InitAlive, NoMissedChildExit
<1>4. ASSUME NEW c \in Cpu, ForkReady(c) PROVE NoMissedChildExit'
  BY <1>4 DEF ForkReady, Forking, ZombieChildren, Children, TypeOK,
     EmbryoOwned, InitAlive, NoMissedChildExit
<1>5. ASSUME NEW c \in Cpu, ExitFinish(c) PROVE NoMissedChildExit'
  <2>1. ExitFacts(c)
    BY <1>5, ExitEffect, Zenon
  <2>2. SUFFICES ASSUME NEW q \in Proc, state'[q] = "SLEEPING", chan'[q] = q,
                        NEW z \in Proc, parent'[z] = q, state'[z] = "ZOMBIE"
                 PROVE  FALSE
    BY Zenon DEF NoMissedChildExit, ZombieChildren, Children
  <2>3. state[q] = "SLEEPING" /\ chan[q] = q /\ q # cpuproc[c]
    BY <2>1, <2>2, Zenon DEF ExitFacts
  <2>4. CASE z = cpuproc[c]
    <3>1. parent[cpuproc[c]] = q
      BY <2>1, <2>2, <2>4, Zenon DEF ExitFacts, InitAlive
    <3>2. wakeup1(state, q)[q] = "RUNNABLE"
      BY <2>3, Zenon DEF wakeup1
    <3>3. wakeup1(wakeup1(state, q), initproc)[q] = "RUNNABLE"
      BY <3>2, Zenon DEF wakeup1
    <3>4. state'[q] = "RUNNABLE"
      BY <1>5, <2>3, <3>1, <3>2, <3>3, Zenon DEF ExitFinish, wakeup1
    <3>5. QED BY <2>2, <3>4, Zenon
  <2>5. CASE z # cpuproc[c] /\ parent[z] = cpuproc[c]
    <3>1. state[z] = "ZOMBIE" /\ q = initproc
      BY <2>1, <2>2, <2>5, Zenon DEF ExitFacts
    <3>2. state'[q] = "RUNNABLE"
      BY <1>5, <2>3, <2>5, <3>1, Zenon DEF ExitFinish, wakeup1
    <3>3. QED BY <2>2, <3>2, Zenon
  <2>6. CASE z # cpuproc[c] /\ parent[z] # cpuproc[c]
    <3>1. state[z] = "ZOMBIE" /\ parent[z] = q
      BY <2>1, <2>2, <2>6, Zenon DEF ExitFacts
    <3>2. QED BY <2>3, <3>1, Zenon DEF NoMissedChildExit, ZombieChildren, Children
  <2>7. QED BY <2>4, <2>5, <2>6, Zenon
<1>6. ASSUME NEW c \in Cpu, NEW z \in Proc, WaitReap(c, z)
      PROVE  NoMissedChildExit'
  BY <1>6 DEF WaitReap, WaitScan, ZombieChildren, Children, IsFirst, Forking,
     TypeOK, EmbryoOwned, InitAlive, NoMissedChildExit
<1>7. ASSUME NEW c \in Cpu, WaitFail(c) PROVE NoMissedChildExit'
  BY <1>7 DEF WaitFail, WaitScan, Forking, ZombieChildren, Children, TypeOK,
     EmbryoOwned, InitAlive, NoMissedChildExit
<1>8. ASSUME NEW c \in Cpu, WaitSleep(c) PROVE NoMissedChildExit'
  BY <1>8 DEF WaitSleep, WaitScan, Forking, ZombieChildren, Children, TypeOK,
     EmbryoOwned, InitAlive, NoMissedChildExit
<1>9. ASSUME NEW c \in Cpu, NEW k \in KillArgs, NEW t \in Proc, Kill(c, k, t)
      PROVE  NoMissedChildExit'
  BY <1>9 DEF Kill, IsFirst, Forking, ZombieChildren, Children, TypeOK,
     EmbryoOwned, InitAlive, NoMissedChildExit
<1>10. ASSUME NEW c \in Cpu, SleepBlock(c) PROVE NoMissedChildExit'
  BY <1>10 DEF SleepBlock, Forking, ZombieChildren, Children, TypeOK,
     EmbryoOwned, InitAlive, NoMissedChildExit
<1>11. ASSUME NEW c \in Cpu, SleepReturn(c) PROVE NoMissedChildExit'
  BY <1>11 DEF SleepReturn, Forking, ZombieChildren, Children, TypeOK,
     EmbryoOwned, InitAlive, NoMissedChildExit
<1>12. ASSUME NEW c \in Cpu, TickWakeup(c) PROVE NoMissedChildExit'
  BY <1>12 DEF TickWakeup, wakeup1, Forking, ZombieChildren, Children, TypeOK,
     EmbryoOwned, InitAlive, NoMissedChildExit
<1>13. ASSUME NEW c \in Cpu, Yield(c) PROVE NoMissedChildExit'
  BY <1>13 DEF Yield, Forking, ZombieChildren, Children, TypeOK, EmbryoOwned,
     InitAlive, NoMissedChildExit
<1>14. ASSUME NEW c \in Cpu, NEW p \in Proc, SchedRun(c, p)
      PROVE  NoMissedChildExit'
  BY <1>14 DEF SchedRun, Forking, ZombieChildren, Children, TypeOK,
     EmbryoOwned, InitAlive, NoMissedChildExit
<1>15. ASSUME NEW c \in Cpu,
              \/ ExitStart(c) \/ Fault(c)
              \/ (\E n \in SleepArgs : SleepStart(c, n))
              \/ SleepCheck(c) \/ SleepRelock(c) \/ TimerTick(c)
              \/ TimerOther(c) \/ TimerExit(c) \/ YieldReturn(c)
              \/ SchedAcquire(c) \/ SchedDone(c) \/ SchedRelease(c)
      PROVE  NoMissedChildExit'
  <2>1. UNCHANGED <<state, chan, parent>>
    BY <1>15, Zenon DEF ExitStart, Fault, SleepStart, SleepCheck, SleepRelock,
       TimerTick, TimerOther, TimerExit, YieldReturn, SchedAcquire, SchedDone,
       SchedRelease
  <2>2. QED BY <2>1, Zenon DEF Forking, ZombieChildren, Children, NoMissedChildExit
<1>16. CASE UNCHANGED vars
  BY <1>16, Zenon DEF vars, Forking, ZombieChildren, Children, NoMissedChildExit
<1> QED BY <1>1, <1>2, <1>3, <1>4, <1>5, <1>6, <1>7, <1>8, <1>9, <1>10, <1>11,
       <1>12, <1>13, <1>14, <1>15, <1>16, Zenon DEF Next, ProcStep

\* Pids are below nextpid.
LEMMA PidInvStep ==
    ASSUME TypeOK, PidInv, [Next]_vars
    PROVE  PidInv'
<1>1. ASSUME NEW c \in Cpu, NEW new \in Proc, ForkAlloc(c, new) PROVE PidInv'
  BY <1>1 DEF ForkAlloc, IsFirst, TypeOK, PidInv
<1>2. ASSUME NEW c \in Cpu, NEW z \in Proc, WaitReap(c, z) PROVE PidInv'
  BY <1>2 DEF WaitReap, WaitScan, ZombieChildren, Children, IsFirst, TypeOK,
     PidInv
<1>3. ASSUME NEW c \in Cpu,
              \/ ForkFail(c) \/ ForkCopy(c) \/ ForkReady(c)
              \/ ExitStart(c) \/ Fault(c) \/ ExitFinish(c)
              \/ WaitFail(c) \/ WaitSleep(c)
              \/ (\E k \in KillArgs, t \in Proc : Kill(c, k, t))
              \/ (\E n \in SleepArgs : SleepStart(c, n)) \/ SleepCheck(c)
              \/ SleepBlock(c)
              \/ SleepReturn(c) \/ SleepRelock(c) \/ TimerTick(c)
              \/ TickWakeup(c) \/ TimerOther(c) \/ TimerExit(c)
              \/ Yield(c) \/ YieldReturn(c) \/ SchedAcquire(c)
              \/ (\E p \in Proc : SchedRun(c, p)) \/ SchedDone(c)
              \/ SchedRelease(c)
      PROVE  PidInv'
  <2>1. UNCHANGED <<pid, nextpid>>
    BY <1>3, Zenon DEF ForkFail, ForkCopy, ForkReady, ExitStart, Fault,
       ExitFinish, WaitFail, WaitSleep, Kill, SleepStart, SleepCheck,
       SleepBlock, SleepReturn, SleepRelock, TimerTick, TickWakeup,
       TimerOther, TimerExit, Yield, YieldReturn, SchedAcquire, SchedRun,
       SchedDone, SchedRelease
  <2>2. QED BY <2>1, Zenon DEF PidInv
<1>4. CASE UNCHANGED vars
  BY <1>4, Zenon DEF vars, PidInv
<1> QED BY <1>1, <1>2, <1>3, <1>4, Zenon DEF Next, ProcStep

\* A new pid is above all others.
LEMMA UniquePidStep ==
    ASSUME TypeOK, PidInv, UniquePid, [Next]_vars
    PROVE  UniquePid'
<1>1. ASSUME NEW c \in Cpu, NEW new \in Proc, ForkAlloc(c, new)
      PROVE  UniquePid'
  BY <1>1 DEF ForkAlloc, IsFirst, TypeOK, PidInv, UniquePid
<1>2. ASSUME NEW c \in Cpu, NEW z \in Proc, WaitReap(c, z) PROVE UniquePid'
  BY <1>2, Zenon DEF WaitReap, WaitScan, ZombieChildren, Children, IsFirst, TypeOK,
     PidInv, UniquePid
<1>3. ASSUME NEW c \in Cpu,
              \/ ForkFail(c) \/ ForkCopy(c) \/ ForkReady(c)
              \/ ExitStart(c) \/ Fault(c) \/ ExitFinish(c)
              \/ WaitFail(c) \/ WaitSleep(c)
              \/ (\E k \in KillArgs, t \in Proc : Kill(c, k, t))
              \/ (\E n \in SleepArgs : SleepStart(c, n)) \/ SleepCheck(c)
              \/ SleepBlock(c)
              \/ SleepReturn(c) \/ SleepRelock(c) \/ TimerTick(c)
              \/ TickWakeup(c) \/ TimerOther(c) \/ TimerExit(c)
              \/ Yield(c) \/ YieldReturn(c) \/ SchedAcquire(c)
              \/ (\E p \in Proc : SchedRun(c, p)) \/ SchedDone(c)
              \/ SchedRelease(c)
      PROVE  UniquePid'
  <2>1. UNCHANGED <<pid, nextpid>>
    BY <1>3, Zenon DEF ForkFail, ForkCopy, ForkReady, ExitStart, Fault,
       ExitFinish, WaitFail, WaitSleep, Kill, SleepStart, SleepCheck,
       SleepBlock, SleepReturn, SleepRelock, TimerTick, TickWakeup,
       TimerOther, TimerExit, Yield, YieldReturn, SchedAcquire, SchedRun,
       SchedDone, SchedRelease
  <2>2. QED BY <2>1, Zenon DEF UniquePid
<1>4. CASE UNCHANGED vars
  BY <1>4, Zenon DEF vars, UniquePid
<1> QED BY <1>1, <1>2, <1>3, <1>4, Zenon DEF Next, ProcStep

\* After userinit and with every processor about to enter its scheduler the
\* invariant holds.
LEMMA InitIInv == Init => IInv
<1> SUFFICES ASSUME Init PROVE IInv
  BY Zenon
<1> USE DEF Init
<1>1. TypeOK
  BY Zenon DEF TypeOK, ProcState, PC
<1>2. OneCpuPerProc /\ SchedHoldsOnlyPtable /\ IntrInv /\ TicksLockInv
  BY Zenon DEF OneCpuPerProc, NoSharedProc, RunningHasCpu, LockedUntilSwitched,
         SchedHoldsOnlyPtable, IntrInv, TicksLockInv
<1>3. EmbryoOwned /\ NoEmbryoLeak /\ ForkInv /\ SleepInv /\ NoMissedTick
  BY Zenon DEF EmbryoOwned, NoEmbryoLeak, Forking, ForkInv, SleepInv, NoMissedTick
<1>4. InitAlive /\ ParentsAlive /\ NoMissedChildExit
  BY Zenon DEF InitAlive, ParentsAlive, NoMissedChildExit
<1>5. PidInv /\ UniquePid
  BY DEF PidInv, UniquePid
<1>6. QED BY <1>1, <1>2, <1>3, <1>4, <1>5, Zenon DEF IInv

\* Every step of every processor keeps the invariant.
LEMMA StepIInv == IInv /\ [Next]_vars => IInv'
<1> SUFFICES ASSUME IInv, [Next]_vars PROVE IInv'
  BY Zenon
<1>1. /\ TypeOK /\ NoSharedProc /\ RunningHasCpu /\ LockedUntilSwitched
      /\ SchedHoldsOnlyPtable /\ IntrInv /\ TicksLockInv /\ EmbryoOwned
      /\ NoEmbryoLeak /\ ForkInv /\ SleepInv /\ NoMissedTick /\ InitAlive
      /\ ParentsAlive /\ NoMissedChildExit /\ PidInv /\ UniquePid
  BY Zenon DEF IInv, OneCpuPerProc
<1>2. TypeOK' /\ OneCpuPerProc'
  BY <1>1, TypeOKStep, NoSharedProcStep, RunningHasCpuStep,
     LockedUntilSwitchedStep, Zenon DEF OneCpuPerProc
<1>3. SchedHoldsOnlyPtable' /\ IntrInv' /\ TicksLockInv'
  BY <1>1, SchedHoldsOnlyPtableStep, IntrInvStep, TicksLockInvStep, Zenon
<1>4. EmbryoOwned' /\ NoEmbryoLeak' /\ ForkInv' /\ SleepInv' /\ NoMissedTick'
  BY <1>1, EmbryoOwnedStep, NoEmbryoLeakStep, ForkInvStep, SleepInvStep,
     NoMissedTickStep, Zenon
<1>5. InitAlive' /\ ParentsAlive' /\ NoMissedChildExit'
  BY <1>1, InitAliveStep, ParentsAliveStep, NoMissedChildExitStep, Zenon
<1>6. PidInv' /\ UniquePid'
  BY <1>1, PidInvStep, UniquePidStep, Zenon
<1>7. QED BY <1>2, <1>3, <1>4, <1>5, <1>6, Zenon DEF IInv

-----------------------------------------------------------------------------
\* IInv is an invariant: the state in which fork, exit, wait, kill, sleep, the
\* timer and the schedulers leave the table never breaks any of its conjuncts.
THEOREM Invariance == Spec => []IInv
<1>1. Init => IInv
  BY InitIInv, Zenon
<1>2. IInv /\ [Next]_vars => IInv'
  BY StepIInv, Zenon
<1>3. QED BY <1>1, <1>2, PTL DEF Spec

\* The table keeps its types (struct proc, struct cpu and the two locks).
THEOREM TypeCorrect == Spec => []TypeOK
<1>1. IInv => TypeOK
  BY Zenon DEF IInv
<1>2. QED BY <1>1, Invariance, PTL

\* For any number of slots and processors the hand-over of ptable.lock across
\* swtch in sched() and scheduler() keeps every process on at most one
\* processor, and its kernel stack to that processor.
THEOREM ProcOnOneCpu == Spec => []OneCpuPerProc
<1>1. IInv => OneCpuPerProc
  BY Zenon DEF IInv
<1>2. QED BY <1>1, Invariance, PTL

\* The assertions of sched() about locks hold on every path into it: yield,
\* exit, wait and sys_sleep.
THEOREM SchedLocks == Spec => []SchedHoldsOnlyPtable
<1>1. IInv => SchedHoldsOnlyPtable
  BY Zenon DEF IInv
<1>2. QED BY <1>1, Invariance, PTL

\* No wakeup for a parent in wait() is lost, however exit() of its children
\* and of its children's parents interleave.
THEOREM ChildExitSeen == Spec => []NoMissedChildExit
<1>1. IInv => NoMissedChildExit
  BY Zenon DEF IInv
<1>2. QED BY <1>1, Invariance, PTL

\* No wakeup for a process in sys_sleep() is lost: sleep() takes ptable.lock
\* before it releases tickslock.
THEOREM TickSeen == Spec => []NoMissedTick
<1>1. IInv => NoMissedTick
  BY Zenon DEF IInv
<1>2. QED BY <1>1, Invariance, PTL

\* exit() never leaves an orphan that nobody can wait for.
THEOREM NoOrphans == Spec => []ParentsAlive
<1>1. IInv => ParentsAlive
  BY Zenon DEF IInv
<1>2. QED BY <1>1, Invariance, PTL

\* kill() can mean one slot only, except for the pid 0 of reaped slots.
THEOREM PidsUnique == Spec => []UniquePid
<1>1. IInv => UniquePid
  BY Zenon DEF IInv
<1>2. QED BY <1>1, Invariance, PTL

\* fork() fills a slot that nobody else uses, although it holds no lock while
\* it does, and every slot it takes is made RUNNABLE or given back.
THEOREM ForkOwnsSlot == Spec => [](EmbryoOwned /\ NoEmbryoLeak)
<1>1. IInv => EmbryoOwned /\ NoEmbryoLeak
  BY Zenon DEF IInv
<1>2. QED BY <1>1, Invariance, PTL

\* wait() never sleeps through a kill(), for any number of slots and processors:
\* the mark and the sleep are both made under ptable.lock.
THEOREM KilledAwake == Spec => []KilledNotInWait
<1>1. Init => KilledNotInWait
  BY Zenon DEF Init, KilledNotInWait
<1>2. ASSUME TypeOK, KilledNotInWait, [Next]_vars PROVE KilledNotInWait'
  <2>1. ASSUME UNCHANGED <<chan, killed>>,
               \A p \in Proc : state'[p] = "SLEEPING" => state[p] = "SLEEPING"
        PROVE  KilledNotInWait'
    BY <1>2, <2>1, Zenon DEF KilledNotInWait
  <2>2. ASSUME NEW c \in Cpu,
               \/ ForkCopy(c) \/ ExitStart(c)
               \/ (\E n \in SleepArgs : SleepStart(c, n))
               \/ SleepCheck(c) \/ SleepRelock(c)
               \/ TimerTick(c) \/ TimerOther(c) \/ TimerExit(c) \/ YieldReturn(c)
               \/ SchedAcquire(c) \/ SchedDone(c) \/ SchedRelease(c)
        PROVE  KilledNotInWait'
    <3>1. UNCHANGED <<chan, killed, state>>
      BY <2>2, Zenon
         DEF ForkCopy, ExitStart, SleepStart, SleepCheck, SleepRelock, TimerTick,
             TimerOther, TimerExit, YieldReturn, SchedAcquire, SchedDone, SchedRelease
    <3>2. QED BY <2>1, <3>1, Zenon
  <2>3. ASSUME NEW c \in Cpu,
               \/ (\E new \in Proc : ForkAlloc(c, new))
               \/ ForkFail(c) \/ ForkReady(c) \/ Yield(c)
               \/ (\E p \in Proc : SchedRun(c, p))
        PROVE  KilledNotInWait'
    <3>1. UNCHANGED <<chan, killed>>
      BY <2>3, Zenon DEF ForkAlloc, ForkFail, ForkReady, Yield, SchedRun
    <3>2. \E t : \/ state' = [state EXCEPT ![t] = "EMBRYO"]
                 \/ state' = [state EXCEPT ![t] = "UNUSED"]
                 \/ state' = [state EXCEPT ![t] = "RUNNABLE"]
                 \/ state' = [state EXCEPT ![t] = "RUNNING"]
      BY <2>3, Zenon DEF ForkAlloc, ForkFail, ForkReady, Yield, SchedRun
    <3>3. \A p \in Proc : state'[p] = "SLEEPING" => state[p] = "SLEEPING"
      BY <1>2, <3>2, SMT DEF TypeOK
    <3>4. QED BY <2>1, <3>1, <3>3, Zenon
  <2>4. ASSUME NEW c \in Cpu, ExitFinish(c) \/ TickWakeup(c) PROVE KilledNotInWait'
    <3>1. UNCHANGED <<chan, killed>>
      BY <2>4, Zenon DEF ExitFinish, TickWakeup
    <3>2. \A st, ch : \A p \in Proc :
              wakeup1(st, ch)[p] = "SLEEPING" => st[p] = "SLEEPING"
      BY Zenon DEF wakeup1
    <3>3. \A p \in Proc : state'[p] = "SLEEPING" => state[p] = "SLEEPING"
      <4>1. CASE ExitFinish(c)
        BY <1>2, <4>1, SMT DEF ExitFinish, wakeup1, TypeOK
      <4>2. CASE TickWakeup(c)
        BY <3>2, <4>2, Zenon DEF TickWakeup
      <4>3. QED BY <2>4, <4>1, <4>2
    <3>4. QED BY <2>1, <3>1, <3>3, Zenon
  <2>5. ASSUME NEW c \in Cpu, Fault(c) PROVE KilledNotInWait'
    BY <1>2, <2>5, Zenon DEF Fault, TypeOK, KilledNotInWait
  <2>6. ASSUME NEW c \in Cpu, NEW k \in KillArgs, NEW t \in Proc, Kill(c, k, t)
        PROVE  KilledNotInWait'
    BY <1>2, <2>6, Zenon DEF Kill, TypeOK, KilledNotInWait
  <2>7. ASSUME NEW c \in Cpu, NEW z \in Proc, WaitReap(c, z) PROVE KilledNotInWait'
    BY <1>2, <2>7, Zenon DEF WaitReap, WaitScan, TypeOK, KilledNotInWait
  <2>8. ASSUME NEW c \in Cpu, WaitFail(c) \/ SleepReturn(c) PROVE KilledNotInWait'
    <3>1. /\ state[cpuproc[c]] = "RUNNING"
          /\ chan' = [chan EXCEPT ![cpuproc[c]] = None]
          /\ UNCHANGED <<killed, state>>
      BY <2>8, Zenon DEF WaitFail, WaitScan, SleepReturn
    <3>2. QED BY <1>2, <3>1, Zenon DEF TypeOK, KilledNotInWait
  <2>9. ASSUME NEW c \in Cpu, WaitSleep(c) \/ SleepBlock(c) PROVE KilledNotInWait'
    <3>1. /\ \/ ~killed[cpuproc[c]]
             \/ chan' = [chan EXCEPT ![cpuproc[c]] = TicksChan]
          /\ state' = [state EXCEPT ![cpuproc[c]] = "SLEEPING"]
          /\ \E ch : chan' = [chan EXCEPT ![cpuproc[c]] = ch]
          /\ UNCHANGED killed
      BY <2>9, Zenon DEF WaitSleep, SleepBlock
    <3>2. QED BY <1>2, <3>1, SMT DEF TypeOK, KilledNotInWait
  <2>10. CASE UNCHANGED vars
    BY <2>1, <2>10, Zenon DEF vars
  <2>11. QED BY <1>2, <2>2, <2>3, <2>4, <2>5, <2>6, <2>7, <2>8, <2>9, <2>10, Zenon
             DEF Next, ProcStep
<1>3. QED BY <1>1, <1>2, TypeCorrect, PTL DEF Spec
=============================================================================
