---------------------------- MODULE ProcTableFork ----------------------------
(***************************************************************************)
(* The second part of the proof that IInv is inductive: the conjuncts about*)
(* fork, which works on its slot without ptable.lock.                      *)
(***************************************************************************)
EXTENDS ProcTableLocks

USE Names DEF procVars, At, InSyscall, Resumed

\* A fork that begins takes an UNUSED slot.
LEMMA ForkBegins ==
    ASSUME TypeOK, NEW c \in Cpu, NEW new \in Proc, ForkAlloc(c, new)
    PROVE  /\ cpuproc[c] \in Proc /\ ~Forking(cpuproc[c])
           /\ state[new] = "UNUSED" /\ state' = [state EXCEPT ![new] = "EMBRYO"]
           /\ pc'[cpuproc[c]] = "forkcopy" /\ np' = [np EXCEPT ![cpuproc[c]] = new]
           /\ \A q \in Proc : q # cpuproc[c] => (Forking(q)' <=> Forking(q))
  BY Zenon DEF ForkAlloc, IsFirst, Forking, TypeOK

\* A fork that ends lets go of its EMBRYO slot, which then is UNUSED or RUNNABLE.
LEMMA ForkEnds ==
    ASSUME TypeOK, EmbryoOwned, NEW c \in Cpu, ForkFail(c) \/ ForkReady(c)
    PROVE  /\ cpuproc[c] \in Proc /\ Forking(cpuproc[c]) /\ pc'[cpuproc[c]] = "user"
           /\ np[cpuproc[c]] \in Proc /\ state[np[cpuproc[c]]] = "EMBRYO"
           /\ state'[np[cpuproc[c]]] \in {"UNUSED", "RUNNABLE"}
           /\ \A q \in Proc : q # np[cpuproc[c]] => state'[q] = state[q]
           /\ \A q \in Proc : q # cpuproc[c] => (Forking(q)' <=> Forking(q)) /\ np'[q] = np[q]
<1>1. cpuproc[c] \in Proc /\ pc[cpuproc[c]] \in {"forkcopy", "forkready"}
  BY Zenon DEF ForkFail, ForkReady, TypeOK
<1>2. np[cpuproc[c]] \in Proc /\ state[np[cpuproc[c]]] = "EMBRYO"
  BY <1>1, Zenon DEF EmbryoOwned, Forking, TypeOK
<1>3. /\ \/ state' = [state EXCEPT ![np[cpuproc[c]]] = "UNUSED"]
         \/ state' = [state EXCEPT ![np[cpuproc[c]]] = "RUNNABLE"]
      /\ np' = [np EXCEPT ![cpuproc[c]] = None]
      /\ pc' = [pc EXCEPT ![cpuproc[c]] = "user"]
  BY Zenon DEF ForkFail, ForkReady
<1>4. /\ Forking(cpuproc[c]) /\ pc'[cpuproc[c]] = "user"
      /\ \A q \in Proc : q # cpuproc[c] => (Forking(q)' <=> Forking(q)) /\ np'[q] = np[q]
  BY <1>1, <1>3 DEF Forking, TypeOK
<1>5. /\ state'[np[cpuproc[c]]] \in {"UNUSED", "RUNNABLE"}
      /\ \A q \in Proc : q # np[cpuproc[c]] => state'[q] = state[q]
  BY <1>2, <1>3 DEF TypeOK
<1>6. QED BY <1>1, <1>2, <1>4, <1>5, Zenon

\* No other step begins or ends a fork.
LEMMA ForkingFrame ==
    ASSUME TypeOK, EmbryoOwned, ForkInv, SleepInv, NEW c \in Cpu,
           \/ ForkCopy(c) \/ ExitStart(c) \/ Fault(c)
           \/ (\E n \in SleepArgs : SleepStart(c, n))
           \/ SleepCheck(c) \/ SleepReturn(c) \/ SleepRelock(c)
           \/ TimerExit(c)
    PROVE  \A q \in Proc : (Forking(q)' <=> Forking(q))
<1>1. CASE ForkCopy(c)
  <2>1. /\ cpuproc[c] \in Proc /\ pc[cpuproc[c]] = "forkcopy"
        /\ pc' = [pc EXCEPT ![cpuproc[c]] = "forkready", ![np[cpuproc[c]]] = "user"]
    BY <1>1, Zenon DEF ForkCopy, TypeOK
  <2>2. /\ np[cpuproc[c]] \in Proc
        /\ pc[np[cpuproc[c]]] \in {"user", "exit"}
    BY <2>1 DEF EmbryoOwned, ForkInv, Forking, TypeOK
  <2>3. QED BY <2>1, <2>2, Zenon DEF Forking, TypeOK
<1>2. CASE ExitStart(c) \/ Fault(c) \/ TimerExit(c)
  BY <1>2 DEF ExitStart, Fault, TimerExit, ExitPoint, Forking, TypeOK
<1>3. CASE (\E n \in SleepArgs : SleepStart(c, n)) \/ SleepCheck(c) \/ SleepRelock(c)
  BY <1>3 DEF SleepStart, SleepCheck, SleepRelock, Forking, TypeOK
<1>4. CASE SleepReturn(c)
  BY <1>4, Zenon DEF SleepReturn, Forking, TypeOK, SleepInv
<1>5. QED BY <1>1, <1>2, <1>3, <1>4, Zenon

\* Steps that neither make nor change an EMBRYO slot keep what is said of them.
LEMMA EmbryoFrame ==
    ASSUME TypeOK, UNCHANGED <<pc, np>>,
           \A q \in Proc : state'[q] = "EMBRYO" <=> state[q] = "EMBRYO"
    PROVE  (EmbryoOwned => EmbryoOwned') /\ (NoEmbryoLeak => NoEmbryoLeak')
  BY DEF EmbryoOwned, NoEmbryoLeak, Forking, TypeOK


\* Two forks never fill the same slot.
LEMMA EmbryoOwnedStep ==
    ASSUME TypeOK, EmbryoOwned, ForkInv, SleepInv, IntrInv, [Next]_vars
    PROVE  EmbryoOwned'
<1>1. ASSUME NEW c \in Cpu, NEW new \in Proc, ForkAlloc(c, new)
      PROVE  EmbryoOwned'
  <2>1. /\ cpuproc[c] \in Proc /\ ~Forking(cpuproc[c])
        /\ state[new] = "UNUSED" /\ state' = [state EXCEPT ![new] = "EMBRYO"]
        /\ pc'[cpuproc[c]] = "forkcopy" /\ np' = [np EXCEPT ![cpuproc[c]] = new]
        /\ \A q \in Proc : q # cpuproc[c] => (Forking(q)' <=> Forking(q))
    BY <1>1, ForkBegins, Zenon
  <2>2. \A q \in Proc : Forking(q) => np[q] \in Proc /\ np[q] # new /\ state[np[q]] = "EMBRYO"
    BY <2>1 DEF EmbryoOwned, TypeOK
  <2>3. \A q \in Proc : Forking(q)' =>
            \/ q = cpuproc[c] /\ np'[q] = new
            \/ q # cpuproc[c] /\ Forking(q) /\ np'[q] = np[q]
    <3>1. np'[cpuproc[c]] = new /\ \A q \in Proc : q # cpuproc[c] => np'[q] = np[q]
      BY <2>1, Zenon DEF TypeOK
    <3>2. \A q \in Proc : q # cpuproc[c] /\ Forking(q)' => Forking(q)
      BY <2>1, Zenon
    <3>3. ASSUME NEW q \in Proc, Forking(q)', q = cpuproc[c] PROVE np'[q] = new
      BY <3>1, <3>3, Zenon
    <3>4. QED BY <3>1, <3>2, <3>3, Zenon
  <2>4. \A q \in Proc : state[q] = "EMBRYO" \/ q = new => state'[q] = "EMBRYO"
    BY <2>1, Zenon DEF TypeOK
  <2>5. \A q \in Proc : Forking(q)' => np'[q] # None /\ state'[np'[q]] = "EMBRYO"
    BY <2>2, <2>3, <2>4
  <2>6. \A q, r \in Proc : Forking(q)' /\ Forking(r)' /\ np'[q] = np'[r] => q = r
    BY <2>2, <2>3 DEF EmbryoOwned
  <2>7. QED BY <2>5, <2>6, Zenon DEF EmbryoOwned
<1>2. ASSUME NEW c \in Cpu, ForkFail(c) PROVE EmbryoOwned'
  <2>1. /\ cpuproc[c] \in Proc /\ Forking(cpuproc[c]) /\ pc'[cpuproc[c]] = "user"
        /\ np[cpuproc[c]] \in Proc /\ state[np[cpuproc[c]]] = "EMBRYO"
        /\ state'[np[cpuproc[c]]] \in {"UNUSED", "RUNNABLE"}
        /\ \A q \in Proc : q # np[cpuproc[c]] => state'[q] = state[q]
        /\ \A q \in Proc : q # cpuproc[c] => (Forking(q)' <=> Forking(q)) /\ np'[q] = np[q]
    BY <1>2, ForkEnds, Zenon
  <2>2. \A q \in Proc : Forking(q)' => q # cpuproc[c] /\ Forking(q) /\ np'[q] = np[q]
    BY <2>1, Zenon DEF Forking
  <2>3. \A q \in Proc : Forking(q) /\ q # cpuproc[c] =>
              np[q] \in Proc /\ np[q] # np[cpuproc[c]] /\ state[np[q]] = "EMBRYO"
    BY <2>1 DEF EmbryoOwned, TypeOK
  <2>4. \A q \in Proc : Forking(q)' => np'[q] # None /\ state'[np'[q]] = "EMBRYO"
    BY <2>1, <2>2, <2>3
  <2>5. \A q, r \in Proc : Forking(q)' /\ Forking(r)' /\ np'[q] = np'[r] => q = r
    BY <2>2, Zenon DEF EmbryoOwned
  <2>6. QED BY <2>4, <2>5, Zenon DEF EmbryoOwned
<1>3. ASSUME NEW c \in Cpu, ForkCopy(c) PROVE EmbryoOwned'
  <2>1. UNCHANGED <<state, np>> BY <1>3 DEF ForkCopy
  <2>2. \A q \in Proc : (Forking(q)' <=> Forking(q)) BY <1>3, ForkingFrame
  <2>3. QED BY <2>1, <2>2, Zenon DEF EmbryoOwned, Forking
<1>4. ASSUME NEW c \in Cpu, ForkReady(c) PROVE EmbryoOwned'
  <2>1. /\ cpuproc[c] \in Proc /\ Forking(cpuproc[c]) /\ pc'[cpuproc[c]] = "user"
        /\ np[cpuproc[c]] \in Proc /\ state[np[cpuproc[c]]] = "EMBRYO"
        /\ state'[np[cpuproc[c]]] \in {"UNUSED", "RUNNABLE"}
        /\ \A q \in Proc : q # np[cpuproc[c]] => state'[q] = state[q]
        /\ \A q \in Proc : q # cpuproc[c] => (Forking(q)' <=> Forking(q)) /\ np'[q] = np[q]
    BY <1>4, ForkEnds, Zenon
  <2>2. \A q \in Proc : Forking(q)' => q # cpuproc[c] /\ Forking(q) /\ np'[q] = np[q]
    BY <2>1, Zenon DEF Forking
  <2>3. \A q \in Proc : Forking(q) /\ q # cpuproc[c] =>
              np[q] \in Proc /\ np[q] # np[cpuproc[c]] /\ state[np[q]] = "EMBRYO"
    BY <2>1 DEF EmbryoOwned, TypeOK
  <2>4. \A q \in Proc : Forking(q)' => np'[q] # None /\ state'[np'[q]] = "EMBRYO"
    BY <2>1, <2>2, <2>3
  <2>5. \A q, r \in Proc : Forking(q)' /\ Forking(r)' /\ np'[q] = np'[r] => q = r
    BY <2>2, Zenon DEF EmbryoOwned
  <2>6. QED BY <2>4, <2>5, Zenon DEF EmbryoOwned
<1>5. ASSUME NEW c \in Cpu, ExitStart(c) PROVE EmbryoOwned'
  <2>1. UNCHANGED <<state, np>> BY <1>5 DEF ExitStart
  <2>2. \A q \in Proc : (Forking(q)' <=> Forking(q)) BY <1>5, ForkingFrame
  <2>3. QED BY <2>1, <2>2, Zenon DEF EmbryoOwned, Forking
<1>6. ASSUME NEW c \in Cpu, Fault(c) PROVE EmbryoOwned'
  <2>1. UNCHANGED <<state, np>> BY <1>6 DEF Fault
  <2>2. \A q \in Proc : (Forking(q)' <=> Forking(q)) BY <1>6, ForkingFrame
  <2>3. QED BY <2>1, <2>2, Zenon DEF EmbryoOwned, Forking
<1>7. ASSUME NEW c \in Cpu, ExitFinish(c) PROVE EmbryoOwned'
  <2>1. ExitFacts(c)
    BY <1>7, ExitEffect, Zenon
  <2>2. \A q \in Proc : state'[q] = "EMBRYO" <=> state[q] = "EMBRYO"
    BY <2>1, Zenon DEF ExitFacts, TypeOK
  <2>3. QED BY <2>1, <2>2, EmbryoFrame, Zenon DEF ExitFacts
<1>8. ASSUME NEW c \in Cpu, NEW z \in Proc, WaitReap(c, z) PROVE EmbryoOwned'
  BY <1>8 DEF WaitReap, WaitScan, ZombieChildren, Children, IsFirst, Forking,
     TypeOK, EmbryoOwned, ForkInv, SleepInv, IntrInv
<1>9. ASSUME NEW c \in Cpu, WaitSleep(c) PROVE EmbryoOwned'
  BY <1>9 DEF WaitSleep, WaitScan, Forking, TypeOK, EmbryoOwned, ForkInv,
     SleepInv, IntrInv
<1>10. ASSUME NEW c \in Cpu, NEW k \in KillArgs, NEW t \in Proc, Kill(c, k, t)
      PROVE  EmbryoOwned'
  BY <1>10 DEF Kill, IsFirst, Forking, TypeOK, EmbryoOwned, ForkInv, SleepInv,
     IntrInv
<1>11. ASSUME NEW c \in Cpu, NEW n \in SleepArgs, SleepStart(c, n)
      PROVE  EmbryoOwned'
  <2>1. UNCHANGED <<state, np>> BY <1>11 DEF SleepStart
  <2>2. \A q \in Proc : (Forking(q)' <=> Forking(q)) BY <1>11, ForkingFrame
  <2>3. QED BY <2>1, <2>2, Zenon DEF EmbryoOwned, Forking
<1>12. ASSUME NEW c \in Cpu, SleepCheck(c) PROVE EmbryoOwned'
  <2>1. UNCHANGED <<state, np>> BY <1>12 DEF SleepCheck
  <2>2. \A q \in Proc : (Forking(q)' <=> Forking(q)) BY <1>12, ForkingFrame
  <2>3. QED BY <2>1, <2>2, Zenon DEF EmbryoOwned, Forking
<1>13. ASSUME NEW c \in Cpu, SleepBlock(c) PROVE EmbryoOwned'
  BY <1>13 DEF SleepBlock, Forking, TypeOK, EmbryoOwned, ForkInv, SleepInv,
     IntrInv
<1>14. ASSUME NEW c \in Cpu, SleepReturn(c) PROVE EmbryoOwned'
  <2>1. UNCHANGED <<state, np>> BY <1>14 DEF SleepReturn
  <2>2. \A q \in Proc : (Forking(q)' <=> Forking(q)) BY <1>14, ForkingFrame
  <2>3. QED BY <2>1, <2>2, Zenon DEF EmbryoOwned, Forking
<1>15. ASSUME NEW c \in Cpu, SleepRelock(c) PROVE EmbryoOwned'
  <2>1. UNCHANGED <<state, np>> BY <1>15 DEF SleepRelock
  <2>2. \A q \in Proc : (Forking(q)' <=> Forking(q)) BY <1>15, ForkingFrame
  <2>3. QED BY <2>1, <2>2, Zenon DEF EmbryoOwned, Forking
<1>16. ASSUME NEW c \in Cpu, TickWakeup(c) PROVE EmbryoOwned'
  BY <1>16 DEF TickWakeup, wakeup1, Forking, TypeOK, EmbryoOwned, ForkInv,
     SleepInv, IntrInv
<1>17. ASSUME NEW c \in Cpu, TimerExit(c) PROVE EmbryoOwned'
  <2>1. UNCHANGED <<state, np>> BY <1>17 DEF TimerExit
  <2>2. \A q \in Proc : (Forking(q)' <=> Forking(q)) BY <1>17, ForkingFrame
  <2>3. QED BY <2>1, <2>2, Zenon DEF EmbryoOwned, Forking
<1>18. ASSUME NEW c \in Cpu, Yield(c) PROVE EmbryoOwned'
  <2>1. cpuproc[c] \in Proc /\ state[cpuproc[c]] = "RUNNING"
    BY <1>18, Zenon DEF Yield, IntrInv, TypeOK
  <2>2. \A q \in Proc : state'[q] = "EMBRYO" <=> state[q] = "EMBRYO"
    BY <1>18, <2>1, Zenon DEF Yield, TypeOK
  <2>3. QED BY <1>18, <2>2, EmbryoFrame, Zenon DEF Yield
<1>19. ASSUME NEW c \in Cpu, NEW p \in Proc, SchedRun(c, p) PROVE EmbryoOwned'
  BY <1>19 DEF SchedRun, Forking, TypeOK, EmbryoOwned, ForkInv, SleepInv,
     IntrInv
<1>20. ASSUME NEW c \in Cpu,
              \/ WaitFail(c) \/ TimerTick(c) \/ TimerOther(c)
              \/ YieldReturn(c) \/ SchedAcquire(c) \/ SchedDone(c)
              \/ SchedRelease(c)
      PROVE  EmbryoOwned'
  <2>1. UNCHANGED <<state, pc, np>>
    BY <1>20, Zenon DEF WaitFail, TimerTick, TimerOther, YieldReturn,
       SchedAcquire, SchedDone, SchedRelease
  <2>2. QED BY <2>1, Zenon DEF Forking, EmbryoOwned
<1>21. CASE UNCHANGED vars
  BY <1>21, Zenon DEF vars, Forking, EmbryoOwned
<1> QED BY <1>1, <1>2, <1>3, <1>4, <1>5, <1>6, <1>7, <1>8, <1>9, <1>10, <1>11,
       <1>12, <1>13, <1>14, <1>15, <1>16, <1>17, <1>18, <1>19, <1>20, <1>21, Zenon
       DEF Next, ProcStep

\* A fork lets go of its slot only when it is no longer EMBRYO.
LEMMA NoEmbryoLeakStep ==
    ASSUME TypeOK, EmbryoOwned, ForkInv, SleepInv, NoEmbryoLeak, [Next]_vars
    PROVE  NoEmbryoLeak'
<1>1. ASSUME NEW c \in Cpu, NEW new \in Proc, ForkAlloc(c, new)
      PROVE  NoEmbryoLeak'
  <2>1. /\ cpuproc[c] \in Proc /\ ~Forking(cpuproc[c])
        /\ state[new] = "UNUSED" /\ state' = [state EXCEPT ![new] = "EMBRYO"]
        /\ pc'[cpuproc[c]] = "forkcopy" /\ np' = [np EXCEPT ![cpuproc[c]] = new]
        /\ \A q \in Proc : q # cpuproc[c] => (Forking(q)' <=> Forking(q))
    BY <1>1, ForkBegins, Zenon
  <2>2. SUFFICES ASSUME NEW r \in Proc, state'[r] = "EMBRYO"
                 PROVE  \E q \in Proc : Forking(q)' /\ np'[q] = r
    BY Zenon DEF NoEmbryoLeak
  <2>3. CASE r = new
    BY <2>1, <2>3 DEF Forking, TypeOK
  <2>4. CASE r # new
    <3>1. PICK q \in Proc : Forking(q) /\ np[q] = r
      BY <2>1, <2>2, <2>4, Zenon DEF NoEmbryoLeak, TypeOK
    <3>2. q # cpuproc[c]
      BY <2>1, <3>1, Zenon
    <3>3. QED BY <2>1, <3>1, <3>2, Zenon DEF TypeOK
  <2>5. QED BY <2>3, <2>4, Zenon
<1>2. ASSUME NEW c \in Cpu, ForkFail(c) PROVE NoEmbryoLeak'
  <2>1. /\ cpuproc[c] \in Proc /\ Forking(cpuproc[c]) /\ pc'[cpuproc[c]] = "user"
        /\ np[cpuproc[c]] \in Proc /\ state[np[cpuproc[c]]] = "EMBRYO"
        /\ state'[np[cpuproc[c]]] \in {"UNUSED", "RUNNABLE"}
        /\ \A q \in Proc : q # np[cpuproc[c]] => state'[q] = state[q]
        /\ \A q \in Proc : q # cpuproc[c] => (Forking(q)' <=> Forking(q)) /\ np'[q] = np[q]
    BY <1>2, ForkEnds, Zenon
  <2>2. SUFFICES ASSUME NEW r \in Proc, state'[r] = "EMBRYO"
                 PROVE  \E q \in Proc : Forking(q)' /\ np'[q] = r
    BY Zenon DEF NoEmbryoLeak
  <2>3. r # np[cpuproc[c]] /\ state[r] = "EMBRYO"
    BY <2>1, <2>2, Zenon
  <2>4. PICK q \in Proc : Forking(q) /\ np[q] = r
    BY <2>3, Zenon DEF NoEmbryoLeak
  <2>5. QED BY <2>1, <2>3, <2>4, Zenon
<1>3. ASSUME NEW c \in Cpu, ForkCopy(c) PROVE NoEmbryoLeak'
  <2>1. UNCHANGED <<state, np>> BY <1>3 DEF ForkCopy
  <2>2. \A q \in Proc : (Forking(q)' <=> Forking(q)) BY <1>3, ForkingFrame
  <2>3. QED BY <2>1, <2>2, Zenon DEF NoEmbryoLeak, Forking
<1>4. ASSUME NEW c \in Cpu, ForkReady(c) PROVE NoEmbryoLeak'
  <2>1. /\ cpuproc[c] \in Proc /\ Forking(cpuproc[c]) /\ pc'[cpuproc[c]] = "user"
        /\ np[cpuproc[c]] \in Proc /\ state[np[cpuproc[c]]] = "EMBRYO"
        /\ state'[np[cpuproc[c]]] \in {"UNUSED", "RUNNABLE"}
        /\ \A q \in Proc : q # np[cpuproc[c]] => state'[q] = state[q]
        /\ \A q \in Proc : q # cpuproc[c] => (Forking(q)' <=> Forking(q)) /\ np'[q] = np[q]
    BY <1>4, ForkEnds, Zenon
  <2>2. SUFFICES ASSUME NEW r \in Proc, state'[r] = "EMBRYO"
                 PROVE  \E q \in Proc : Forking(q)' /\ np'[q] = r
    BY Zenon DEF NoEmbryoLeak
  <2>3. r # np[cpuproc[c]] /\ state[r] = "EMBRYO"
    BY <2>1, <2>2, Zenon
  <2>4. PICK q \in Proc : Forking(q) /\ np[q] = r
    BY <2>3, Zenon DEF NoEmbryoLeak
  <2>5. QED BY <2>1, <2>3, <2>4, Zenon
<1>5. ASSUME NEW c \in Cpu, ExitStart(c) PROVE NoEmbryoLeak'
  <2>1. UNCHANGED <<state, np>> BY <1>5 DEF ExitStart
  <2>2. \A q \in Proc : (Forking(q)' <=> Forking(q)) BY <1>5, ForkingFrame
  <2>3. QED BY <2>1, <2>2, Zenon DEF NoEmbryoLeak, Forking
<1>6. ASSUME NEW c \in Cpu, Fault(c) PROVE NoEmbryoLeak'
  <2>1. UNCHANGED <<state, np>> BY <1>6 DEF Fault
  <2>2. \A q \in Proc : (Forking(q)' <=> Forking(q)) BY <1>6, ForkingFrame
  <2>3. QED BY <2>1, <2>2, Zenon DEF NoEmbryoLeak, Forking
<1>7. ASSUME NEW c \in Cpu, ExitFinish(c) PROVE NoEmbryoLeak'
  <2>1. ExitFacts(c)
    BY <1>7, ExitEffect, Zenon
  <2>2. \A q \in Proc : state'[q] = "EMBRYO" <=> state[q] = "EMBRYO"
    BY <2>1, Zenon DEF ExitFacts, TypeOK
  <2>3. QED BY <2>1, <2>2, EmbryoFrame, Zenon DEF ExitFacts
<1>8. ASSUME NEW c \in Cpu, NEW z \in Proc, WaitReap(c, z) PROVE NoEmbryoLeak'
  BY <1>8 DEF WaitReap, WaitScan, ZombieChildren, Children, IsFirst, Forking,
     TypeOK, EmbryoOwned, ForkInv, SleepInv, NoEmbryoLeak
<1>9. ASSUME NEW c \in Cpu, WaitSleep(c) PROVE NoEmbryoLeak'
  BY <1>9 DEF WaitSleep, WaitScan, Forking, TypeOK, EmbryoOwned, ForkInv,
     SleepInv, NoEmbryoLeak
<1>10. ASSUME NEW c \in Cpu, NEW k \in KillArgs, NEW t \in Proc, Kill(c, k, t)
      PROVE  NoEmbryoLeak'
  BY <1>10 DEF Kill, IsFirst, Forking, TypeOK, EmbryoOwned, ForkInv, SleepInv,
     NoEmbryoLeak
<1>11. ASSUME NEW c \in Cpu, NEW n \in SleepArgs, SleepStart(c, n)
      PROVE  NoEmbryoLeak'
  <2>1. UNCHANGED <<state, np>> BY <1>11 DEF SleepStart
  <2>2. \A q \in Proc : (Forking(q)' <=> Forking(q)) BY <1>11, ForkingFrame
  <2>3. QED BY <2>1, <2>2, Zenon DEF NoEmbryoLeak, Forking
<1>12. ASSUME NEW c \in Cpu, SleepCheck(c) PROVE NoEmbryoLeak'
  <2>1. UNCHANGED <<state, np>> BY <1>12 DEF SleepCheck
  <2>2. \A q \in Proc : (Forking(q)' <=> Forking(q)) BY <1>12, ForkingFrame
  <2>3. QED BY <2>1, <2>2, Zenon DEF NoEmbryoLeak, Forking
<1>13. ASSUME NEW c \in Cpu, SleepBlock(c) PROVE NoEmbryoLeak'
  BY <1>13 DEF SleepBlock, Forking, TypeOK, EmbryoOwned, ForkInv, SleepInv,
     NoEmbryoLeak
<1>14. ASSUME NEW c \in Cpu, SleepReturn(c) PROVE NoEmbryoLeak'
  <2>1. UNCHANGED <<state, np>> BY <1>14 DEF SleepReturn
  <2>2. \A q \in Proc : (Forking(q)' <=> Forking(q)) BY <1>14, ForkingFrame
  <2>3. QED BY <2>1, <2>2, Zenon DEF NoEmbryoLeak, Forking
<1>15. ASSUME NEW c \in Cpu, SleepRelock(c) PROVE NoEmbryoLeak'
  <2>1. UNCHANGED <<state, np>> BY <1>15 DEF SleepRelock
  <2>2. \A q \in Proc : (Forking(q)' <=> Forking(q)) BY <1>15, ForkingFrame
  <2>3. QED BY <2>1, <2>2, Zenon DEF NoEmbryoLeak, Forking
<1>16. ASSUME NEW c \in Cpu, TickWakeup(c) PROVE NoEmbryoLeak'
  BY <1>16 DEF TickWakeup, wakeup1, Forking, TypeOK, EmbryoOwned, ForkInv,
     SleepInv, NoEmbryoLeak
<1>17. ASSUME NEW c \in Cpu, TimerExit(c) PROVE NoEmbryoLeak'
  <2>1. UNCHANGED <<state, np>> BY <1>17 DEF TimerExit
  <2>2. \A q \in Proc : (Forking(q)' <=> Forking(q)) BY <1>17, ForkingFrame
  <2>3. QED BY <2>1, <2>2, Zenon DEF NoEmbryoLeak, Forking
<1>18. ASSUME NEW c \in Cpu, Yield(c) PROVE NoEmbryoLeak'
  BY <1>18 DEF Yield, Forking, TypeOK, EmbryoOwned, ForkInv, SleepInv,
     NoEmbryoLeak
<1>19. ASSUME NEW c \in Cpu, NEW p \in Proc, SchedRun(c, p)
      PROVE  NoEmbryoLeak'
  BY <1>19 DEF SchedRun, Forking, TypeOK, EmbryoOwned, ForkInv, SleepInv,
     NoEmbryoLeak
<1>20. ASSUME NEW c \in Cpu,
              \/ WaitFail(c) \/ TimerTick(c) \/ TimerOther(c)
              \/ YieldReturn(c) \/ SchedAcquire(c) \/ SchedDone(c)
              \/ SchedRelease(c)
      PROVE  NoEmbryoLeak'
  <2>1. UNCHANGED <<state, pc, np>>
    BY <1>20, Zenon DEF WaitFail, TimerTick, TimerOther, YieldReturn,
       SchedAcquire, SchedDone, SchedRelease
  <2>2. QED BY <2>1, Zenon DEF Forking, NoEmbryoLeak
<1>21. CASE UNCHANGED vars
  BY <1>21, Zenon DEF vars, Forking, NoEmbryoLeak
<1> QED BY <1>1, <1>2, <1>3, <1>4, <1>5, <1>6, <1>7, <1>8, <1>9, <1>10, <1>11,
       <1>12, <1>13, <1>14, <1>15, <1>16, <1>17, <1>18, <1>19, <1>20, <1>21, Zenon
       DEF Next, ProcStep

\* The order of the writes in fork and wait.
LEMMA ForkInvStep ==
    ASSUME TypeOK, EmbryoOwned, ForkInv, IntrInv, [Next]_vars
    PROVE  ForkInv'
<1>1. ASSUME NEW c \in Cpu, NEW new \in Proc, ForkAlloc(c, new) PROVE ForkInv'
  BY <1>1 DEF ForkAlloc, IsFirst, Forking, TypeOK, EmbryoOwned, ForkInv,
     IntrInv
<1>2. ASSUME NEW c \in Cpu, ForkFail(c) PROVE ForkInv'
  BY <1>2 DEF ForkFail, Forking, TypeOK, EmbryoOwned, ForkInv, IntrInv
<1>3. ASSUME NEW c \in Cpu, ForkCopy(c) PROVE ForkInv'
  <2>1. /\ cpuproc[c] \in Proc /\ pc[cpuproc[c]] = "forkcopy"
        /\ state[cpuproc[c]] = "RUNNING"
    BY <1>3, Zenon DEF ForkCopy, TypeOK
  <2>2. /\ np[cpuproc[c]] \in Proc /\ state[np[cpuproc[c]]] = "EMBRYO"
        /\ \A q \in Proc : Forking(q) /\ q # cpuproc[c] => np[q] # np[cpuproc[c]]
    BY <2>1 DEF EmbryoOwned, Forking, TypeOK
  <2>3. /\ parent' = [parent EXCEPT ![np[cpuproc[c]]] = cpuproc[c]]
        /\ pc' = [pc EXCEPT ![cpuproc[c]] = "forkready", ![np[cpuproc[c]]] = "user"]
        /\ UNCHANGED <<state, np>>
    BY <1>3, Zenon DEF ForkCopy
  <2>4. \A q \in Proc : Forking(q) => np[q] \in Proc
    BY Zenon DEF EmbryoOwned, TypeOK
  <2>5. QED BY <2>1, <2>2, <2>3, <2>4 DEF ForkInv, Forking, TypeOK
<1>4. ASSUME NEW c \in Cpu, ForkReady(c) PROVE ForkInv'
  BY <1>4 DEF ForkReady, Forking, TypeOK, EmbryoOwned, ForkInv, IntrInv
<1>5. ASSUME NEW c \in Cpu, ExitStart(c) PROVE ForkInv'
  BY <1>5 DEF ExitStart, ExitPoint, Forking, TypeOK, EmbryoOwned, ForkInv,
     IntrInv
<1>6. ASSUME NEW c \in Cpu, Fault(c) PROVE ForkInv'
  BY <1>6 DEF Fault, ExitPoint, Forking, TypeOK, EmbryoOwned, ForkInv, IntrInv
<1>7. ASSUME NEW c \in Cpu, ExitFinish(c) PROVE ForkInv'
  <2>1. ExitFacts(c)
    BY <1>7, ExitEffect, Zenon
  <2>2. \A q \in Proc : state'[q] \in {"UNUSED", "EMBRYO"} => state'[q] = state[q]
    BY <2>1, Zenon DEF ExitFacts
  <2>3. \A q \in Proc : state'[q] = "ZOMBIE" => q = cpuproc[c] \/ state[q] = "ZOMBIE"
    BY <2>1, Zenon DEF ExitFacts
  <2>4. \A q \in Proc : state'[q] \in {"UNUSED", "EMBRYO", "ZOMBIE"} => pc'[q] \in {"user", "exit"}
    BY <2>1, <2>2, <2>3, Zenon DEF ExitFacts, ForkInv
  <2>5. \A q \in Proc : Forking(q) => np[q] \in Proc /\ q # cpuproc[c]
    BY <2>1 DEF ExitFacts, EmbryoOwned, Forking, TypeOK
  <2>6. \A q \in Proc : parent[q] # cpuproc[c] => parent'[q] = parent[q]
    BY <2>1, Zenon DEF ExitFacts
  <2>7. /\ \A q \in Proc : pc'[q] = "forkready" => parent'[np'[q]] = q
        /\ \A q \in Proc : pc'[q] = "forkcopy" => parent'[np'[q]] = None
    BY <2>1, <2>5, <2>6 DEF ExitFacts, ForkInv, Forking
  <2>8. \A q \in Proc : state'[q] = "UNUSED" => parent'[q] = None
    BY <2>1, <2>2, <2>6 DEF ExitFacts, ForkInv
  <2>9. QED BY <2>4, <2>7, <2>8, Zenon DEF ForkInv
<1>8. ASSUME NEW c \in Cpu, NEW z \in Proc, WaitReap(c, z) PROVE ForkInv'
  <2>1. /\ state[z] = "ZOMBIE" /\ pc[z] \in {"user", "exit"}
        /\ \A q \in Proc : Forking(q) => np[q] \in Proc /\ np[q] # z
    BY <1>8 DEF WaitReap, IsFirst, ZombieChildren, Children, EmbryoOwned,
       ForkInv, TypeOK
  <2>2. /\ parent' = [parent EXCEPT ![z] = None]
        /\ state' = [state EXCEPT ![z] = "UNUSED"] /\ UNCHANGED <<pc, np>>
    BY <1>8, Zenon DEF WaitReap
  <2>3. QED BY <2>1, <2>2 DEF ForkInv, Forking, TypeOK
<1>9. ASSUME NEW c \in Cpu, WaitSleep(c) PROVE ForkInv'
  BY <1>9 DEF WaitSleep, WaitScan, Forking, TypeOK, EmbryoOwned, ForkInv,
     IntrInv
<1>10. ASSUME NEW c \in Cpu, NEW k \in KillArgs, NEW t \in Proc, Kill(c, k, t)
      PROVE  ForkInv'
  BY <1>10 DEF Kill, IsFirst, Forking, TypeOK, EmbryoOwned, ForkInv, IntrInv
<1>11. ASSUME NEW c \in Cpu, NEW n \in SleepArgs, SleepStart(c, n)
      PROVE  ForkInv'
  BY <1>11 DEF SleepStart, Forking, TypeOK, EmbryoOwned, ForkInv, IntrInv
<1>12. ASSUME NEW c \in Cpu, SleepCheck(c) PROVE ForkInv'
  BY <1>12 DEF SleepCheck, Forking, TypeOK, EmbryoOwned, ForkInv, IntrInv
<1>13. ASSUME NEW c \in Cpu, SleepBlock(c) PROVE ForkInv'
  BY <1>13 DEF SleepBlock, Forking, TypeOK, EmbryoOwned, ForkInv, IntrInv
<1>14. ASSUME NEW c \in Cpu, SleepReturn(c) PROVE ForkInv'
  BY <1>14 DEF SleepReturn, Forking, TypeOK, EmbryoOwned, ForkInv, IntrInv
<1>15. ASSUME NEW c \in Cpu, SleepRelock(c) PROVE ForkInv'
  BY <1>15 DEF SleepRelock, Forking, TypeOK, EmbryoOwned, ForkInv, IntrInv
<1>16. ASSUME NEW c \in Cpu, TickWakeup(c) PROVE ForkInv'
  BY <1>16, Zenon DEF TickWakeup, wakeup1, Forking, TypeOK, EmbryoOwned, ForkInv,
     IntrInv
<1>17. ASSUME NEW c \in Cpu, TimerExit(c) PROVE ForkInv'
  <2>1. cpuproc[c] \in Proc /\ state[cpuproc[c]] = "RUNNING"
    BY <1>17 DEF TimerExit, IntrInv, TypeOK
  <2>2. /\ \A q \in Proc : q # cpuproc[c] => pc'[q] = pc[q]
        /\ pc'[cpuproc[c]] \in {"exit", "panic"} /\ UNCHANGED <<state, parent, np>>
    BY <1>17, <2>1, Zenon DEF TimerExit, ExitPoint, TypeOK
  <2>3. QED BY <2>1, <2>2, SMTT(40) DEF ForkInv
<1>18. ASSUME NEW c \in Cpu, Yield(c) PROVE ForkInv'
  BY <1>18 DEF Yield, Forking, TypeOK, EmbryoOwned, ForkInv, IntrInv
<1>19. ASSUME NEW c \in Cpu, NEW p \in Proc, SchedRun(c, p) PROVE ForkInv'
  BY <1>19 DEF SchedRun, Forking, TypeOK, EmbryoOwned, ForkInv, IntrInv
<1>20. ASSUME NEW c \in Cpu,
              \/ WaitFail(c) \/ TimerTick(c) \/ TimerOther(c)
              \/ YieldReturn(c) \/ SchedAcquire(c) \/ SchedDone(c)
              \/ SchedRelease(c)
      PROVE  ForkInv'
  <2>1. UNCHANGED <<state, pc, np, parent>>
    BY <1>20, Zenon DEF WaitFail, TimerTick, TimerOther, YieldReturn,
       SchedAcquire, SchedDone, SchedRelease
  <2>2. QED BY <2>1, Zenon DEF Forking, ForkInv
<1>21. CASE UNCHANGED vars
  BY <1>21, Zenon DEF vars, Forking, ForkInv
<1> QED BY <1>1, <1>2, <1>3, <1>4, <1>5, <1>6, <1>7, <1>8, <1>9, <1>10, <1>11,
       <1>12, <1>13, <1>14, <1>15, <1>16, <1>17, <1>18, <1>19, <1>20, <1>21
       DEF Next, ProcStep
=============================================================================
