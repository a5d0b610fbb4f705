-------------------------- MODULE SchedulerProofs ---------------------------
(***************************************************************************)
(* What the three schedulers of lab2/proc.c add to ProcTable.  They are    *)
(* conjoined to its actions, so its invariants carry over (the lemmas      *)
(* ...Refines).  scheduler() is a round robin, mlfqsched() misses nobody   *)
(* as long as programs only ask for priorities in range, and settickets()  *)
(* leaves nobody out of the lottery.                                       *)
(***************************************************************************)
EXTENDS Lottery, Mlfq, RoundRobin, ProcTableProofs

USE Names DEF procVars, At, InSyscall, Resumed

\* A system call or interrupt, as opposed to a step of the scheduler.
OtherStep(c) ==
    \/ \E new \in Proc : ForkAlloc(c, new)
    \/ ProcStep(c)
    \/ TimerTick(c)

\* While a scheduler holds ptable.lock with no process on its processor, nobody
\* else takes or releases the lock or makes a process RUNNABLE.
LEMMA OthersWait ==
    ASSUME TypeOK, IntrInv, NEW c \in Cpu, OtherStep(c)
    PROVE  /\ UNCHANGED cpuproc
           /\ \A d \in Cpu : cpuproc[d] = None => (lock' = d <=> lock = d)
           /\ \A d \in Cpu : cpuproc[d] = None /\ lock = d =>
                  \A p \in Proc : state'[p] = "RUNNABLE" => state[p] = "RUNNABLE"
<1>1. CASE \/ ForkCopy(c) \/ ExitStart(c) \/ Fault(c)
           \/ \E n \in SleepArgs : SleepStart(c, n)
           \/ SleepCheck(c) \/ SleepRelock(c) \/ TimerTick(c)
           \/ TimerOther(c) \/ TimerExit(c)
  <2>1. UNCHANGED <<cpuproc, lock, state>>
    BY <1>1, Zenon DEF ForkCopy, ExitStart, Fault, SleepStart, SleepCheck,
       SleepRelock, TimerTick, TimerOther, TimerExit
  <2>2. QED BY <2>1, Zenon
<1>2. CASE \/ \E new \in Proc : ForkAlloc(c, new)
           \/ ForkReady(c) \/ TickWakeup(c)
           \/ \E k \in KillArgs, t \in Proc : Kill(c, k, t)
  <2>1. UNCHANGED <<cpuproc, lock>> /\ lock = NoCpu
    BY <1>2, Zenon DEF ForkAlloc, ForkReady, TickWakeup, Kill
  <2>2. QED BY <2>1, Zenon
<1>3. CASE ForkFail(c)
  <2>1. UNCHANGED <<cpuproc, lock>> /\ state' = [state EXCEPT ![np[cpuproc[c]]] = "UNUSED"]
    BY <1>3, Zenon DEF ForkFail
  <2>2. QED BY <2>1, Zenon DEF TypeOK
<1>4. CASE ExitFinish(c) \/ SleepBlock(c) \/ Yield(c)
  <2>1. UNCHANGED cpuproc /\ lock = NoCpu /\ lock' = c
    BY <1>4, Zenon DEF ExitFinish, SleepBlock, Yield
  <2>2. cpuproc[c] # None
    BY <1>4, Zenon DEF ExitFinish, SleepBlock, Yield, IntrInv
  <2>3. QED BY <2>1, <2>2, Zenon
<1>5. CASE \/ (\E z \in Proc : WaitReap(c, z)) \/ WaitFail(c) \/ WaitSleep(c)
           \/ SleepReturn(c) \/ YieldReturn(c)
  <2>1. /\ UNCHANGED cpuproc /\ cpuproc[c] # None
        /\ lock \in {NoCpu, c} /\ lock' \in {NoCpu, c}
    BY <1>5, Zenon DEF WaitReap, WaitFail, WaitSleep, WaitScan, SleepReturn, YieldReturn
  <2>2. QED BY <2>1, Zenon
<1>6. QED BY <1>1, <1>2, <1>3, <1>4, <1>5, Zenon DEF OtherStep, ProcStep

\* A slot comes into use only where allocproc() takes it.
LEMMA UnusedStays ==
    ASSUME TypeOK, EmbryoOwned, IntrInv, NEW c \in Cpu, ProcStep(c) \/ TimerTick(c),
           NEW p \in Proc, state[p] = "UNUSED"
    PROVE  state'[p] = "UNUSED"
<1>1. CASE ForkFail(c) \/ ForkReady(c)
  BY <1>1, ForkEnds, Zenon
<1>2. CASE ForkCopy(c) \/ ExitStart(c) \/ Fault(c) \/ WaitFail(c)
           \/ (\E n \in SleepArgs : SleepStart(c, n)) \/ SleepCheck(c) \/ SleepReturn(c)
           \/ SleepRelock(c) \/ TimerTick(c) \/ TimerOther(c) \/ TimerExit(c)
           \/ YieldReturn(c)
  BY <1>2, Zenon DEF ForkCopy, ExitStart, Fault, WaitFail, SleepStart, SleepCheck,
     SleepReturn, SleepRelock, TimerTick, TimerOther, TimerExit, YieldReturn
<1>3. CASE ExitFinish(c)
  BY <1>3, ExitEffect, Zenon DEF ExitFacts
<1>4. CASE \E z \in Proc : WaitReap(c, z)
  BY <1>4, Zenon DEF WaitReap, TypeOK
<1>5. CASE WaitSleep(c) \/ SleepBlock(c) \/ Yield(c)
  BY <1>5, Zenon DEF WaitSleep, WaitScan, SleepBlock, Yield, TypeOK, IntrInv
<1>6. CASE \E k \in KillArgs, t \in Proc : Kill(c, k, t)
  BY <1>6 DEF Kill, TypeOK
<1>7. CASE TickWakeup(c)
  BY <1>7, Zenon DEF TickWakeup, wakeup1, TypeOK
<1>8. QED BY <1>1, <1>2, <1>3, <1>4, <1>5, <1>6, <1>7, Zenon DEF ProcStep

-----------------------------------------------------------------------------
(* lotterysched                                                            *)

\* A step of the kernel with lotterysched() is one of ProcTable or none.
LEMMA LotteryStepRefines == [LotteryNext]_lotteryVars => [Next]_vars
<1> SUFFICES ASSUME LotteryNext \/ UNCHANGED lotteryVars PROVE Next \/ UNCHANGED vars
  BY Zenon DEF lotteryVars
<1>1. CASE UNCHANGED lotteryVars
  BY <1>1, Zenon DEF lotteryVars
<1>2. ASSUME NEW c \in Cpu,
             \/ (\E new \in Proc : LotteryAlloc(c, new)) \/ LotteryCopy(c)
             \/ ProcStep(c) \/ TimerTick(c)
      PROVE  Next
  <2>1. ForkCopy(c) => ProcStep(c)
    BY Zenon DEF ProcStep
  <2>2. QED BY <1>2, <2>1, Zenon DEF LotteryAlloc, LotteryCopy, Next
<1>3. ASSUME NEW c \in Cpu, LotterySum(c) \/ \E n \in TicketArgs : settickets(c, n)
      PROVE  UNCHANGED vars
  BY <1>3, Zenon DEF LotterySum, settickets
<1>4. ASSUME NEW c \in Cpu,
             \/ LotteryDraw(c) \/ (\E p \in Proc : LotteryRun(c, p))
             \/ SchedDone(c) \/ LotteryRelease(c)
      PROVE  Next
  BY <1>4, Zenon DEF LotteryDraw, LotteryRun, LotteryRelease, Next
<1>5. CASE LotteryNext
  <2>1. PICK c \in Cpu :
            \/ \/ (\E new \in Proc : LotteryAlloc(c, new)) \/ LotteryCopy(c)
               \/ ProcStep(c) \/ TimerTick(c)
            \/ LotterySum(c) \/ \E n \in TicketArgs : settickets(c, n)
            \/ \/ LotteryDraw(c) \/ (\E p \in Proc : LotteryRun(c, p))
               \/ SchedDone(c) \/ LotteryRelease(c)
    BY <1>5, Zenon DEF LotteryNext, LotterySched
  <2>2. QED BY <1>2, <1>3, <1>4, <2>1, Zenon
<1>6. QED BY <1>1, <1>5, Zenon

\* lotterysched() is added to ProcTable by conjunction, so that the invariants of
\* ProcTable carry over.
LEMMA LotteryRefines == LotterySpec => Spec
<1>1. LotteryInit => Init
  BY Zenon DEF LotteryInit
<1>2. [LotteryNext]_lotteryVars => [Next]_vars
  BY LotteryStepRefines, Zenon
<1>3. QED BY <1>1, <1>2, PTL DEF LotterySpec, Spec

\* The sums of tickets are not computed here: they only have a place each.
TicketInv == TicketsHeld /\ DOMAIN sum = Cpu /\ DOMAIN stage = Cpu

\* Every step leaves everybody with a ticket.
LEMMA TicketStep ==
    ASSUME TypeOK, IntrInv, EmbryoOwned, TicketInv, [LotteryNext]_lotteryVars
    PROVE  TicketInv'
<1> USE LotteryAssumption
<1>1. CASE UNCHANGED lotteryVars
  BY <1>1, Zenon DEF lotteryVars, vars, TicketInv, TicketsHeld
<1>2. ASSUME UNCHANGED <<tickets, stage, sum>>,
             \A p \in Proc : state[p] = "UNUSED" => state'[p] = "UNUSED"
      PROVE  TicketInv'
  BY <1>2, Zenon DEF TicketInv, TicketsHeld
<1>3. ASSUME NEW c \in Cpu, NEW new \in Proc, LotteryAlloc(c, new) PROVE TicketInv'
  <2>1. /\ tickets' = [tickets EXCEPT ![new] = 1] /\ UNCHANGED <<stage, sum>>
        /\ \A p \in Proc : p # new => state'[p] = state[p]
    BY <1>3, ForkBegins DEF LotteryAlloc, TypeOK
  <2>2. QED BY <2>1 DEF TicketInv, TicketsHeld
<1>4. ASSUME NEW c \in Cpu, LotteryCopy(c) PROVE TicketInv'
  <2>1. /\ tickets' = [tickets EXCEPT ![np[cpuproc[c]]] = tickets[cpuproc[c]]]
        /\ UNCHANGED <<stage, sum, state>>
    BY <1>4, Zenon DEF LotteryCopy, ForkCopy
  <2>2. cpuproc[c] \in Proc /\ state[cpuproc[c]] = "RUNNING"
    BY <1>4, Zenon DEF LotteryCopy, ForkCopy, TypeOK
  <2>3. QED BY <2>1, <2>2, Zenon DEF TicketInv, TicketsHeld
<1>5. ASSUME NEW c \in Cpu, NEW n \in TicketArgs, settickets(c, n) PROVE TicketInv'
  <2>1. /\ tickets' = [tickets EXCEPT ![cpuproc[c]] = n] /\ n \in 1..INT_MAX
        /\ UNCHANGED <<stage, sum, state>>
    BY <1>5 DEF settickets, vars
  <2>2. cpuproc[c] \in Proc
    BY <1>5, Zenon DEF settickets, TypeOK
  <2>3. QED BY <2>1, <2>2 DEF TicketInv, TicketsHeld
<1>6. ASSUME NEW c \in Cpu, ProcStep(c) \/ TimerTick(c), UNCHANGED <<tickets, stage, sum>>
      PROVE  TicketInv'
  BY <1>2, <1>6, UnusedStays, Zenon
<1>7. ASSUME NEW c \in Cpu, LotterySum(c) PROVE TicketInv'
  <2>1. PICK s : sum' = [sum EXCEPT ![c] = s]
    BY <1>7, Zenon DEF LotterySum
  <2>2. /\ stage' = [stage EXCEPT ![c] = IF sum'[c] > 0 THEN "draw" ELSE "sum"]
        /\ UNCHANGED <<tickets, state>>
    BY <1>7, Zenon DEF LotterySum, vars
  <2>3. /\ stage'[c] = "draw" => sum'[c] > 0
        /\ \A d \in Cpu : d # c => stage'[d] = stage[d] /\ sum'[d] = sum[d]
        /\ DOMAIN sum' = Cpu /\ DOMAIN stage' = Cpu
    BY <2>1, <2>2, Zenon DEF TicketInv
  <2>4. QED BY <2>2, <2>3, Zenon DEF TicketInv, TicketsHeld
<1>8. ASSUME NEW c \in Cpu, \/ LotteryDraw(c) \/ (\E p \in Proc : LotteryRun(c, p))
                            \/ LotteryRelease(c)
      PROVE  TicketInv'
  <2>1. PICK at \in {"pick", "done", "sum"} : stage' = [stage EXCEPT ![c] = at]
    BY <1>8, Zenon DEF LotteryDraw, LotteryRun, LotteryRelease
  <2>2. /\ UNCHANGED tickets
        /\ UNCHANGED sum \/ sum' = [sum EXCEPT ![c] = 0]
    BY <1>8, Zenon DEF LotteryDraw, LotteryRun, LotteryRelease
  <2>3. \A p \in Proc : state'[p] # "UNUSED" => state[p] # "UNUSED"
    BY <1>8 DEF LotteryDraw, LotteryRun, LotteryRelease, SchedAcquire, SchedRun,
       SchedRelease, TypeOK
  <2>4. /\ stage'[c] # "draw" /\ DOMAIN stage' = Cpu /\ DOMAIN sum' = Cpu
        /\ \A d \in Cpu : d # c => stage'[d] = stage[d] /\ sum'[d] = sum[d]
    BY <2>1, <2>2, Zenon DEF TicketInv
  <2>5. QED BY <2>2, <2>3, <2>4, Zenon DEF TicketInv, TicketsHeld
<1>9. ASSUME NEW c \in Cpu, SchedDone(c), UNCHANGED <<tickets, stage, sum, chosen>>
      PROVE  TicketInv'
  BY <1>2, <1>9, Zenon DEF SchedDone
<1>10. QED BY <1>1, <1>3, <1>4, <1>5, <1>6, <1>7, <1>8, <1>9, Zenon
           DEF LotteryNext, LotterySched, LotterySame

\* settickets() and fork() leave nobody in use without a ticket, for any
\* arguments programs pass and any number of slots and processors; and
\* lotterysched() only draws from a positive number of tickets.
THEOREM LotteryTickets == LotterySpec => []TicketsHeld
<1>1. LotteryInit => TicketInv
  BY LotteryAssumption DEF LotteryInit, Init, TicketInv, TicketsHeld
<1>2. IInv /\ TicketInv /\ [LotteryNext]_lotteryVars => TicketInv'
  BY TicketStep, Zenon DEF IInv
<1>3. TicketInv => TicketsHeld
  BY Zenon DEF TicketInv
<1>4. QED BY <1>1, <1>2, <1>3, LotteryRefines, Invariance, PTL DEF LotterySpec

-----------------------------------------------------------------------------
(* mlfqsched                                                               *)

\* Programs ask setpriority() for existing levels only: otherwise it returns with
\* ptable.lock held, which ProcTable does not allow.
InRange == PriorityArgs \subseteq Priorities

\* A step of mlfqsched() is one of ProcTable's scheduler, or none.
LEMMA SchedRefines ==
    ASSUME NEW c \in Cpu, MlfqSched(c)
    PROVE  Next \/ UNCHANGED vars
<1>1. CASE MlfqAcquire(c)
  BY <1>1, Zenon DEF MlfqAcquire, Next
<1>2. CASE \E p \in Proc : MlfqRun(c, p)
  BY <1>2, Zenon DEF MlfqRun, Next
<1>3. CASE MlfqDone(c)
  BY <1>3, Zenon DEF MlfqDone, Next
<1>4. CASE MlfqAgain(c)
  BY <1>4, Zenon DEF MlfqAgain
<1>5. CASE MlfqRelease(c)
  BY <1>5, Zenon DEF MlfqRelease, Next
<1>6. QED BY <1>1, <1>2, <1>3, <1>4, <1>5, Zenon DEF MlfqSched

\* setpriority() with a priority in range takes and releases ptable.lock and
\* touches nothing that ProcTable knows of.
LEMMA SetpriorityStutters ==
    ASSUME InRange, NEW c \in Cpu, NEW t \in Proc, NEW k \in KillArgs,
           NEW v \in PriorityArgs, setpriority(c, t, k, v)
    PROVE  /\ UNCHANGED vars /\ lock = NoCpu
           /\ priority' = [priority EXCEPT ![t] = v] /\ v \in Priorities
           /\ budget' = [budget EXCEPT ![t] = DEFAULT_BUDGET]
           /\ UNCHANGED <<promoteIn, schedVars>>
<1>1. v \in Priorities
  BY Zenon DEF InRange
<1>2. QED BY <1>1, Zenon DEF setpriority, vars

\* Every step of the kernel with mlfqsched() is a step of ProcTable or none.
LEMMA MlfqStepRefines ==
    ASSUME InRange, [MlfqNext]_mlfqVars
    PROVE  [Next]_vars
<1>1. CASE UNCHANGED mlfqVars
  BY <1>1, Zenon DEF mlfqVars
<1>2. ASSUME NEW c \in Cpu, NEW new \in Proc, MlfqAlloc(c, new) PROVE Next
  BY <1>2, Zenon DEF MlfqAlloc, Next
<1>3. ASSUME NEW c \in Cpu, ProcStep(c) PROVE Next
  BY <1>3, Zenon DEF Next
<1>4. ASSUME NEW c \in Cpu, NEW t \in Proc, NEW k \in KillArgs,
             NEW v \in PriorityArgs, setpriority(c, t, k, v)
      PROVE  UNCHANGED vars
  BY <1>4, SetpriorityStutters, Zenon
<1>5. ASSUME NEW c \in Cpu, MlfqTick(c) PROVE Next
  BY <1>5, Zenon DEF MlfqTick, Next
<1>6. QED BY <1>1, <1>2, <1>3, <1>4, <1>5, SchedRefines, Zenon DEF MlfqNext

\* The invariants of ProcTable carry over to the kernel with mlfqsched(), as long
\* as setpriority() is only called with levels that exist.
LEMMA MlfqRefines == InRange => (MlfqSpec => Spec)
<1> SUFFICES ASSUME InRange PROVE MlfqSpec => Spec
  BY Zenon
<1>1. MlfqInit => Init
  BY Zenon DEF MlfqInit
<1>2. [MlfqNext]_mlfqVars => [Next]_vars
  BY MlfqStepRefines, Zenon
<1>3. QED BY <1>1, <1>2, PTL DEF MlfqSpec, Spec

-----------------------------------------------------------------------------
\* Promotion keeps every priority a level.
LEMMA AdjustInRange ==
    ASSUME NEW prio \in [Proc -> Priorities]
    PROVE  adjustPriority(prio) \in [Proc -> Priorities]
  BY MlfqAssumption DEF adjustPriority, Priorities

\* The scheduler's bookkeeping after a process came back keeps its types.
LEMMA DoneTypes ==
    ASSUME TypeOK, MlfqTypeOK, NEW c \in Cpu, MlfqDone(c)
    PROVE  MlfqTypeOK'
<1> DEFINE p == cpuproc[c]
           used == budget[p] - ran[c] <= 0
           prio1 == [priority EXCEPT ![p] = IF used /\ @ > 0 THEN @ - 1 ELSE @]
           budg1 == [budget EXCEPT ![p] = IF used THEN DEFAULT_BUDGET ELSE @ - ran[c]]
           prio2 == IF promoteIn = 0 THEN adjustPriority(prio1) ELSE prio1
<1>1. p \in Proc /\ budget[p] \in 0..DEFAULT_BUDGET /\ ran[c] \in 0..DEFAULT_BUDGET
      /\ priority[p] \in Priorities
  BY Zenon DEF MlfqDone, SchedDone, TypeOK, MlfqTypeOK
<1>2. prio1 \in [Proc -> Priorities]
  <2>1. (IF used /\ priority[p] > 0 THEN priority[p] - 1 ELSE priority[p]) \in Priorities
    BY <1>1, MlfqAssumption DEF Priorities
  <2>2. QED BY <2>1, Zenon DEF MlfqTypeOK
<1>3. budg1 \in [Proc -> 0..DEFAULT_BUDGET]
  <2>1. (IF used THEN DEFAULT_BUDGET ELSE budget[p] - ran[c]) \in 0..DEFAULT_BUDGET
    BY <1>1, MlfqAssumption
  <2>2. QED BY <2>1, Zenon DEF MlfqTypeOK
<1>4. prio2 \in [Proc -> Priorities]
  BY <1>2, AdjustInRange, Zenon
<1>5. /\ priority' = prio2
      /\ budget' = [q \in Proc |-> IF prio2[q] > prio1[q] THEN DEFAULT_BUDGET
                                                        ELSE budg1[q]]
      /\ promoteIn' = IF promoteIn = 0 THEN TICKS_TO_PROMOTE ELSE promoteIn
      /\ UNCHANGED <<level, found, slot, ran, dispatched>>
  BY Zenon DEF MlfqDone, schedVars
<1> HIDE DEF prio1, budg1, prio2, used, p
<1>6. budget' \in [Proc -> 0..DEFAULT_BUDGET]
  BY <1>3, <1>5, MlfqAssumption
<1>7. promoteIn' \in 0..TICKS_TO_PROMOTE
  BY <1>5, MlfqAssumption DEF MlfqTypeOK
<1>8. QED BY <1>4, <1>5, <1>6, <1>7, Zenon DEF MlfqTypeOK

\* Every step keeps the types of the scheduler's variables.
LEMMA MlfqTypeStep ==
    ASSUME InRange, TypeOK, MlfqTypeOK, [MlfqNext]_mlfqVars
    PROVE  MlfqTypeOK'
<1>1. CASE UNCHANGED mlfqVars
  BY <1>1, Zenon DEF mlfqVars, fieldVars, schedVars, MlfqTypeOK
<1>2. ASSUME NEW c \in Cpu, NEW new \in Proc, MlfqAlloc(c, new) PROVE MlfqTypeOK'
  <2>1. MAXPRIORITY \in Priorities /\ DEFAULT_BUDGET \in 0..DEFAULT_BUDGET
    BY MlfqAssumption DEF Priorities
  <2>2. QED BY <1>2, <2>1, Zenon DEF MlfqAlloc, schedVars, MlfqTypeOK
<1>3. ASSUME NEW c \in Cpu, ProcStep(c), UNCHANGED <<fieldVars, promoteIn, schedVars>>
      PROVE  MlfqTypeOK'
  BY <1>3, Zenon DEF fieldVars, schedVars, MlfqTypeOK
<1>4. ASSUME NEW c \in Cpu, NEW t \in Proc, NEW k \in KillArgs,
             NEW v \in PriorityArgs, setpriority(c, t, k, v)
      PROVE  MlfqTypeOK'
  <2>1. DEFAULT_BUDGET \in 0..DEFAULT_BUDGET
    BY MlfqAssumption
  <2>2. /\ priority' = [priority EXCEPT ![t] = v] /\ v \in Priorities
        /\ budget' = [budget EXCEPT ![t] = DEFAULT_BUDGET]
        /\ UNCHANGED <<promoteIn, level, found, slot, ran, dispatched>>
    BY <1>4, SetpriorityStutters, Zenon DEF schedVars
  <2>3. QED BY <2>1, <2>2, Zenon DEF MlfqTypeOK
<1>5. ASSUME NEW c \in Cpu, MlfqTick(c) PROVE MlfqTypeOK'
  <2>1. ran' \in [Cpu -> 0..DEFAULT_BUDGET] /\ promoteIn' \in 0..TICKS_TO_PROMOTE
    BY <1>5, MlfqAssumption DEF MlfqTick, MlfqTypeOK
  <2>2. QED BY <1>5, <2>1, Zenon DEF MlfqTick, fieldVars, MlfqTypeOK
<1>6. ASSUME NEW c \in Cpu, MlfqAcquire(c) PROVE MlfqTypeOK'
  <2>1. MAXPRIORITY \in Priorities /\ 1 \in 1..(NPROC + 1)
    BY MlfqAssumption, ProcTableAssumption DEF Priorities
  <2>2. QED BY <1>6, <2>1, Zenon DEF MlfqAcquire, fieldVars, MlfqTypeOK
<1>7. ASSUME NEW c \in Cpu, NEW p \in Proc, MlfqRun(c, p) PROVE MlfqTypeOK'
  <2>1. p + 1 \in 1..(NPROC + 1) /\ 0 \in 0..DEFAULT_BUDGET
    BY MlfqAssumption, ProcTableAssumption DEF Proc
  <2>2. QED BY <1>7, <2>1, Zenon DEF MlfqRun, fieldVars, MlfqTypeOK
<1>8. ASSUME NEW c \in Cpu, MlfqAgain(c) PROVE MlfqTypeOK'
  <2>1. 1 \in 1..(NPROC + 1) /\ (IF found[c] THEN level[c] ELSE level[c] - 1) \in Priorities
    BY <1>8, MlfqAssumption, ProcTableAssumption DEF MlfqAgain, Priorities, MlfqTypeOK
  <2>2. QED BY <1>8, <2>1, Zenon DEF MlfqAgain, fieldVars, MlfqTypeOK
<1>9. ASSUME NEW c \in Cpu, MlfqRelease(c) PROVE MlfqTypeOK'
  BY <1>9, Zenon DEF MlfqRelease, fieldVars, schedVars, MlfqTypeOK
<1>10. QED BY <1>1, <1>2, <1>3, <1>4, <1>5, <1>6, <1>7, <1>8, <1>9, DoneTypes, Zenon
          DEF MlfqNext, MlfqSched

-----------------------------------------------------------------------------
\* What the loop over the levels has left behind stays empty.
LEMMA AheadStep ==
    ASSUME InRange, TypeOK, IntrInv, MlfqTypeOK, AheadInv, [MlfqNext]_mlfqVars
    PROVE  AheadInv'
<1>1. CASE UNCHANGED mlfqVars
  BY <1>1, Zenon DEF mlfqVars, vars, fieldVars, schedVars, AheadInv
<1>2. ASSUME NEW c \in Cpu, OtherStep(c), UNCHANGED <<level, found, slot, dispatched>>,
             \A p \in Proc : state[p] = "RUNNABLE" => priority'[p] = priority[p]
      PROVE  AheadInv'
  <2>1. /\ UNCHANGED cpuproc
        /\ \A d \in Cpu : cpuproc[d] = None => (lock' = d <=> lock = d)
        /\ \A d \in Cpu : cpuproc[d] = None /\ lock = d =>
               \A p \in Proc : state'[p] = "RUNNABLE" => state[p] = "RUNNABLE"
    BY <1>2, OthersWait, Zenon
  <2>2. QED BY <1>2, <2>1, Zenon DEF AheadInv
<1>3. ASSUME NEW c \in Cpu, NEW new \in Proc, MlfqAlloc(c, new) PROVE AheadInv'
  <2>1. OtherStep(c) /\ UNCHANGED <<level, found, slot, dispatched>>
    BY <1>3, Zenon DEF MlfqAlloc, OtherStep, schedVars
  <2>2. \A p \in Proc : state[p] = "RUNNABLE" => priority'[p] = priority[p]
    BY <1>3, Zenon DEF MlfqAlloc, ForkAlloc, IsFirst, MlfqTypeOK
  <2>3. QED BY <1>2, <2>1, <2>2, Zenon
<1>4. ASSUME NEW c \in Cpu, ProcStep(c), UNCHANGED <<fieldVars, promoteIn, schedVars>>
      PROVE  AheadInv'
  BY <1>2, <1>4, Zenon DEF OtherStep, fieldVars, schedVars
<1>5. ASSUME NEW c \in Cpu, MlfqTick(c) PROVE AheadInv'
  BY <1>2, <1>5, Zenon DEF MlfqTick, OtherStep, fieldVars
<1>6. ASSUME NEW c \in Cpu, NEW t \in Proc, NEW k \in KillArgs,
             NEW v \in PriorityArgs, setpriority(c, t, k, v)
      PROVE  AheadInv'
  <2>1. /\ UNCHANGED <<lock, cpuproc, state>> /\ lock = NoCpu
        /\ UNCHANGED <<level, found, slot, dispatched>>
    BY <1>6, SetpriorityStutters, Zenon DEF vars, schedVars
  <2>2. QED BY <2>1, Zenon DEF AheadInv
<1>7. ASSUME NEW c \in Cpu, MlfqAcquire(c) PROVE AheadInv'
  <2>1. /\ cpuproc[c] = None /\ lock = NoCpu /\ lock' = c
        /\ UNCHANGED <<cpuproc, state, priority>>
        /\ level' = [level EXCEPT ![c] = MAXPRIORITY]
        /\ found' = [found EXCEPT ![c] = FALSE]
        /\ slot' = [slot EXCEPT ![c] = 1]
        /\ dispatched' = [dispatched EXCEPT ![c] = FALSE]
    BY <1>7, Zenon DEF MlfqAcquire, SchedAcquire, fieldVars
  <2>2. level'[c] = MAXPRIORITY /\ ~found'[c] /\ slot'[c] = 1
    BY <2>1, Zenon DEF MlfqTypeOK
  <2>3. \A d \in Cpu : d # c => /\ lock' # d /\ found'[d] = found[d]
                               /\ dispatched'[d] = dispatched[d]
    BY <2>1, Zenon DEF MlfqTypeOK
  <2>4. \A p \in Proc : \/ priority'[p] < level'[c]
                        \/ priority'[p] = level'[c] /\ slot'[c] <= p
    <3>1. \A p \in Proc : /\ priority[p] \in Int /\ priority[p] <= MAXPRIORITY
                          /\ 1 <= p
      <4>1. \A p \in Proc : priority[p] \in Priorities
        BY Zenon DEF MlfqTypeOK
      <4>2. QED BY <4>1, MlfqAssumption DEF Priorities, Proc
    <3>2. QED BY <2>1, <2>2, <3>1, MlfqAssumption
  <2>5. QED BY <2>1, <2>2, <2>3, <2>4 DEF AheadInv
<1>8. ASSUME NEW c \in Cpu, NEW r \in Proc, MlfqRun(c, r) PROVE AheadInv'
  <2>1. /\ lock = c /\ lock' = lock
        /\ cpuproc' = [cpuproc EXCEPT ![c] = r]
        /\ dispatched' = [dispatched EXCEPT ![c] = TRUE]
        /\ found' = [found EXCEPT ![c] = TRUE]
    BY <1>8, Zenon DEF MlfqRun, SchedRun
  <2>2. /\ dispatched'[c]
        /\ \A d \in Cpu : d # c => /\ lock' # d /\ cpuproc'[d] = cpuproc[d]
                                  /\ found'[d] = found[d]
                                  /\ dispatched'[d] = dispatched[d]
    BY <2>1, Zenon DEF MlfqTypeOK, TypeOK
  <2>3. QED BY <2>2, Zenon DEF AheadInv
<1>9. ASSUME NEW c \in Cpu, MlfqDone(c) PROVE AheadInv'
  <2>1. /\ lock = c /\ lock' = lock /\ cpuproc[c] # None
        /\ cpuproc' = [cpuproc EXCEPT ![c] = None]
        /\ UNCHANGED <<found, dispatched>>
    BY <1>9, Zenon DEF MlfqDone, SchedDone, schedVars
  <2>2. dispatched[c]
    BY <2>1, Zenon DEF AheadInv
  <2>3. \A d \in Cpu : d # c => lock' # d /\ cpuproc'[d] = cpuproc[d]
    BY <2>1, Zenon DEF TypeOK
  <2>4. QED BY <2>1, <2>2, <2>3, Zenon DEF AheadInv
<1>10. ASSUME NEW c \in Cpu, MlfqAgain(c) PROVE AheadInv'
  <2>1. /\ lock = c /\ UNCHANGED <<lock, cpuproc, state, priority, dispatched>>
        /\ AtLevel(c) = {}
        /\ found' = [found EXCEPT ![c] = FALSE]
        /\ slot' = [slot EXCEPT ![c] = 1]
        /\ level' = [level EXCEPT ![c] = IF found[c] THEN @ ELSE @ - 1]
    BY <1>10, Zenon DEF MlfqAgain, vars, fieldVars
  <2>2. /\ ~found'[c] /\ slot'[c] = 1
        /\ level'[c] = IF found[c] THEN level[c] ELSE level[c] - 1
        /\ \A d \in Cpu : d # c => lock' # d /\ found'[d] = found[d]
    BY <2>1, Zenon DEF MlfqTypeOK
  <2>3. ASSUME ~dispatched[c], NEW p \in Proc, state[p] = "RUNNABLE"
        PROVE  \/ priority'[p] < level'[c]
               \/ priority'[p] = level'[c] /\ slot'[c] <= p
    <3>1. ~found[c] /\ \/ priority[p] < level[c]
                       \/ priority[p] = level[c] /\ slot[c] <= p
      BY <2>1, <2>3, Zenon DEF AheadInv
    <3>2. ~(priority[p] = level[c] /\ p >= slot[c])
      BY <2>1, <2>3, Zenon DEF AtLevel
    <3>3. /\ priority[p] \in Int /\ level[c] \in Int /\ p \in Int /\ 1 <= p
          /\ slot[c] \in Int
      BY MlfqAssumption, ProcTableAssumption DEF MlfqTypeOK, Priorities, Proc
    <3>4. priority[p] <= level[c] - 1
      BY <3>1, <3>2, <3>3
    <3>5. QED BY <2>1, <2>2, <3>1, <3>3, <3>4
  <2>4. QED BY <2>1, <2>2, <2>3, Zenon DEF AheadInv
<1>11. ASSUME NEW c \in Cpu, MlfqRelease(c) PROVE AheadInv'
  <2>1. /\ lock = c /\ lock' = NoCpu /\ UNCHANGED <<cpuproc, found, dispatched>>
    BY <1>11, Zenon DEF MlfqRelease, SchedRelease, schedVars
  <2>2. QED BY <2>1, Zenon DEF AheadInv
<1>12. QED BY <1>1, <1>3, <1>4, <1>5, <1>6, <1>7, <1>8, <1>9, <1>10, <1>11, Zenon
          DEF MlfqNext, MlfqSched

\* The types and AheadInv hold in every state of the kernel with mlfqsched().
THEOREM MlfqInvariance == InRange => (MlfqSpec => [](MlfqTypeOK /\ AheadInv))
<1> SUFFICES ASSUME InRange PROVE MlfqSpec => [](MlfqTypeOK /\ AheadInv)
  BY Zenon
<1>1. MlfqInit => MlfqTypeOK /\ AheadInv
  <2> SUFFICES ASSUME MlfqInit PROVE MlfqTypeOK /\ AheadInv
    BY Zenon
  <2>1. /\ MAXPRIORITY \in Priorities /\ 0 \in Priorities
        /\ DEFAULT_BUDGET \in 0..DEFAULT_BUDGET /\ 0 \in 0..DEFAULT_BUDGET
        /\ TICKS_TO_PROMOTE \in 0..TICKS_TO_PROMOTE /\ 1 \in 1..(NPROC + 1)
    BY MlfqAssumption, ProcTableAssumption DEF Priorities
  <2>2. MlfqTypeOK
    BY <2>1, Zenon DEF MlfqInit, MlfqTypeOK
  <2>3. AheadInv
    BY Zenon DEF MlfqInit, Init, AheadInv
  <2>4. QED BY <2>2, <2>3, Zenon
<1>2. IInv /\ MlfqTypeOK /\ AheadInv /\ [MlfqNext]_mlfqVars
        => MlfqTypeOK' /\ AheadInv'
  BY MlfqTypeStep, AheadStep, Zenon DEF IInv
<1>3. MlfqSpec => []IInv
  BY MlfqRefines, Invariance, PTL
<1>4. QED BY <1>1, <1>2, <1>3, PTL DEF MlfqSpec

\* mlfqsched() overlooks nobody, for any number of levels, slots and processors:
\* when it ends its loop over the levels without having run anybody, no process
\* is RUNNABLE.
THEOREM MlfqWorkConserving == InRange => (MlfqSpec => WorkConserving)
<1> SUFFICES ASSUME InRange PROVE MlfqSpec => WorkConserving
  BY Zenon
<1> DEFINE Idle == \A c \in Cpu :
                       /\ cpuproc[c] = None /\ lock = c /\ lock' = NoCpu
                       /\ ~dispatched[c]
                       => \A p \in Proc : state[p] # "RUNNABLE"
<1>1. IInv /\ MlfqTypeOK /\ AheadInv /\ [MlfqNext]_mlfqVars => [Idle]_mlfqVars
  <2> SUFFICES ASSUME IInv, MlfqTypeOK, AheadInv, MlfqNext,
                      NEW c \in Cpu, cpuproc[c] = None, lock = c, lock' = NoCpu,
                      ~dispatched[c], NEW p \in Proc, state[p] = "RUNNABLE"
               PROVE  FALSE
    BY Zenon
  <2>1. TypeOK /\ IntrInv
    BY Zenon DEF IInv
  <2>2. ASSUME NEW d \in Cpu, OtherStep(d) PROVE FALSE
    BY <2>1, <2>2, OthersWait, Zenon
  <2>3. ASSUME NEW d \in Cpu, NEW t \in Proc, NEW k \in KillArgs,
               NEW v \in PriorityArgs, setpriority(d, t, k, v)
        PROVE  FALSE
    BY <2>3, Zenon DEF setpriority
  <2>4. ASSUME NEW d \in Cpu,
               \/ MlfqAcquire(d) \/ (\E r \in Proc : MlfqRun(d, r))
               \/ MlfqDone(d) \/ MlfqAgain(d)
        PROVE  FALSE
    BY <2>4, Zenon DEF MlfqAcquire, SchedAcquire, MlfqRun, SchedRun, MlfqDone,
       SchedDone, MlfqAgain, vars
  <2>5. ASSUME NEW d \in Cpu, MlfqRelease(d) PROVE FALSE
    <3>1. d = c /\ level[c] = 0 /\ AtLevel(c) = {}
      BY <2>5, Zenon DEF MlfqRelease, SchedRelease
    <3>2. ~(priority[p] = level[c] /\ p >= slot[c])
      BY <3>1, Zenon DEF AtLevel
    <3>3. \/ priority[p] < level[c]
          \/ priority[p] = level[c] /\ slot[c] <= p
      BY Zenon DEF AheadInv
    <3>4. priority[p] \in 0..MAXPRIORITY /\ slot[c] \in 1..(NPROC + 1)
      BY Zenon DEF MlfqTypeOK, Priorities
    <3>5. p \in Int
      BY DEF Proc
    <3>6. QED BY <3>1, <3>2, <3>3, <3>4, <3>5, SMTT(15)
  <2>6. QED BY <2>2, <2>3, <2>4, <2>5, Zenon
            DEF MlfqNext, MlfqSched, MlfqAlloc, MlfqTick, OtherStep
<1>2. MlfqSpec => []IInv
  BY MlfqRefines, Invariance, PTL
<1>3. QED BY <1>1, <1>2, MlfqInvariance, PTL DEF MlfqSpec, WorkConserving

-----------------------------------------------------------------------------
(* scheduler                                                               *)

\* Slots are numbers.
LEMMA Slots ==
    /\ NPROC \in Nat /\ NPROC + 1 \in 1..(NPROC + 1) /\ 1 \in 1..(NPROC + 1)
    /\ \A p \in Proc : p \in Int /\ 1 <= p /\ p <= NPROC /\ p + 1 \in 1..(NPROC + 1)
  BY ProcTableAssumption DEF Proc

\* Every step of scheduler() or of a process is a step of ProcTable.
LEMMA RRStepRefines == [RRNext]_rrVars => [Next]_vars
<1> SUFFICES ASSUME RRNext \/ UNCHANGED rrVars PROVE Next \/ UNCHANGED vars
  BY Zenon DEF rrVars
<1>1. CASE UNCHANGED rrVars
  BY <1>1, Zenon DEF rrVars
<1>2. ASSUME NEW c \in Cpu, RRSched(c) PROVE Next
  BY <1>2, Zenon DEF RRSched, RRAcquire, RRRun, RRRelease, Next
<1>3. ASSUME NEW c \in Cpu, RROther(c) PROVE Next
  BY <1>3, Zenon DEF RROther, Next
<1>4. QED BY <1>1, <1>2, <1>3, Zenon DEF RRNext

\* The invariants of ProcTable carry over to the kernel with scheduler().
LEMMA RRRefines == RRSpec => Spec
<1>1. RRInit => Init
  BY Zenon DEF RRInit
<1>2. [RRNext]_rrVars => [Next]_vars
  BY RRStepRefines, Zenon
<1>3. QED BY <1>1, <1>2, PTL DEF RRSpec, Spec

-----------------------------------------------------------------------------
\* What a step that is not a switch does to the history.
LEMMA ObserveNothing ==
    ASSUME RRTypeOK, Observe({}), NEW p \in Proc
    PROVE  passed'[p] \subseteq passed[p]
  BY Zenon DEF Observe, RRTypeOK

\* The scan and the history keep their types.
LEMMA RRTypeStep ==
    ASSUME TypeOK, RRTypeOK, RRNext PROVE RRTypeOK'
<1>1. ASSUME NEW pairs \in SUBSET (Cpu \X Proc), Observe(pairs)
      PROVE  passed' \in [Proc -> SUBSET (Cpu \X Proc)]
  BY <1>1, Zenon DEF Observe, RRTypeOK
<1>2. ASSUME NEW c \in Cpu, RROther(c) PROVE RRTypeOK'
  BY <1>2, <1>1, Zenon DEF RROther, RRTypeOK
<1>3. ASSUME NEW c \in Cpu, RRSched(c) PROVE RRTypeOK'
  <2>1. ASSUME NEW p \in Proc, RRRun(c, p) PROVE RRTypeOK'
    <3>1. {<<c, p>>} \in SUBSET (Cpu \X Proc)
      OBVIOUS
    <3>2. scan' \in [Cpu -> 1..(NPROC + 1)] /\ Observe({<<c, p>>})
      BY <2>1, Slots, Zenon DEF RRRun, RRTypeOK
    <3>3. QED BY <1>1, <3>1, <3>2, Zenon DEF RRTypeOK
  <2>2. ASSUME \/ RRAcquire(c)
               \/ SchedDone(c) /\ UNCHANGED scan /\ Observe({})
               \/ RRRelease(c)
        PROVE  RRTypeOK'
    <3>1. scan' \in [Cpu -> 1..(NPROC + 1)] /\ Observe({})
      BY <2>2, Slots, Zenon DEF RRAcquire, RRRelease, RRTypeOK
    <3>2. QED BY <1>1, <3>1, Zenon DEF RRTypeOK
  <2>3. QED BY <1>3, <2>1, <2>2, Zenon DEF RRSched
<1>4. QED BY <1>2, <1>3, Zenon DEF RRNext

\* Every step keeps what was run behind the scan or beyond the waiting process.
LEMMA BypassStep ==
    ASSUME TypeOK, IntrInv, RRTypeOK, BypassInv, RRNext PROVE BypassInv'
<1>1. ASSUME NEW c \in Cpu, RROther(c) PROVE BypassInv'
  <2>1. \A p \in Proc : passed'[p] \subseteq passed[p]
    BY <1>1, ObserveNothing, Zenon DEF RROther
  <2>2. OtherStep(c) /\ UNCHANGED scan
    BY <1>1, Zenon DEF RROther, OtherStep
  <2>3. UNCHANGED cpuproc /\ \A d \in Cpu : cpuproc[d] = None => (lock' = d <=> lock = d)
    BY <2>2, OthersWait, Zenon
  <2>4. QED BY <2>1, <2>2, <2>3 DEF BypassInv
<1>2. ASSUME NEW c \in Cpu, RRAcquire(c) PROVE BypassInv'
  <2>1. \A p \in Proc : passed'[p] \subseteq passed[p]
    BY <1>2, ObserveNothing, Zenon DEF RRAcquire
  <2>2. /\ cpuproc[c] = None /\ lock = NoCpu /\ lock' = c
        /\ scan' = [scan EXCEPT ![c] = 1] /\ UNCHANGED cpuproc
    BY <1>2, Zenon DEF RRAcquire, SchedAcquire
  <2>3. scan[c] = NPROC + 1
    BY <2>2, Zenon DEF BypassInv
  <2>4. \A d \in Cpu : scan'[d] = IF d = c THEN 1 ELSE scan[d]
    BY <2>2, Zenon DEF RRTypeOK
  <2>5. \A d \in Cpu : cpuproc'[d] = None /\ lock' # d => scan'[d] = NPROC + 1
    BY <2>2, <2>4, Zenon DEF BypassInv
  <2>6. SUFFICES ASSUME NEW d \in Cpu, NEW p \in Proc, NEW q \in Proc,
                        <<d, q>> \in passed'[p]
                 PROVE  \/ q < scan'[d] /\ (scan'[d] <= p \/ p < q)
                        \/ scan'[d] <= p /\ p < q
    BY <2>5, Zenon DEF BypassInv
  <2>7. \/ q < scan[d] /\ (scan[d] <= p \/ p < q)
        \/ scan[d] <= p /\ p < q
    BY <2>1, <2>6, Zenon DEF BypassInv
  <2>8. QED BY Slots, <2>3, <2>4, <2>7
<1>3. ASSUME NEW c \in Cpu, NEW r \in Proc, RRRun(c, r) PROVE BypassInv'
  <2>1. /\ scan' = [scan EXCEPT ![c] = r + 1] /\ lock' = lock
        /\ cpuproc' = [cpuproc EXCEPT ![c] = r] /\ lock = c
        /\ scan[c] <= r
    BY <1>3, Zenon DEF RRRun, SchedRun, IsFirst, Candidates
  <2>2. \A d \in Cpu : cpuproc'[d] = None /\ lock' # d => scan'[d] = NPROC + 1
    BY <2>1, Zenon DEF BypassInv, TypeOK, RRTypeOK
  <2>3. SUFFICES ASSUME NEW d \in Cpu, NEW p \in Proc, NEW q \in Proc,
                        <<d, q>> \in passed'[p]
                 PROVE  \/ q < scan'[d] /\ (scan'[d] <= p \/ p < q)
                        \/ scan'[d] <= p /\ p < q
    BY <2>2, Zenon DEF BypassInv
  <2>4. /\ state[p] = "RUNNABLE" /\ p # r
        /\ <<d, q>> \in passed[p] \/ (d = c /\ q = r)
    <3>1. state[p] = "RUNNABLE" /\ state'[p] = "RUNNABLE"
          /\ passed'[p] = passed[p] \cup {<<c, r>>}
      BY <1>3, <2>3, Zenon DEF RRRun, Observe
    <3>2. p # r
      BY <1>3, <3>1, Zenon DEF RRRun, SchedRun, TypeOK
    <3>3. QED BY <2>3, <3>1, <3>2, Zenon
  <2>5. scan[c] <= p => r < p
    BY <1>3, <2>4, Slots DEF RRRun, IsFirst, Candidates
  <2>6. scan[d] \in 1..(NPROC + 1) /\ scan'[d] = IF d = c THEN r + 1 ELSE scan[d]
    BY <2>1, Zenon DEF RRTypeOK
  <2>7. CASE <<d, q>> \in passed[p]
    <3>1. \/ q < scan[d] /\ (scan[d] <= p \/ p < q)
          \/ scan[d] <= p /\ p < q
      BY <2>7, Zenon DEF BypassInv
    <3>2. QED BY Slots, <3>1, <2>1, <2>5, <2>6
  <2>8. CASE d = c /\ q = r
    BY Slots, <2>8, <2>4, <2>6
  <2>9. QED BY <2>4, <2>7, <2>8, Zenon
<1>4. ASSUME NEW c \in Cpu, SchedDone(c), UNCHANGED scan, Observe({})
      PROVE  BypassInv'
  <2>1. \A p \in Proc : passed'[p] \subseteq passed[p]
    BY <1>4, ObserveNothing, Zenon
  <2>2. /\ cpuproc' = [cpuproc EXCEPT ![c] = None] /\ lock = c
        /\ UNCHANGED <<scan, lock>>
    BY <1>4, Zenon DEF SchedDone
  <2>3. \A d \in Cpu : cpuproc'[d] = None /\ lock' # d => cpuproc[d] = None
    BY <2>2, Zenon DEF TypeOK
  <2>4. QED BY <2>1, <2>2, <2>3 DEF BypassInv
<1>5. ASSUME NEW c \in Cpu, RRRelease(c) PROVE BypassInv'
  <2>1. /\ scan' = [scan EXCEPT ![c] = NPROC + 1] /\ UNCHANGED cpuproc
        /\ lock = c /\ lock' = NoCpu
    BY <1>5, Zenon DEF RRRelease, SchedRelease
  <2>2. \A d \in Cpu : cpuproc'[d] = None /\ lock' # d => scan'[d] = NPROC + 1
    BY <2>1, Zenon DEF BypassInv, RRTypeOK
  <2>3. SUFFICES ASSUME NEW d \in Cpu, NEW p \in Proc, NEW q \in Proc,
                        <<d, q>> \in passed'[p]
                 PROVE  \/ q < scan'[d] /\ (scan'[d] <= p \/ p < q)
                        \/ scan'[d] <= p /\ p < q
    BY <2>2, Zenon DEF BypassInv
  <2>4. state[p] = "RUNNABLE" /\ <<d, q>> \in passed[p]
    BY <1>5, <2>3, Zenon DEF RRRelease, Observe
  <2>5. p < scan[c] /\ scan[c] \in 1..(NPROC + 1)
    <3>1. ~(p >= scan[c])
      BY <1>5, <2>4, Zenon DEF RRRelease, Candidates
    <3>2. QED BY <2>4, <3>1, Slots DEF RRTypeOK
  <2>6. \/ q < scan[d] /\ (scan[d] <= p \/ p < q)
        \/ scan[d] <= p /\ p < q
    BY <2>4, Zenon DEF BypassInv
  <2>7. scan'[d] = IF d = c THEN NPROC + 1 ELSE scan[d]
    BY <2>1, Zenon DEF RRTypeOK
  <2>8. QED BY Slots, <2>5, <2>6, <2>7
<1>6. QED BY <1>1, <1>2, <1>3, <1>4, <1>5, Zenon DEF RRNext, RRSched

\* The two facts hold in every state of the round-robin kernel.
THEOREM RRInvariance == RRSpec => [](RRTypeOK /\ BypassInv)
<1>1. RRInit => RRTypeOK /\ BypassInv
  BY Slots DEF RRInit, Init, RRTypeOK, BypassInv
<1>2. IInv /\ RRTypeOK /\ BypassInv /\ [RRNext]_rrVars
        => RRTypeOK' /\ BypassInv'
  <2>1. ASSUME UNCHANGED rrVars, RRTypeOK, BypassInv PROVE RRTypeOK' /\ BypassInv'
    BY <2>1, Zenon DEF rrVars, vars, RRTypeOK, BypassInv
  <2>2. QED BY <2>1, RRTypeStep, BypassStep, Zenon DEF IInv
<1>3. RRSpec => []IInv
  BY RRRefines, Invariance, PTL
<1>4. QED BY <1>1, <1>2, <1>3, PTL DEF RRSpec

\* scheduler() is a round robin for any number of slots and processors: while
\* a process is RUNNABLE, no processor switches to another one twice.
THEOREM RRBounded == RRSpec => BoundedBypass
<1> DEFINE Once == \A c \in Cpu, p, q \in Proc :
                       /\ state[p] = "RUNNABLE" /\ state'[p] = "RUNNABLE"
                       /\ cpuproc[c] = None /\ cpuproc'[c] = q
                       => <<c, q>> \notin passed[p]
<1>1. IInv /\ RRTypeOK /\ BypassInv /\ [RRNext]_rrVars => [Once]_rrVars
  <2> SUFFICES ASSUME TypeOK, IntrInv, RRTypeOK, BypassInv, RRNext PROVE Once
    BY Zenon DEF IInv
  <2>1. ASSUME NEW d \in Cpu, NEW r \in Proc, RRRun(d, r) PROVE Once
    <3> SUFFICES ASSUME NEW c \in Cpu, NEW p \in Proc, NEW q \in Proc,
                        state[p] = "RUNNABLE", cpuproc[c] = None, cpuproc'[c] = q,
                        <<c, q>> \in passed[p]
                 PROVE  FALSE
      BY Zenon
    <3>1. c = d /\ q = r
      BY <2>1, Zenon DEF RRRun, SchedRun, TypeOK
    <3>2. scan[c] <= q /\ (scan[c] <= p => q <= p)
      BY <2>1, <3>1, Zenon DEF RRRun, IsFirst, Candidates
    <3>3. scan[c] \in 1..(NPROC + 1)
      BY Zenon DEF RRTypeOK
    <3>4. QED BY Slots, <3>2, <3>3 DEF BypassInv
  <2>2. ASSUME NEW d \in Cpu, RROther(d) PROVE Once
    <3>1. OtherStep(d)
      BY <2>2, Zenon DEF RROther, OtherStep
    <3>2. UNCHANGED cpuproc
      BY <3>1, OthersWait, Zenon
    <3>3. QED BY <3>2 DEF TypeOK
  <2>3. ASSUME NEW d \in Cpu, \/ RRAcquire(d)
                              \/ SchedDone(d) /\ UNCHANGED scan /\ Observe({})
                              \/ RRRelease(d)
        PROVE  Once
    <3>1. \A c \in Cpu : cpuproc[c] = None => cpuproc'[c] = None
      BY <2>3, Zenon DEF RRAcquire, SchedAcquire, SchedDone, RRRelease, SchedRelease, TypeOK
    <3>2. QED BY <3>1, Zenon
  <2>4. QED BY <2>1, <2>2, <2>3, Zenon DEF RRNext, RRSched
<1>2. RRSpec => []IInv
  BY RRRefines, Invariance, PTL
<1>3. QED BY <1>1, <1>2, RRInvariance, PTL DEF RRSpec, BoundedBypass
=============================================================================
