------------------------------- MODULE Lottery -------------------------------
(***************************************************************************)
(* The lottery scheduler of lab2/proc.c: lotterysched and rand, settickets *)
(* and what allocproc and fork do to p->num_tickets.  The module adds them *)
(* to ProcTable and so restricts which process SchedRun may pick.          *)
(*                                                                         *)
(* The tickets are summed in one critical section of ptable.lock and the   *)
(* winner is looked up in another.  Sums are C ints and wrap around.  The  *)
(* statistics p->ticks and p->num_scheduled are left out.                  *)
(***************************************************************************)
EXTENDS ProcTable, FiniteSetsExt

CONSTANTS
    INT_MAX,     \* the largest int; the int after it is -INT_MAX - 1
    Seeds,       \* the values of timestamp % 100 in rand(); the timestamp is a
                 \* sum of uints stored in an int, so it may be negative
    TicketArgs   \* the arguments programs pass to settickets()

ASSUME LotteryAssumption ==
    /\ INT_MAX \in Nat \ {0}
    /\ Seeds \subseteq (-99)..99 /\ Seeds # {}
    /\ TicketArgs \subseteq (-INT_MAX - 1)..INT_MAX

VARIABLES
    tickets,   \* p->num_tickets
    stage,     \* where lotterysched is in its loop on each processor
    sum,       \* runnable_tickets
    chosen     \* chosen_ticket

lotteryVars == <<vars, tickets, stage, sum, chosen>>

\* Nobody is without a ticket once its slot is in use, and rand() is never
\* taken modulo a sum that is not positive.
TicketsHeld ==
    /\ tickets \in [Proc -> 0..INT_MAX]
    /\ \A p \in Proc : state[p] # "UNUSED" => tickets[p] > 0
    /\ \A c \in Cpu : stage[c] = "draw" => sum[c] > 0


LotteryInit ==
    /\ Init
    /\ tickets = [p \in Proc |-> IF p = initproc THEN 1 ELSE 0]
    /\ stage = [c \in Cpu |-> "sum"]
    /\ sum = [c \in Cpu |-> 0]
    /\ chosen = [c \in Cpu |-> 0]

-----------------------------------------------------------------------------
\* allocproc gives one ticket, and fork then the parent's number.
LotteryAlloc(c, new) ==
    /\ ForkAlloc(c, new)
    /\ tickets' = [tickets EXCEPT ![new] = 1]
    /\ UNCHANGED <<stage, sum, chosen>>

LotteryCopy(c) ==
    /\ ForkCopy(c)
    /\ tickets' = [tickets EXCEPT ![np[cpuproc[c]]] = tickets[cpuproc[c]]]
    /\ UNCHANGED <<stage, sum, chosen>>

\* Mutant: any number is accepted.
setticketsUnchecked(c, n) ==
    /\ InSyscall(c)
    /\ tickets' = [tickets EXCEPT ![cpuproc[c]] = n]
    /\ UNCHANGED <<vars, stage, sum, chosen>>

\* settickets(n), which does not take ptable.lock.
settickets(c, n) ==
    /\ InSyscall(c) /\ n >= 1
    /\ tickets' = [tickets EXCEPT ![cpuproc[c]] = n]
    /\ UNCHANGED <<vars, stage, sum, chosen>>

-----------------------------------------------------------------------------
(* lotterysched                                                            *)


\* An int that went past its end.
wrap(n) == ((n + INT_MAX + 1) % (2 * (INT_MAX + 1))) - INT_MAX - 1

Runnable == {p \in Proc : state[p] = "RUNNABLE"}
TrueTickets(S) == MapThenSumSet(LAMBDA p : tickets[p], S)
TicketsOf(S) == wrap(TrueTickets(S))

\* C's a % b for b > 0: the quotient is cut off towards zero.
crem(a, b) == IF a >= 0 THEN a % b ELSE -((-a) % b)

\* What rand() returns for a time of day.
rand(seed) == crem(1593 * seed + 1042, 4930)

\* Mutant: one ticket too many in the hat.
DrawsOneMore(n) == {crem(rand(seed), n + 1) + 1 : seed \in Seeds}

\* The tickets that may be chosen of n.  Those below 1 win for the first
\* process of the table, like ticket 1.
Draws(n) == {crem(rand(seed), n) + 1 : seed \in Seeds}

\* Mutant: the count has to pass the ticket.
ReachedAbove(t) == {p \in Runnable : TicketsOf({q \in Runnable : q <= p}) > t}

\* The processes at which the count of tickets has come up to ticket t.
Reached(t) == {p \in Runnable : TicketsOf({q \in Runnable : q <= p}) >= t}

\* The first critical section.  With no ticket to draw the loop starts again.
LotterySum(c) ==
    /\ cpuproc[c] = None /\ intr[c] = "none" /\ lock = NoCpu
    /\ stage[c] = "sum"
    /\ sum' = [sum EXCEPT ![c] = TicketsOf(Runnable)]
    /\ stage' = [stage EXCEPT ![c] = IF sum'[c] > 0 THEN "draw" ELSE "sum"]
    /\ UNCHANGED <<vars, tickets, chosen>>

\* The draw uses the sum as it was.
LotteryDraw(c) ==
    /\ stage[c] = "draw"
    /\ SchedAcquire(c)
    /\ \E t \in Draws(sum[c]) : chosen' = [chosen EXCEPT ![c] = t]
    /\ stage' = [stage EXCEPT ![c] = "pick"]
    /\ UNCHANGED <<tickets, sum>>

LotteryRun(c, p) ==
    /\ stage[c] = "pick"
    /\ IsFirst(p, Reached(chosen[c]))
    /\ SchedRun(c, p)
    /\ stage' = [stage EXCEPT ![c] = "done"]
    /\ UNCHANGED <<tickets, sum, chosen>>

\* After one process has run, or when nobody has the ticket any more.  The
\* variables of the loop body start again from 0.
LotteryRelease(c) ==
    /\ \/ stage[c] = "done"
       \/ stage[c] = "pick" /\ Reached(chosen[c]) = {}
    /\ SchedRelease(c)
    /\ stage' = [stage EXCEPT ![c] = "sum"]
    /\ sum' = [sum EXCEPT ![c] = 0]
    /\ chosen' = [chosen EXCEPT ![c] = 0]
    /\ UNCHANGED tickets

LotterySame == UNCHANGED <<tickets, stage, sum, chosen>>

LotterySched(c) ==
    \/ LotterySum(c)
    \/ LotteryDraw(c)
    \/ \E p \in Proc : LotteryRun(c, p)
    \/ SchedDone(c) /\ LotterySame
    \/ LotteryRelease(c)

LotteryNext ==
    \E c \in Cpu :
        \/ \E new \in Proc : LotteryAlloc(c, new)
        \/ LotteryCopy(c)
        \/ ProcStep(c) /\ ~ForkCopy(c) /\ LotterySame
        \/ TimerTick(c) /\ LotterySame
        \/ \E n \in TicketArgs : settickets(c, n)
        \/ LotterySched(c)

LotterySpec == LotteryInit /\ [][LotteryNext]_lotteryVars

\* The scheduler goes on, and so does an interrupt that has begun; see RoundRobin
\* for why the fairness of what an interrupt delays is strong.  Nothing is said
\* of the draws: the clock may show the same seed for ever.
LotteryFairSpec ==
    /\ LotterySpec
    /\ \A c \in Cpu : /\ SF_lotteryVars(LotterySched(c))
                      /\ WF_lotteryVars(IntrStep(c) /\ LotterySame)

-----------------------------------------------------------------------------
(* Properties                                                              *)

\* What the counter of lotterysched needs to be a number of tickets.
NoWrap == TrueTickets(Runnable) <= INT_MAX

\* A pass of lotterysched that drew a ticket runs nobody only because the sum
\* it drew from was out of date: processes went away between the two critical
\* sections.  While the numbers fit, no draw misses everybody.
LostPassIsStale ==
    [][\A c \in Cpu :
           stage[c] = "pick" /\ stage'[c] = "sum" /\ NoWrap
               => TrueTickets(Runnable) < sum[c]]_lotteryVars

\* lotterysched does not lose its passes for ever: with a process RUNNABLE some
\* process gets to run, whatever is drawn, unless the sum of the tickets wraps.
KeepsBusy ==
    Runnable # {} ~> (\E p \in Proc : state[p] = "RUNNING") \/ ~NoWrap

\* What lotterysched says of a sum that is not positive: "no process is
\* runnable so nothing to do".  settickets() has no upper bound, so that the sum
\* wraps around and this does not hold.
IdleMeansNobody == TicketsOf(Runnable) <= 0 => Runnable = {}
=============================================================================
