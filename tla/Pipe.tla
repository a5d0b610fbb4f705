-------------------------------- MODULE Pipe --------------------------------
(***************************************************************************)
(* The pipe of lab2, pipe.c.  The machine has memory for one pipe.  The    *)
(* counters nread and nwrite are unsigned words: they are kept mod WORD.   *)
(*                                                                         *)
(* A critical section of p->lock is a step.  Before it sleeps a process    *)
(* keeps the lock between two steps, for it has looked at its killed flag, *)
(* which kill() sets under another lock.                                   *)
(***************************************************************************)
EXTENDS Integers, Sequences

CONSTANTS
    Proc, NoProc, Byte,
    PIPESIZE,
    WORD        \* 2^32 in the code

ASSUME PipeAssumption ==
    /\ PIPESIZE \in Nat \ {0} /\ WORD \in Nat
    /\ PIPESIZE < WORD /\ WORD % PIPESIZE = 0
    /\ NoProc \notin Proc /\ Byte # {}

VARIABLES
    allocated,              \* the page of the pipe is in use
    data, nread, nwrite, readopen, writeopen,   \* of struct pipe
    plock,                  \* the process that holds p->lock between two steps
    pc,                     \* where a process is
    todo,                   \* bytes its pipewrite() has still to write
    killed,
    out,                    \* bytes a piperead() has copied out
    unseen                  \* history: bytes were written since wakeup(&p->nread)

pipeVars == <<allocated, data, nread, nwrite, readopen, writeopen, plock, unseen>>

\* What kfree() fills a page with.
Junk == [j \in 0..(PIPESIZE - 1) |-> CHOOSE b \in Byte : TRUE]

Used == (nwrite - nread) % WORD
Least(a, b) == IF a < b THEN a ELSE b

\* wakeup(&p->nread) and wakeup(&p->nwrite), on the given program counters.
WakeReaders(pcs) == [q \in Proc |-> IF pcs[q] = "rsleep" THEN "read" ELSE pcs[q]]
WakeWriters(pcs) == [q \in Proc |-> IF pcs[q] = "wsleep" THEN "write" ELSE pcs[q]]

-----------------------------------------------------------------------------
\* The pipe is empty and can still be written to: return -1 or go to sleep.
pipereadEmpty(p) ==
    /\ pc[p] = "read" /\ plock = NoProc
    /\ nread = nwrite /\ writeopen
    /\ IF killed[p] THEN pc' = [pc EXCEPT ![p] = "ret"] /\ plock' = plock
                    ELSE pc' = [pc EXCEPT ![p] = "rgoing"] /\ plock' = p
    /\ UNCHANGED <<allocated, data, nread, nwrite, readopen, writeopen, todo, killed, out,
                   unseen>>

\* Mutant: no wakeup(&p->nwrite).
pipereadQuiet(p, n) ==
    LET k == Least(n, Used)
    IN  /\ pc[p] = "read" /\ plock = NoProc
        /\ nread # nwrite \/ ~writeopen
        /\ out' = [out EXCEPT ![p] = [i \in 1..k |-> data[(nread + i - 1) % PIPESIZE]]]
        /\ nread' = (nread + k) % WORD
        /\ pc' = [pc EXCEPT ![p] = "ret"]
        /\ UNCHANGED <<allocated, data, nwrite, readopen, writeopen, plock, todo, killed, unseen>>

\* Mutant: the counter is advanced before it is used as an index.
pipereadAhead(p, n) ==
    LET k == Least(n, Used)
    IN  /\ pc[p] = "read" /\ plock = NoProc
        /\ nread # nwrite \/ ~writeopen
        /\ out' = [out EXCEPT ![p] = [i \in 1..k |-> data[(nread + i) % PIPESIZE]]]
        /\ nread' = (nread + k) % WORD
        /\ pc' = [WakeWriters(pc) EXCEPT ![p] = "ret"]
        /\ UNCHANGED <<allocated, data, nwrite, readopen, writeopen, plock, todo, killed, unseen>>

\* Otherwise up to n bytes are copied, none at the end of the stream.
piperead(p, n) ==
    LET k == Least(n, Used)
    IN  /\ pc[p] = "read" /\ plock = NoProc
        /\ nread # nwrite \/ ~writeopen
        /\ out' = [out EXCEPT ![p] = [i \in 1..k |-> data[(nread + i - 1) % PIPESIZE]]]
        /\ nread' = (nread + k) % WORD
        /\ pc' = [WakeWriters(pc) EXCEPT ![p] = "ret"]
        /\ UNCHANGED <<allocated, data, nwrite, readopen, writeopen, plock, todo, killed, unseen>>

\* As many bytes as there is room for; then the call is done, fails, or sleeps.
pipewrite(p) ==
    LET s == todo[p]
        k == Least(Len(s), PIPESIZE - Used)
        at == [i \in 1..k |-> (nwrite + i - 1) % PIPESIZE]
        done == k = Len(s)
        fails == ~done /\ (~readopen \/ killed[p])
    IN  /\ pc[p] = "write" /\ plock = NoProc
        /\ data' = [j \in 0..(PIPESIZE - 1) |->
                       IF \E i \in 1..k : at[i] = j
                       THEN s[CHOOSE i \in 1..k : at[i] = j] ELSE data[j]]
        /\ nwrite' = (nwrite + k) % WORD
        /\ todo' = [todo EXCEPT ![p] = IF fails THEN <<>> ELSE SubSeq(s, k + 1, Len(s))]
        /\ pc' = IF fails THEN [pc EXCEPT ![p] = "user"]
                 ELSE [WakeReaders(pc) EXCEPT ![p] = IF done THEN "user" ELSE "wgoing"]
        /\ plock' = IF done \/ fails THEN NoProc ELSE p
        /\ unseen' = (fails /\ (unseen \/ k > 0))
        /\ UNCHANGED <<allocated, nread, readopen, writeopen, killed, out>>

\* sleep() puts the process to sleep and gives up p->lock at once.
PipeSleep(p) ==
    /\ plock = p
    /\ pc' = [pc EXCEPT ![p] = IF @ = "rgoing" THEN "rsleep" ELSE "wsleep"]
    /\ plock' = NoProc
    /\ UNCHANGED <<allocated, data, nread, nwrite, readopen, writeopen, todo, killed, out,
                   unseen>>

\* The part of pipealloc() that sets up the page.
PipeInit ==
    /\ allocated' = TRUE
    /\ readopen' = TRUE /\ writeopen' = TRUE
    /\ nread' = 0 /\ nwrite' = 0 /\ unseen' = FALSE
    /\ UNCHANGED <<data, plock>>

\* pipeclose() by p, which then goes on at next.  Nobody looks at the counters of
\* a page that was freed; they are cleared.
pipeclose(p, writable, next) ==
    /\ plock = NoProc
    /\ IF writable THEN writeopen' = FALSE /\ readopen' = readopen
                   ELSE readopen' = FALSE /\ writeopen' = writeopen
    /\ pc' = [IF writable THEN WakeReaders(pc) ELSE WakeWriters(pc) EXCEPT ![p] = next]
    /\ allocated' = (readopen' \/ writeopen')
    /\ IF allocated' THEN UNCHANGED <<data, nread, nwrite>>
                     ELSE data' = Junk /\ nread' = 0 /\ nwrite' = 0
    /\ unseen' = (unseen /\ ~writable)
    /\ UNCHANGED <<plock, todo, killed, out>>
=============================================================================
