------------------------------- MODULE Bcache -------------------------------
(***************************************************************************)
(* The buffer cache of lab2 (bio.c) over sleep locks (sleeplock.c) and the *)
(* disk driver (ide.c): bread, bwrite, brelse, iderw and the interrupt.    *)
(*                                                                         *)
(* A critical section of bcache.lock, of lk->lk or of idelock is a step.   *)
(* bget() recycles any unused buffer; that it takes the least recently     *)
(* used one is left open.  A process holds one buffer at a time: that the  *)
(* log and bmap() hold two at a time is left out.                          *)
(***************************************************************************)
EXTENDS Integers, Sequences, FiniteSets

CONSTANTS
    Proc, Buf, Block, Data,
    NoProc,     \* an unlocked sleep lock
    NoBlock,    \* the zeroed dev and blockno of a buffer never used
    NoBuf

ASSUME BcacheAssumption ==
    /\ NoProc \notin Proc /\ NoBlock \notin Block /\ NoBuf \notin Buf
    /\ IsFiniteSet(Proc)

VARIABLES
    disk,       \* the blocks on the medium
    blockno, valid, dirty, refcnt, data,    \* of struct buf
    locked,     \* the process that holds b->lock
    idequeue,   \* buffers waiting for the disk, the first being served
    cmd,        \* the command the drive was given by idestart()
    irq,        \* the drive's interrupt is pending
    pc, buf,    \* where a process is, and the buffer it is busy with
    want        \* the argument of its bread()

bufVars == <<blockno, valid, dirty, refcnt, data, locked>>
ideVars == <<disk, idequeue, cmd, irq>>
bcacheVars == <<disk, blockno, valid, dirty, refcnt, data, locked, idequeue, cmd,
                irq, pc, buf, want>>

NoCmd == [op |-> "none"]

PC == {"user", "lock", "locksleep", "locked", "io", "have", "changed", "drop"}

BcacheTypeOK ==
    /\ disk \in [Block -> Data] /\ data \in [Buf -> Data]
    /\ blockno \in [Buf -> Block \cup {NoBlock}]
    /\ valid \in [Buf -> BOOLEAN] /\ dirty \in [Buf -> BOOLEAN]
    /\ refcnt \in [Buf -> Nat]
    /\ locked \in [Buf -> Proc \cup {NoProc}]
    /\ idequeue \in Seq(Buf)
    /\ irq \in BOOLEAN
    /\ pc \in [Proc -> PC] /\ buf \in [Proc -> Buf \cup {NoBuf}]
    /\ want \in [Proc -> Block \cup {NoBlock}]

BcacheInit ==
    /\ disk \in [Block -> Data]
    /\ blockno = [b \in Buf |-> NoBlock]
    /\ valid = [b \in Buf |-> FALSE] /\ dirty = [b \in Buf |-> FALSE]
    /\ refcnt = [b \in Buf |-> 0]
    /\ data \in {[b \in Buf |-> d] : d \in Data}
    /\ locked = [b \in Buf |-> NoProc]
    /\ idequeue = <<>> /\ cmd = NoCmd /\ irq = FALSE
    /\ pc = [p \in Proc |-> "user"]
    /\ buf = [p \in Proc |-> NoBuf] /\ want = [p \in Proc |-> NoBlock]

-----------------------------------------------------------------------------
(* bget and the sleep lock                                                 *)

Cached(k) == {b \in Buf : blockno[b] = k}

bgetHit(p, k, b) ==
    /\ pc[p] = "user" /\ b \in Cached(k)
    /\ refcnt' = [refcnt EXCEPT ![b] = @ + 1]
    /\ pc' = [pc EXCEPT ![p] = "lock"]
    /\ buf' = [buf EXCEPT ![p] = b] /\ want' = [want EXCEPT ![p] = k]
    /\ UNCHANGED <<blockno, valid, dirty, data, locked, ideVars>>

\* Mutant: B_DIRTY is not looked at.
RecyclableDirty(b) == refcnt[b] = 0

\* "Even if refcnt==0, B_DIRTY indicates a buffer is in use."  With no buffer
\* to recycle bget() panics.
Recyclable(b) == refcnt[b] = 0 /\ ~dirty[b]

\* Mutant: the block may have got a buffer in the meantime, as if bcache.lock
\* were released between the two loops.
bgetMissAgain(p, k, b) ==
    /\ pc[p] = "user" /\ Recyclable(b)
    /\ blockno' = [blockno EXCEPT ![b] = k]
    /\ valid' = [valid EXCEPT ![b] = FALSE]
    /\ dirty' = [dirty EXCEPT ![b] = FALSE]
    /\ refcnt' = [refcnt EXCEPT ![b] = 1]
    /\ pc' = [pc EXCEPT ![p] = "lock"]
    /\ buf' = [buf EXCEPT ![p] = b] /\ want' = [want EXCEPT ![p] = k]
    /\ UNCHANGED <<data, locked, ideVars>>

bgetMiss(p, k, b) ==
    /\ pc[p] = "user" /\ Cached(k) = {} /\ Recyclable(b)
    /\ blockno' = [blockno EXCEPT ![b] = k]
    /\ valid' = [valid EXCEPT ![b] = FALSE]
    /\ dirty' = [dirty EXCEPT ![b] = FALSE]
    /\ refcnt' = [refcnt EXCEPT ![b] = 1]
    /\ pc' = [pc EXCEPT ![p] = "lock"]
    /\ buf' = [buf EXCEPT ![p] = b] /\ want' = [want EXCEPT ![p] = k]
    /\ UNCHANGED <<data, locked, ideVars>>

acquiresleep(p) ==
    LET free == locked[buf[p]] = NoProc
    IN  /\ pc[p] = "lock"
        /\ locked' = IF free THEN [locked EXCEPT ![buf[p]] = p] ELSE locked
        /\ pc' = [pc EXCEPT ![p] = IF free THEN "locked" ELSE "locksleep"]
        /\ UNCHANGED <<blockno, valid, dirty, refcnt, data, ideVars, buf, want>>

-----------------------------------------------------------------------------
(* The disk driver                                                         *)

\* Mutant: the flags are not looked at.
idestartRead(b, isDirty) == [op |-> "read", block |-> blockno[b]]

idestart(b, isDirty) ==
    IF isDirty[b] THEN [op |-> "write", block |-> blockno[b], data |-> data[b]]
                  ELSE [op |-> "read", block |-> blockno[b]]

\* Queue b, start the disk if it was idle, and sleep: the request is not
\* finished, for the interrupt takes idelock.
iderw(p, b, isDirty) ==
    /\ idequeue' = Append(idequeue, b)
    /\ cmd' = IF idequeue = <<>> THEN idestart(b, isDirty) ELSE cmd
    /\ pc' = [pc EXCEPT ![p] = "io"]
    /\ UNCHANGED <<disk, irq>>

\* The end of bread(): the buffer is locked, and read if it is not valid.
bread(p) ==
    LET b == buf[p]
    IN  /\ pc[p] = "locked"
        /\ IF valid[b]
           THEN pc' = [pc EXCEPT ![p] = "have"] /\ UNCHANGED ideVars
           ELSE iderw(p, b, dirty)
        /\ UNCHANGED <<bufVars, buf, want>>

\* External: the drive carries out its command and raises the interrupt.
DriveDone ==
    /\ cmd # NoCmd /\ ~irq
    /\ disk' = IF cmd.op = "write" THEN [disk EXCEPT ![cmd.block] = cmd.data] ELSE disk
    /\ irq' = TRUE
    /\ UNCHANGED <<bufVars, idequeue, cmd, pc, buf, want>>

\* The sleeper of iderw() finds B_VALID set and B_DIRTY clear.
ideintr ==
    LET b == Head(idequeue)
        rest == Tail(idequeue)
    IN  /\ irq /\ idequeue # <<>>
        /\ idequeue' = rest
        /\ data' = IF dirty[b] THEN data ELSE [data EXCEPT ![b] = disk[cmd.block]]
        /\ valid' = [valid EXCEPT ![b] = TRUE]
        /\ dirty' = [dirty EXCEPT ![b] = FALSE]
        /\ pc' = [p \in Proc |-> IF pc[p] = "io" /\ buf[p] = b THEN "have" ELSE pc[p]]
        /\ cmd' = IF rest = <<>> THEN NoCmd ELSE idestart(Head(rest), dirty')
        /\ irq' = FALSE
        /\ UNCHANGED <<disk, blockno, refcnt, locked, buf, want>>

-----------------------------------------------------------------------------
(* The user of a buffer                                                    *)

Change(p, v) ==
    /\ pc[p] \in {"have", "changed"}
    /\ data' = [data EXCEPT ![buf[p]] = v]
    /\ pc' = [pc EXCEPT ![p] = "changed"]
    /\ UNCHANGED <<blockno, valid, dirty, refcnt, locked, ideVars, buf, want>>

bwrite(p) ==
    /\ pc[p] \in {"have", "changed"} /\ locked[buf[p]] = p
    /\ dirty' = [dirty EXCEPT ![buf[p]] = TRUE]
    /\ iderw(p, buf[p], dirty')
    /\ UNCHANGED <<blockno, valid, refcnt, data, locked, buf, want>>

\* log_write(): the buffer is only marked, and written at the commit.
log_write(p) ==
    /\ pc[p] = "changed"
    /\ dirty' = [dirty EXCEPT ![buf[p]] = TRUE]
    /\ pc' = [pc EXCEPT ![p] = "have"]
    /\ UNCHANGED <<blockno, valid, refcnt, data, locked, ideVars, buf, want>>

\* Mutant: no wakeup(lk).
releasesleepQuiet(p) ==
    /\ pc[p] = "have" /\ locked[buf[p]] = p
    /\ locked' = [locked EXCEPT ![buf[p]] = NoProc]
    /\ pc' = [pc EXCEPT ![p] = "drop"]
    /\ UNCHANGED <<blockno, valid, dirty, refcnt, data, ideVars, buf, want>>

\* brelse() gives up the lock first,
releasesleep(p) ==
    LET b == buf[p]
    IN  /\ pc[p] = "have" /\ locked[b] = p
        /\ locked' = [locked EXCEPT ![b] = NoProc]
        /\ pc' = [q \in Proc |-> CASE q = p -> "drop"
                                   [] pc[q] = "locksleep" /\ buf[q] = b -> "lock"
                                   [] OTHER -> pc[q]]
        /\ UNCHANGED <<blockno, valid, dirty, refcnt, data, ideVars, buf, want>>

\* and then the reference.
brelse(p) ==
    /\ pc[p] = "drop"
    /\ refcnt' = [refcnt EXCEPT ![buf[p]] = @ - 1]
    /\ pc' = [pc EXCEPT ![p] = "user"]
    /\ buf' = [buf EXCEPT ![p] = NoBuf] /\ want' = [want EXCEPT ![p] = NoBlock]
    /\ UNCHANGED <<blockno, valid, dirty, data, locked, ideVars>>

-----------------------------------------------------------------------------
ProcStep(p) ==
    \/ acquiresleep(p) \/ bread(p) \/ bwrite(p) \/ log_write(p)
    \/ releasesleep(p) \/ brelse(p)

BcacheNext ==
    \/ \E p \in Proc, k \in Block, b \in Buf : bgetHit(p, k, b) \/ bgetMiss(p, k, b)
    \/ \E p \in Proc, v \in Data : Change(p, v)
    \/ \E p \in Proc : ProcStep(p)
    \/ DriveDone
    \/ ideintr

BcacheSpec == BcacheInit /\ [][BcacheNext]_bcacheVars

\* Kernel code and the drive go on; a buffer is released in the end (kernel
\* code between bread() and brelse() is finite), hence SF for releasesleep.
BcacheFairness ==
    /\ WF_bcacheVars(DriveDone) /\ WF_bcacheVars(ideintr)
    /\ \A p \in Proc : /\ WF_bcacheVars(acquiresleep(p) \/ bread(p) \/ brelse(p))
                       /\ WF_bcacheVars(log_write(p) \/ bwrite(p))
                       /\ SF_bcacheVars(releasesleep(p))

BcacheFairSpec == BcacheSpec /\ BcacheFairness

-----------------------------------------------------------------------------
(* Properties                                                              *)

\* A block as bread() would return it, and the process that has it locked.
Content ==
    [k \in Block |-> IF \E b \in Cached(k) : valid[b]
                     THEN data[CHOOSE b \in Cached(k) : valid[b]] ELSE disk[k]]
User ==
    [k \in Block |-> IF Cached(k) = {} THEN NoProc ELSE locked[CHOOSE b \in Cached(k) : TRUE]]

\* The cache implements the block store: no eviction, read or write-back
\* changes what bread() returns, and a block has one user at a time.
Store == INSTANCE BlockStore WITH content <- Content, user <- User

StoreSpec == Store!StoreSpec

\* bread() returns the buffer of the block it was asked for, locked and read
\* in, although the buffer was looked up under another lock than the one its
\* user holds; and no block is in two buffers.
BreadReturns ==
    /\ BcacheTypeOK
    /\ \A p \in Proc : pc[p] \in {"have", "changed"} =>
           /\ locked[buf[p]] = p /\ valid[buf[p]] /\ blockno[buf[p]] = want[p]
    /\ \A a, b \in Buf : blockno[a] = blockno[b] /\ blockno[a] # NoBlock => a = b

\* When bwrite() returns, the block is on the disk: a buffer that is valid and
\* not dirty, and not being changed, has the contents of its block.
CleanIsOnDisk ==
    \A b \in Buf :
        /\ valid[b] /\ ~dirty[b]
        /\ \A p \in Proc : buf[p] = b => pc[p] # "changed"
        => data[b] = disk[blockno[b]]

\* Nobody sleeps for ever: every request is served, for the interrupt starts
\* the next one of the queue, and releasesleep() wakes who waits for a buffer.
SleepersWoken ==
    \A p \in Proc, w \in {"io", "locksleep"} : pc[p] = w ~> pc[p] # w
=============================================================================
