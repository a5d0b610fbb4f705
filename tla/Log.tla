-------------------------------- MODULE Log --------------------------------
(***************************************************************************)
(* The logging layer of lab2, log.c, with crashes and the recovery at      *)
(* boot.  A write of one disk block (bwrite) is one step and is atomic: a  *)
(* crash falls between two of them.  The buffer cache is the function      *)
(* cache; that bread() returns the block as last modified and that a dirty *)
(* buffer is not evicted is what Bcache shows.                             *)
(***************************************************************************)
EXTENDS Integers, Sequences, FiniteSets

CONSTANTS
    Proc,           \* processes that make file system calls
    Block,          \* home blocks of the file system
    Data,           \* contents of a block
    MAXOPBLOCKS,    \* blocks begin_op() reserves for a call
    LOGSIZE,
    NoBlock,        \* no buffer
    LogBlocks,      \* log.size: sb.nlog, the header block included
    OpBlocks        \* how many different blocks a call really writes

ASSUME LogAssumption ==
    /\ MAXOPBLOCKS \in Nat \ {0}
    /\ LOGSIZE \in Nat /\ MAXOPBLOCKS <= LOGSIZE
    /\ LogBlocks \in Nat \ {0}
    /\ OpBlocks \in Nat /\ OpBlocks <= MAXOPBLOCKS
    /\ IsFiniteSet(Proc)

VARIABLES
    disk,           \* the home blocks on disk
    logblk,         \* the blocks of the on-disk log after its header
    head,           \* the block numbers in the on-disk header
    cache,          \* b->data of the home blocks
    lh,             \* log.lh, the block numbers of the transaction in memory
    outstanding,    \* log.outstanding
    phase,          \* progress of commit() or recover_from_log(), else "idle"
    tail,           \* their local tail
    pc,             \* where each process is
    blk,            \* the block a process passes to log_write()
    wrote           \* the blocks the call in progress has logged

memVars == <<cache, lh, outstanding, phase, tail, pc, blk, wrote>>
logVars == <<disk, logblk, head, cache, lh, outstanding, phase, tail, pc, blk, wrote>>

\* Blocks from log.start + 1 on.  The log has log.size - 1 of them, and what
\* follows on the disk is not log; HasRoom says that it is never reached.
Slots == 1..LOGSIZE
Room == LogBlocks - 1               \* log blocks without the header

\* log.committing: set by the last end_op(), cleared when commit() is done.
committing == phase \in {"write_log", "write_head", "install", "erase", "done"}

Booting == phase \in {"read_head", "boot_install", "boot_erase"}

InOp == {p \in Proc : pc[p] \in {"op", "log_write"}}

LogTypeOK ==
    /\ disk \in [Block -> Data] /\ cache \in [Block -> Data]
    /\ logblk \in [Slots -> Data]
    /\ head \in Seq(Block) /\ lh \in Seq(Block)
    /\ outstanding \in Nat /\ tail \in Nat
    /\ phase \in {"idle", "write_log", "write_head", "install", "erase", "done",
                  "read_head", "boot_install", "boot_erase"}
    /\ pc \in [Proc -> {"user", "begin", "asleep", "op", "log_write", "commit"}]
    /\ blk \in [Proc -> Block \cup {NoBlock}]
    /\ wrote \in [Proc -> SUBSET Block]

-----------------------------------------------------------------------------
\* The memory after power-on.  lh and outstanding are zero (bss).
Reset ==
    /\ lh' = <<>> /\ outstanding' = 0
    /\ phase' = "read_head" /\ tail' = 0
    /\ pc' = [p \in Proc |-> "user"]
    /\ wrote' = [p \in Proc |-> {}]
    /\ blk' = [p \in Proc |-> NoBlock]

\* The disk mkfs wrote: an empty log, and the machine about to boot.
LogInit ==
    /\ disk \in [Block -> Data]
    /\ logblk \in {[s \in Slots |-> d] : d \in Data}
    /\ head = <<>>
    /\ cache = disk
    /\ lh = <<>> /\ outstanding = 0
    /\ phase = "read_head" /\ tail = 0
    /\ pc = [p \in Proc |-> "user"]
    /\ blk = [p \in Proc |-> NoBlock]
    /\ wrote = [p \in Proc |-> {}]

\* Power failure at any time; the cache is filled from the disk again.
Crash ==
    /\ Reset
    /\ cache' = disk
    /\ UNCHANGED <<disk, logblk, head>>

-----------------------------------------------------------------------------
(* begin_op, log_write, end_op.  A critical section of log.lock is a step. *)

Wake == [p \in Proc |-> IF pc[p] = "asleep" THEN "begin" ELSE pc[p]]

\* A process makes a file system call.  initlog() runs in the first process,
\* before it returns to user space.
SysCall(p) ==
    /\ pc[p] = "user" /\ ~Booting
    /\ pc' = [pc EXCEPT ![p] = "begin"]
    /\ UNCHANGED <<disk, logblk, head, cache, lh, outstanding, phase, tail, blk, wrote>>

\* Mutant: the calls in progress are forgotten.
MustWaitAlone == committing \/ Len(lh) + MAXOPBLOCKS > LOGSIZE

MustWait == committing \/ Len(lh) + (outstanding + 1) * MAXOPBLOCKS > LOGSIZE

BeginSleep(p) ==
    /\ pc[p] = "begin" /\ MustWait
    /\ pc' = [pc EXCEPT ![p] = "asleep"]
    /\ UNCHANGED <<disk, logblk, head, cache, lh, outstanding, phase, tail, blk, wrote>>

BeginEnter(p) ==
    /\ pc[p] = "begin" /\ ~MustWait
    /\ outstanding' = outstanding + 1
    /\ pc' = [pc EXCEPT ![p] = "op"]
    /\ UNCHANGED <<disk, logblk, head, cache, lh, phase, tail, blk, wrote>>

\* The caller modifies a buffer whose lock it holds and calls log_write(),
\* which looks at log.lh.n before it takes log.lock.  With no room left it
\* panics; HasRoom states that this does not happen.
Modify(p, b, v) ==
    /\ pc[p] = "op"
    /\ b \in wrote[p] \/ Cardinality(wrote[p]) < OpBlocks
    /\ \A q \in Proc : pc[q] = "log_write" => blk[q] # b
    /\ Len(lh) < LOGSIZE /\ Len(lh) < Room
    /\ outstanding >= 1
    /\ cache' = [cache EXCEPT ![b] = v]
    /\ blk' = [blk EXCEPT ![p] = b]
    /\ pc' = [pc EXCEPT ![p] = "log_write"]
    /\ UNCHANGED <<disk, logblk, head, lh, outstanding, phase, tail, wrote>>

LogWrite(p) ==
    /\ pc[p] = "log_write"
    /\ lh' = IF \E i \in DOMAIN lh : lh[i] = blk[p] THEN lh ELSE Append(lh, blk[p])
    /\ wrote' = [wrote EXCEPT ![p] = @ \cup {blk[p]}]
    /\ pc' = [pc EXCEPT ![p] = "op"]
    /\ blk' = [blk EXCEPT ![p] = NoBlock]
    /\ UNCHANGED <<disk, logblk, head, cache, outstanding, phase, tail>>

\* The last one out commits, the others wake those who wait for log space.
EndOp(p) ==
    /\ pc[p] = "op" /\ ~committing
    /\ outstanding' = outstanding - 1
    /\ IF outstanding' = 0
       THEN phase' = "write_log" /\ pc' = [pc EXCEPT ![p] = "commit"]
       ELSE phase' = phase /\ pc' = [Wake EXCEPT ![p] = "user"]
    /\ wrote' = [wrote EXCEPT ![p] = {}]
    /\ UNCHANGED <<disk, logblk, head, cache, lh, tail, blk>>

\* Mutant: no second wakeup(&log).
EndCommitQuiet(p) ==
    /\ pc[p] = "commit" /\ phase = "done"
    /\ phase' = "idle"
    /\ pc' = [pc EXCEPT ![p] = "user"]
    /\ UNCHANGED <<disk, logblk, head, cache, lh, outstanding, tail, blk, wrote>>

EndCommit(p) ==
    /\ pc[p] = "commit" /\ phase = "done"
    /\ phase' = "idle"
    /\ pc' = [Wake EXCEPT ![p] = "user"]
    /\ UNCHANGED <<disk, logblk, head, cache, lh, outstanding, tail, blk, wrote>>

-----------------------------------------------------------------------------
(* commit and recover_from_log, one bwrite per step                        *)

\* Mutant: the loop ends one block too early.
write_logShort ==
    /\ phase = "write_log"
    /\ IF tail + 1 < Len(lh)
       THEN /\ logblk' = [logblk EXCEPT ![tail + 1] = cache[lh[tail + 1]]]
            /\ tail' = tail + 1
            /\ UNCHANGED phase
       ELSE /\ phase' = IF lh = <<>> THEN "done" ELSE "write_head"
            /\ tail' = 0
            /\ UNCHANGED logblk
    /\ UNCHANGED <<disk, head, cache, lh, outstanding, pc, blk, wrote>>

\* One turn of the loop of write_log(), or its end.
write_log ==
    /\ phase = "write_log"
    /\ IF tail < Len(lh)
       THEN /\ logblk' = [logblk EXCEPT ![tail + 1] = cache[lh[tail + 1]]]
            /\ tail' = tail + 1
            /\ UNCHANGED phase
       ELSE /\ phase' = IF lh = <<>> THEN "done" ELSE "write_head"
            /\ tail' = 0
            /\ UNCHANGED logblk
    /\ UNCHANGED <<disk, head, cache, lh, outstanding, pc, blk, wrote>>

write_head ==
    /\ phase = "write_head"
    /\ head' = lh
    /\ phase' = "install"
    /\ UNCHANGED <<disk, logblk, cache, lh, outstanding, tail, pc, blk, wrote>>

\* One turn of the loop of install_trans(), or its end.
install_trans ==
    /\ phase \in {"install", "boot_install"}
    /\ IF tail < Len(lh)
       THEN /\ cache' = [cache EXCEPT ![lh[tail + 1]] = logblk[tail + 1]]
            /\ disk' = [disk EXCEPT ![lh[tail + 1]] = logblk[tail + 1]]
            /\ tail' = tail + 1
            /\ UNCHANGED phase
       ELSE /\ phase' = IF phase = "install" THEN "erase" ELSE "boot_erase"
            /\ tail' = 0
            /\ UNCHANGED <<disk, cache>>
    /\ UNCHANGED <<logblk, head, lh, outstanding, pc, blk, wrote>>

\* log.lh.n = 0; write_head();
erase ==
    /\ phase \in {"erase", "boot_erase"}
    /\ lh' = <<>> /\ head' = <<>>
    /\ phase' = IF phase = "erase" THEN "done" ELSE "idle"
    /\ UNCHANGED <<disk, logblk, cache, outstanding, tail, pc, blk, wrote>>

read_head ==
    /\ phase = "read_head"
    /\ lh' = head
    /\ phase' = "boot_install"
    /\ UNCHANGED <<disk, logblk, head, cache, outstanding, tail, pc, blk, wrote>>

DiskStep == write_log \/ write_head \/ install_trans \/ erase \/ read_head

-----------------------------------------------------------------------------
LogNext ==
    \/ \E p \in Proc : SysCall(p) \/ BeginSleep(p) \/ BeginEnter(p) \/ LogWrite(p)
                       \/ EndOp(p) \/ EndCommit(p)
    \/ \E p \in Proc, b \in Block, v \in Data : Modify(p, b, v)
    \/ DiskStep
    \/ Crash

LogSpec == LogInit /\ [][LogNext]_logVars

\* The kernel's own code goes on, and a call ends: it is a finite loop, but
\* between two turns it may be busy with log_write(), hence SF for EndOp.
LogFairness ==
    /\ WF_logVars(DiskStep)
    /\ \A p \in Proc : /\ WF_logVars(BeginSleep(p) \/ BeginEnter(p))
                       /\ WF_logVars(LogWrite(p))
                       /\ SF_logVars(EndOp(p))
                       /\ WF_logVars(EndCommit(p))

LogFairSpec == LogSpec /\ LogFairness

-----------------------------------------------------------------------------
(* Properties                                                              *)

\* What the disk holds once recover_from_log() has run.
Recovered ==
    [b \in Block |-> IF \E i \in DOMAIN head : head[i] = b
                     THEN logblk[CHOOSE i \in DOMAIN head : head[i] = b]
                     ELSE disk[b]]

\* The log implements atomic group commit: what a reboot finds changes only in
\* write_head(), whose comment calls it "the true point at which the current
\* transaction commits", and then to what all finished calls have written.
Atomic == INSTANCE AtomicDisk WITH
    stable <- Recovered,
    current <- IF Booting THEN Recovered ELSE cache,
    active <- InOp,
    closing <- phase \in {"write_log", "write_head"}

AtomicSpec == Atomic!AbsSpec

\* begin_op() reserves enough that log_write() neither panics nor, its check of
\* log.lh.n being made before it holds log.lock, runs past the log on disk.
HasRoom ==
    /\ LogTypeOK
    /\ Len(lh) <= Room
    /\ \A p \in Proc : pc[p] = "op" => Len(lh) < LOGSIZE /\ Len(lh) < Room

\* A process that waits in begin_op() is woken: both wakeup(&log) of end_op().
WaitersWake == \A p \in Proc : pc[p] = "asleep" ~> pc[p] # "asleep"
=============================================================================
