------------------------------ MODULE FileTable ------------------------------
(***************************************************************************)
(* The open files of lab2: file.c, the descriptor part of sysfile.c (dup,  *)
(* close, read, write, pipe) and what fork() and exit() do to the          *)
(* descriptors, over the pipe of module Pipe.  Files are ends of the pipe, *)
(* or inodes, of which init has one open: the console.  Reading, writing   *)
(* and iput() of an inode are not part of this module.                     *)
(*                                                                         *)
(* A critical section of ftable.lock is a step.  fdalloc() is part of the  *)
(* step before it: only the process itself looks at its descriptors.       *)
(***************************************************************************)
EXTENDS Pipe, FiniteSets

CONSTANTS
    NFILE,          \* size of ftable.file
    NOFILE,         \* descriptors of a process
    initproc,       \* the first process, which never exits
    Writes, Reads,  \* what programs pass to write() and read(),
    Dups            \* and the descriptors they pass to dup()

ASSUME FileTableAssumption ==
    /\ NFILE \in Nat \ {0} /\ NOFILE \in Nat \ {0}
    /\ initproc \in Proc /\ IsFiniteSet(Proc)
    /\ Writes \subseteq Seq(Byte) \ {<<>>} /\ Reads \subseteq Nat \ {0}
    /\ Dups \subseteq 0..(NOFILE - 1)

File == 1..NFILE
NoFile == 0
Fd == 0..(NOFILE - 1)
console == 1        \* the first file, which init has opened
Empty == [i \in 0..1 |-> NoFile]

VARIABLES
    ref, type,      \* of struct file: FD_NONE, FD_INODE, or FD_PIPE by direction
    ofile,          \* descriptor tables
    hand,           \* the two files, rf and wf, of a sys_pipe() in progress
    ff,             \* type of the struct file that a fileclose() has freed
    nbytes,         \* the argument n of a read() in progress
    exiting         \* the process is in exit()

fileVars == <<ref, type, ofile, hand, ff, nbytes, exiting>>
ftVars == <<pipeVars, pc, todo, killed, out, fileVars>>

FtTypeOK ==
    /\ allocated \in BOOLEAN /\ readopen \in BOOLEAN /\ writeopen \in BOOLEAN
    /\ data \in [0..(PIPESIZE - 1) -> Byte]
    /\ nread \in 0..(WORD - 1) /\ nwrite \in 0..(WORD - 1)
    /\ plock \in Proc \cup {NoProc} /\ unseen \in BOOLEAN
    /\ pc \in [Proc -> {"none", "user", "pipe", "pipe2", "bad", "close",
                        "read", "rgoing", "rsleep", "ret", "write", "wgoing", "wsleep"}]
    /\ todo \in [Proc -> Seq(Byte)] /\ out \in [Proc -> Seq(Byte)]
    /\ killed \in [Proc -> BOOLEAN] /\ exiting \in [Proc -> BOOLEAN]
    /\ ref \in [File -> Nat] /\ type \in [File -> {"none", "inode", "r", "w"}]
    /\ ofile \in [Proc -> [Fd -> File \cup {NoFile}]]
    /\ hand \in [Proc -> [0..1 -> File \cup {NoFile}]]
    /\ ff \in [Proc -> {"none", "r", "w"}]
    /\ nbytes \in [Proc -> Nat]

FtInit ==
    /\ allocated = FALSE /\ readopen = FALSE /\ writeopen = FALSE
    /\ data = Junk
    /\ nread = 0 /\ nwrite = 0 /\ unseen = FALSE
    /\ plock = NoProc
    /\ pc = [p \in Proc |-> IF p = initproc THEN "user" ELSE "none"]
    /\ todo = [p \in Proc |-> <<>>] /\ out = [p \in Proc |-> <<>>]
    /\ killed = [p \in Proc |-> FALSE] /\ exiting = [p \in Proc |-> FALSE]
    /\ ref = [f \in File |-> IF f = console THEN 1 ELSE 0]
    /\ type = [f \in File |-> IF f = console THEN "inode" ELSE "none"]
    /\ ofile = [p \in Proc |-> [d \in Fd |-> IF p = initproc /\ d = 0 THEN console ELSE NoFile]]
    /\ hand = [p \in Proc |-> Empty]
    /\ ff = [p \in Proc |-> "none"]
    /\ nbytes = [p \in Proc |-> 0]

-----------------------------------------------------------------------------
\* syscall(): a process in user mode enters the kernel; a killed one exits.
Enters(p) == pc[p] = "user" /\ ~killed[p] /\ ~exiting[p]

FreeFds(p) == {d \in Fd : ofile[p][d] = NoFile}
FreeFiles == {f \in File : ref[f] = 0}

\* The loops of filealloc() and fdalloc() take the first that is free.
IsFirst(x, S) == x \in S /\ \A y \in S : x <= y

\* sys_pipe(), its first filealloc(),
sys_pipe(p, f) ==
    /\ Enters(p) /\ IsFirst(f, FreeFiles)
    /\ ref' = [ref EXCEPT ![f] = 1]
    /\ hand' = [hand EXCEPT ![p][0] = f]
    /\ pc' = [pc EXCEPT ![p] = "pipe"]
    /\ UNCHANGED <<pipeVars, todo, killed, out, type, ofile, ff, nbytes, exiting>>

\* and its second.
filealloc(p, f) ==
    /\ pc[p] = "pipe" /\ IsFirst(f, FreeFiles)
    /\ ref' = [ref EXCEPT ![f] = 1]
    /\ hand' = [hand EXCEPT ![p][1] = f]
    /\ pc' = [pc EXCEPT ![p] = "pipe2"]
    /\ UNCHANGED <<pipeVars, todo, killed, out, type, ofile, ff, nbytes, exiting>>

\* kalloc() succeeds: the two files are the ends of the pipe.
PipeEnds(p) ==
    /\ pc[p] = "pipe2" /\ ~allocated
    /\ PipeInit
    /\ type' = [type EXCEPT ![hand[p][0]] = "r", ![hand[p][1]] = "w"]

\* There are two descriptors for them,
pipealloc(p, d0, d1) ==
    /\ PipeEnds(p)
    /\ IsFirst(d0, FreeFds(p)) /\ IsFirst(d1, FreeFds(p) \ {d0})
    /\ ofile' = [ofile EXCEPT ![p][d0] = hand[p][0], ![p][d1] = hand[p][1]]
    /\ hand' = [hand EXCEPT ![p] = Empty]
    /\ pc' = [pc EXCEPT ![p] = "user"]
    /\ UNCHANGED <<todo, killed, out, ref, ff, nbytes, exiting>>

\* or not: a descriptor that the first got is taken back in the same step.
pipenofd(p) ==
    /\ PipeEnds(p)
    /\ Cardinality(FreeFds(p)) < 2
    /\ pc' = [pc EXCEPT ![p] = "bad"]
    /\ UNCHANGED <<todo, killed, out, ref, ofile, hand, ff, nbytes, exiting>>

\* The second filealloc() fails, or kalloc(), which may be for want of memory
\* that others have taken.
pipebad(p) ==
    /\ \/ pc[p] = "pipe" /\ FreeFiles = {}
       \/ pc[p] = "pipe2"
    /\ pc' = [pc EXCEPT ![p] = "bad"]
    /\ UNCHANGED <<pipeVars, todo, killed, out, fileVars>>

sys_dup(p, d, d1) ==
    LET f == ofile[p][d]
    IN  /\ Enters(p) /\ f # NoFile /\ IsFirst(d1, FreeFds(p))
        /\ ofile' = [ofile EXCEPT ![p][d1] = f]
        /\ ref' = [ref EXCEPT ![f] = @ + 1]
        /\ UNCHANGED <<pipeVars, pc, todo, killed, out, type, hand, ff, nbytes, exiting>>

IsEnd(f) == type[f] \in {"r", "w"}

\* Mutant: the pipe is closed with every descriptor.
filecloseAlways(p, f, next) ==
    /\ ref' = [ref EXCEPT ![f] = @ - 1]
    /\ type' = type
    /\ ff' = IF IsEnd(f) THEN [ff EXCEPT ![p] = type[f]] ELSE ff
    /\ pc' = [pc EXCEPT ![p] = IF IsEnd(f) THEN "close" ELSE next]

\* Mutant: no pipeclose() behind the last reference.
filecloseOnly(p, f, next) ==
    /\ ref' = [ref EXCEPT ![f] = @ - 1]
    /\ type' = [type EXCEPT ![f] = IF ref[f] = 1 THEN "none" ELSE @]
    /\ ff' = ff
    /\ pc' = [pc EXCEPT ![p] = next]

\* fileclose() under ftable.lock: the last reference frees the struct file, of
\* which ff is a copy.  The pipeclose() of an end of the pipe is still to be
\* done; otherwise p goes on at next.
fileclose(p, f, next) ==
    LET last == ref[f] = 1
    IN  /\ ref' = [ref EXCEPT ![f] = @ - 1]
        /\ type' = IF last THEN [type EXCEPT ![f] = "none"] ELSE type
        /\ ff' = IF last /\ IsEnd(f) THEN [ff EXCEPT ![p] = type[f]] ELSE ff
        /\ pc' = [pc EXCEPT ![p] = IF last /\ IsEnd(f) THEN "close" ELSE next]

\* sys_close(), and what exit() does with every descriptor in turn.
sys_close(p, d) ==
    /\ \/ Enters(p) /\ d \notin FreeFds(p)
       \/ pc[p] = "user" /\ exiting[p] /\ IsFirst(d, Fd \ FreeFds(p))
    /\ fileclose(p, ofile[p][d], "user")
    /\ ofile' = [ofile EXCEPT ![p][d] = NoFile]
    /\ UNCHANGED <<pipeVars, todo, killed, out, hand, nbytes, exiting>>

\* Where a call goes on that has still the files h in hand: sys_pipe() has
\* failed, and it gives them back.
After(h) == IF h = Empty THEN "user" ELSE "bad"

\* Mutant: the second file is forgotten.
badcloseFirst(p, i) ==
    /\ pc[p] = "bad" /\ IsFirst(i, {j \in 0..1 : hand[p][j] # NoFile})
    /\ hand' = [hand EXCEPT ![p] = Empty]
    /\ fileclose(p, hand[p][i], "user")
    /\ UNCHANGED <<pipeVars, todo, killed, out, ofile, nbytes, exiting>>

\* The fileclose() of the first and then of the second file of a pipe() that
\* has failed.
badclose(p, i) ==
    LET rest == [hand[p] EXCEPT ![i] = NoFile]
    IN  /\ pc[p] = "bad" /\ IsFirst(i, {j \in 0..1 : hand[p][j] # NoFile})
        /\ hand' = [hand EXCEPT ![p] = rest]
        /\ fileclose(p, hand[p][i], After(rest))
        /\ UNCHANGED <<pipeVars, todo, killed, out, ofile, nbytes, exiting>>

\* The rest of fileclose().
FilePipeclose(p) ==
    /\ pc[p] = "close"
    /\ pipeclose(p, ff[p] = "w", After(hand[p]))
    /\ ff' = [ff EXCEPT ![p] = "none"]
    /\ UNCHANGED <<ref, type, ofile, hand, nbytes, exiting>>

\* fork() and filedup() of every descriptor; the caller's own references keep
\* the files while it does.
fork(p, q) ==
    /\ Enters(p) /\ pc[q] = "none"
    /\ pc' = [pc EXCEPT ![q] = "user"]
    /\ ofile' = [ofile EXCEPT ![q] = ofile[p]]
    /\ ref' = [f \in File |-> ref[f] + Cardinality({d \in Fd : ofile[p][d] = f})]
    /\ killed' = [killed EXCEPT ![q] = FALSE]
    /\ UNCHANGED <<pipeVars, todo, out, type, hand, ff, nbytes, exiting>>

\* exit(), called or forced on a killed process.
exit(p) ==
    /\ pc[p] = "user" /\ ~exiting[p] /\ p # initproc
    /\ exiting' = [exiting EXCEPT ![p] = TRUE]
    /\ UNCHANGED <<pipeVars, pc, todo, killed, out, ref, type, ofile, hand, ff, nbytes>>

exited(p) ==
    /\ pc[p] = "user" /\ exiting[p] /\ FreeFds(p) = Fd
    /\ pc' = [pc EXCEPT ![p] = "none"]
    /\ killed' = [killed EXCEPT ![p] = FALSE]
    /\ exiting' = [exiting EXCEPT ![p] = FALSE]
    /\ UNCHANGED <<pipeVars, todo, out, ref, type, ofile, hand, ff, nbytes>>

\* kill() sets the flag and wakes the process if it sleeps.  Programs do not
\* kill init.
kill(p) ==
    /\ pc[p] # "none" /\ ~killed[p] /\ p # initproc
    /\ killed' = [killed EXCEPT ![p] = TRUE]
    /\ pc' = [pc EXCEPT ![p] = CASE @ = "rsleep" -> "read"
                                 [] @ = "wsleep" -> "write"
                                 [] OTHER -> @]
    /\ UNCHANGED <<pipeVars, todo, out, fileVars>>

sys_read(p, d, n) ==
    /\ Enters(p) /\ ofile[p][d] # NoFile /\ type[ofile[p][d]] = "r"
    /\ nbytes' = [nbytes EXCEPT ![p] = n]
    /\ pc' = [pc EXCEPT ![p] = "read"]
    /\ UNCHANGED <<pipeVars, todo, killed, out, ref, type, ofile, hand, ff, exiting>>

sys_write(p, d, s) ==
    /\ Enters(p) /\ ofile[p][d] # NoFile /\ type[ofile[p][d]] = "w"
    /\ todo' = [todo EXCEPT ![p] = s]
    /\ pc' = [pc EXCEPT ![p] = "write"]
    /\ UNCHANGED <<pipeVars, killed, out, fileVars>>

PipeStep(p) ==
    /\ pipereadEmpty(p) \/ piperead(p, nbytes[p]) \/ pipewrite(p) \/ PipeSleep(p)
    /\ UNCHANGED fileVars

\* read() returns to the program, which has the bytes.
ReadReturns(p) ==
    /\ pc[p] = "ret"
    /\ out' = [out EXCEPT ![p] = <<>>]
    /\ nbytes' = [nbytes EXCEPT ![p] = 0]
    /\ pc' = [pc EXCEPT ![p] = "user"]
    /\ UNCHANGED <<pipeVars, todo, killed, ref, type, ofile, hand, ff, exiting>>

-----------------------------------------------------------------------------
FtNext ==
    \E p \in Proc :
        \/ \E f \in File : sys_pipe(p, f)
        \/ \E f \in File : filealloc(p, f)
        \/ \E d0, d1 \in Fd : pipealloc(p, d0, d1)
        \/ pipenofd(p) \/ pipebad(p)
        \/ \E i \in 0..1 : badclose(p, i)
        \/ \E d \in Dups, d1 \in Fd : sys_dup(p, d, d1)
        \/ \E d \in Fd : sys_close(p, d)
        \/ FilePipeclose(p)
        \/ \E q \in Proc : fork(p, q)
        \/ exit(p) \/ exited(p)
        \/ kill(p)
        \/ \E d \in Fd, n \in Reads : sys_read(p, d, n)
        \/ \E d \in Fd, s \in Writes : sys_write(p, d, s)
        \/ PipeStep(p) \/ ReadReturns(p)

FtSpec == FtInit /\ [][FtNext]_ftVars

\* Kernel code goes on, that of exit() included, and a killed process exits.
\* SF: p->lock may be free only now and then.
FtFairness ==
    \A p \in Proc :
        /\ SF_ftVars(PipeStep(p)) /\ SF_ftVars(FilePipeclose(p))
        /\ WF_ftVars(killed[p] /\ exit(p)) /\ WF_ftVars(ReadReturns(p))
        /\ WF_ftVars(exiting[p] /\ \E d \in Fd : sys_close(p, d))

FtFairSpec == FtSpec /\ FtFairness

-----------------------------------------------------------------------------
(* Properties                                                              *)

\* The bytes of the pipe, first the one to be read next.
Queue == IF allocated THEN [i \in 1..Used |-> data[(nread + i - 1) % PIPESIZE]] ELSE <<>>

\* The ring buffer with its wrapping counters implements the channel: a read()
\* gets the bytes that were written, each of them once and in order, and the
\* ring never holds more than PIPESIZE.
Chan == INSTANCE Channel WITH
    Capacity <- PIPESIZE, Reader <- Proc,
    queue <- Queue, ropen <- readopen, wopen <- writeopen

ChannelSpec == Chan!ChanSpec

Holds(p, e) == \E d \in Fd : ofile[p][d] # NoFile /\ type[ofile[p][d]] = e

\* f->ref is the number of descriptors of all processes that refer to the file
\* and of the calls that have it in hand.
RefCounts ==
    FtTypeOK /\ \A f \in File :
        ref[f] = Cardinality({r \in Proc \X Fd : ofile[r[1]][r[2]] = f})
                 + Cardinality({r \in Proc \X (0..1) : hand[r[1]][r[2]] = f})

\* The page of a pipe is freed once, and nobody is in piperead(), pipewrite()
\* or pipeclose() of a freed pipe or of an end that is closed.
NoUseAfterFree ==
    /\ allocated = (readopen \/ writeopen)
    /\ \A p \in Proc :
           /\ pc[p] \in {"read", "rgoing", "rsleep"} \/ ff[p] = "r" => readopen
           /\ pc[p] \in {"write", "wgoing", "wsleep"} \/ ff[p] = "w" => writeopen
    /\ \A f \in File : (type[f] = "r" => readopen) /\ (type[f] = "w" => writeopen)

\* No wakeup is missed: a writer sleeps only on a full pipe that can be read,
\* a reader only on a pipe that can be written and is empty, or was filled by a
\* killed writer: that one returns without a wakeup.
NoMissedWakeup ==
    \A p \in Proc :
        /\ pc[p] = "wsleep" => Used = PIPESIZE /\ readopen
        /\ pc[p] = "rsleep" => writeopen /\ (Used = 0 \/ unseen)

\* A reader meets the end of the stream when nobody has the other end any more.
ReaderSeesEnd ==
    \A p \in Proc :
        pc[p] = "rsleep" /\ (\A q \in Proc : ~Holds(q, "w")) ~> pc[p] # "rsleep"
=============================================================================
