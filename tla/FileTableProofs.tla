-------------------------- MODULE FileTableProofs ---------------------------
(***************************************************************************)
(* The reference counts of file.c are exact, nobody uses a pipe that was   *)
(* freed, no wakeup of a pipe is missed, and the ring of a pipe is a       *)
(* first-in first-out channel, for any number of processes, files and      *)
(* descriptors and any size of the pipe.                                   *)
(***************************************************************************)
EXTENDS FileTable, FiniteSetTheorems, TLAPS

\* The descriptors that refer to f, and the calls of sys_pipe() that have it.
RefsTo(f) == {r \in Proc \X Fd : ofile[r[1]][r[2]] = f}
InHand(f) == {r \in Proc \X (0..1) : hand[r[1]][r[2]] = f}

Reading == {"read", "rgoing", "rsleep"}
Writing == {"write", "wgoing", "wsleep"}

\* In sys_pipe() and in fileclose().
Busy == {"pipe", "pipe2", "bad", "close"}

\* Only sys_pipe() has files in hand, and only fileclose() has the copy of a
\* freed one.
HandInv ==
    \A p \in Proc :
        /\ pc[p] = "close" <=> ff[p] # "none"
        /\ pc[p] \notin Busy => hand[p][0] = NoFile /\ hand[p][1] = NoFile
        /\ pc[p] = "pipe" => hand[p][0] # NoFile /\ hand[p][1] = NoFile
        /\ pc[p] = "pipe2" => hand[p][0] # NoFile /\ hand[p][1] # NoFile

\* Nobody else knows of a file in hand, which is no end of the pipe yet as long
\* as the call has not got a page.
OwnInv ==
    \A p \in Proc, i \in 0..1 :
        hand[p][i] # NoFile =>
            ref[hand[p][i]] = 1 /\ (pc[p] \in {"pipe", "pipe2"} => type[hand[p][i]] = "none")

\* A file with a descriptor has a type, a free one has none, and a process
\* that is not there has no descriptors.
DescInv ==
    /\ \A p \in Proc, d \in Fd : ofile[p][d] # NoFile => type[ofile[p][d]] # "none"
    /\ \A f \in File : ref[f] = 0 => type[f] = "none"
    /\ \A p \in Proc : pc[p] = "none" => \A d \in Fd : ofile[p][d] = NoFile

\* Each end of the pipe has one struct file, or one fileclose() that is about
\* to close it, as long as it is open.
EndInv ==
    /\ allocated = (readopen \/ writeopen)
    /\ \A f \in File : (type[f] = "r" => readopen) /\ (type[f] = "w" => writeopen)
    /\ \A p \in Proc : (ff[p] = "r" => readopen) /\ (ff[p] = "w" => writeopen)
    /\ \A f, g \in File : IsEnd(f) /\ type[f] = type[g] => f = g
    /\ \A p \in Proc, f \in File : ff[p] # "none" => type[f] # ff[p]
    /\ \A p, q \in Proc : ff[p] # "none" /\ ff[p] = ff[q] => p = q

\* Who reads or writes has a descriptor for it.
UserInv ==
    \A p \in Proc : /\ pc[p] \in Reading => Holds(p, "r")
                    /\ pc[p] \in Writing => Holds(p, "w")

\* What holds of the pipe between the test and the sleep().
SleepInv ==
    /\ Used <= PIPESIZE
    /\ \A p \in Proc :
           /\ plock = p <=> pc[p] \in {"rgoing", "wgoing"}
           /\ pc[p] = "rgoing" => nread = nwrite /\ writeopen
           /\ pc[p] = "wgoing" => Used = PIPESIZE /\ readopen

FileInv == HandInv /\ OwnInv /\ DescInv /\ EndInv /\ UserInv

\* The count of one file.
Counted(f) == ref[f] = Cardinality(RefsTo(f)) + Cardinality(InHand(f))

FtInv ==
    /\ FtTypeOK /\ \A f \in File : Counted(f)
    /\ FileInv /\ SleepInv /\ NoMissedWakeup

-----------------------------------------------------------------------------
\* Descriptors and processes are finitely many.
LEMMA Finite ==
    /\ \A S \in SUBSET (Proc \X Fd) : IsFiniteSet(S) /\ Cardinality(S) \in Nat
    /\ \A S \in SUBSET (Proc \X (0..1)) : IsFiniteSet(S) /\ Cardinality(S) \in Nat
    /\ \A S \in SUBSET Fd : IsFiniteSet(S) /\ Cardinality(S) \in Nat
<1>0. IsFiniteSet(Fd)
  BY FileTableAssumption, FS_Interval DEF Fd
<1>1. IsFiniteSet(Fd) /\ IsFiniteSet(0..1)
  <2>1. 0 \in Int /\ 1 \in Int
    OBVIOUS
  <2>2. QED BY <1>0, <2>1, FS_Interval, Zenon
<1>2. IsFiniteSet(Proc \X (0..1)) /\ IsFiniteSet(Proc \X Fd)
  BY <1>1, FileTableAssumption, FS_Product, Zenon
<1>3. QED BY <1>1, <1>2, FS_Subset, FS_CardinalityType, Zenon

LEMMA CountTypes ==
    ASSUME NEW f
    PROVE  /\ IsFiniteSet(RefsTo(f)) /\ Cardinality(RefsTo(f)) \in Nat
           /\ IsFiniteSet(InHand(f)) /\ Cardinality(InHand(f)) \in Nat
<1>1. RefsTo(f) \in SUBSET (Proc \X Fd) /\ InHand(f) \in SUBSET (Proc \X (0..1))
  BY Zenon DEF RefsTo, InHand
<1>2. QED BY <1>1, Finite, Zenon

\* One descriptor more,
LEMMA AddRef ==
    ASSUME NEW f, Counted(f), NEW x, x \notin RefsTo(f), RefsTo(f)' = RefsTo(f) \cup {x},
           InHand(f)' = InHand(f), ref'[f] = ref[f] + 1
    PROVE  Counted(f)'
<1>1. Cardinality(RefsTo(f) \cup {x}) = Cardinality(RefsTo(f)) + 1
  BY CountTypes, FS_AddElement, Zenon
<1>2. Cardinality(RefsTo(f)') = Cardinality(RefsTo(f)) + 1
  BY <1>1, Zenon
<1>3. Cardinality(InHand(f)') = Cardinality(InHand(f))
  BY Zenon
<1>4. QED BY <1>2, <1>3, CountTypes DEF Counted

\* one less,
LEMMA DropRef ==
    ASSUME NEW f, Counted(f), NEW x, x \in RefsTo(f), RefsTo(f)' = RefsTo(f) \ {x},
           InHand(f)' = InHand(f), ref'[f] = ref[f] - 1
    PROVE  Counted(f)'
<1>1. Cardinality(RefsTo(f) \ {x}) = Cardinality(RefsTo(f)) - 1
  BY CountTypes, FS_RemoveElement, Zenon
<1>2. Cardinality(RefsTo(f)') = Cardinality(RefsTo(f)) - 1
  BY <1>1, Zenon
<1>3. Cardinality(InHand(f)') = Cardinality(InHand(f))
  BY Zenon
<1>4. QED BY <1>2, <1>3, CountTypes DEF Counted

\* a file taken in hand,
LEMMA TakeFile ==
    ASSUME NEW f, Counted(f), NEW y, y \notin InHand(f), InHand(f)' = InHand(f) \cup {y},
           RefsTo(f)' = RefsTo(f), ref'[f] = ref[f] + 1
    PROVE  Counted(f)'
<1>1. Cardinality(InHand(f) \cup {y}) = Cardinality(InHand(f)) + 1
  BY CountTypes, FS_AddElement, Zenon
<1>2. Cardinality(InHand(f)') = Cardinality(InHand(f)) + 1
  BY <1>1, Zenon
<1>3. Cardinality(RefsTo(f)') = Cardinality(RefsTo(f))
  BY Zenon
<1>4. QED BY <1>2, <1>3, CountTypes DEF Counted

\* one given to a descriptor,
LEMMA GiveFile ==
    ASSUME NEW f, Counted(f), NEW y, y \in InHand(f), InHand(f)' = InHand(f) \ {y},
           NEW x, x \notin RefsTo(f), RefsTo(f)' = RefsTo(f) \cup {x}, ref'[f] = ref[f]
    PROVE  Counted(f)'
<1>1. /\ Cardinality(InHand(f) \ {y}) = Cardinality(InHand(f)) - 1
      /\ Cardinality(RefsTo(f) \cup {x}) = Cardinality(RefsTo(f)) + 1
  BY CountTypes, FS_AddElement, FS_RemoveElement, Zenon
<1>2. /\ Cardinality(InHand(f)') = Cardinality(InHand(f)) - 1
      /\ Cardinality(RefsTo(f)') = Cardinality(RefsTo(f)) + 1
  BY <1>1, Zenon
<1>3. QED BY <1>2, CountTypes DEF Counted

\* or given back,
LEMMA DropFile ==
    ASSUME NEW f, Counted(f), NEW y, y \in InHand(f), InHand(f)' = InHand(f) \ {y},
           RefsTo(f)' = RefsTo(f), ref'[f] = ref[f] - 1
    PROVE  Counted(f)'
<1>1. Cardinality(InHand(f) \ {y}) = Cardinality(InHand(f)) - 1
  BY CountTypes, FS_RemoveElement, Zenon
<1>2. Cardinality(InHand(f)') = Cardinality(InHand(f)) - 1
  BY <1>1, Zenon
<1>3. Cardinality(RefsTo(f)') = Cardinality(RefsTo(f))
  BY Zenon
<1>4. QED BY <1>2, <1>3, CountTypes DEF Counted

\* the descriptors of a child,
LEMMA AddRefs ==
    ASSUME NEW f, Counted(f), NEW q, NEW D \in SUBSET Fd, RefsTo(f) \cap ({q} \X D) = {},
           RefsTo(f)' = RefsTo(f) \cup ({q} \X D),
           InHand(f)' = InHand(f), ref'[f] = ref[f] + Cardinality(D)
    PROVE  Counted(f)'
<1>1. IsFiniteSet(D) /\ Cardinality(D) \in Nat
  BY Finite, Zenon
<1>2. IsFiniteSet({q} \X D) /\ Cardinality({q} \X D) = Cardinality(D)
  <2>1. IsFiniteSet({q}) /\ Cardinality({q}) = 1
    BY FS_Singleton, Zenon
  <2>2. IsFiniteSet({q} \X D) /\ Cardinality({q} \X D) = Cardinality({q}) * Cardinality(D)
    BY <1>1, <2>1, FS_Product, Zenon
  <2>3. QED BY <1>1, <2>1, <2>2
<1>3. Cardinality(RefsTo(f) \cap ({q} \X D)) = 0
  <2>1. Cardinality({}) = 0
    BY FS_EmptySet, Zenon
  <2>2. QED BY <2>1, Zenon
<1>4. Cardinality(RefsTo(f) \cup ({q} \X D)) = Cardinality(RefsTo(f)) + Cardinality(D)
  <2>1. Cardinality(RefsTo(f) \cup ({q} \X D))
            = Cardinality(RefsTo(f)) + Cardinality({q} \X D)
                  - Cardinality(RefsTo(f) \cap ({q} \X D))
    BY <1>2, CountTypes, FS_Union, Zenon
  <2>2. Cardinality(RefsTo(f)) \in Nat
    BY CountTypes, Zenon
  <2>3. QED BY <1>1, <1>2, <1>3, <2>1, <2>2
<1>5. Cardinality(RefsTo(f)') = Cardinality(RefsTo(f)) + Cardinality(D)
  BY <1>4, Zenon
<1>6. Cardinality(InHand(f)') = Cardinality(InHand(f))
  BY Zenon
<1>7. QED BY <1>1, <1>5, <1>6, CountTypes DEF Counted

\* or nothing.
LEMMA SameRefs ==
    ASSUME NEW f, Counted(f), RefsTo(f)' = RefsTo(f), InHand(f)' = InHand(f),
           ref'[f] = ref[f]
    PROVE  Counted(f)'
  BY Zenon DEF Counted

-----------------------------------------------------------------------------
(* What a step leaves alone stays true                                     *)

LEMMA CountFrame ==
    ASSUME \A f \in File : Counted(f), UNCHANGED <<ref, ofile, hand>>
    PROVE  \A f \in File : Counted(f)'
<1>1. \A f \in File : RefsTo(f)' = RefsTo(f) /\ InHand(f)' = InHand(f)
  BY Zenon DEF RefsTo, InHand
<1>2. QED BY <1>1, SameRefs, Zenon

LEMMA FileFrame ==
    ASSUME FileInv, UNCHANGED <<allocated, readopen, writeopen, ref, type, ofile, hand, ff>>,
           \A q \in Proc :
               /\ pc[q] \in Busy \/ pc'[q] \in Busy => pc'[q] = pc[q]
               /\ pc'[q] = "none" => pc[q] = "none" \/ FreeFds(q) = Fd
               /\ pc'[q] \in Reading => pc[q] \in Reading \/ Holds(q, "r")
               /\ pc'[q] \in Writing => pc[q] \in Writing \/ Holds(q, "w")
    PROVE  FileInv'
<1> USE DEF FileInv
<1>1. HandInv' /\ OwnInv'
  <2>1. HandInv'
    BY Zenon DEF HandInv, Busy
  <2>2. OwnInv'
    BY Zenon DEF OwnInv, Busy
  <2>3. QED BY <2>1, <2>2, Zenon
<1>2. DescInv'
  <2>1. \A q \in Proc : FreeFds(q) = Fd => \A d \in Fd : ofile[q][d] = NoFile
    BY Zenon DEF FreeFds
  <2>2. QED BY <2>1, Zenon DEF DescInv
<1>3. EndInv'
  BY Zenon DEF EndInv, IsEnd
<1>4. UserInv'
  <2>1. \A q \in Proc, e \in {"r", "w"} : Holds(q, e)' <=> Holds(q, e)
    BY Zenon DEF Holds
  <2>2. QED BY <2>1, Zenon DEF UserInv
<1>5. QED BY <1>1, <1>2, <1>3, <1>4, Zenon

LEMMA SleepFrame ==
    ASSUME SleepInv, NoMissedWakeup, UNCHANGED <<nread, nwrite, plock, unseen>>,
           readopen => readopen', writeopen => writeopen',
           \A q \in Proc :
               /\ pc[q] \in {"rgoing", "wgoing"} => pc'[q] = pc[q]
               /\ pc'[q] \in {"rgoing", "wgoing", "rsleep", "wsleep"} => pc'[q] = pc[q]
    PROVE  SleepInv' /\ NoMissedWakeup'
<1>1. Used' = Used
  BY Zenon DEF Used
<1>2. SleepInv'
  BY <1>1, Zenon DEF SleepInv
<1>3. NoMissedWakeup'
  BY <1>1, Zenon DEF NoMissedWakeup
<1>4. QED BY <1>2, <1>3, Zenon

-----------------------------------------------------------------------------
(* Steps that change no descriptor and not the pipe                        *)

LEMMA ExitStep ==
    ASSUME FtInv, NEW p \in Proc, exit(p) PROVE FtInv'
<1>1. FtTypeOK'
  BY Zenon DEF exit, pipeVars, FtInv, FtTypeOK
<1>2. UNCHANGED <<pc, allocated, readopen, writeopen, nread, nwrite, plock, unseen, ref,
                  type, ofile, hand, ff>>
  BY Zenon DEF exit, pipeVars
<1>3. QED BY <1>1, <1>2, CountFrame, FileFrame, SleepFrame, Zenon DEF FtInv

LEMMA ExitedStep ==
    ASSUME FtInv, NEW p \in Proc, exited(p) PROVE FtInv'
<1>1. FtTypeOK'
  BY Zenon DEF exited, pipeVars, FtInv, FtTypeOK
<1>2. UNCHANGED <<allocated, readopen, writeopen, nread, nwrite, plock, unseen, ref,
                  type, ofile, hand, ff>>
  BY Zenon DEF exited, pipeVars
<1>3. pc[p] = "user" /\ FreeFds(p) = Fd /\ \A q \in Proc : pc'[q] = IF q = p THEN "none" ELSE pc[q]
  BY Zenon DEF exited, FtInv, FtTypeOK
<1>4. QED BY <1>1, <1>2, <1>3, CountFrame, FileFrame, SleepFrame, Zenon
          DEF FtInv, Reading, Writing, Busy

LEMMA KillStep ==
    ASSUME FtInv, NEW p \in Proc, kill(p) PROVE FtInv'
<1>1. FtTypeOK'
  BY Zenon DEF kill, pipeVars, fileVars, FtInv, FtTypeOK
<1>2. UNCHANGED <<allocated, readopen, writeopen, nread, nwrite, plock, unseen, ref,
                  type, ofile, hand, ff>>
  BY Zenon DEF kill, pipeVars, fileVars
<1>3. \A q \in Proc : \/ pc'[q] = pc[q]
                      \/ pc[q] = "rsleep" /\ pc'[q] = "read"
                      \/ pc[q] = "wsleep" /\ pc'[q] = "write"
  BY Zenon DEF kill, FtInv, FtTypeOK
<1>4. QED BY <1>1, <1>2, <1>3, CountFrame, FileFrame, SleepFrame, Zenon
          DEF FtInv, Reading, Writing, Busy

\* read() and write() begin on a descriptor of the caller.
LEMMA CallStep ==
    ASSUME FtInv, NEW p \in Proc, NEW d \in Fd,
           \/ \E n \in Reads : sys_read(p, d, n)
           \/ \E s \in Writes : sys_write(p, d, s)
    PROVE  FtInv'
<1>1. FtTypeOK'
  <2>1. Reads \subseteq Nat /\ Writes \subseteq Seq(Byte)
    BY FileTableAssumption, Zenon
  <2>2. CASE \E n \in Reads : sys_read(p, d, n)
    BY <2>1, <2>2 DEF sys_read, pipeVars, FtInv, FtTypeOK
  <2>3. CASE \E s \in Writes : sys_write(p, d, s)
    BY <2>1, <2>3 DEF sys_write, pipeVars, fileVars, FtInv, FtTypeOK
  <2>4. QED BY <2>2, <2>3, Zenon
<1>2. UNCHANGED <<allocated, readopen, writeopen, nread, nwrite, plock, unseen, ref,
                  type, ofile, hand, ff>>
  BY Zenon DEF sys_read, sys_write, pipeVars, fileVars
<1>3. \E to \in {"read", "write"} :
          /\ pc[p] = "user" /\ \A q \in Proc : pc'[q] = IF q = p THEN to ELSE pc[q]
          /\ to = "read" => Holds(p, "r")
          /\ to = "write" => Holds(p, "w")
  BY DEF sys_read, sys_write, Enters, Holds, FtInv, FtTypeOK
<1>4. QED BY <1>1, <1>2, <1>3, CountFrame, FileFrame, SleepFrame, Zenon
          DEF FtInv, Reading, Writing, Busy

LEMMA ReturnStep ==
    ASSUME FtInv, NEW p \in Proc, ReadReturns(p) PROVE FtInv'
<1>1. FtTypeOK'
  BY DEF ReadReturns, pipeVars, FtInv, FtTypeOK
<1>2. UNCHANGED <<allocated, readopen, writeopen, nread, nwrite, plock, unseen, ref,
                  type, ofile, hand, ff>>
  BY Zenon DEF ReadReturns, pipeVars
<1>3. pc[p] = "ret" /\ \A q \in Proc : pc'[q] = IF q = p THEN "user" ELSE pc[q]
  BY Zenon DEF ReadReturns, FtInv, FtTypeOK
<1>4. QED BY <1>1, <1>2, <1>3, CountFrame, FileFrame, SleepFrame, Zenon
          DEF FtInv, Reading, Writing, Busy

-----------------------------------------------------------------------------
(* Steps on the file table                                                 *)

LEMMA Numbers == NoFile \notin File
  BY DEF File, NoFile

\* A file with no references has no descriptor and is in nobody's hands.
LEMMA FreeFile ==
    ASSUME NEW f, Counted(f), ref[f] = 0
    PROVE  RefsTo(f) = {} /\ InHand(f) = {}
<1>1. Cardinality(RefsTo(f)) = 0 /\ Cardinality(InHand(f)) = 0
  BY CountTypes DEF Counted
<1>2. QED BY <1>1, CountTypes, FS_EmptySet, Zenon

\* A file in hand has no descriptor and is nowhere else in hand.
LEMMA FileInHand ==
    ASSUME FtInv, NEW p \in Proc, NEW i \in 0..1, hand[p][i] # NoFile
    PROVE  /\ hand[p][i] \in File /\ ref[hand[p][i]] = 1
           /\ RefsTo(hand[p][i]) = {} /\ InHand(hand[p][i]) = {<<p, i>>}
<1>0. PICK f \in File : f = hand[p][i]
  BY DEF FtInv, FtTypeOK
<1>1. ref[f] = 1 /\ Counted(f)
  BY <1>0, Zenon DEF FtInv, FileInv, OwnInv
<1>2. <<p, i>> \in InHand(f)
  BY <1>0, Zenon DEF InHand
<1>3. Cardinality(InHand(f)) # 0
  BY <1>2, CountTypes, FS_EmptySet, Zenon
<1>4. Cardinality(InHand(f)) = 1 /\ Cardinality(RefsTo(f)) = 0
  BY <1>1, <1>3, CountTypes DEF Counted
<1>5. /\ Cardinality(InHand(f) \ {<<p, i>>}) = Cardinality(InHand(f)) - 1
      /\ IsFiniteSet(InHand(f) \ {<<p, i>>})
  BY <1>2, CountTypes, FS_RemoveElement, Zenon
<1>6. Cardinality(InHand(f) \ {<<p, i>>}) = 0
  BY <1>4, <1>5
<1>7. RefsTo(f) = {} /\ InHand(f) \ {<<p, i>>} = {}
  BY <1>4, <1>5, <1>6, CountTypes, FS_EmptySet, Zenon
<1>8. QED BY <1>0, <1>1, <1>2, <1>7, Zenon

\* The same, place by place.
LEMMA HandAlone ==
    ASSUME FtInv, NEW p \in Proc, NEW i \in 0..1, hand[p][i] # NoFile
    PROVE  /\ \A q \in Proc, d \in Fd : ofile[q][d] # hand[p][i]
           /\ \A q \in Proc, j \in 0..1 : hand[q][j] = hand[p][i] => q = p /\ j = i
<1>1. RefsTo(hand[p][i]) = {} /\ InHand(hand[p][i]) = {<<p, i>>}
  BY FileInHand, Zenon
<1>2. ASSUME NEW q \in Proc, NEW d \in Fd PROVE ofile[q][d] # hand[p][i]
  <2>1. <<q, d>> \notin RefsTo(hand[p][i])
    BY <1>1, Zenon
  <2>2. QED BY <2>1, Zenon DEF RefsTo
<1>3. ASSUME NEW q \in Proc, NEW j \in 0..1, hand[q][j] = hand[p][i] PROVE q = p /\ j = i
  <2>1. <<q, j>> \in InHand(hand[p][i])
    BY <1>3, Zenon DEF InHand
  <2>2. <<q, j>> = <<p, i>>
    BY <1>1, <2>1, Zenon
  <2>3. QED BY <2>2, Zenon
<1>4. QED BY <1>2, <1>3, Zenon

\* A file with a descriptor is in nobody's hands.
LEMMA HasDescriptor ==
    ASSUME FtInv, NEW p \in Proc, NEW d \in Fd, ofile[p][d] # NoFile
    PROVE  \A q \in Proc, i \in 0..1 :
               hand[q][i] # NoFile => hand[q][i] \in File /\ hand[q][i] # ofile[p][d]
<1>1. ASSUME NEW q \in Proc, NEW i \in 0..1, hand[q][i] # NoFile
      PROVE  hand[q][i] \in File /\ hand[q][i] # ofile[p][d]
  <2>1. hand[q][i] \in File
    BY <1>1, FileInHand, Zenon
  <2>2. \A r \in Proc, e \in Fd : ofile[r][e] # hand[q][i]
    BY <1>1, HandAlone, Zenon
  <2>3. QED BY <2>1, <2>2, Zenon
<1>2. QED BY <1>1, Zenon

\* A filealloc(): a free file is taken in hand.
LEMMA TakeStep ==
    ASSUME FtInv, NEW p \in Proc, NEW i \in 0..1, NEW f \in File, ref[f] = 0,
           hand[p][i] = NoFile, ref' = [ref EXCEPT ![f] = 1], hand' = [hand EXCEPT ![p][i] = f],
           pc' = [pc EXCEPT ![p] = IF i = 0 THEN "pipe" ELSE "pipe2"],
           i = 0 => pc[p] = "user", i = 1 => pc[p] = "pipe",
           UNCHANGED <<pipeVars, todo, killed, out, type, ofile, ff, nbytes, exiting>>
    PROVE  FtInv'
<1>0. i = 0 \/ i = 1
  OBVIOUS
<1>1. FtTypeOK'
  <2>1. ref' \in [File -> Nat]
    BY DEF FtInv, FtTypeOK
  <2>2. hand' \in [Proc -> [0..1 -> File \cup {NoFile}]]
    BY Zenon DEF FtInv, FtTypeOK
  <2>3. QED BY <2>1, <2>2, Zenon DEF pipeVars, FtInv, FtTypeOK
<1>2. UNCHANGED <<allocated, readopen, writeopen, nread, nwrite, plock, unseen, type, ofile, ff>>
  BY Zenon DEF pipeVars
<1>3. /\ pc[p] \in {"user", "pipe"}
      /\ \A q \in Proc : pc'[q] = IF q = p THEN (IF i = 0 THEN "pipe" ELSE "pipe2") ELSE pc[q]
      /\ \A q \in Proc, j \in 0..1 : hand'[q][j] = IF q = p /\ j = i THEN f ELSE hand[q][j]
      /\ \A g \in File : ref'[g] = IF g = f THEN 1 ELSE ref[g]
  <2>1. pc[p] \in {"user", "pipe"}
    BY <1>0, Zenon
  <2>2. QED BY <2>1, Zenon DEF FtInv, FtTypeOK
<1>4. f # NoFile /\ type[f] = "none" /\ RefsTo(f) = {} /\ InHand(f) = {}
  BY Numbers, FreeFile, Zenon DEF FtInv, FileInv, DescInv
<1>5. \A g \in File : Counted(g)'
  <2>1. InHand(f)' = InHand(f) \cup {<<p, i>>} /\ RefsTo(f)' = RefsTo(f)
    BY <1>2, <1>3, <1>4 DEF InHand, RefsTo
  <2>2. Counted(f)'
    <3>1. <<p, i>> \notin InHand(f) /\ ref'[f] = ref[f] + 1
      BY <1>3, <1>4
    <3>2. QED BY <2>1, <3>1, TakeFile, Zenon DEF FtInv
  <2>3. ASSUME NEW g \in File, g # f PROVE Counted(g)'
    <3>1. InHand(g)' = InHand(g) /\ RefsTo(g)' = RefsTo(g)
      BY <1>2, <1>3, <2>3, Numbers DEF InHand, RefsTo
    <3>2. QED BY <1>3, <2>3, <3>1, SameRefs, Zenon DEF FtInv
  <2>4. QED BY <2>2, <2>3, Zenon
<1>6. HandInv'
  <2>1. ASSUME NEW q \in Proc
        PROVE  /\ pc'[q] = "close" <=> ff'[q] # "none"
               /\ pc'[q] \notin Busy => hand'[q][0] = NoFile /\ hand'[q][1] = NoFile
               /\ pc'[q] = "pipe" => hand'[q][0] # NoFile /\ hand'[q][1] = NoFile
               /\ pc'[q] = "pipe2" => hand'[q][0] # NoFile /\ hand'[q][1] # NoFile
    <3>1. CASE q # p
      <4>1. pc'[q] = pc[q] /\ hand'[q][0] = hand[q][0] /\ hand'[q][1] = hand[q][1]
        BY <1>3, <3>1
      <4>2. QED BY <1>2, <4>1 DEF FtInv, FileInv, HandInv
    <3>2. CASE q = p
      BY <1>0, <1>2, <1>3, <1>4, <3>2 DEF FtInv, FileInv, HandInv, Busy
    <3>3. QED BY <3>1, <3>2, Zenon
  <2>2. QED BY <2>1, Zenon DEF HandInv
<1>7. OwnInv'
  <2>1. ASSUME NEW q \in Proc, NEW j \in 0..1, hand'[q][j] # NoFile
        PROVE  /\ ref'[hand'[q][j]] = 1
               /\ pc'[q] \in {"pipe", "pipe2"} => type'[hand'[q][j]] = "none"
    <3>1. CASE q = p /\ j = i
      BY <1>2, <1>3, <1>4, <3>1
    <3>2. CASE ~(q = p /\ j = i)
      <4>1. hand'[q][j] = hand[q][j] /\ hand[q][j] # NoFile
        BY <1>3, <2>1, <3>2
      <4>2. hand[q][j] \in File /\ ref[hand[q][j]] = 1 /\ hand[q][j] # f
        BY <4>1, FileInHand
      <4>3. pc'[q] \in {"pipe", "pipe2"} => pc[q] \in {"pipe", "pipe2"}
        <5>1. CASE q # p
          BY <1>3, <5>1, Zenon
        <5>2. CASE q = p
          <6>1. hand[p][0] # NoFile \/ hand[p][1] # NoFile
            BY <4>1, <5>2
          <6>2. pc[p] # "user"
            BY <6>1, Zenon DEF FtInv, FileInv, HandInv, Busy
          <6>3. QED BY <1>3, <5>2, <6>2, Zenon
        <5>3. QED BY <5>1, <5>2, Zenon
      <4>4. pc[q] \in {"pipe", "pipe2"} => type[hand[q][j]] = "none"
        BY <4>1, Zenon DEF FtInv, FileInv, OwnInv
      <4>5. QED BY <1>2, <1>3, <4>1, <4>2, <4>3, <4>4
    <3>3. QED BY <3>1, <3>2, Zenon
  <2>2. QED BY <2>1, Zenon DEF OwnInv
<1>8. DescInv'
  <2>1. \A h \in File : ref'[h] = 0 => type'[h] = "none"
    BY <1>2, <1>3, <1>4, Zenon DEF FtInv, FileInv, DescInv
  <2>2. \A q \in Proc : pc'[q] = "none" => pc[q] = "none"
    BY <1>3
  <2>3. \A q \in Proc, d \in Fd : ofile'[q][d] # NoFile => type'[ofile'[q][d]] # "none"
    BY <1>2, Zenon DEF FtInv, FileInv, DescInv
  <2>4. \A q \in Proc : pc'[q] = "none" => \A d \in Fd : ofile'[q][d] = NoFile
    BY <1>2, <2>2, Zenon DEF FtInv, FileInv, DescInv
  <2>5. QED BY <2>1, <2>3, <2>4, Zenon DEF DescInv
<1>9. EndInv'
  BY <1>2, Zenon DEF FtInv, FileInv, EndInv, IsEnd
<1>10. UserInv'
  <2>1. \A q \in Proc : /\ pc'[q] \in Reading => pc[q] \in Reading
                        /\ pc'[q] \in Writing => pc[q] \in Writing
    BY <1>3 DEF Reading, Writing
  <2>2. \A q \in Proc, e \in {"r", "w"} : Holds(q, e)' <=> Holds(q, e)
    BY <1>2, Zenon DEF Holds
  <2>3. QED BY <2>1, <2>2, Zenon DEF FtInv, FileInv, UserInv
<1>11. SleepInv' /\ NoMissedWakeup'
  <2>1. \A q \in Proc :
            /\ pc[q] \in {"rgoing", "wgoing"} => pc'[q] = pc[q]
            /\ pc'[q] \in {"rgoing", "wgoing", "rsleep", "wsleep"} => pc'[q] = pc[q]
    BY <1>3
  <2>2. QED BY <1>2, <2>1, SleepFrame, Zenon DEF FtInv
<1>12. QED BY <1>1, <1>5, <1>6, <1>7, <1>8, <1>9, <1>10, <1>11, Zenon DEF FtInv, FileInv

LEMMA SysPipeStep ==
    ASSUME FtInv, NEW p \in Proc, NEW f \in File, sys_pipe(p, f) PROVE FtInv'
<1>1. ref[f] = 0 /\ pc[p] = "user"
  BY Zenon DEF sys_pipe, Enters, IsFirst, FreeFiles
<1>2. hand[p][0] = NoFile
  BY <1>1, Zenon DEF FtInv, FileInv, HandInv, Busy
<1>3. /\ ref' = [ref EXCEPT ![f] = 1] /\ hand' = [hand EXCEPT ![p][0] = f]
      /\ pc' = [pc EXCEPT ![p] = IF 0 = 0 THEN "pipe" ELSE "pipe2"]
      /\ UNCHANGED <<pipeVars, todo, killed, out, type, ofile, ff, nbytes, exiting>>
  BY Zenon DEF sys_pipe
<1>4. 0 \in 0..1 /\ (0 = 0 => pc[p] = "user") /\ (0 = 1 => pc[p] = "pipe")
  BY <1>1
<1>5. QED BY <1>1, <1>2, <1>3, <1>4, TakeStep, Zenon

LEMMA FileallocStep ==
    ASSUME FtInv, NEW p \in Proc, NEW f \in File, filealloc(p, f) PROVE FtInv'
<1>1. ref[f] = 0 /\ pc[p] = "pipe"
  BY Zenon DEF filealloc, IsFirst, FreeFiles
<1>2. hand[p][1] = NoFile
  BY <1>1, Zenon DEF FtInv, FileInv, HandInv
<1>3. /\ ref' = [ref EXCEPT ![f] = 1] /\ hand' = [hand EXCEPT ![p][1] = f]
      /\ pc' = [pc EXCEPT ![p] = "pipe2"]
      /\ UNCHANGED <<pipeVars, todo, killed, out, type, ofile, ff, nbytes, exiting>>
  BY Zenon DEF filealloc
<1>4. 1 \in 0..1 /\ (1 = 0 => pc[p] = "user") /\ (1 = 1 => pc[p] = "pipe")
      /\ (IF 1 = 0 THEN "pipe" ELSE "pipe2") = "pipe2"
  BY <1>1
<1>5. QED BY <1>1, <1>2, <1>3, <1>4, TakeStep, Zenon

\* Both files become ends of the pipe, which nobody uses yet.
LEMMA PipeEndsStep ==
    ASSUME FtInv, NEW p \in Proc, PipeEnds(p), NEW to \in {"user", "bad"},
           pc' = [pc EXCEPT ![p] = to], ff' = ff
    PROVE  /\ EndInv' /\ UserInv' /\ SleepInv' /\ NoMissedWakeup'
           /\ hand[p][0] # NoFile /\ hand[p][1] # NoFile /\ hand[p][0] # hand[p][1]
           /\ pc[p] = "pipe2" /\ \A q \in Proc : pc'[q] = IF q = p THEN to ELSE pc[q]
           /\ type' \in [File -> {"none", "inode", "r", "w"}]
           /\ \A h \in File : type'[h] = IF h = hand[p][0] THEN "r"
                                         ELSE IF h = hand[p][1] THEN "w" ELSE type[h]
<1>1. /\ ~allocated /\ readopen' /\ writeopen' /\ allocated' /\ nread' = 0 /\ nwrite' = 0
      /\ plock' = plock /\ pc[p] = "pipe2"
  BY Zenon DEF PipeEnds, PipeInit
<1>2. \A q \in Proc : pc'[q] = IF q = p THEN to ELSE pc[q]
  BY Zenon DEF FtInv, FtTypeOK
<1>3. hand[p][0] # NoFile /\ hand[p][1] # NoFile
  BY <1>1, Zenon DEF FtInv, FileInv, HandInv
<1>4. hand[p][0] \in File /\ hand[p][1] \in File /\ hand[p][0] # hand[p][1]
  <2>1. 0 \in 0..1 /\ 1 \in 0..1 /\ 0 # 1
    OBVIOUS
  <2>2. hand[p][0] \in File /\ hand[p][1] \in File
    BY <1>3, <2>1, FileInHand, Zenon
  <2>3. ASSUME hand[p][1] = hand[p][0] PROVE 1 = 0
    <3>1. \A q \in Proc, j \in 0..1 : hand[q][j] = hand[p][0] => q = p /\ j = 0
      BY <1>3, <2>1, HandAlone, Zenon
    <3>2. QED BY <2>1, <2>3, <3>1, Zenon
  <2>4. QED BY <2>1, <2>2, <2>3
<1>5. /\ type' \in [File -> {"none", "inode", "r", "w"}]
      /\ \A h \in File : type'[h] = IF h = hand[p][0] THEN "r"
                                    ELSE IF h = hand[p][1] THEN "w" ELSE type[h]
  BY <1>4, Zenon DEF PipeEnds, FtInv, FtTypeOK
<1>6. /\ \A h \in File : type[h] # "r" /\ type[h] # "w"
      /\ \A q \in Proc : ff[q] = "none" /\ pc[q] \notin Reading /\ pc[q] \notin Writing
  <2>1. ~readopen /\ ~writeopen
    BY <1>1, Zenon DEF FtInv, FileInv, EndInv
  <2>2. \A h \in File : type[h] # "r" /\ type[h] # "w"
    BY <2>1, Zenon DEF FtInv, FileInv, EndInv
  <2>3. \A q \in Proc : ff[q] = "none"
    BY <2>1 DEF FtInv, FtTypeOK, FileInv, EndInv
  <2>4. \A q \in Proc : ~Holds(q, "r") /\ ~Holds(q, "w")
    BY <2>2 DEF Holds, FtInv, FtTypeOK
  <2>5. QED BY <2>2, <2>3, <2>4, Zenon DEF FtInv, FileInv, UserInv
<1>7. EndInv'
  BY <1>1, <1>5, <1>6, Zenon DEF EndInv, IsEnd
<1>8. UserInv' /\ NoMissedWakeup'
  BY <1>2, <1>6, Zenon DEF UserInv, NoMissedWakeup, Reading, Writing
<1>9. SleepInv'
  <2>1. Used' = 0
    BY <1>1, PipeAssumption DEF Used
  <2>2. \A q \in Proc : plock' # q /\ pc'[q] \notin {"rgoing", "wgoing"}
    BY <1>1, <1>2, <1>6, Zenon DEF FtInv, SleepInv, Reading, Writing
  <2>3. QED BY <2>1, <2>2, PipeAssumption DEF SleepInv
<1>10. QED BY <1>1, <1>2, <1>3, <1>4, <1>5, <1>7, <1>8, <1>9, Zenon

LEMMA PipeallocStep ==
    ASSUME FtInv, NEW p \in Proc, NEW d0 \in Fd, NEW d1 \in Fd, pipealloc(p, d0, d1)
    PROVE  FtInv'
<1>0. PICK g \in File, f \in File : g = hand[p][0] /\ f = hand[p][1]
  <2>1. hand[p] \in [0..1 -> File \cup {NoFile}] /\ pc[p] = "pipe2"
    BY Zenon DEF pipealloc, PipeEnds, FtInv, FtTypeOK
  <2>2. hand[p][0] # NoFile /\ hand[p][1] # NoFile
    BY <2>1, Zenon DEF FtInv, FileInv, HandInv
  <2>3. QED BY <2>1, <2>2
<1>1. /\ EndInv' /\ UserInv' /\ SleepInv' /\ NoMissedWakeup'
      /\ f # g /\ f # NoFile /\ g # NoFile
      /\ pc[p] = "pipe2" /\ \A q \in Proc : pc'[q] = IF q = p THEN "user" ELSE pc[q]
      /\ type' \in [File -> {"none", "inode", "r", "w"}]
      /\ \A h \in File : type'[h] = IF h = g THEN "r" ELSE IF h = f THEN "w" ELSE type[h]
  <2>1. PipeEnds(p) /\ pc' = [pc EXCEPT ![p] = "user"] /\ ff' = ff /\ "user" \in {"user", "bad"}
    BY Zenon DEF pipealloc
  <2>2. /\ EndInv' /\ UserInv' /\ SleepInv' /\ NoMissedWakeup'
        /\ hand[p][0] # NoFile /\ hand[p][1] # NoFile /\ hand[p][0] # hand[p][1]
        /\ pc[p] = "pipe2" /\ \A q \in Proc : pc'[q] = IF q = p THEN "user" ELSE pc[q]
        /\ type' \in [File -> {"none", "inode", "r", "w"}]
        /\ \A h \in File : type'[h] = IF h = hand[p][0] THEN "r"
                                      ELSE IF h = hand[p][1] THEN "w" ELSE type[h]
    BY <2>1, PipeEndsStep
  <2>3. QED BY <1>0, <2>2, Zenon
<1>2. ref' = ref /\ ff' = ff
  BY Zenon DEF pipealloc
<1>3. \A q \in Proc, i \in 0..1 : hand'[q][i] = IF q = p THEN NoFile ELSE hand[q][i]
  BY Zenon DEF pipealloc, Empty, FtInv, FtTypeOK
<1>4. /\ ofile[p][d0] = NoFile /\ ofile[p][d1] = NoFile /\ d0 # d1
      /\ \A q \in Proc, d \in Fd :
             ofile'[q][d] = IF q = p /\ d = d0 THEN g
                            ELSE IF q = p /\ d = d1 THEN f ELSE ofile[q][d]
  BY <1>0, Zenon DEF pipealloc, IsFirst, FreeFds, FtInv, FtTypeOK
<1>5. FtTypeOK'
  <2>1. 0 \in 0..(WORD - 1)
    BY PipeAssumption
  <2>2. ofile' \in [Proc -> [Fd -> File \cup {NoFile}]]
    BY <1>0, Zenon DEF pipealloc, FtInv, FtTypeOK
  <2>3. hand' \in [Proc -> [0..1 -> File \cup {NoFile}]]
    BY Zenon DEF pipealloc, Empty, FtInv, FtTypeOK
  <2>4. QED BY <1>1, <2>1, <2>2, <2>3, Zenon DEF pipealloc, PipeEnds, PipeInit, FtInv, FtTypeOK
<1>6. /\ RefsTo(g) = {} /\ InHand(g) = {<<p, 0>>} /\ ref[g] = 1
      /\ RefsTo(f) = {} /\ InHand(f) = {<<p, 1>>} /\ ref[f] = 1
  <2>1. 0 \in 0..1 /\ 1 \in 0..1
    OBVIOUS
  <2>2. QED BY <1>0, <1>1, <2>1, FileInHand, Zenon
<1>7. \A h \in File : Counted(h)'
  <2>1. InHand(g)' = InHand(g) \ {<<p, 0>>} /\ RefsTo(g)' = RefsTo(g) \cup {<<p, d0>>}
    <3>1. InHand(g)' = {}
      BY <1>0, <1>1, <1>3, <1>6 DEF InHand
    <3>2. RefsTo(g)' = {<<p, d0>>}
      BY <1>1, <1>4, <1>6, Numbers DEF RefsTo
    <3>3. QED BY <1>6, <3>1, <3>2, Zenon
  <2>2. InHand(f)' = InHand(f) \ {<<p, 1>>} /\ RefsTo(f)' = RefsTo(f) \cup {<<p, d1>>}
    <3>1. InHand(f)' = {}
      BY <1>0, <1>1, <1>3, <1>6 DEF InHand
    <3>2. RefsTo(f)' = {<<p, d1>>}
      BY <1>1, <1>4, <1>6, Numbers DEF RefsTo
    <3>3. QED BY <1>6, <3>1, <3>2, Zenon
  <2>3. Counted(g)'
    <3>1. <<p, 0>> \in InHand(g) /\ <<p, d0>> \notin RefsTo(g) /\ ref'[g] = ref[g]
      BY <1>2, <1>6, Zenon
    <3>2. QED BY <2>1, <3>1, GiveFile, Zenon DEF FtInv
  <2>4. Counted(f)'
    <3>1. <<p, 1>> \in InHand(f) /\ <<p, d1>> \notin RefsTo(f) /\ ref'[f] = ref[f]
      BY <1>2, <1>6, Zenon
    <3>2. QED BY <2>2, <3>1, GiveFile, Zenon DEF FtInv
  <2>5. ASSUME NEW h \in File, h # f, h # g PROVE Counted(h)'
    <3>1. RefsTo(h)' = RefsTo(h)
      BY <1>4, <2>5, Numbers DEF RefsTo
    <3>2. InHand(h)' = InHand(h)
      <4>1. hand[p][0] # h /\ hand[p][1] # h /\ h # NoFile
        BY <1>0, <2>5, Numbers, Zenon
      <4>2. \A i \in 0..1 : hand[p][i] # h
        BY <4>1
      <4>3. \A q \in Proc, i \in 0..1 : hand'[q][i] = h <=> hand[q][i] = h
        BY <1>3, <4>1, <4>2, Zenon
      <4>4. QED BY <4>3 DEF InHand
    <3>3. QED BY <1>2, <3>1, <3>2, SameRefs, Zenon DEF FtInv
  <2>6. QED BY <2>3, <2>4, <2>5, Zenon
<1>8. HandInv'
  <2>1. ASSUME NEW q \in Proc
        PROVE  /\ pc'[q] = "close" <=> ff'[q] # "none"
               /\ pc'[q] \notin Busy => hand'[q][0] = NoFile /\ hand'[q][1] = NoFile
               /\ pc'[q] = "pipe" => hand'[q][0] # NoFile /\ hand'[q][1] = NoFile
               /\ pc'[q] = "pipe2" => hand'[q][0] # NoFile /\ hand'[q][1] # NoFile
    BY <1>1, <1>2, <1>3 DEF FtInv, FileInv, HandInv, Busy
  <2>2. QED BY <2>1, Zenon DEF HandInv
<1>9. OwnInv'
  <2>1. ASSUME NEW q \in Proc, NEW i \in 0..1, hand'[q][i] # NoFile
        PROVE  /\ ref'[hand'[q][i]] = 1
               /\ pc'[q] \in {"pipe", "pipe2"} => type'[hand'[q][i]] = "none"
    <3>1. q # p /\ hand'[q][i] = hand[q][i] /\ hand[q][i] # NoFile
      BY <1>3, <2>1, Zenon
    <3>2. hand[q][i] \in File /\ hand[q][i] # f /\ hand[q][i] # g
      <4>1. 0 \in 0..1 /\ 1 \in 0..1
        OBVIOUS
      <4>2. hand[q][i] \in File
        BY <3>1, FileInHand, Zenon
      <4>3. hand[p][0] # hand[q][i]
        BY <3>1, <4>1, HandAlone, Zenon
      <4>4. hand[p][1] # hand[q][i]
        BY <3>1, <4>1, HandAlone, Zenon
      <4>5. QED BY <1>0, <4>2, <4>3, <4>4, Zenon
    <3>3. /\ ref[hand[q][i]] = 1
          /\ pc[q] \in {"pipe", "pipe2"} => type[hand[q][i]] = "none"
      BY <3>1, Zenon DEF FtInv, FileInv, OwnInv
    <3>4. QED BY <1>1, <1>2, <3>1, <3>2, <3>3
  <2>2. QED BY <2>1, Zenon DEF OwnInv
<1>10. DescInv'
  <2>1. ASSUME NEW q \in Proc, NEW d \in Fd, ofile'[q][d] # NoFile
        PROVE  type'[ofile'[q][d]] # "none"
    <3>1. ofile'[q][d] \in File
      BY <1>5, <2>1 DEF FtTypeOK
    <3>2. CASE ofile'[q][d] \in {f, g}
      BY <1>1, <3>1, <3>2
    <3>3. CASE ofile'[q][d] \notin {f, g}
      BY <1>1, <1>4, <2>1, <3>1, <3>3 DEF FtInv, FileInv, DescInv
    <3>4. QED BY <3>2, <3>3, Zenon
  <2>2. \A h \in File : ref'[h] = 0 => type'[h] = "none"
    BY <1>1, <1>2, <1>6 DEF FtInv, FileInv, DescInv
  <2>3. \A q \in Proc : pc'[q] = "none" => \A d \in Fd : ofile'[q][d] = NoFile
    BY <1>1, <1>4 DEF FtInv, FileInv, DescInv
  <2>4. QED BY <2>1, <2>2, <2>3, Zenon DEF DescInv
<1>11. QED BY <1>1, <1>5, <1>7, <1>8, <1>9, <1>10, Zenon DEF FtInv, FileInv

\* A failing pipe() goes on with the files it has in hand.
LEMMA FailFrame ==
    ASSUME FtInv, NEW p \in Proc, pc[p] \in {"pipe", "pipe2"},
           pc' = [pc EXCEPT ![p] = "bad"], UNCHANGED <<ref, ofile, hand, ff>>,
           \A q \in Proc, i \in 0..1 :
               q # p /\ hand[q][i] # NoFile => type'[hand[q][i]] = type[hand[q][i]]
    PROVE  HandInv' /\ OwnInv' /\ \A q \in Proc : pc'[q] = IF q = p THEN "bad" ELSE pc[q]
<1>1. \A q \in Proc : pc'[q] = IF q = p THEN "bad" ELSE pc[q]
  BY Zenon DEF FtInv, FtTypeOK
<1>2. HandInv'
  <2>1. ASSUME NEW q \in Proc
        PROVE  /\ pc'[q] = "close" <=> ff'[q] # "none"
               /\ pc'[q] \notin Busy => hand'[q][0] = NoFile /\ hand'[q][1] = NoFile
               /\ pc'[q] = "pipe" => hand'[q][0] # NoFile /\ hand'[q][1] = NoFile
               /\ pc'[q] = "pipe2" => hand'[q][0] # NoFile /\ hand'[q][1] # NoFile
    BY <1>1 DEF FtInv, FileInv, HandInv, Busy
  <2>2. QED BY <2>1, Zenon DEF HandInv
<1>3. OwnInv'
  <2>1. ASSUME NEW q \in Proc, NEW i \in 0..1, hand'[q][i] # NoFile
        PROVE  /\ ref'[hand'[q][i]] = 1
               /\ pc'[q] \in {"pipe", "pipe2"} => type'[hand'[q][i]] = "none"
    <3>1. hand'[q][i] = hand[q][i] /\ hand[q][i] # NoFile
      BY <2>1, Zenon
    <3>2. /\ ref[hand[q][i]] = 1
          /\ pc[q] \in {"pipe", "pipe2"} => type[hand[q][i]] = "none"
      BY <3>1, Zenon DEF FtInv, FileInv, OwnInv
    <3>3. pc'[q] \in {"pipe", "pipe2"} => q # p /\ pc[q] \in {"pipe", "pipe2"}
      BY <1>1
    <3>4. QED BY <3>1, <3>2, <3>3, Zenon
  <2>2. QED BY <2>1, Zenon DEF OwnInv
<1>4. QED BY <1>1, <1>2, <1>3, Zenon

LEMMA PipenofdStep ==
    ASSUME FtInv, NEW p \in Proc, pipenofd(p) PROVE FtInv'
<1>1. /\ PipeEnds(p) /\ pc' = [pc EXCEPT ![p] = "bad"] /\ "bad" \in {"user", "bad"}
      /\ UNCHANGED <<ref, ofile, hand, ff>>
  BY Zenon DEF pipenofd
<1>2. /\ EndInv' /\ UserInv' /\ SleepInv' /\ NoMissedWakeup'
      /\ hand[p][0] # NoFile /\ hand[p][1] # NoFile
      /\ pc[p] = "pipe2"
      /\ type' \in [File -> {"none", "inode", "r", "w"}]
      /\ \A h \in File : type'[h] = IF h = hand[p][0] THEN "r"
                                    ELSE IF h = hand[p][1] THEN "w" ELSE type[h]
  BY <1>1, PipeEndsStep
<1>3. FtTypeOK'
  <2>1. 0 \in 0..(WORD - 1)
    BY PipeAssumption
  <2>2. QED BY <1>2, <2>1, Zenon DEF pipenofd, PipeEnds, PipeInit, FtInv, FtTypeOK
<1>4. \A h \in File : Counted(h)'
  BY <1>1, CountFrame, Zenon DEF FtInv
<1>5. /\ \A q \in Proc, d \in Fd : ofile[q][d] # hand[p][0] /\ ofile[q][d] # hand[p][1]
      /\ \A q \in Proc, i \in 0..1 :
             q # p => hand[q][i] # hand[p][0] /\ hand[q][i] # hand[p][1]
      /\ ref[hand[p][0]] = 1 /\ ref[hand[p][1]] = 1
  <2>1. 0 \in 0..1 /\ 1 \in 0..1
    OBVIOUS
  <2>2. ref[hand[p][0]] = 1 /\ ref[hand[p][1]] = 1
    BY <1>2, <2>1, FileInHand, Zenon
  <2>3. /\ \A q \in Proc, d \in Fd : ofile[q][d] # hand[p][0]
        /\ \A q \in Proc, j \in 0..1 : hand[q][j] = hand[p][0] => q = p /\ j = 0
    BY <1>2, <2>1, HandAlone, Zenon
  <2>4. /\ \A q \in Proc, d \in Fd : ofile[q][d] # hand[p][1]
        /\ \A q \in Proc, j \in 0..1 : hand[q][j] = hand[p][1] => q = p /\ j = 1
    BY <1>2, <2>1, HandAlone, Zenon
  <2>5. QED BY <2>2, <2>3, <2>4, Zenon
<1>6. HandInv' /\ OwnInv' /\ \A q \in Proc : pc'[q] = IF q = p THEN "bad" ELSE pc[q]
  <2>1. \A q \in Proc, i \in 0..1 :
            q # p /\ hand[q][i] # NoFile => type'[hand[q][i]] = type[hand[q][i]]
    BY <1>2, <1>5 DEF FtInv, FtTypeOK
  <2>2. QED BY <1>1, <1>2, <2>1, FailFrame, Zenon
<1>7. DescInv'
  <2>1. \A q \in Proc, d \in Fd : ofile[q][d] # NoFile => type'[ofile[q][d]] = type[ofile[q][d]]
    <3>1. \A q \in Proc, d \in Fd : ofile[q][d] # NoFile => ofile[q][d] \in File
      BY DEF FtInv, FtTypeOK
    <3>2. QED BY <1>2, <1>5, <3>1
  <2>2. \A q \in Proc, d \in Fd : ofile'[q][d] # NoFile => type'[ofile'[q][d]] # "none"
    <3>1. \A q \in Proc, d \in Fd : ofile[q][d] # NoFile => type[ofile[q][d]] # "none"
      BY Zenon DEF FtInv, FileInv, DescInv
    <3>2. QED BY <1>1, <2>1, <3>1, Zenon
  <2>3. \A h \in File : ref'[h] = 0 => type'[h] = "none"
    BY <1>1, <1>2, <1>5 DEF FtInv, FileInv, DescInv
  <2>4. \A q \in Proc : pc'[q] = "none" => \A d \in Fd : ofile'[q][d] = NoFile
    BY <1>1, <1>6 DEF FtInv, FileInv, DescInv
  <2>5. QED BY <2>2, <2>3, <2>4, Zenon DEF DescInv
<1>8. QED BY <1>2, <1>3, <1>4, <1>6, <1>7, Zenon DEF FtInv, FileInv

LEMMA PipebadStep ==
    ASSUME FtInv, NEW p \in Proc, pipebad(p) PROVE FtInv'
<1>1. /\ UNCHANGED <<allocated, readopen, writeopen, nread, nwrite, plock, unseen, ref, type,
                     ofile, hand, ff>>
      /\ pc[p] \in {"pipe", "pipe2"} /\ pc' = [pc EXCEPT ![p] = "bad"]
  BY Zenon DEF pipebad, pipeVars, fileVars
<1>2. FtTypeOK'
  BY Zenon DEF pipebad, pipeVars, fileVars, FtInv, FtTypeOK
<1>3. \A h \in File : Counted(h)'
  BY <1>1, CountFrame, Zenon DEF FtInv
<1>4. HandInv' /\ OwnInv' /\ \A q \in Proc : pc'[q] = IF q = p THEN "bad" ELSE pc[q]
  BY <1>1, FailFrame, Zenon
<1>5. \A q \in Proc :
          /\ pc'[q] = "none" => pc[q] = "none"
          /\ pc'[q] \in Reading => pc[q] \in Reading
          /\ pc'[q] \in Writing => pc[q] \in Writing
          /\ pc[q] \in {"rgoing", "wgoing"} => pc'[q] = pc[q]
          /\ pc'[q] \in {"rgoing", "wgoing", "rsleep", "wsleep"} => pc'[q] = pc[q]
  BY <1>1, <1>4 DEF Reading, Writing
<1>6. DescInv'
  BY <1>1, <1>5, Zenon DEF FtInv, FileInv, DescInv
<1>7. EndInv'
  BY <1>1, Zenon DEF FtInv, FileInv, EndInv, IsEnd
<1>8. UserInv'
  <2>1. \A q \in Proc, e \in {"r", "w"} : Holds(q, e)' <=> Holds(q, e)
    BY <1>1, Zenon DEF Holds
  <2>2. QED BY <1>5, <2>1, Zenon DEF FtInv, FileInv, UserInv
<1>9. SleepInv' /\ NoMissedWakeup'
  BY <1>1, <1>5, SleepFrame, Zenon DEF FtInv
<1>10. QED BY <1>2, <1>3, <1>4, <1>6, <1>7, <1>8, <1>9, Zenon DEF FtInv, FileInv

\* A descriptor counts, and when the count is 1 it is the only one.
LEMMA Referenced ==
    ASSUME NEW f, Counted(f), NEW x \in RefsTo(f)
    PROVE  /\ ref[f] \in Nat /\ ref[f] >= 1
           /\ ref[f] = 1 => RefsTo(f) = {x} /\ InHand(f) = {}
<1>1. Cardinality(RefsTo(f)) # 0
  BY CountTypes, FS_EmptySet, Zenon
<1>2. Cardinality(RefsTo(f) \ {x}) = Cardinality(RefsTo(f)) - 1 /\ IsFiniteSet(RefsTo(f) \ {x})
  BY CountTypes, FS_RemoveElement, Zenon
<1>3. ref[f] \in Nat /\ ref[f] >= 1
  BY <1>1, CountTypes DEF Counted
<1>4. ASSUME ref[f] = 1 PROVE RefsTo(f) = {x} /\ InHand(f) = {}
  <2>1. Cardinality(RefsTo(f)) = 1 /\ Cardinality(InHand(f)) = 0
    BY <1>1, <1>4, CountTypes DEF Counted
  <2>2. Cardinality(RefsTo(f) \ {x}) = 0
    BY <1>2, <2>1
  <2>3. RefsTo(f) \ {x} = {} /\ InHand(f) = {}
    BY <1>2, <2>1, <2>2, CountTypes, FS_EmptySet, Zenon
  <2>4. QED BY <2>3, Zenon
<1>5. QED BY <1>3, <1>4, Zenon

LEMMA SysDupStep ==
    ASSUME FtInv, NEW p \in Proc, NEW d \in Fd, NEW d1 \in Fd, sys_dup(p, d, d1) PROVE FtInv'
<1>0. PICK f \in File : f = ofile[p][d]
  BY DEF sys_dup, FtInv, FtTypeOK
<1>1. FtTypeOK'
  <2>1. ref' \in [File -> Nat] /\ ofile' \in [Proc -> [Fd -> File \cup {NoFile}]]
    BY <1>0 DEF sys_dup, FtInv, FtTypeOK
  <2>2. QED BY <2>1, Zenon DEF sys_dup, pipeVars, FtInv, FtTypeOK
<1>2. UNCHANGED <<allocated, readopen, writeopen, nread, nwrite, plock, unseen, pc, type, hand, ff>>
  BY Zenon DEF sys_dup, pipeVars
<1>3. /\ pc[p] = "user" /\ ofile[p][d1] = NoFile
      /\ \A q \in Proc, e \in Fd :
             ofile'[q][e] = IF q = p /\ e = d1 THEN f ELSE ofile[q][e]
      /\ \A h \in File : ref'[h] = IF h = f THEN ref[h] + 1 ELSE ref[h]
  BY <1>0, Zenon DEF sys_dup, Enters, IsFirst, FreeFds, FtInv, FtTypeOK
<1>4. \A h \in File : Counted(h)'
  <2>1. RefsTo(f)' = RefsTo(f) \cup {<<p, d1>>} /\ <<p, d1>> \notin RefsTo(f)
    BY <1>3, Numbers DEF RefsTo
  <2>2. \A h \in File : InHand(h)' = InHand(h)
    BY <1>2, Zenon DEF InHand
  <2>3. Counted(f)'
    BY <1>3, <2>1, <2>2, AddRef, Zenon DEF FtInv
  <2>4. ASSUME NEW h \in File, h # f PROVE Counted(h)'
    <3>1. RefsTo(h)' = RefsTo(h)
      BY <1>3, <2>4, Numbers DEF RefsTo
    <3>2. QED BY <1>3, <2>2, <2>4, <3>1, SameRefs, Zenon DEF FtInv
  <2>5. QED BY <2>3, <2>4, Zenon
<1>5. HandInv' /\ OwnInv'
  <2>1. HandInv'
    BY <1>2, Zenon DEF FtInv, FileInv, HandInv
  <2>2. \A q \in Proc, i \in 0..1 : hand[q][i] # NoFile => hand[q][i] \in File /\ hand[q][i] # f
    BY <1>0, Numbers, HasDescriptor, Zenon
  <2>3. OwnInv'
    <3>1. \A q \in Proc, i \in 0..1 :
              hand[q][i] # NoFile => ref'[hand[q][i]] = ref[hand[q][i]]
      BY <1>3, <2>2, Zenon
    <3>2. QED BY <1>2, <3>1, Zenon DEF FtInv, FileInv, OwnInv
  <2>4. QED BY <2>1, <2>3, Zenon
<1>6. type[f] # "none"
  BY <1>0, Numbers, Zenon DEF FtInv, FileInv, DescInv
<1>7. DescInv'
  <2>1. \A h \in File : ref'[h] = 0 => ref[h] = 0
    BY <1>3 DEF FtInv, FtTypeOK
  <2>2. QED BY <1>2, <1>3, <1>6, <2>1 DEF FtInv, FileInv, DescInv
<1>8. EndInv'
  BY <1>2, Zenon DEF FtInv, FileInv, EndInv, IsEnd
<1>9. UserInv'
  <2>1. \A q \in Proc, e \in {"r", "w"} : Holds(q, e) => Holds(q, e)'
    BY <1>2, <1>3, Zenon DEF Holds
  <2>2. QED BY <1>2, <2>1, Zenon DEF FtInv, FileInv, UserInv
<1>10. QED BY <1>1, <1>2, <1>4, <1>5, <1>7, <1>8, <1>9, SleepFrame, Zenon
           DEF FtInv, FileInv

\* What fileclose() does, to a file of a descriptor that is gone or to one that
\* was in hand.
LEMMA FilecloseStep ==
    ASSUME FtInv, NEW p \in Proc, NEW f \in File, NEW next \in {"user", "bad"},
           pc[p] \in {"user", "bad"}, fileclose(p, f, next), ref[f] >= 1,
           UNCHANGED <<pipeVars, todo, killed, out, nbytes, exiting>>,
           ofile' \in [Proc -> [Fd -> File \cup {NoFile}]],
           hand' \in [Proc -> [0..1 -> File \cup {NoFile}]],
           \A q \in Proc, d \in Fd :
               \/ ofile'[q][d] = ofile[q][d]
               \/ q = p /\ ofile'[q][d] = NoFile,
           ref[f] = 1 => \A q \in Proc, d \in Fd : ofile'[q][d] # f
    PROVE  /\ FtTypeOK' /\ DescInv' /\ EndInv' /\ UserInv' /\ SleepInv' /\ NoMissedWakeup'
           /\ \A h \in File : ref'[h] = IF h = f THEN ref[h] - 1 ELSE ref[h]
           /\ \A h \in File : h # f => type'[h] = type[h]
           /\ \A q \in Proc : q # p => pc'[q] = pc[q] /\ ff'[q] = ff[q]
           /\ \/ pc'[p] = "close" /\ ff'[p] # "none"
              \/ pc'[p] = next /\ ff'[p] = "none"
<1>1. /\ UNCHANGED <<allocated, readopen, writeopen, nread, nwrite, plock, unseen>>
      /\ ref[f] \in Nat
  BY Zenon DEF pipeVars, FtInv, FtTypeOK
<1>2. ff[p] = "none"
  BY Zenon DEF FtInv, FileInv, HandInv
<1>3. /\ \A h \in File : ref'[h] = IF h = f THEN ref[h] - 1 ELSE ref[h]
      /\ \A h \in File : type'[h] = IF ref[f] = 1 /\ h = f THEN "none" ELSE type[h]
      /\ \A q \in Proc : ff'[q] = IF ref[f] = 1 /\ IsEnd(f) /\ q = p THEN type[f] ELSE ff[q]
      /\ \A q \in Proc : pc'[q] = IF q = p THEN (IF ref[f] = 1 /\ IsEnd(f) THEN "close" ELSE next)
                                  ELSE pc[q]
  BY Zenon DEF fileclose, FtInv, FtTypeOK
<1>4. /\ \A h \in File : h # f => type'[h] = type[h]
      /\ \A q \in Proc : q # p => pc'[q] = pc[q] /\ ff'[q] = ff[q]
      /\ \/ pc'[p] = "close" /\ ff'[p] # "none"
         \/ pc'[p] = next /\ ff'[p] = "none"
  <2>1. \A h \in File : h # f => type'[h] = type[h]
    BY <1>3, Zenon
  <2>2. \A q \in Proc : q # p => pc'[q] = pc[q] /\ ff'[q] = ff[q]
    BY <1>3, Zenon
  <2>3. CASE ref[f] = 1 /\ IsEnd(f)
    BY <1>3, <2>1, <2>2, <2>3 DEF IsEnd
  <2>4. CASE ~(ref[f] = 1 /\ IsEnd(f))
    BY <1>2, <1>3, <2>1, <2>2, <2>4, Zenon
  <2>5. QED BY <2>3, <2>4, Zenon
<1>5. FtTypeOK'
  <2>1. ref' \in [File -> Nat]
    BY <1>1 DEF fileclose, FtInv, FtTypeOK
  <2>2. type' \in [File -> {"none", "inode", "r", "w"}]
    BY Zenon DEF fileclose, FtInv, FtTypeOK
  <2>3. ff' \in [Proc -> {"none", "r", "w"}]
    BY Zenon DEF fileclose, IsEnd, FtInv, FtTypeOK
  <2>4. pc' \in [Proc -> {"none", "user", "pipe", "pipe2", "bad", "close", "read", "rgoing",
                          "rsleep", "ret", "write", "wgoing", "wsleep"}]
    BY Zenon DEF fileclose, FtInv, FtTypeOK
  <2>5. QED BY <2>1, <2>2, <2>3, <2>4, Zenon DEF pipeVars, FtInv, FtTypeOK
<1>6. DescInv'
  <2>1. ASSUME NEW q \in Proc, NEW d \in Fd, ofile'[q][d] # NoFile
        PROVE  type'[ofile'[q][d]] # "none"
    <3>1. ofile'[q][d] = ofile[q][d] /\ ofile'[q][d] \in File
      BY <2>1
    <3>2. type[ofile[q][d]] # "none"
      BY <2>1, <3>1, Zenon DEF FtInv, FileInv, DescInv
    <3>3. ref[f] = 1 => ofile'[q][d] # f
      BY Zenon
    <3>4. QED BY <1>3, <3>1, <3>2, <3>3
  <2>2. \A h \in File : ref'[h] = 0 => type'[h] = "none"
    <3>1. \A h \in File : ref[h] = 0 => type[h] = "none"
      BY Zenon DEF FtInv, FileInv, DescInv
    <3>2. \A n \in Nat : n - 1 = 0 => n = 1
      OBVIOUS
    <3>3. ref'[f] = 0 => ref[f] = 1
      BY <1>1, <1>3, <3>2, Zenon
    <3>4. QED BY <1>3, <3>1, <3>3, Zenon
  <2>3. \A q \in Proc : pc'[q] = "none" => pc[q] = "none"
    BY <1>3
  <2>4. \A q \in Proc : pc'[q] = "none" => \A d \in Fd : ofile'[q][d] = NoFile
    <3>1. \A q \in Proc : pc[q] = "none" => \A d \in Fd : ofile[q][d] = NoFile
      BY Zenon DEF FtInv, FileInv, DescInv
    <3>2. QED BY <2>3, <3>1, Zenon
  <2>5. QED BY <2>1, <2>2, <2>4, Zenon DEF DescInv
<1>7. EndInv'
  <2>1. /\ allocated' = (readopen' \/ writeopen')
        /\ \A h \in File : (type[h] = "r" => readopen') /\ (type[h] = "w" => writeopen')
        /\ \A q \in Proc : (ff[q] = "r" => readopen') /\ (ff[q] = "w" => writeopen')
    BY <1>1, Zenon DEF FtInv, FileInv, EndInv
  <2>2. /\ \A g, h \in File : IsEnd(g) /\ type[g] = type[h] => g = h
        /\ \A q \in Proc, h \in File : ff[q] # "none" => type[h] # ff[q]
        /\ \A q, r \in Proc : ff[q] # "none" /\ ff[q] = ff[r] => q = r
    BY Zenon DEF FtInv, FileInv, EndInv
  <2>3. \A h \in File : type'[h] # "none" => type'[h] = type[h] /\ (IsEnd(h)' => IsEnd(h))
    BY <1>3, Zenon DEF IsEnd
  <2>4. \A q \in Proc : ff'[q] # "none" =>
            \/ ff'[q] = ff[q] /\ ff[q] # "none"
            \/ q = p /\ ff'[q] = type[f] /\ IsEnd(f) /\ type'[f] = "none"
    BY <1>3, Zenon
  <2>5. \A h \in File : (type'[h] = "r" => readopen') /\ (type'[h] = "w" => writeopen')
    BY <2>1, <2>3
  <2>6. \A q \in Proc : (ff'[q] = "r" => readopen') /\ (ff'[q] = "w" => writeopen')
    BY <2>1, <2>4
  <2>7. \A g, h \in File : IsEnd(g)' /\ type'[g] = type'[h] => g = h
    <3>1. ASSUME NEW g \in File, NEW h \in File, IsEnd(g)', type'[g] = type'[h] PROVE g = h
      <4>1. type'[g] # "none" /\ type'[h] # "none"
        BY <3>1 DEF IsEnd
      <4>2. type[g] = type[h] /\ IsEnd(g)
        BY <2>3, <3>1, <4>1, Zenon
      <4>3. QED BY <2>2, <4>2, Zenon
    <3>2. QED BY <3>1, Zenon
  <2>8. \A q \in Proc, h \in File : ff'[q] # "none" => type'[h] # ff'[q]
    <3>1. ASSUME NEW q \in Proc, NEW h \in File, ff'[q] # "none", type'[h] = ff'[q] PROVE FALSE
      <4>1. type'[h] = type[h]
        BY <2>3, <3>1, Zenon
      <4>2. CASE ff'[q] = ff[q] /\ ff[q] # "none"
        BY <2>2, <3>1, <4>1, <4>2, Zenon
      <4>3. CASE ff'[q] = type[f] /\ IsEnd(f) /\ type'[f] = "none"
        BY <2>2, <3>1, <4>1, <4>3, Zenon
      <4>4. QED BY <2>4, <3>1, <4>2, <4>3, Zenon
    <3>2. QED BY <3>1, Zenon
  <2>9. \A q, r \in Proc : ff'[q] # "none" /\ ff'[q] = ff'[r] => q = r
    <3>1. ASSUME NEW q \in Proc, NEW r \in Proc, ff'[q] # "none", ff'[q] = ff'[r] PROVE q = r
      <4>1. CASE ff'[q] = ff[q] /\ ff[q] # "none" /\ ff'[r] = ff[r]
        BY <2>2, <3>1, <4>1, Zenon
      <4>2. CASE q = p /\ r = p
        BY <4>2, Zenon
      <4>3. CASE ff'[q] = type[f] /\ ff'[r] = ff[r] /\ ff[r] # "none"
        BY <2>2, <3>1, <4>3, Zenon
      <4>4. CASE ff'[r] = type[f] /\ ff'[q] = ff[q] /\ ff[q] # "none"
        BY <2>2, <3>1, <4>4, Zenon
      <4>5. QED BY <2>4, <3>1, <4>1, <4>2, <4>3, <4>4, Zenon
    <3>2. QED BY <3>1, Zenon
  <2>10. QED BY <2>1, <2>5, <2>6, <2>7, <2>8, <2>9, Zenon DEF EndInv
<1>8. UserInv'
  <2>1. ASSUME NEW q \in Proc, NEW e \in {"r", "w"}, q # p, Holds(q, e) PROVE Holds(q, e)'
    <3>1. PICK c \in Fd : ofile[q][c] # NoFile /\ type[ofile[q][c]] = e
      BY <2>1, Zenon DEF Holds
    <3>2. ofile'[q][c] = ofile[q][c]
      BY <2>1, Zenon
    <3>3. ofile'[q][c] \in File
      BY <3>1, <3>2
    <3>4. type'[ofile'[q][c]] = type[ofile[q][c]]
      BY <1>3, <3>2, <3>3
    <3>5. QED BY <3>1, <3>2, <3>4, Zenon DEF Holds
  <2>2. pc'[p] \notin Reading /\ pc'[p] \notin Writing
    BY <1>4 DEF Reading, Writing
  <2>3. QED BY <1>4, <2>1, <2>2, Zenon DEF FtInv, FileInv, UserInv
<1>9. SleepInv' /\ NoMissedWakeup'
  <2>1. \A q \in Proc :
            /\ pc[q] \in {"rgoing", "wgoing"} => pc'[q] = pc[q]
            /\ pc'[q] \in {"rgoing", "wgoing", "rsleep", "wsleep"} => pc'[q] = pc[q]
    BY <1>4
  <2>2. QED BY <1>1, <2>1, SleepFrame, Zenon DEF FtInv
<1>10. QED BY <1>3, <1>4, <1>5, <1>6, <1>7, <1>8, <1>9, Zenon

LEMMA SysCloseStep ==
    ASSUME FtInv, NEW p \in Proc, NEW d \in Fd, sys_close(p, d) PROVE FtInv'
<1>0. PICK f \in File : f = ofile[p][d]
  BY DEF sys_close, IsFirst, FreeFds, FtInv, FtTypeOK
<1>1. <<p, d>> \in RefsTo(f)
  BY <1>0, Zenon DEF RefsTo
<1>2. /\ ref[f] \in Nat /\ ref[f] >= 1
      /\ ref[f] = 1 => RefsTo(f) = {<<p, d>>}
  BY <1>1, Referenced, Zenon DEF FtInv
<1>3. /\ pc[p] = "user" /\ fileclose(p, f, "user") /\ hand' = hand
      /\ UNCHANGED <<pipeVars, todo, killed, out, nbytes, exiting>>
  BY <1>0, Zenon DEF sys_close, Enters
<1>4. /\ ofile' \in [Proc -> [Fd -> File \cup {NoFile}]]
      /\ \A q \in Proc, e \in Fd :
             ofile'[q][e] = IF q = p /\ e = d THEN NoFile ELSE ofile[q][e]
  BY Zenon DEF sys_close, FtInv, FtTypeOK
<1>5. hand' \in [Proc -> [0..1 -> File \cup {NoFile}]]
  BY <1>3, Zenon DEF FtInv, FtTypeOK
<1>6. \A q \in Proc, e \in Fd :
          \/ ofile'[q][e] = ofile[q][e]
          \/ q = p /\ ofile'[q][e] = NoFile
  BY <1>4, Zenon
<1>7. ref[f] = 1 => \A q \in Proc, e \in Fd : ofile'[q][e] # f
  <2>1. ASSUME ref[f] = 1, NEW q \in Proc, NEW e \in Fd, ofile'[q][e] = f PROVE FALSE
    <3>1. ofile[q][e] = f /\ ~(q = p /\ e = d)
      BY <1>4, <2>1, Numbers, Zenon
    <3>2. <<q, e>> \in RefsTo(f)
      BY <3>1, Zenon DEF RefsTo
    <3>3. <<q, e>> = <<p, d>>
      BY <1>2, <2>1, <3>2, Zenon
    <3>4. QED BY <3>1, <3>3, Zenon
  <2>2. QED BY <2>1, Zenon
<1>8. /\ FtTypeOK' /\ DescInv' /\ EndInv' /\ UserInv' /\ SleepInv' /\ NoMissedWakeup'
      /\ \A h \in File : ref'[h] = IF h = f THEN ref[h] - 1 ELSE ref[h]
      /\ \A h \in File : h # f => type'[h] = type[h]
      /\ \A q \in Proc : q # p => pc'[q] = pc[q] /\ ff'[q] = ff[q]
      /\ \/ pc'[p] = "close" /\ ff'[p] # "none"
         \/ pc'[p] = "user" /\ ff'[p] = "none"
  <2>1. "user" \in {"user", "bad"} /\ pc[p] \in {"user", "bad"}
    BY <1>3, Zenon
  <2>2. QED BY <1>2, <1>3, <1>4, <1>5, <1>6, <1>7, <2>1, FilecloseStep
<1>9. \A h \in File : Counted(h)'
  <2>1. RefsTo(f)' = RefsTo(f) \ {<<p, d>>}
    BY <1>4, Numbers DEF RefsTo
  <2>2. \A h \in File : InHand(h)' = InHand(h)
    BY <1>3, Zenon DEF InHand
  <2>3. Counted(f)'
    BY <1>1, <1>8, <2>1, <2>2, DropRef, Zenon DEF FtInv
  <2>4. ASSUME NEW h \in File, h # f PROVE Counted(h)'
    <3>1. RefsTo(h)' = RefsTo(h)
      BY <1>0, <1>4, <2>4, Numbers DEF RefsTo
    <3>2. QED BY <1>8, <2>2, <2>4, <3>1, SameRefs, Zenon DEF FtInv
  <2>5. QED BY <2>3, <2>4, Zenon
<1>10. HandInv'
  <2>1. ASSUME NEW q \in Proc
        PROVE  /\ pc'[q] = "close" <=> ff'[q] # "none"
               /\ pc'[q] \notin Busy => hand'[q][0] = NoFile /\ hand'[q][1] = NoFile
               /\ pc'[q] = "pipe" => hand'[q][0] # NoFile /\ hand'[q][1] = NoFile
               /\ pc'[q] = "pipe2" => hand'[q][0] # NoFile /\ hand'[q][1] # NoFile
    <3>1. CASE q # p
      BY <1>3, <1>8, <3>1 DEF FtInv, FileInv, HandInv
    <3>2. CASE q = p
      BY <1>3, <1>8, <3>2 DEF FtInv, FileInv, HandInv, Busy
    <3>3. QED BY <3>1, <3>2, Zenon
  <2>2. QED BY <2>1, Zenon DEF HandInv
<1>11. OwnInv'
  <2>1. ASSUME NEW q \in Proc, NEW i \in 0..1, hand'[q][i] # NoFile
        PROVE  /\ ref'[hand'[q][i]] = 1
               /\ pc'[q] \in {"pipe", "pipe2"} => type'[hand'[q][i]] = "none"
    <3>1. hand'[q][i] = hand[q][i] /\ hand[q][i] # NoFile
      BY <1>3, <2>1, Zenon
    <3>2. hand[q][i] \in File /\ hand[q][i] # f
      BY <1>0, <3>1, Numbers, HasDescriptor, Zenon
    <3>3. /\ ref[hand[q][i]] = 1
          /\ pc[q] \in {"pipe", "pipe2"} => type[hand[q][i]] = "none"
      BY <3>1, Zenon DEF FtInv, FileInv, OwnInv
    <3>4. pc'[q] \in {"pipe", "pipe2"} => pc[q] \in {"pipe", "pipe2"}
      BY <1>8
    <3>5. QED BY <1>8, <3>1, <3>2, <3>3, <3>4
  <2>2. QED BY <2>1, Zenon DEF OwnInv
<1>12. QED BY <1>8, <1>9, <1>10, <1>11, Zenon DEF FtInv, FileInv

LEMMA AfterIs ==
    ASSUME NEW h \in [0..1 -> File \cup {NoFile}]
    PROVE  /\ After(h) \in {"user", "bad"}
           /\ After(h) = "user" => h[0] = NoFile /\ h[1] = NoFile
<1>1. CASE h = Empty
  <2>1. Empty[0] = NoFile /\ Empty[1] = NoFile
    BY DEF Empty
  <2>2. QED BY <1>1, <2>1, Zenon DEF After
<1>2. CASE h # Empty
  BY <1>2 DEF After
<1>3. QED BY <1>1, <1>2, Zenon

LEMMA BadcloseStep ==
    ASSUME FtInv, NEW p \in Proc, NEW i \in 0..1, badclose(p, i) PROVE FtInv'
<1> DEFINE rest == [hand[p] EXCEPT ![i] = NoFile]
<1>0. /\ pc[p] = "bad" /\ hand[p][i] # NoFile
      /\ UNCHANGED <<pipeVars, todo, killed, out, ofile, nbytes, exiting>>
      /\ hand' = [hand EXCEPT ![p] = rest] /\ fileclose(p, hand[p][i], After(rest))
  BY Zenon DEF badclose, IsFirst
<1>1. PICK f \in File : f = hand[p][i]
  BY <1>0, FileInHand, Zenon
<1>2. ref[f] = 1 /\ RefsTo(f) = {} /\ InHand(f) = {<<p, i>>}
  BY <1>0, <1>1, FileInHand, Zenon
<1>3. /\ \A q \in Proc, e \in Fd : ofile[q][e] # f
      /\ \A q \in Proc, j \in 0..1 : hand[q][j] = f => q = p /\ j = i
  BY <1>0, <1>1, HandAlone, Zenon
<1>4. rest \in [0..1 -> File \cup {NoFile}] /\ \A j \in 0..1 : rest[j] = IF j = i THEN NoFile ELSE hand[p][j]
  BY Zenon DEF FtInv, FtTypeOK
<1> HIDE DEF rest
<1>5. /\ hand' \in [Proc -> [0..1 -> File \cup {NoFile}]]
      /\ \A q \in Proc, j \in 0..1 : hand'[q][j] = IF q = p THEN rest[j] ELSE hand[q][j]
  BY <1>0, <1>4, Zenon DEF FtInv, FtTypeOK
<1>6. /\ After(rest) \in {"user", "bad"}
      /\ After(rest) = "user" => rest[0] = NoFile /\ rest[1] = NoFile
  BY <1>4, AfterIs, Zenon
<1>7. /\ FtTypeOK' /\ DescInv' /\ EndInv' /\ UserInv' /\ SleepInv' /\ NoMissedWakeup'
      /\ \A h \in File : ref'[h] = IF h = f THEN ref[h] - 1 ELSE ref[h]
      /\ \A h \in File : h # f => type'[h] = type[h]
      /\ \A q \in Proc : q # p => pc'[q] = pc[q] /\ ff'[q] = ff[q]
      /\ \/ pc'[p] = "close" /\ ff'[p] # "none"
         \/ pc'[p] = After(rest) /\ ff'[p] = "none"
  <2>1. /\ pc[p] \in {"user", "bad"} /\ fileclose(p, f, After(rest))
        /\ UNCHANGED <<pipeVars, todo, killed, out, nbytes, exiting>>
        /\ ofile' \in [Proc -> [Fd -> File \cup {NoFile}]]
        /\ \A q \in Proc, e \in Fd : ofile'[q][e] = ofile[q][e] /\ ofile'[q][e] # f
    BY <1>0, <1>1, <1>3, Zenon DEF FtInv, FtTypeOK
  <2>2. ref[f] >= 1
    BY <1>2
  <2>3. QED BY <1>5, <1>6, <2>1, <2>2, FilecloseStep
<1>8. \A h \in File : Counted(h)'
  <2>1. InHand(f)' = InHand(f) \ {<<p, i>>}
    <3>1. \A q \in Proc, j \in 0..1 : hand'[q][j] # f
      <4>1. \A j \in 0..1 : rest[j] # f
        BY <1>3, <1>4, Numbers, Zenon
      <4>2. QED BY <1>3, <1>5, <4>1
    <3>2. InHand(f)' = {}
      BY <3>1, Zenon DEF InHand
    <3>3. QED BY <1>2, <3>2, Zenon
  <2>2. \A h \in File : RefsTo(h)' = RefsTo(h)
    BY <1>0, Zenon DEF RefsTo
  <2>3. Counted(f)'
    <3>1. <<p, i>> \in InHand(f) /\ ref'[f] = ref[f] - 1
      BY <1>2, <1>7, Zenon
    <3>2. QED BY <2>1, <2>2, <3>1, DropFile, Zenon DEF FtInv
  <2>4. ASSUME NEW h \in File, h # f PROVE Counted(h)'
    <3>1. \A q \in Proc, j \in 0..1 : hand'[q][j] = h <=> hand[q][j] = h
      BY <1>1, <1>4, <1>5, <2>4, Numbers, Zenon
    <3>2. InHand(h)' = InHand(h)
      BY <3>1 DEF InHand
    <3>3. QED BY <1>7, <2>2, <2>4, <3>2, SameRefs, Zenon DEF FtInv
  <2>5. QED BY <2>3, <2>4, Zenon
<1>9. HandInv'
  <2>0. /\ \A q \in Proc : hand'[q][0] = IF q = p THEN rest[0] ELSE hand[q][0]
        /\ \A q \in Proc : hand'[q][1] = IF q = p THEN rest[1] ELSE hand[q][1]
    <3>1. 0 \in 0..1 /\ 1 \in 0..1
      OBVIOUS
    <3>2. QED BY <1>5, <3>1, Zenon
  <2>1. ASSUME NEW q \in Proc
        PROVE  /\ pc'[q] = "close" <=> ff'[q] # "none"
               /\ pc'[q] \notin Busy => hand'[q][0] = NoFile /\ hand'[q][1] = NoFile
               /\ pc'[q] = "pipe" => hand'[q][0] # NoFile /\ hand'[q][1] = NoFile
               /\ pc'[q] = "pipe2" => hand'[q][0] # NoFile /\ hand'[q][1] # NoFile
    <3>1. CASE q # p
      BY <1>7, <2>0, <3>1 DEF FtInv, FileInv, HandInv
    <3>2. CASE q = p
      BY <1>6, <1>7, <2>0, <3>2 DEF Busy
    <3>3. QED BY <3>1, <3>2, Zenon
  <2>2. QED BY <2>1, Zenon DEF HandInv
<1>10. OwnInv'
  <2>1. ASSUME NEW q \in Proc, NEW j \in 0..1, hand'[q][j] # NoFile
        PROVE  /\ ref'[hand'[q][j]] = 1
               /\ pc'[q] \in {"pipe", "pipe2"} => type'[hand'[q][j]] = "none"
    <3>1. hand'[q][j] = hand[q][j] /\ hand[q][j] # NoFile /\ ~(q = p /\ j = i)
      BY <1>4, <1>5, <2>1, Zenon
    <3>2. hand[q][j] \in File /\ hand[q][j] # f
      BY <1>3, <3>1, FileInHand, Zenon
    <3>3. /\ ref[hand[q][j]] = 1
          /\ pc[q] \in {"pipe", "pipe2"} => type[hand[q][j]] = "none"
      BY <3>1, Zenon DEF FtInv, FileInv, OwnInv
    <3>4. pc'[q] \in {"pipe", "pipe2"} => pc[q] \in {"pipe", "pipe2"}
      BY <1>6, <1>7
    <3>5. QED BY <1>7, <3>1, <3>2, <3>3, <3>4
  <2>2. QED BY <2>1, Zenon DEF OwnInv
<1>11. QED BY <1>7, <1>8, <1>9, <1>10, Zenon DEF FtInv, FileInv

LEMMA ForkStep ==
    ASSUME FtInv, NEW p \in Proc, NEW q \in Proc, fork(p, q) PROVE FtInv'
<1> DEFINE new(f) == Cardinality({d \in Fd : ofile[p][d] = f})
<1>0. \A f \in File : new(f) \in Nat
  <2>1. \A f \in File : {d \in Fd : ofile[p][d] = f} \in SUBSET Fd
    BY Zenon
  <2>2. QED BY <2>1, Finite, Zenon
<1>1. FtTypeOK'
  <2>1. ref' = [f \in File |-> ref[f] + new(f)]
    BY Zenon DEF fork
  <2>2. ref' \in [File -> Nat]
    <3> HIDE DEF new
    <3> QED BY <1>0, <2>1 DEF FtInv, FtTypeOK
  <2>3. QED BY <2>2, Zenon DEF fork, pipeVars, FtInv, FtTypeOK
<1>2. UNCHANGED <<allocated, readopen, writeopen, nread, nwrite, plock, unseen, type, hand, ff>>
  BY Zenon DEF fork, pipeVars
<1>3. /\ pc[p] = "user" /\ pc[q] = "none" /\ p # q
      /\ \A r \in Proc : pc'[r] = IF r = q THEN "user" ELSE pc[r]
      /\ \A r \in Proc : ofile'[r] = IF r = q THEN ofile[p] ELSE ofile[r]
      /\ \A f \in File : ref'[f] = ref[f] + new(f)
  BY Zenon DEF fork, Enters, FtInv, FtTypeOK
<1>4. \A d \in Fd : ofile[q][d] = NoFile
  BY <1>3, Zenon DEF FtInv, FileInv, DescInv
<1>5. ASSUME NEW f \in File PROVE Counted(f)'
  <2>1. PICK D \in SUBSET Fd : D = {d \in Fd : ofile[p][d] = f}
    BY Zenon
  <2>2. RefsTo(f) \cap ({q} \X D) = {}
    BY <1>4, Numbers, Zenon DEF RefsTo
  <2>3. RefsTo(f)' = RefsTo(f) \cup ({q} \X D)
    BY <1>3, <1>4, <2>1, Numbers DEF RefsTo
  <2>4. InHand(f)' = InHand(f)
    BY <1>2, Zenon DEF InHand
  <2>5. ref'[f] = ref[f] + Cardinality(D)
    BY <1>3, <2>1, Zenon
  <2>6. Counted(f)
    BY Zenon DEF FtInv
  <2>7. QED BY <2>2, <2>3, <2>4, <2>5, <2>6, AddRefs, Zenon
<1>6. HandInv' /\ OwnInv'
  <2>1. HandInv'
    <3>1. HandInv
      BY Zenon DEF FtInv, FileInv
    <3>2. QED BY <1>2, <1>3, <3>1 DEF HandInv, Busy
  <2>2. ASSUME NEW r \in Proc, NEW i \in 0..1, hand[r][i] # NoFile
        PROVE  ref'[hand[r][i]] = ref[hand[r][i]]
    <3>0. hand[r][i] \in File
      BY <2>2, FileInHand, Zenon
    <3>1. hand[r][i] \in File /\ \A d \in Fd : ofile[p][d] # hand[r][i]
      BY <2>2, <3>0, HandAlone, Zenon
    <3>2. {d \in Fd : ofile[p][d] = hand[r][i]} = {}
      BY <3>1, Zenon
    <3>3. new(hand[r][i]) = 0
      BY <3>2, FS_EmptySet, Zenon
    <3>4. ref[hand[r][i]] \in Nat /\ ref'[hand[r][i]] = ref[hand[r][i]] + new(hand[r][i])
      BY <1>3, <3>1, Zenon DEF FtInv, FtTypeOK
    <3> HIDE DEF new
    <3>5. QED BY <3>3, <3>4
  <2>3. \A r \in Proc : pc'[r] \in {"pipe", "pipe2"} => pc[r] \in {"pipe", "pipe2"}
    BY <1>3
  <2>4. OwnInv'
    <3>1. OwnInv
      BY Zenon DEF FtInv, FileInv
    <3>2. ASSUME NEW r \in Proc, NEW i \in 0..1, hand'[r][i] # NoFile
          PROVE  /\ ref'[hand'[r][i]] = 1
                 /\ pc'[r] \in {"pipe", "pipe2"} => type'[hand'[r][i]] = "none"
      <4>1. hand'[r][i] = hand[r][i] /\ hand[r][i] # NoFile
        BY <1>2, <3>2, Zenon
      <4>2. /\ ref[hand[r][i]] = 1
            /\ pc[r] \in {"pipe", "pipe2"} => type[hand[r][i]] = "none"
        BY <3>1, <4>1, Zenon DEF OwnInv
      <4>3. QED BY <1>2, <2>2, <2>3, <4>1, <4>2, Zenon
    <3>3. QED BY <3>2, Zenon DEF OwnInv
  <2>5. QED BY <2>1, <2>4, Zenon
<1>7. DescInv'
  <2>1. ASSUME NEW f \in File, ref'[f] = 0 PROVE ref[f] = 0
    <3>1. ref'[f] = ref[f] + new(f) /\ new(f) \in Nat
      BY <1>0, <1>3, Zenon
    <3>2. ref[f] \in Nat
      BY Zenon DEF FtInv, FtTypeOK
    <3> HIDE DEF new
    <3>3. QED BY <2>1, <3>1, <3>2
  <2>2. QED BY <1>2, <1>3, <2>1 DEF FtInv, FileInv, DescInv
<1>8. EndInv'
  BY <1>2, Zenon DEF FtInv, FileInv, EndInv, IsEnd
<1>9. UserInv'
  <2>1. \A r \in Proc, e \in {"r", "w"} : r # q => (Holds(r, e) => Holds(r, e)')
    BY <1>2, <1>3, Zenon DEF Holds
  <2>2. pc'[q] \notin Reading /\ pc'[q] \notin Writing
    BY <1>3, Zenon DEF Reading, Writing
  <2>3. QED BY <1>3, <2>1, <2>2, Zenon DEF FtInv, FileInv, UserInv
<1>10. QED
  <2>1. \A r \in Proc :
            /\ pc[r] \in {"rgoing", "wgoing"} => pc'[r] = pc[r]
            /\ pc'[r] \in {"rgoing", "wgoing", "rsleep", "wsleep"} => pc'[r] = pc[r]
    BY <1>3, Zenon
  <2>2. QED BY <1>1, <1>2, <1>5, <1>6, <1>7, <1>8, <1>9, <2>1, SleepFrame, Zenon
             DEF FtInv, FileInv

LEMMA JunkType == Junk \in [0..(PIPESIZE - 1) -> Byte]
<1>1. (CHOOSE b \in Byte : TRUE) \in Byte
  BY PipeAssumption, Zenon
<1>2. QED BY <1>1, Zenon DEF Junk

\* pipeclose() by the last that has the end: nobody uses that end, and those
\* who sleep on the other one are woken.
LEMMA FilePipecloseStep ==
    ASSUME FtInv, NEW p \in Proc, FilePipeclose(p) PROVE FtInv'
<1>0. /\ After(hand[p]) \in {"user", "bad"}
      /\ After(hand[p]) = "user" => hand[p][0] = NoFile /\ hand[p][1] = NoFile
  BY AfterIs, Zenon DEF FtInv, FtTypeOK
<1>1. FtTypeOK'
  <2>1. data' \in [0..(PIPESIZE - 1) -> Byte]
    BY JunkType, Zenon DEF FilePipeclose, pipeclose, FtInv, FtTypeOK
  <2>2. nread' \in 0..(WORD - 1) /\ nwrite' \in 0..(WORD - 1)
    <3>1. 0 \in 0..(WORD - 1)
      BY PipeAssumption
    <3>2. QED BY <3>1, Zenon DEF FilePipeclose, pipeclose, FtInv, FtTypeOK
  <2>3. pc' \in [Proc -> {"none", "user", "pipe", "pipe2", "bad", "close", "read", "rgoing",
                          "rsleep", "ret", "write", "wgoing", "wsleep"}]
    BY <1>0, Zenon DEF FilePipeclose, pipeclose, WakeReaders, WakeWriters, FtInv, FtTypeOK
  <2>4. QED BY <2>1, <2>2, <2>3, Zenon DEF FilePipeclose, pipeclose, FtInv, FtTypeOK
<1>2. /\ pc[p] = "close" /\ plock = NoProc
      /\ UNCHANGED <<plock, ref, type, ofile, hand>>
      /\ allocated' = (readopen' \/ writeopen')
      /\ \A q \in Proc : ff'[q] = IF q = p THEN "none" ELSE ff[q]
  BY Zenon DEF FilePipeclose, pipeclose, FtInv, FtTypeOK
<1>3. /\ pc'[p] = After(hand[p])
      /\ \A q \in Proc : q # p => \/ pc'[q] = pc[q]
                                  \/ pc[q] = "rsleep" /\ pc'[q] = "read"
                                  \/ pc[q] = "wsleep" /\ pc'[q] = "write"
  BY Zenon DEF FilePipeclose, pipeclose, WakeReaders, WakeWriters, FtInv, FtTypeOK
<1>4. \A f \in File : Counted(f)'
  BY <1>2, CountFrame, Zenon DEF FtInv
<1>5. HandInv' /\ OwnInv'
  <2>1. ASSUME NEW q \in Proc
        PROVE  /\ pc'[q] = "close" <=> ff'[q] # "none"
               /\ pc'[q] \notin Busy => hand'[q][0] = NoFile /\ hand'[q][1] = NoFile
               /\ pc'[q] = "pipe" => hand'[q][0] # NoFile /\ hand'[q][1] = NoFile
               /\ pc'[q] = "pipe2" => hand'[q][0] # NoFile /\ hand'[q][1] # NoFile
    <3>1. CASE q # p
      BY <1>2, <1>3, <3>1 DEF FtInv, FileInv, HandInv, Busy
    <3>2. CASE q = p
      BY <1>0, <1>2, <1>3, <3>2 DEF Busy
    <3>3. QED BY <3>1, <3>2, Zenon
  <2>2. \A q \in Proc : pc'[q] \in {"pipe", "pipe2"} => pc[q] \in {"pipe", "pipe2"}
    BY <1>0, <1>3
  <2>3. OwnInv'
    BY <1>2, <2>2, Zenon DEF FtInv, FileInv, OwnInv
  <2>4. QED BY <2>1, <2>3, Zenon DEF HandInv
<1>6. DescInv'
  <2>1. \A q \in Proc : pc'[q] = "none" => pc[q] = "none"
    BY <1>0, <1>3
  <2>2. QED BY <1>2, <2>1, Zenon DEF FtInv, FileInv, DescInv
<1>7. UserInv'
  <2>1. \A q \in Proc, e \in {"r", "w"} : Holds(q, e) => Holds(q, e)'
    BY <1>2, Zenon DEF Holds
  <2>2. \A q \in Proc : /\ pc'[q] \in Reading => pc[q] \in Reading
                        /\ pc'[q] \in Writing => pc[q] \in Writing
    BY <1>0, <1>3 DEF Reading, Writing
  <2>3. QED BY <2>1, <2>2, Zenon DEF FtInv, FileInv, UserInv
<1>8. /\ \A q \in Proc : q # p => ff[q] # ff[p]
      /\ \A f \in File : type[f] # ff[p]
      /\ ff[p] \in {"r", "w"}
  <2>1. ff[p] # "none"
    BY <1>2, Zenon DEF FtInv, FileInv, HandInv
  <2>2. QED BY <2>1, Zenon DEF FtInv, FtTypeOK, FileInv, EndInv
<1>9. \A q \in Proc : ~Holds(q, ff[p])
  <2>1. \A q \in Proc, d \in Fd : ofile[q][d] # NoFile => ofile[q][d] \in File
    BY DEF FtInv, FtTypeOK
  <2>2. QED BY <1>8, <2>1, Zenon DEF Holds
<1>10. SleepInv'
  <2>1. Used' <= PIPESIZE
    <3>1. CASE UNCHANGED <<nread, nwrite>>
      BY <3>1, Zenon DEF Used, FtInv, SleepInv
    <3>2. CASE nread' = 0 /\ nwrite' = 0
      BY <3>2, PipeAssumption DEF Used
    <3>3. QED BY <3>1, <3>2, Zenon DEF FilePipeclose, pipeclose
  <2>2. \A q \in Proc : plock # q /\ pc[q] \notin {"rgoing", "wgoing"}
    BY <1>2, PipeAssumption, Zenon DEF FtInv, SleepInv
  <2>3. \A q \in Proc : pc'[q] \notin {"rgoing", "wgoing"}
    BY <1>0, <1>3, <2>2
  <2>4. QED BY <1>2, <2>1, <2>2, <2>3, Zenon DEF SleepInv
<1>11. EndInv'
  <2>1. /\ readopen' = (readopen /\ ff[p] = "w") /\ writeopen' = (writeopen /\ ff[p] = "r")
        /\ readopen \in BOOLEAN /\ writeopen \in BOOLEAN
    BY <1>8, Zenon DEF FilePipeclose, pipeclose, FtInv, FtTypeOK
  <2>2. QED BY <1>2, <1>8, <2>1 DEF FtInv, FileInv, EndInv, IsEnd
<1>12. NoMissedWakeup'
  <2>1. CASE ff[p] = "w"
    <3>1. \A q \in Proc : pc'[q] # "rsleep" /\ pc[q] \notin Writing
      <4>1. \A q \in Proc : pc'[q] # "rsleep"
        BY <1>0, <2>1, Zenon DEF FilePipeclose, pipeclose, WakeReaders, FtInv, FtTypeOK
      <4>2. QED BY <1>9, <2>1, <4>1, Zenon DEF FtInv, FileInv, UserInv
    <3>2. \A q \in Proc : pc'[q] # "wsleep"
      BY <1>0, <1>3, <3>1 DEF Writing
    <3>3. QED BY <3>1, <3>2, Zenon DEF NoMissedWakeup
  <2>2. CASE ff[p] = "r"
    <3>1. \A q \in Proc : pc'[q] # "wsleep" /\ pc[q] \notin Reading
      <4>1. \A q \in Proc : pc'[q] # "wsleep"
        BY <1>0, <2>2, Zenon DEF FilePipeclose, pipeclose, WakeWriters, FtInv, FtTypeOK
      <4>2. QED BY <1>9, <2>2, <4>1, Zenon DEF FtInv, FileInv, UserInv
    <3>2. \A q \in Proc : pc'[q] # "rsleep"
      BY <1>0, <1>3, <3>1 DEF Reading
    <3>3. QED BY <3>1, <3>2, Zenon DEF NoMissedWakeup
  <2>3. QED BY <1>8, <2>1, <2>2, Zenon
<1>13. QED BY <1>1, <1>4, <1>5, <1>6, <1>7, <1>10, <1>11, <1>12, Zenon DEF FtInv, FileInv

-----------------------------------------------------------------------------
(* Steps of the pipe                                                       *)

\* Reading k bytes takes them off the count, wherever the counters wrap,
LEMMA ReadUsed ==
    ASSUME NEW a \in 0..(WORD - 1), NEW b \in 0..(WORD - 1), NEW k \in Nat,
           k <= (b - a) % WORD
    PROVE  (b - ((a + k) % WORD)) % WORD = ((b - a) % WORD) - k /\ (a + k) % WORD \in 0..(WORD - 1)
<1>0. WORD \in Nat /\ WORD > 0
  BY PipeAssumption
<1>1. CASE a <= b
  <2>1. (b - a) % WORD = b - a
    BY <1>0, <1>1
  <2>2. (a + k) % WORD = a + k
    BY <1>0, <1>1, <2>1
  <2>3. (b - (a + k)) % WORD = b - (a + k)
    BY <1>0, <1>1, <2>1
  <2>4. QED BY <1>0, <1>1, <2>1, <2>2, <2>3
<1>2. CASE b < a
  <2>1. (b - a) % WORD = b - a + WORD
    BY <1>0, <1>2
  <2>2. CASE a + k < WORD
    <3>1. (a + k) % WORD = a + k
      BY <1>0, <2>2
    <3>2. (b - (a + k)) % WORD = b - (a + k) + WORD
      BY <1>0, <1>2, <2>2
    <3>3. QED BY <1>0, <2>1, <2>2, <3>1, <3>2
  <2>3. CASE a + k >= WORD
    <3>1. (a + k) % WORD = a + k - WORD
      BY <1>0, <1>2, <2>1, <2>3
    <3>2. (b - (a + k - WORD)) % WORD = b - (a + k - WORD)
      BY <1>0, <1>2, <2>1, <2>3
    <3>3. QED BY <1>0, <1>2, <2>1, <2>3, <3>1, <3>2
  <2>4. QED BY <1>0, <2>2, <2>3
<1>3. QED BY <1>0, <1>1, <1>2

\* and writing k bytes adds them, as long as they fit.
LEMMA WriteUsed ==
    ASSUME NEW a \in 0..(WORD - 1), NEW b \in 0..(WORD - 1), NEW k \in Nat,
           ((b - a) % WORD) + k < WORD
    PROVE  (((b + k) % WORD) - a) % WORD = ((b - a) % WORD) + k /\ (b + k) % WORD \in 0..(WORD - 1)
<1>0. WORD \in Nat /\ WORD > 0
  BY PipeAssumption
<1>1. CASE b < a
  <2>1. (b - a) % WORD = b - a + WORD
    BY <1>0, <1>1
  <2>2. (b + k) % WORD = b + k
    BY <1>0, <1>1, <2>1
  <2>3. (b + k - a) % WORD = b + k - a + WORD
    BY <1>0, <1>1, <2>1
  <2>4. QED BY <1>0, <1>1, <2>1, <2>2, <2>3
<1>2. CASE a <= b
  <2>1. (b - a) % WORD = b - a
    BY <1>0, <1>2
  <2>2. CASE b + k < WORD
    <3>1. (b + k) % WORD = b + k
      BY <1>0, <2>2
    <3>2. (b + k - a) % WORD = b + k - a
      BY <1>0, <1>2, <2>2
    <3>3. QED BY <1>0, <2>1, <2>2, <3>1, <3>2
  <2>3. CASE b + k >= WORD
    <3>1. (b + k) % WORD = b + k - WORD
      BY <1>0, <1>2, <2>1, <2>3
    <3>2. (b + k - WORD - a) % WORD = b + k - a
      BY <1>0, <1>2, <2>1, <2>3
    <3>3. QED BY <1>0, <1>2, <2>1, <2>3, <3>1, <3>2
  <2>4. QED BY <1>0, <2>2, <2>3
<1>3. QED BY <1>0, <1>1, <1>2

LEMMA UsedType ==
    ASSUME FtTypeOK PROVE Used \in 0..(WORD - 1)
<1>1. WORD \in Nat /\ WORD > 0 /\ nwrite - nread \in Int
  BY PipeAssumption DEF FtTypeOK
<1>2. QED BY <1>1 DEF Used

LEMMA ReadEmptyStep ==
    ASSUME FtInv, NEW p \in Proc, pipereadEmpty(p), UNCHANGED fileVars PROVE FtInv'
<1>1. FtTypeOK'
  BY Zenon DEF pipereadEmpty, fileVars, FtInv, FtTypeOK
<1>2. UNCHANGED <<allocated, readopen, writeopen, nread, nwrite, unseen, ref, type, ofile, hand, ff>>
  BY Zenon DEF pipereadEmpty, fileVars
<1>3. /\ pc[p] = "read" /\ plock = NoProc /\ nread = nwrite /\ writeopen
      /\ \/ plock' = NoProc /\ pc'[p] = "ret"
         \/ plock' = p /\ pc'[p] = "rgoing"
      /\ \A q \in Proc : q # p => pc'[q] = pc[q]
  BY Zenon DEF pipereadEmpty, FtInv, FtTypeOK
<1>4. \A f \in File : Counted(f)'
  BY <1>2, CountFrame, Zenon DEF FtInv
<1>5. FileInv'
  <2>1. \A q \in Proc :
            /\ pc[q] \in Busy \/ pc'[q] \in Busy => pc'[q] = pc[q]
            /\ pc'[q] = "none" => pc[q] = "none"
            /\ pc'[q] \in Reading => pc[q] \in Reading
            /\ pc'[q] \in Writing => pc[q] \in Writing
    BY <1>3, Zenon DEF Reading, Writing, Busy
  <2>2. QED BY <1>2, <2>1, FileFrame, Zenon DEF FtInv
<1>6. Used' = Used
  BY <1>2, Zenon DEF Used
<1>7. \A q \in Proc : plock # q /\ pc[q] \notin {"rgoing", "wgoing"}
  BY <1>3, PipeAssumption, Zenon DEF FtInv, SleepInv
<1>8. SleepInv'
  BY <1>2, <1>3, <1>6, <1>7, PipeAssumption DEF FtInv, SleepInv
<1>9. NoMissedWakeup'
  BY <1>2, <1>3, <1>6 DEF FtInv, NoMissedWakeup
<1>10. QED BY <1>1, <1>4, <1>5, <1>8, <1>9, Zenon DEF FtInv

LEMMA PiperTypes ==
    ASSUME FtInv, NEW p \in Proc, NEW n \in Nat, piperead(p, n), UNCHANGED fileVars,
           NEW k \in Nat, k = Least(n, Used)
    PROVE  FtTypeOK' /\ k <= Used /\ Used' = Used - k
<1>0. Used \in Nat /\ PIPESIZE \in Nat \ {0}
  BY UsedType, PipeAssumption DEF FtInv
<1>1. k = Least(n, Used) /\ k <= Used
  BY <1>0 DEF Least
<1>2. nread' = (nread + k) % WORD /\ nwrite' = nwrite
  BY <1>1, Zenon DEF piperead
<1>3. nread' \in 0..(WORD - 1) /\ Used' = Used - k
  <2>1. nread \in 0..(WORD - 1) /\ nwrite \in 0..(WORD - 1)
    BY Zenon DEF FtInv, FtTypeOK
  <2>2. /\ (nwrite - ((nread + k) % WORD)) % WORD = ((nwrite - nread) % WORD) - k
        /\ (nread + k) % WORD \in 0..(WORD - 1)
    BY <1>1, <2>1, ReadUsed DEF Used
  <2>3. Used' = (nwrite - ((nread + k) % WORD)) % WORD /\ Used = (nwrite - nread) % WORD
    BY <1>2, Zenon DEF Used
  <2>4. QED BY <1>2, <2>2, <2>3, Zenon
<1>4. out' \in [Proc -> Seq(Byte)]
  <2>1. [i \in 1..k |-> data[(nread + i - 1) % PIPESIZE]] \in Seq(Byte)
    <3>1. \A i \in 1..k : (nread + i - 1) % PIPESIZE \in 0..(PIPESIZE - 1)
      BY <1>0 DEF FtInv, FtTypeOK
    <3>2. \A i \in 1..k : data[(nread + i - 1) % PIPESIZE] \in Byte
      BY <3>1, Zenon DEF FtInv, FtTypeOK
    <3>3. QED BY <3>2
  <2>2. out' = [out EXCEPT ![p] = [i \in 1..k |-> data[(nread + i - 1) % PIPESIZE]]]
    BY <1>1, Zenon DEF piperead
  <2>3. QED BY <2>1, <2>2, Zenon DEF FtInv, FtTypeOK
<1>5. FtTypeOK'
  BY <1>3, <1>4, Zenon DEF piperead, WakeWriters, fileVars, FtInv, FtTypeOK
<1>6. QED BY <1>0, <1>1, <1>3, <1>5

LEMMA PipereadStep ==
    ASSUME FtInv, NEW p \in Proc, NEW n \in Nat, piperead(p, n), UNCHANGED fileVars
    PROVE  FtInv'
<1>0. Used \in Nat
  BY UsedType DEF FtInv
<1>1. FtTypeOK' /\ Used' \in Nat /\ Used' <= Used /\ Used \in Nat
  <2>1. PICK k \in Nat : k = Least(n, Used)
    BY <1>0 DEF Least
  <2>2. FtTypeOK' /\ k <= Used /\ Used' = Used - k
    BY <2>1, PiperTypes, Zenon
  <2>3. QED BY <1>0, <2>2
<1>2. /\ UNCHANGED <<allocated, readopen, writeopen, unseen, ref, type, ofile, hand, ff, plock>>
      /\ pc[p] = "read" /\ plock = NoProc
  BY Zenon DEF piperead, fileVars
<1>3. /\ pc'[p] = "ret"
      /\ \A q \in Proc : q # p => pc'[q] = IF pc[q] = "wsleep" THEN "write" ELSE pc[q]
  BY Zenon DEF piperead, WakeWriters, FtInv, FtTypeOK
<1>4. \A f \in File : Counted(f)'
  BY <1>2, CountFrame, Zenon DEF FtInv
<1>5. FileInv'
  <2>1. \A q \in Proc :
            /\ pc[q] \in Busy \/ pc'[q] \in Busy => pc'[q] = pc[q]
            /\ pc'[q] = "none" => pc[q] = "none"
            /\ pc'[q] \in Reading => pc[q] \in Reading
            /\ pc'[q] \in Writing => pc[q] \in Writing
    BY <1>2, <1>3, Zenon DEF Reading, Writing, Busy
  <2>2. QED BY <1>2, <2>1, FileFrame, Zenon DEF FtInv
<1>6. \A q \in Proc : plock # q /\ pc[q] \notin {"rgoing", "wgoing"}
  BY <1>2, PipeAssumption, Zenon DEF FtInv, SleepInv
<1>7. SleepInv'
  <2>1. Used' <= PIPESIZE
    BY <1>1, PipeAssumption DEF FtInv, SleepInv
  <2>2. \A q \in Proc : pc'[q] \notin {"rgoing", "wgoing"}
    BY <1>3, <1>6
  <2>3. QED BY <1>2, <1>6, <2>1, <2>2 DEF SleepInv
<1>8. NoMissedWakeup'
  <2>1. \A q \in Proc : pc'[q] # "wsleep" /\ (pc'[q] = "rsleep" => pc[q] = "rsleep")
    BY <1>2, <1>3
  <2>2. Used = 0 => Used' = 0
    BY <1>1
  <2>3. QED BY <1>2, <2>1, <2>2, Zenon DEF FtInv, NoMissedWakeup
<1>9. QED BY <1>1, <1>4, <1>5, <1>7, <1>8, Zenon DEF FtInv

LEMMA SleepStep ==
    ASSUME FtInv, NEW p \in Proc, PipeSleep(p), UNCHANGED fileVars PROVE FtInv'
<1>1. FtTypeOK'
  BY Zenon DEF PipeSleep, fileVars, FtInv, FtTypeOK
<1>2. /\ UNCHANGED <<allocated, readopen, writeopen, nread, nwrite, unseen, ref, type, ofile, hand, ff>>
      /\ plock = p /\ plock' = NoProc
  BY Zenon DEF PipeSleep, fileVars
<1>3. /\ pc[p] \in {"rgoing", "wgoing"}
      /\ \A q \in Proc : q # p => pc[q] \notin {"rgoing", "wgoing"} /\ plock # q
  BY <1>2, Zenon DEF FtInv, SleepInv
<1>4. /\ pc'[p] = IF pc[p] = "rgoing" THEN "rsleep" ELSE "wsleep"
      /\ \A q \in Proc : q # p => pc'[q] = pc[q]
  BY Zenon DEF PipeSleep, FtInv, FtTypeOK
<1>5. \A f \in File : Counted(f)'
  BY <1>2, CountFrame, Zenon DEF FtInv
<1>6. FileInv'
  <2>1. \A q \in Proc :
            /\ pc[q] \in Busy \/ pc'[q] \in Busy => pc'[q] = pc[q]
            /\ pc'[q] = "none" => pc[q] = "none"
            /\ pc'[q] \in Reading => pc[q] \in Reading
            /\ pc'[q] \in Writing => pc[q] \in Writing
    BY <1>3, <1>4, Zenon DEF Reading, Writing, Busy
  <2>2. QED BY <1>2, <2>1, FileFrame, Zenon DEF FtInv
<1>7. Used' = Used
  BY <1>2, Zenon DEF Used
<1>8. SleepInv'
  <2>1. \A q \in Proc : plock' # q /\ pc'[q] \notin {"rgoing", "wgoing"}
    BY <1>2, <1>3, <1>4, PipeAssumption
  <2>2. QED BY <1>7, <2>1, Zenon DEF FtInv, SleepInv
<1>9. nread = nwrite => Used = 0
  BY PipeAssumption DEF Used, FtInv, FtTypeOK
<1>10. NoMissedWakeup'
  <2>1. /\ pc'[p] = "wsleep" => Used = PIPESIZE /\ readopen
        /\ pc'[p] = "rsleep" => Used = 0 /\ writeopen
    BY <1>3, <1>4, <1>9 DEF FtInv, SleepInv
  <2>2. QED BY <1>2, <1>4, <1>7, <2>1, Zenon DEF FtInv, NoMissedWakeup
<1>11. QED BY <1>1, <1>5, <1>6, <1>8, <1>10, Zenon DEF FtInv

\* What pipewrite() has still to write is a sequence of bytes.
LEMMA WriteTypes ==
    ASSUME FtInv, NEW p \in Proc, pipewrite(p), UNCHANGED fileVars,
           NEW k \in Nat, k = Least(Len(todo[p]), PIPESIZE - Used)
    PROVE  /\ FtTypeOK' /\ Used' = Used + k /\ k <= Len(todo[p]) /\ Used' <= PIPESIZE
           /\ k # Len(todo[p]) => Used' = PIPESIZE
<1> DEFINE s == todo[p]
<1>0. Used \in 0..PIPESIZE /\ PIPESIZE \in Nat \ {0} /\ s \in Seq(Byte) /\ Len(s) \in Nat
  BY UsedType, PipeAssumption DEF FtInv, FtTypeOK, SleepInv
<1>1. /\ k <= Len(s) /\ Used + k <= PIPESIZE
      /\ k # Len(s) => Used + k = PIPESIZE
  BY <1>0 DEF Least
<1>2. nwrite' = (nwrite + k) % WORD /\ nread' = nread
  BY Zenon DEF pipewrite
<1>3. nwrite' \in 0..(WORD - 1) /\ Used' = Used + k
  <2>1. nread \in 0..(WORD - 1) /\ nwrite \in 0..(WORD - 1)
    BY Zenon DEF FtInv, FtTypeOK
  <2>2. ((nwrite - nread) % WORD) + k < WORD
    BY <1>0, <1>1, PipeAssumption DEF Used
  <2>3. /\ (((nwrite + k) % WORD) - nread) % WORD = ((nwrite - nread) % WORD) + k
        /\ (nwrite + k) % WORD \in 0..(WORD - 1)
    BY <2>1, <2>2, WriteUsed, Zenon
  <2>4. Used' = (((nwrite + k) % WORD) - nread) % WORD /\ Used = (nwrite - nread) % WORD
    BY <1>2, Zenon DEF Used
  <2>5. QED BY <1>2, <2>3, <2>4, Zenon
<1>4. data' \in [0..(PIPESIZE - 1) -> Byte]
  <2> DEFINE at == [i \in 1..k |-> (nwrite + i - 1) % PIPESIZE]
  <2>1. data' = [j \in 0..(PIPESIZE - 1) |->
                    IF \E i \in 1..k : at[i] = j
                    THEN s[CHOOSE i \in 1..k : at[i] = j] ELSE data[j]]
    BY Zenon DEF pipewrite
  <2>2. \A i \in 1..k : s[i] \in Byte
    BY <1>0, <1>1
  <2>3. \A j \in 0..(PIPESIZE - 1) : data[j] \in Byte
    BY Zenon DEF FtInv, FtTypeOK
  <2> HIDE DEF at
  <2>4. \A j : (\E i \in 1..k : at[i] = j) => (CHOOSE i \in 1..k : at[i] = j) \in 1..k
    BY Zenon
  <2> HIDE DEF s
  <2>5. \A j : (\E i \in 1..k : at[i] = j) => s[CHOOSE i \in 1..k : at[i] = j] \in Byte
    BY <2>2, <2>4, Zenon
  <2>6. QED BY <2>1, <2>3, <2>5, Zenon
<1>5. todo' \in [Proc -> Seq(Byte)]
  <2>1. SubSeq(s, k + 1, Len(s)) \in Seq(Byte)
    <3>1. \A i \in (k + 1)..Len(s) : s[i] \in Byte
      BY <1>0
    <3>2. QED BY <1>0, <3>1
  <2>2. \E t \in Seq(Byte) : todo' = [todo EXCEPT ![p] = t]
    <3>1. <<>> \in Seq(Byte)
      OBVIOUS
    <3>2. \/ todo' = [todo EXCEPT ![p] = <<>>]
          \/ todo' = [todo EXCEPT ![p] = SubSeq(s, k + 1, Len(s))]
      BY Zenon DEF pipewrite
    <3>3. QED BY <2>1, <3>1, <3>2, Zenon
  <2>3. QED BY <2>2 DEF FtInv, FtTypeOK
<1>6. /\ pc' \in [Proc -> {"none", "user", "pipe", "pipe2", "bad", "close", "read", "rgoing",
                           "rsleep", "ret", "write", "wgoing", "wsleep"}]
      /\ plock' \in Proc \cup {NoProc} /\ unseen' \in BOOLEAN
  BY Zenon DEF pipewrite, WakeReaders, FtInv, FtTypeOK
<1>7. FtTypeOK'
  BY <1>2, <1>3, <1>4, <1>5, <1>6, Zenon DEF pipewrite, fileVars, FtInv, FtTypeOK
<1>8. QED BY <1>0, <1>1, <1>3, <1>7

LEMMA PipewriteStep ==
    ASSUME FtInv, NEW p \in Proc, pipewrite(p), UNCHANGED fileVars PROVE FtInv'
<1>0. PICK k \in Nat : k = Least(Len(todo[p]), PIPESIZE - Used)
  BY UsedType, PipeAssumption DEF FtInv, FtTypeOK, SleepInv, Least
<1>1. /\ FtTypeOK' /\ Used' = Used + k /\ k <= Len(todo[p]) /\ Used' <= PIPESIZE
      /\ k # Len(todo[p]) => Used' = PIPESIZE
  BY <1>0, WriteTypes, Zenon
<1>2. /\ UNCHANGED <<allocated, readopen, writeopen, nread, ref, type, ofile, hand, ff>>
      /\ pc[p] = "write" /\ plock = NoProc
  BY Zenon DEF pipewrite, fileVars
\* The call fails, is done, or goes to sleep.
<1>3. \/ /\ plock' = NoProc /\ pc'[p] = "user" /\ unseen' = (unseen \/ k > 0)
         /\ \A q \in Proc : q # p => pc'[q] = pc[q]
      \/ /\ plock' = NoProc /\ pc'[p] = "user"
         /\ \A q \in Proc : q # p => pc'[q] = IF pc[q] = "rsleep" THEN "read" ELSE pc[q]
      \/ /\ plock' = p /\ pc'[p] = "wgoing" /\ k # Len(todo[p]) /\ readopen
         /\ \A q \in Proc : q # p => pc'[q] = IF pc[q] = "rsleep" THEN "read" ELSE pc[q]
  BY <1>0, Zenon DEF pipewrite, WakeReaders, FtInv, FtTypeOK
<1>4. \A f \in File : Counted(f)'
  BY <1>2, CountFrame, Zenon DEF FtInv
<1>5. FileInv'
  <2>1. \A q \in Proc :
            /\ pc[q] \in Busy \/ pc'[q] \in Busy => pc'[q] = pc[q]
            /\ pc'[q] = "none" => pc[q] = "none"
            /\ pc'[q] \in Reading => pc[q] \in Reading
            /\ pc'[q] \in Writing => pc[q] \in Writing
    BY <1>2, <1>3, Zenon DEF Reading, Writing, Busy
  <2>2. QED BY <1>2, <2>1, FileFrame, Zenon DEF FtInv
<1>6. \A q \in Proc : plock # q /\ pc[q] \notin {"rgoing", "wgoing"}
  BY <1>2, PipeAssumption, Zenon DEF FtInv, SleepInv
<1>7. SleepInv'
  <2>1. /\ \A q \in Proc : plock' = q <=> pc'[q] \in {"rgoing", "wgoing"}
        /\ \A q \in Proc : pc'[q] # "rgoing"
        /\ \A q \in Proc : pc'[q] = "wgoing" => k # Len(todo[p]) /\ readopen
    BY <1>2, <1>3, <1>6, PipeAssumption
  <2>2. \A q \in Proc : pc'[q] = "wgoing" => Used' = PIPESIZE /\ readopen'
    BY <1>1, <1>2, <2>1, Zenon
  <2>3. QED BY <1>1, <2>1, <2>2, Zenon DEF SleepInv
<1>8. NoMissedWakeup'
  <2>1. Used \in Nat /\ PIPESIZE \in Nat
    BY UsedType, PipeAssumption DEF FtInv
  <2>2. Used = PIPESIZE => Used' = PIPESIZE
    BY <1>1, <2>1
  <2>3. Used = 0 => Used' = 0 \/ k > 0
    BY <1>1, <2>1
  <2>4. \A q \in Proc : pc'[q] = "wsleep" => pc[q] = "wsleep"
    BY <1>2, <1>3
  <2>5. \A q \in Proc : pc'[q] = "rsleep" =>
            pc[q] = "rsleep" /\ (unseen' = (unseen \/ k > 0))
    BY <1>2, <1>3
  <2>6. QED BY <1>2, <2>2, <2>3, <2>4, <2>5, Zenon DEF FtInv, NoMissedWakeup
<1>9. QED BY <1>1, <1>4, <1>5, <1>7, <1>8, Zenon DEF FtInv

-----------------------------------------------------------------------------
LEMMA FtInitInv == FtInit => FtInv
<1> SUFFICES ASSUME FtInit PROVE FtInv
  BY Zenon
<1>0. console \in File /\ 0 \in Fd
  BY FileTableAssumption DEF console, File, Fd
<1>1. FtTypeOK
  <2>1. 0 \in 0..(WORD - 1)
    BY PipeAssumption
  <2>2. data \in [0..(PIPESIZE - 1) -> Byte]
    BY JunkType, Zenon DEF FtInit
  <2>3. todo \in [Proc -> Seq(Byte)] /\ out \in [Proc -> Seq(Byte)]
    BY DEF FtInit
  <2>4. pc \in [Proc -> {"none", "user", "pipe", "pipe2", "bad", "close", "read", "rgoing",
                        "rsleep", "ret", "write", "wgoing", "wsleep"}]
    BY Zenon DEF FtInit
  <2>5. ref \in [File -> Nat] /\ nbytes \in [Proc -> Nat]
    BY DEF FtInit
  <2>6. /\ killed \in [Proc -> BOOLEAN] /\ exiting \in [Proc -> BOOLEAN]
        /\ type \in [File -> {"none", "inode", "r", "w"}] /\ ff \in [Proc -> {"none", "r", "w"}]
        /\ hand \in [Proc -> [0..1 -> File \cup {NoFile}]]
    BY Zenon DEF FtInit, Empty
  <2>7. ofile \in [Proc -> [Fd -> File \cup {NoFile}]]
    BY <1>0, Zenon DEF FtInit
  <2>8. QED BY <2>1, <2>2, <2>3, <2>4, <2>5, <2>6, <2>7, Zenon DEF FtInit, FtTypeOK
<1>2. \A p \in Proc, i \in 0..1 : hand[p][i] = NoFile
  BY Zenon DEF FtInit, Empty
<1>3. \A p \in Proc, d \in Fd :
          ofile[p][d] = IF p = initproc /\ d = 0 THEN console ELSE NoFile
  BY Zenon DEF FtInit
<1>4. \A f \in File : Counted(f)
  <2>1. ASSUME NEW f \in File PROVE Counted(f)
    <3>1. InHand(f) = {}
      BY <1>2, Numbers, Zenon DEF InHand
    <3>2. Cardinality(InHand(f)) = 0
      BY <3>1, FS_EmptySet, Zenon
    <3>3. CASE f = console
      <4>1. RefsTo(f) = {<<initproc, 0>>}
        BY <1>0, <1>3, <3>3, FileTableAssumption, Numbers DEF RefsTo
      <4>2. Cardinality(RefsTo(f)) = 1
        BY <4>1, FS_Singleton, Zenon
      <4>3. QED BY <3>2, <3>3, <4>2 DEF Counted, FtInit
    <3>4. CASE f # console
      <4>1. RefsTo(f) = {}
        BY <1>3, <3>4, Numbers, Zenon DEF RefsTo
      <4>2. Cardinality(RefsTo(f)) = 0
        BY <4>1, FS_EmptySet, Zenon
      <4>3. QED BY <3>2, <3>4, <4>2 DEF Counted, FtInit
    <3>5. QED BY <3>3, <3>4, Zenon
  <2>2. QED BY <2>1, Zenon
<1>5. FileInv
  <2>1. HandInv /\ OwnInv
    <3>0. 0 \in 0..1 /\ 1 \in 0..1
      OBVIOUS
    <3>1. \A p \in Proc : hand[p][0] = NoFile /\ hand[p][1] = NoFile
      BY <1>2, <3>0, Zenon
    <3>2. \A p \in Proc : pc[p] \in {"user", "none"} /\ ff[p] = "none"
      BY Zenon DEF FtInit
    <3>3. QED BY <1>2, <3>1, <3>2 DEF HandInv, OwnInv
  <2>2. DescInv
    BY <1>0, <1>3 DEF FtInit, DescInv
  <2>3. EndInv
    BY Zenon DEF FtInit, EndInv, IsEnd
  <2>4. UserInv
    BY Zenon DEF FtInit, UserInv, Reading, Writing
  <2>5. QED BY <2>1, <2>2, <2>3, <2>4, Zenon DEF FileInv
<1>6. Used = 0
  BY PipeAssumption DEF FtInit, Used
<1>7. SleepInv /\ NoMissedWakeup
  BY <1>6, PipeAssumption DEF FtInit, SleepInv, NoMissedWakeup
<1>8. QED BY <1>1, <1>4, <1>5, <1>7 DEF FtInv

LEMMA FtStep == FtInv /\ [FtNext]_ftVars => FtInv'
<1> SUFFICES ASSUME FtInv, [FtNext]_ftVars PROVE FtInv'
  OBVIOUS
<1>1. CASE FtNext
  <2>1. PICK p \in Proc :
            \/ \E f \in File : sys_pipe(p, f)
            \/ \E f \in File : filealloc(p, f)
            \/ \E d0, d1 \in Fd : pipealloc(p, d0, d1)
            \/ pipenofd(p) \/ pipebad(p)
            \/ \E i \in 0..1 : badclose(p, i)
            \/ \E d \in Dups, d1 \in Fd : sys_dup(p, d, d1)
            \/ \E d \in Fd : sys_close(p, d)
            \/ FilePipeclose(p)
            \/ \E q \in Proc : fork(p, q)
            \/ exit(p) \/ exited(p)
            \/ kill(p)
            \/ \E d \in Fd, n \in Reads : sys_read(p, d, n)
            \/ \E d \in Fd, s \in Writes : sys_write(p, d, s)
            \/ PipeStep(p) \/ ReadReturns(p)
    BY <1>1, Zenon DEF FtNext
  <2>2. CASE PipeStep(p)
    <3>1. UNCHANGED fileVars /\ nbytes[p] \in Nat
      BY <2>2, Zenon DEF PipeStep, FtInv, FtTypeOK
    <3>2. pipereadEmpty(p) \/ piperead(p, nbytes[p]) \/ pipewrite(p) \/ PipeSleep(p)
      BY <2>2, Zenon DEF PipeStep
    <3>3. QED BY <3>1, <3>2, ReadEmptyStep, PipereadStep, PipewriteStep, SleepStep
  <2>3. Dups \subseteq Fd
    BY FileTableAssumption, Zenon DEF Fd
  <2>4. CASE \E d \in Dups, d1 \in Fd : sys_dup(p, d, d1)
    BY <2>3, <2>4, SysDupStep, Zenon
  <2>5. QED BY <2>1, <2>2, <2>4, SysPipeStep, FileallocStep, PipeallocStep, PipenofdStep,
               PipebadStep, BadcloseStep, SysCloseStep, FilePipecloseStep, ForkStep, ExitStep, ExitedStep, KillStep, CallStep, ReturnStep
<1>2. CASE UNCHANGED ftVars
  <2>1. UNCHANGED <<allocated, data, readopen, writeopen, nread, nwrite, plock, unseen, pc, todo,
                    killed, out, ref, type, ofile, hand, ff, nbytes, exiting>>
    BY <1>2, Zenon DEF ftVars, pipeVars, fileVars
  <2>2. FtTypeOK'
    BY <2>1, Zenon DEF FtInv, FtTypeOK
  <2>3. QED BY <2>1, <2>2, CountFrame, FileFrame, SleepFrame, Zenon DEF FtInv
<1>3. QED BY <1>1, <1>2, Zenon

\* f->ref of file.c is the number of references to the struct file, whatever
\* processes fork, duplicate, close and exit, and whatever sys_pipe() gives up.
THEOREM FileRefs == FtSpec => []RefCounts
<1>1. FtInv => RefCounts
  BY Zenon DEF FtInv, Counted, RefsTo, InHand, RefCounts
<1>2. QED BY FtInitInv, FtStep, <1>1, PTL DEF FtSpec

\* fileclose() calls pipeclose() once for each end, when nobody can be in
\* piperead() or pipewrite() with it or has a descriptor for it.
THEOREM FileNoUseAfterFree == FtSpec => []NoUseAfterFree
<1>1. FtInv => NoUseAfterFree
  <2> SUFFICES ASSUME FtInv PROVE NoUseAfterFree
    BY Zenon
  <2>1. \A p \in Proc : (Holds(p, "r") => readopen) /\ (Holds(p, "w") => writeopen)
    <3>1. \A q \in Proc, d \in Fd : ofile[q][d] # NoFile => ofile[q][d] \in File
      BY DEF FtInv, FtTypeOK
    <3>2. QED BY <3>1, Zenon DEF Holds, FtInv, FileInv, EndInv
  <2>2. QED BY <2>1, Zenon DEF FtInv, FileInv, EndInv, UserInv, Reading, Writing, NoUseAfterFree
<1>2. QED BY FtInitInv, FtStep, <1>1, PTL DEF FtSpec

\* The wakeup() calls of pipe.c suffice: a process that sleeps in pipewrite()
\* or piperead() has nothing to do, but for the bytes of a killed writer.
THEOREM PipeWakeups == FtSpec => []NoMissedWakeup
<1>1. FtInv => NoMissedWakeup
  BY Zenon DEF FtInv
<1>2. QED BY FtInitInv, FtStep, <1>1, PTL DEF FtSpec

-----------------------------------------------------------------------------
(* The ring buffer is a channel                                            *)

\* A read() in progress has not returned anything yet.
OutInv == \A p \in Proc : pc[p] # "ret" => out[p] = <<>>

\* A multiple that is not 0 is no smaller.
LEMMA Grow ==
    ASSUME NEW d \in Int, NEW n \in Nat, d >= 1 PROVE d * n >= n
<1>1. d - 1 \in Nat
  OBVIOUS
<1>2. (d - 1) * n >= 0
  BY <1>1
<1>3. (d - 1) * n = d * n - n
  OBVIOUS
<1>4. QED BY <1>2, <1>3

\* The remainder is the one there is below n.
LEMMA Remainder ==
    ASSUME NEW n \in Nat \ {0}, NEW q \in Int, NEW r \in 0..(n - 1)
    PROVE  (q * n + r) % n = r
<1> DEFINE x == q * n + r
<1>1. x \in Int
  OBVIOUS
<1> HIDE DEF x
<1>2. x % n \in 0..(n - 1) /\ x = n * (x \div n) + (x % n) /\ x \div n \in Int
  BY <1>1
<1> DEFINE k == x \div n
           m == x % n
<1>3. k \in Int /\ m \in 0..(n - 1) /\ x = n * k + m
  BY <1>2
<1> HIDE DEF k, m
<1>4. (q - k) * n = m - r
  BY <1>3 DEF x
<1>5. q = k
  <2>1. CASE q - k >= 1
    <3>1. (q - k) * n >= n
      BY <1>3, <2>1, Grow
    <3>2. QED BY <1>3, <1>4, <3>1
  <2>2. CASE k - q >= 1
    <3>1. (k - q) * n >= n
      BY <1>3, <2>2, Grow
    <3>2. (k - q) * n = 0 - (q - k) * n
      BY <1>3
    <3>3. QED BY <1>3, <1>4, <3>1, <3>2
  <2>3. QED BY <1>3, <2>1, <2>2
<1>6. m = r
  BY <1>3, <1>4, <1>5
<1>7. QED BY <1>6 DEF m, x

\* Positions less than PIPESIZE apart are in different slots.
LEMMA Apart ==
    ASSUME NEW x \in Nat, NEW y \in Nat, x < y, y < x + PIPESIZE
    PROVE  x % PIPESIZE # y % PIPESIZE
<1> DEFINE n == PIPESIZE
<1>0. n \in Nat \ {0} /\ y < x + n
  BY PipeAssumption
<1> HIDE DEF n
<1> DEFINE k == x \div n
           r == x % n
           j == y \div n
           t == y % n
<1>1. /\ k \in Int /\ r \in 0..(n - 1) /\ x = n * k + r
      /\ j \in Int /\ t \in 0..(n - 1) /\ y = n * j + t
  BY <1>0
<1> HIDE DEF k, r, j, t
<1>2. SUFFICES ASSUME r = t PROVE FALSE
  BY DEF r, t, n
<1>3. (j - k) * n = y - x
  BY <1>0, <1>1, <1>2
<1>4. CASE j - k >= 1
  <2>1. (j - k) * n >= n
    BY <1>0, <1>1, <1>4, Grow
  <2>2. QED BY <1>0, <1>3, <2>1
<1>5. CASE k - j >= 0
  <2>1. (k - j) * n >= 0
    BY <1>0, <1>1, <1>5
  <2>2. (k - j) * n = 0 - (j - k) * n
    BY <1>0, <1>1
  <2>3. QED BY <1>0, <1>3, <2>1, <2>2
<1>6. QED BY <1>1, <1>4, <1>5

\* A counter that wraps at WORD stays in its slot, PIPESIZE being a divisor.
LEMMA Slot ==
    ASSUME NEW x \in Nat, NEW y \in Nat
    PROVE  ((x % WORD) + y) % PIPESIZE = (x + y) % PIPESIZE
<1> DEFINE n == PIPESIZE
           w == WORD
<1>0. n \in Nat \ {0} /\ w \in Nat \ {0} /\ w % n = 0
  BY PipeAssumption
<1> HIDE DEF n, w
<1> DEFINE k == x \div w
           r == x % w
           m == w \div n
<1>1. /\ k \in Nat /\ r \in 0..(w - 1) /\ x = w * k + r
      /\ m \in Nat /\ w = n * m
  BY <1>0
<1> HIDE DEF k, r, m
<1> DEFINE a == r + y
           j == a \div n
           t == a % n
<1>2. a \in Nat
  BY <1>1
<1>3. a = r + y
  OBVIOUS
<1> HIDE DEF a
<1>4. j \in Int /\ t \in 0..(n - 1) /\ a = n * j + t
  BY <1>0, <1>2
<1> HIDE DEF j, t
<1>5. x + y = (m * k + j) * n + t
  <2>1. w * k = (m * k) * n
    BY <1>0, <1>1
  <2>2. (m * k + j) * n = (m * k) * n + n * j
    BY <1>0, <1>1, <1>4
  <2>3. QED BY <1>0, <1>1, <1>3, <1>4, <2>1, <2>2
<1>6. m * k + j \in Int
  BY <1>1, <1>4
<1>7. (x + y) % n = t
  BY <1>0, <1>4, <1>5, <1>6, Remainder
<1>8. QED BY <1>3, <1>7 DEF t, r, n, w

\* Sequences are equal that have the same length and elements.
LEMMA SameSeq ==
    ASSUME NEW S, NEW s \in Seq(S), NEW t \in Seq(S), Len(s) = Len(t),
           \A i \in 1..Len(s) : s[i] = t[i]
    PROVE  s = t
  OBVIOUS

\* A part of a sequence.
LEMMA SliceSeq ==
    ASSUME NEW S, NEW s \in Seq(S), NEW m \in Nat \ {0}, NEW n \in 0..Len(s), m <= n + 1
    PROVE  /\ SubSeq(s, m, n) \in Seq(S) /\ Len(SubSeq(s, m, n)) = n - m + 1
           /\ \A i \in 1..(n - m + 1) : SubSeq(s, m, n)[i] = s[m + i - 1]
  OBVIOUS

\* The write counter is Used slots behind the read counter.
LEMMA WriteSlot ==
    ASSUME FtTypeOK, NEW y \in Nat
    PROVE  (nwrite + y) % PIPESIZE = (nread + Used + y) % PIPESIZE
<1>0. WORD \in Nat /\ WORD > 0 /\ nread \in 0..(WORD - 1) /\ nwrite \in 0..(WORD - 1)
  BY PipeAssumption DEF FtTypeOK
<1>1. nwrite = (nread + Used) % WORD
  <2>1. CASE nread <= nwrite
    <3>1. Used = nwrite - nread
      BY <1>0, <2>1 DEF Used
    <3>2. QED BY <1>0, <3>1
  <2>2. CASE nwrite < nread
    <3>1. Used = nwrite - nread + WORD
      BY <1>0, <2>2 DEF Used
    <3>2. QED BY <1>0, <3>1
  <2>3. QED BY <1>0, <2>1, <2>2
<1>2. nread + Used \in Nat
  BY <1>0, UsedType
<1>3. (((nread + Used) % WORD) + y) % PIPESIZE = (nread + Used + y) % PIPESIZE
  BY <1>2, Slot, Zenon
<1>4. QED BY <1>1, <1>3, Zenon

\* The m bytes of the ring from position a on.
Slice(ring, a, m) == [i \in 1..m |-> ring[(a + i - 1) % PIPESIZE]]

\* It is a sequence of m bytes.
LEMMA SliceIs ==
    ASSUME NEW m \in Nat, NEW a \in Nat, NEW ring \in [0..(PIPESIZE - 1) -> Byte]
    PROVE  /\ Slice(ring, a, m) \in Seq(Byte) /\ Len(Slice(ring, a, m)) = m
           /\ \A i \in 1..m : Slice(ring, a, m)[i] = ring[(a + i - 1) % PIPESIZE]
<1>1. PIPESIZE \in Nat \ {0}
  BY PipeAssumption
<1>2. \A i \in 1..m : (a + i - 1) % PIPESIZE \in 0..(PIPESIZE - 1)
  BY <1>1
<1>3. \A i \in 1..m : ring[(a + i - 1) % PIPESIZE] \in Byte
  BY <1>2, Zenon
<1>4. QED BY <1>3 DEF Slice

\* A piperead() takes the bytes it returns off the front of the queue.
LEMMA ReceiveStep ==
    ASSUME FtInv, OutInv, NEW p \in Proc, NEW n \in Nat, piperead(p, n), UNCHANGED fileVars
    PROVE  Chan!Receive(p) \/ Chan!Return(p)
<1>0. /\ Used \in Nat /\ nread \in Nat /\ FtTypeOK
      /\ data \in [0..(PIPESIZE - 1) -> Byte]
  <2>1. FtTypeOK /\ nread \in 0..(WORD - 1) /\ data \in [0..(PIPESIZE - 1) -> Byte]
    BY Zenon DEF FtInv, FtTypeOK
  <2>2. Used \in 0..(WORD - 1)
    BY <2>1, UsedType, Zenon
  <2>3. QED BY <2>1, <2>2
<1>1. PICK k \in Nat : k = Least(n, Used)
  BY <1>0 DEF Least
<1>2. FtTypeOK' /\ k <= Used /\ Used' = Used - k
  BY <1>1, PiperTypes, Zenon
<1>3. pc[p] = "read" /\ readopen /\ allocated /\ out[p] = <<>>
  <2>1. pc[p] = "read" /\ Holds(p, "r")
    BY Zenon DEF piperead, FtInv, FileInv, UserInv, Reading
  <2>2. \A d \in Fd : ofile[p][d] # NoFile => ofile[p][d] \in File
    BY DEF FtInv, FtTypeOK
  <2>3. readopen
    BY <2>1, <2>2, Zenon DEF Holds, FtInv, FileInv, EndInv
  <2>4. QED BY <2>1, <2>3 DEF FtInv, FileInv, EndInv, OutInv
<1>4. /\ UNCHANGED <<readopen, writeopen, allocated, data>> /\ nread' = (nread + k) % WORD
      /\ out' = [out EXCEPT ![p] = [i \in 1..k |-> data[(nread + i - 1) % PIPESIZE]]]
  BY <1>1, Zenon DEF piperead
<1>5. /\ Queue \in Seq(Byte) /\ Len(Queue) = Used
      /\ \A i \in 1..Used : Queue[i] = data[(nread + i - 1) % PIPESIZE]
  <2>1. Queue = Slice(data, nread, Used)
    BY <1>3, Zenon DEF Queue, Slice
  <2>2. QED BY <1>0, <2>1, SliceIs, Zenon
<1>6. /\ Queue' \in Seq(Byte) /\ Len(Queue') = Used - k
      /\ \A i \in 1..(Used - k) : Queue'[i] = data[(((nread + k) % WORD) + i - 1) % PIPESIZE]
  <2>1. Queue' = Slice(data, (nread + k) % WORD, Used - k)
    BY <1>2, <1>3, <1>4, Zenon DEF Queue, Slice
  <2>2. Used - k \in Nat /\ (nread + k) % WORD \in Nat
    BY <1>0, <1>2, PipeAssumption
  <2>3. QED BY <1>0, <2>1, <2>2, SliceIs, Zenon
<1>7. \A i \in 1..(Used - k) : Queue'[i] = Queue[k + i]
  <2>1. SUFFICES ASSUME NEW i \in 1..(Used - k) PROVE Queue'[i] = Queue[k + i]
    BY Zenon
  <2>2. (((nread + k) % WORD) + (i - 1)) % PIPESIZE = ((nread + k) + (i - 1)) % PIPESIZE
    <3>1. nread + k \in Nat /\ i - 1 \in Nat
      BY <1>0
    <3>2. QED BY <3>1, Slot, Zenon
  <2>3. ((nread + k) % WORD) \in Int
    BY <1>0, PipeAssumption
  <2>4. (((nread + k) % WORD) + i - 1) % PIPESIZE = (nread + (k + i) - 1) % PIPESIZE
    BY <1>0, <2>2, <2>3
  <2>5. k + i \in 1..Used
    BY <1>0
  <2>6. QED BY <1>5, <1>6, <2>4, <2>5, Zenon
<1>8. Queue' = SubSeq(Queue, k + 1, Len(Queue))
  <2>1. /\ SubSeq(Queue, k + 1, Used) \in Seq(Byte) /\ Len(SubSeq(Queue, k + 1, Used)) = Used - k
        /\ \A i \in 1..(Used - k) : SubSeq(Queue, k + 1, Used)[i] = Queue[k + i]
    BY <1>0, <1>2, <1>5, SliceSeq
  <2>2. QED BY <1>5, <1>6, <1>7, <2>1, SameSeq
<1>9. [i \in 1..k |-> data[(nread + i - 1) % PIPESIZE]] = SubSeq(Queue, 1, k)
  <2>1. /\ SubSeq(Queue, 1, k) \in Seq(Byte) /\ Len(SubSeq(Queue, 1, k)) = k
        /\ \A i \in 1..k : SubSeq(Queue, 1, k)[i] = Queue[i]
    BY <1>0, <1>2, <1>5, SliceSeq
  <2>2. \A i \in 1..k : Queue[i] = data[(nread + i - 1) % PIPESIZE] /\ Queue[i] \in Byte
    BY <1>0, <1>2, <1>5
  <2> DEFINE t == [i \in 1..k |-> data[(nread + i - 1) % PIPESIZE]]
  <2>3. t \in Seq(Byte) /\ Len(t) = k /\ \A i \in 1..k : t[i] = Queue[i]
    BY <2>2
  <2> HIDE DEF t
  <2>4. t = SubSeq(Queue, 1, k)
    BY <2>1, <2>3, SameSeq
  <2>5. QED BY <2>4 DEF t
<1>10. CASE k >= 1
  <2>1. k \in 1..Len(Queue)
    BY <1>2, <1>5, <1>10
  <2>2. QED BY <1>3, <1>4, <1>8, <1>9, <2>1, Zenon DEF Chan!Receive
<1>11. CASE k = 0
  <2>1. SubSeq(Queue, 1, 0) = <<>>
    BY <1>5
  <2>2. Queue' = Queue
    BY <1>5, <1>6, <1>7, <1>11, SameSeq
  <2>3. QED BY <1>4, <1>9, <1>11, <2>1, <2>2, Zenon DEF Chan!Return
<1>12. QED BY <1>10, <1>11

\* A pipewrite() adds its bytes at the back, and overwrites no byte of the queue.
LEMMA SendStep ==
    ASSUME FtInv, NEW p \in Proc, pipewrite(p), UNCHANGED fileVars
    PROVE  Chan!Send \/ UNCHANGED Chan!chanVars
<1> DEFINE s == todo[p]
<1>0. /\ Used \in Nat /\ Used <= PIPESIZE /\ nread \in Nat /\ nwrite \in Nat /\ FtTypeOK
      /\ data \in [0..(PIPESIZE - 1) -> Byte] /\ s \in Seq(Byte) /\ PIPESIZE \in Nat \ {0}
  BY UsedType, PipeAssumption DEF FtInv, FtTypeOK, SleepInv
<1>a. Used \in Nat /\ nread \in Nat /\ data \in [0..(PIPESIZE - 1) -> Byte]
  BY <1>0, Zenon
<1>1. PICK k \in Nat : k = Least(Len(s), PIPESIZE - Used)
  BY <1>0 DEF Least
<1>2. FtTypeOK' /\ Used' = Used + k /\ k <= Len(s) /\ Used + k <= PIPESIZE
  BY <1>1, WriteTypes, Zenon
<1>3. pc[p] = "write" /\ writeopen /\ allocated
  <2>1. pc[p] = "write" /\ Holds(p, "w")
    BY Zenon DEF pipewrite, FtInv, FileInv, UserInv, Writing
  <2>2. \A d \in Fd : ofile[p][d] # NoFile => ofile[p][d] \in File
    BY DEF FtInv, FtTypeOK
  <2>3. writeopen
    BY <2>1, <2>2, Zenon DEF Holds, FtInv, FileInv, EndInv
  <2>4. QED BY <2>1, <2>3 DEF FtInv, FileInv, EndInv
<1> DEFINE at == [i \in 1..k |-> (nwrite + i - 1) % PIPESIZE]
<1>b. UNCHANGED <<readopen, writeopen, allocated, nread, out>>
  BY Zenon DEF pipewrite
<1>4. data' = [j \in 0..(PIPESIZE - 1) |->
                  IF \E i \in 1..k : at[i] = j
                  THEN s[CHOOSE i \in 1..k : at[i] = j] ELSE data[j]]
  BY <1>1, Zenon DEF pipewrite
<1>5. \A i \in 1..k : /\ at[i] = (nread + Used + i - 1) % PIPESIZE
                      /\ at[i] \in 0..(PIPESIZE - 1)
  <2>1. SUFFICES ASSUME NEW i \in 1..k
                 PROVE  /\ (nwrite + i - 1) % PIPESIZE = (nread + Used + i - 1) % PIPESIZE
                        /\ (nwrite + i - 1) % PIPESIZE \in 0..(PIPESIZE - 1)
    BY Zenon
  <2>2. i - 1 \in Nat
    BY <1>0
  <2>3. (nwrite + (i - 1)) % PIPESIZE = (nread + Used + (i - 1)) % PIPESIZE
    BY <1>0, <2>2, WriteSlot, Zenon
  <2>4. nwrite + (i - 1) = nwrite + i - 1 /\ nread + Used + (i - 1) = nread + Used + i - 1
    BY <1>0
  <2>5. QED BY <1>0, <2>2, <2>3, <2>4
<1> HIDE DEF at, s
<1>6. \A i, c \in 1..k : at[i] = at[c] => i = c
  <2>1. SUFFICES ASSUME NEW i \in 1..k, NEW c \in 1..k, i < c PROVE at[i] # at[c]
    BY <1>0
  <2> DEFINE x == nread + Used + i - 1
             y == nread + Used + c - 1
  <2>2. x \in Nat /\ y \in Nat /\ x < y /\ y < x + PIPESIZE
    BY <1>0, <1>2, <2>1
  <2>3. x % PIPESIZE # y % PIPESIZE
    BY <2>2, Apart
  <2>4. QED BY <1>5, <2>3, Zenon
<1>7. \A i \in 1..k : data'[(nread + Used + i - 1) % PIPESIZE] = s[i]
  <2>1. SUFFICES ASSUME NEW i \in 1..k PROVE data'[at[i]] = s[i]
    BY <1>5, Zenon
  <2>2. (CHOOSE c \in 1..k : at[c] = at[i]) = i
    BY <1>6, Zenon
  <2>3. QED BY <1>4, <1>5, <2>2, Zenon
<1>8. \A i \in 1..Used : data'[(nread + i - 1) % PIPESIZE] = data[(nread + i - 1) % PIPESIZE]
  <2>1. SUFFICES ASSUME NEW i \in 1..Used
                 PROVE  data'[(nread + i - 1) % PIPESIZE] = data[(nread + i - 1) % PIPESIZE]
    BY Zenon
  <2> DEFINE x == nread + i - 1
  <2>2. x \in Nat /\ x % PIPESIZE \in 0..(PIPESIZE - 1)
    BY <1>0
  <2>3. ASSUME NEW c \in 1..k PROVE at[c] # x % PIPESIZE
    <3> DEFINE y == nread + Used + c - 1
    <3>1. y \in Nat /\ x < y /\ y < x + PIPESIZE
      BY <1>0, <1>2
    <3>2. x % PIPESIZE # y % PIPESIZE
      BY <2>2, <3>1, Apart
    <3>3. QED BY <1>5, <3>2, Zenon
  <2>4. QED BY <1>4, <2>2, <2>3, Zenon
<1>9. /\ Queue \in Seq(Byte) /\ Len(Queue) = Used
      /\ \A i \in 1..Used : Queue[i] = data[(nread + i - 1) % PIPESIZE]
  <2>1. Queue = Slice(data, nread, Used)
    BY <1>3, Zenon DEF Queue, Slice
  <2>2. QED BY <1>a, <2>1, SliceIs, Zenon
<1>10. /\ Queue' \in Seq(Byte) /\ Len(Queue') = Used + k
       /\ \A i \in 1..(Used + k) : Queue'[i] = data'[(nread + i - 1) % PIPESIZE]
  <2>1. Queue' = Slice(data', nread, Used + k)
    BY <1>2, <1>3, <1>b, Zenon DEF Queue, Slice
  <2>2. Used + k \in Nat
    BY <1>0
  <2>3. data' \in [0..(PIPESIZE - 1) -> Byte]
    BY <1>2, Zenon DEF FtTypeOK
  <2>4. QED BY <1>a, <2>1, <2>2, <2>3, SliceIs, Zenon
<1> DEFINE t == [i \in 1..k |-> s[i]]
<1>11. t \in [1..k -> Byte] /\ t \in Seq(Byte) /\ Len(t) = k /\ \A i \in 1..k : t[i] = s[i]
  BY <1>0, <1>2
<1> HIDE DEF t
<1>12. Queue' = Queue \o t
  <2>1. /\ Queue \o t \in Seq(Byte) /\ Len(Queue \o t) = Used + k
        /\ \A i \in 1..Used : (Queue \o t)[i] = Queue[i]
        /\ \A i \in 1..k : (Queue \o t)[Used + i] = t[i]
    <3>1. /\ Queue \o t \in Seq(Byte) /\ Len(Queue \o t) = Len(Queue) + Len(t)
          /\ \A i \in 1..Len(Queue) : (Queue \o t)[i] = Queue[i]
          /\ \A i \in 1..Len(t) : (Queue \o t)[Len(Queue) + i] = t[i]
      <4>1. Queue \in Seq(Byte) /\ t \in Seq(Byte)
        BY <1>9, <1>11, Zenon
      <4>2. QED BY <4>1
    <3>2. QED BY <1>9, <1>11, <3>1, Zenon
  <2>2. ASSUME NEW i \in 1..(Used + k) PROVE Queue'[i] = (Queue \o t)[i]
    <3>1. CASE i \in 1..Used
      BY <1>8, <1>9, <1>10, <2>1, <3>1, Zenon
    <3>2. CASE i \notin 1..Used
      <4>1. PICK c \in 1..k : i = Used + c
        <5>1. i - Used \in 1..k /\ i = Used + (i - Used)
          BY <1>0, <3>2
        <5>2. QED BY <5>1
      <4>2. nread + i - 1 = nread + Used + c - 1
        BY <1>0, <4>1
      <4>3. Queue'[i] = data'[(nread + Used + c - 1) % PIPESIZE]
        BY <1>10, <4>2, Zenon
      <4>4. Queue'[i] = t[c]
        BY <1>7, <1>11, <4>3, Zenon
      <4>5. QED BY <2>1, <4>1, <4>4, Zenon
    <3>3. QED BY <3>1, <3>2
  <2>3. QED BY <1>10, <2>1, <2>2, SameSeq
<1>13. CASE k >= 1
  <2>1. k \in 1..PIPESIZE /\ Len(Queue) + k <= PIPESIZE
    BY <1>0, <1>2, <1>9, <1>13
  <2>2. QED BY <1>3, <1>b, <1>11, <1>12, <2>1, Zenon DEF Chan!Send
<1>14. CASE k = 0
  <2>1. Queue' = Queue
    BY <1>8, <1>9, <1>10, <1>14, SameSeq
  <2>2. QED BY <1>b, <2>1, Zenon DEF Chan!chanVars
<1>15. QED BY <1>13, <1>14

\* What the other steps leave alone.
LEMMA ChanFrame ==
    ASSUME UNCHANGED <<allocated, data, nread, nwrite, readopen, writeopen, out>>
    PROVE  UNCHANGED Chan!chanVars
<1>1. Used' = Used
  BY Zenon DEF Used
<1>2. Queue' = Queue
  BY <1>1, Zenon DEF Queue
<1>3. QED BY <1>2, Zenon DEF Chan!chanVars

\* sys_pipe() opens both ends of an empty channel,
LEMMA OpenStep ==
    ASSUME FtInv, NEW p \in Proc, PipeEnds(p), out' = out PROVE Chan!Open
<1>1. /\ ~allocated /\ allocated' /\ readopen' = TRUE /\ writeopen' = TRUE
      /\ nread' = 0 /\ nwrite' = 0 /\ out' = out
  BY Zenon DEF PipeEnds, PipeInit
<1>2. ~readopen /\ ~writeopen
  BY <1>1, Zenon DEF FtInv, FileInv, EndInv
<1>3. Used' = 0
  BY <1>1, PipeAssumption DEF Used
<1>4. Queue = <<>>
  BY <1>1, Zenon DEF Queue
<1>5. Queue' = <<>>
  <2>1. Queue' = [i \in 1..0 |-> data'[(nread' + i - 1) % PIPESIZE]]
    BY <1>1, <1>3, Zenon DEF Queue
  <2>2. QED BY <2>1
<1>6. QED BY <1>1, <1>2, <1>4, <1>5, Zenon DEF Chan!Open

\* and fileclose() closes one of them.
LEMMA CloseStep ==
    ASSUME FtInv, NEW p \in Proc, FilePipeclose(p) PROVE Chan!Close
<1>1. /\ IF ff[p] = "w" THEN writeopen' = FALSE /\ readopen' = readopen
                        ELSE readopen' = FALSE /\ writeopen' = writeopen
      /\ allocated' = (readopen' \/ writeopen')
      /\ readopen' \/ writeopen' => UNCHANGED <<data, nread, nwrite>>
      /\ out' = out
  BY Zenon DEF FilePipeclose, pipeclose
<1>2. (ff[p] = "w" /\ writeopen) \/ (ff[p] = "r" /\ readopen)
  <2>1. ff[p] \in {"none", "r", "w"} /\ ff[p] # "none"
    BY Zenon DEF FilePipeclose, FtInv, FtTypeOK, FileInv, HandInv
  <2>2. (ff[p] = "r" => readopen) /\ (ff[p] = "w" => writeopen)
    BY Zenon DEF FtInv, FileInv, EndInv
  <2>3. QED BY <2>1, <2>2, Zenon
<1>3. allocated
  BY <1>2, Zenon DEF FtInv, FileInv, EndInv
<1>4. readopen' \/ writeopen' => Used' = Used
  BY <1>1, Zenon DEF Used
<1>5. Queue' = IF readopen' \/ writeopen' THEN Queue ELSE <<>>
  <2>1. CASE readopen' \/ writeopen'
    BY <1>1, <1>3, <1>4, <2>1, Zenon DEF Queue
  <2>2. CASE ~(readopen' \/ writeopen')
    BY <1>1, <2>2, Zenon DEF Queue
  <2>3. QED BY <2>1, <2>2, Zenon
<1>6. QED BY <1>1, <1>2, <1>5, Zenon DEF Chan!Close

\* The steps that change nothing of the pipe that a program can see.
Unseen(p) ==
    \/ \E f \in File : sys_pipe(p, f) \/ filealloc(p, f)
    \/ pipebad(p)
    \/ \E i \in 0..1 : badclose(p, i)
    \/ \E d \in Dups, d1 \in Fd : sys_dup(p, d, d1)
    \/ \E d \in Fd : sys_close(p, d)
    \/ \E q \in Proc : fork(p, q)
    \/ exit(p) \/ exited(p) \/ kill(p)
    \/ \E d \in Fd, n \in Reads : sys_read(p, d, n)
    \/ \E d \in Fd, s \in Writes : sys_write(p, d, s)
    \/ (pipereadEmpty(p) \/ PipeSleep(p)) /\ UNCHANGED fileVars

\* They neither touch the ring nor take back what a read() has got.
LEMMA UnseenStep ==
    ASSUME FtInv, NEW p \in Proc, Unseen(p)
    PROVE  /\ UNCHANGED <<allocated, data, nread, nwrite, readopen, writeopen, out>>
           /\ \A q \in Proc : pc[q] = "ret" => pc'[q] = "ret"
<1>1. UNCHANGED <<allocated, data, nread, nwrite, readopen, writeopen, out>>
  BY Zenon DEF Unseen, sys_pipe, filealloc, pipebad, badclose, sys_dup, sys_close, fork, exit, exited, kill, sys_read,
               sys_write, pipereadEmpty, PipeSleep, pipeVars
<1>2. \A q \in Proc : pc[q] = "ret" => pc'[q] = "ret"
  <2>0. pc = [q \in Proc |-> pc[q]] /\ \A q \in Proc : plock = q => pc[q] \in {"rgoing", "wgoing"}
    BY Zenon DEF FtInv, FtTypeOK, SleepInv
  <2>1. CASE \E f \in File : sys_pipe(p, f) \/ filealloc(p, f)
    BY <2>0, <2>1, Zenon DEF sys_pipe, filealloc, Enters
  <2>2. CASE pipebad(p)
    BY <2>0, <2>2, Zenon DEF pipebad
  <2>3. CASE \E d \in Dups, d1 \in Fd : sys_dup(p, d, d1)
    BY <2>3, Zenon DEF sys_dup
  <2>4. CASE (\E d \in Fd : sys_close(p, d)) \/ \E i \in 0..1 : badclose(p, i)
    BY <2>0, <2>4, Zenon DEF sys_close, badclose, fileclose, Enters
  <2>5. CASE \E q \in Proc : fork(p, q)
    BY <2>0, <2>5, Zenon DEF fork
  <2>6. CASE exit(p) \/ exited(p)
    BY <2>0, <2>6, Zenon DEF exit, exited
  <2>7. CASE kill(p)
    BY <2>0, <2>7, Zenon DEF kill
  <2>8. CASE \/ \E d \in Fd, n \in Reads : sys_read(p, d, n)
             \/ \E d \in Fd, s \in Writes : sys_write(p, d, s)
    BY <2>0, <2>8, Zenon DEF sys_read, sys_write, Enters
  <2>9. CASE pipereadEmpty(p)
    BY <2>0, <2>9, Zenon DEF pipereadEmpty
  <2>10. CASE PipeSleep(p)
    BY <2>0, <2>10, Zenon DEF PipeSleep
  <2>11. QED BY <2>1, <2>2, <2>3, <2>4, <2>5, <2>6, <2>7, <2>8, <2>9, <2>10, Zenon DEF Unseen
<1>3. QED BY <1>1, <1>2, Zenon

\* Every step of the system is one of the channel or leaves it alone.
LEMMA ChanStep ==
    FtInv /\ OutInv /\ [FtNext]_ftVars => OutInv' /\ [Chan!ChanNext]_(Chan!chanVars)
<1> SUFFICES ASSUME FtInv, OutInv, [FtNext]_ftVars
             PROVE  OutInv' /\ [Chan!ChanNext]_(Chan!chanVars)
  BY Zenon
<1>0. /\ pc = [q \in Proc |-> pc[q]] /\ out = [q \in Proc |-> out[q]]
      /\ \A q \in Proc : nbytes[q] \in Nat
  BY Zenon DEF FtInv, FtTypeOK
<1>1. ASSUME NEW p \in Proc, Unseen(p)
      PROVE  OutInv' /\ UNCHANGED Chan!chanVars
  BY <1>1, UnseenStep, ChanFrame, Zenon DEF OutInv
<1>2. ASSUME NEW p \in Proc, pipenofd(p) \/ \E d0, d1 \in Fd : pipealloc(p, d0, d1)
      PROVE  OutInv' /\ Chan!ChanNext
  <2>1. PipeEnds(p) /\ out' = out
    BY <1>2, Zenon DEF pipealloc, pipenofd
  <2>2. \A q \in Proc : pc[q] = "ret" => pc'[q] = "ret"
    BY <1>0, <1>2, Zenon DEF pipealloc, pipenofd, PipeEnds
  <2>3. QED BY <2>1, <2>2, OpenStep, Zenon DEF OutInv, Chan!ChanNext
<1>3. ASSUME NEW p \in Proc, FilePipeclose(p)
      PROVE  OutInv' /\ Chan!ChanNext
  <2>1. out' = out /\ \A q \in Proc : pc[q] = "ret" => pc'[q] = "ret"
    BY <1>0, <1>3, Zenon DEF FilePipeclose, pipeclose, WakeReaders, WakeWriters
  <2>2. QED BY <1>3, <2>1, CloseStep, Zenon DEF OutInv, Chan!ChanNext
<1>4. ASSUME NEW p \in Proc, piperead(p, nbytes[p]), UNCHANGED fileVars
      PROVE  OutInv' /\ Chan!ChanNext
  <2>1. \A q \in Proc : IF q = p THEN pc'[q] = "ret"
                        ELSE out'[q] = out[q] /\ (pc[q] = "ret" => pc'[q] = "ret")
    BY <1>0, <1>4, Zenon DEF piperead, WakeWriters
  <2>2. Chan!Receive(p) \/ Chan!Return(p)
    BY <1>0, <1>4, ReceiveStep, Zenon
  <2>3. QED BY <2>1, <2>2, Zenon DEF OutInv, Chan!ChanNext
<1>5. ASSUME NEW p \in Proc, pipewrite(p), UNCHANGED fileVars
      PROVE  OutInv' /\ [Chan!ChanNext]_(Chan!chanVars)
  <2>1. out' = out /\ \A q \in Proc : pc[q] = "ret" => pc'[q] = "ret"
    BY <1>0, <1>5, Zenon DEF pipewrite, WakeReaders
  <2>2. Chan!Send \/ UNCHANGED Chan!chanVars
    BY <1>5, SendStep, Zenon
  <2>3. QED BY <2>1, <2>2, Zenon DEF OutInv, Chan!ChanNext
<1>6. ASSUME NEW p \in Proc, ReadReturns(p)
      PROVE  OutInv' /\ Chan!ChanNext
  <2>1. /\ \A q \in Proc : IF q = p THEN out'[q] = <<>>
                           ELSE out'[q] = out[q] /\ (pc[q] = "ret" => pc'[q] = "ret")
        /\ out' = [out EXCEPT ![p] = <<>>]
        /\ UNCHANGED <<allocated, data, nread, nwrite, readopen, writeopen>>
    BY <1>0, <1>6, Zenon DEF ReadReturns, pipeVars
  <2>2. Used' = Used
    BY <2>1, Zenon DEF Used
  <2>3. Queue' = Queue
    BY <2>1, <2>2, Zenon DEF Queue
  <2>4. Chan!Return(p)
    BY <2>1, <2>3, Zenon DEF Chan!Return
  <2>5. QED BY <2>1, <2>4, Zenon DEF OutInv, Chan!ChanNext
<1>7. CASE FtNext
  <2>1. PICK p \in Proc :
            \/ Unseen(p)
            \/ (pipenofd(p) \/ \E d0, d1 \in Fd : pipealloc(p, d0, d1))
            \/ FilePipeclose(p)
            \/ (piperead(p, nbytes[p]) \/ pipewrite(p)) /\ UNCHANGED fileVars
            \/ ReadReturns(p)
    BY <1>7, Zenon DEF FtNext, PipeStep, Unseen
  <2>2. QED BY <1>1, <1>2, <1>3, <1>4, <1>5, <1>6, <2>1, Zenon
<1>8. CASE UNCHANGED ftVars
  <2>1. UNCHANGED <<allocated, data, nread, nwrite, readopen, writeopen, out, pc>>
    BY <1>8, Zenon DEF ftVars, pipeVars
  <2>2. QED BY <2>1, ChanFrame, Zenon DEF OutInv
<1>9. QED BY <1>7, <1>8, Zenon

\* The ring of pipe.c, with counters that wrap around and an index modulo
\* PIPESIZE, is a first-in first-out channel of PIPESIZE bytes, whoever reads,
\* writes, closes, forks or is killed.
THEOREM PipeRefines == FtSpec => ChannelSpec
<1>1. FtInit => OutInv /\ Chan!ChanInit
  <2> SUFFICES ASSUME FtInit PROVE OutInv /\ Chan!ChanInit
    BY Zenon
  <2>1. Queue = <<>>
    BY Zenon DEF FtInit, Queue
  <2>2. QED BY <2>1, Zenon DEF FtInit, OutInv, Chan!ChanInit
<1>2. QED BY FtInitInv, FtStep, ChanStep, <1>1, PTL DEF FtSpec, ChannelSpec, Chan!ChanSpec
=============================================================================
