---------------------------- MODULE BcacheProofs ----------------------------
(***************************************************************************)
(* The theorems about the buffer cache: its invariant (the types, the      *)
(* references of bget() and brelse(), the sleep locks, the queue of the    *)
(* disk and the clean buffers), and that it implements the block store,    *)
(* for any number of processes, buffers and blocks.                        *)
(***************************************************************************)
EXTENDS Bcache, FiniteSetTheorems, TLAPS

Users(b) == {p \in Proc : buf[p] = b}
Holding == {"locked", "io", "have", "changed"}

\* Under bcache.lock: a buffer in use is not given another block.
RefInv ==
    /\ \A b \in Buf : refcnt[b] = Cardinality(Users(b))
    /\ \A p \in Proc : IF pc[p] = "user" THEN buf[p] = NoBuf
                       ELSE /\ buf[p] \in Buf /\ want[p] \in Block
                            /\ blockno[buf[p]] = want[p]
    /\ \A a, b \in Buf : blockno[a] = blockno[b] /\ blockno[a] # NoBlock => a = b

\* Under b->lock.
LockInv ==
    /\ \A p \in Proc : pc[p] \in Holding => locked[buf[p]] = p
    /\ \A b \in Buf : locked[b] # NoProc => buf[locked[b]] = b /\ pc[locked[b]] \in Holding
    /\ \A p \in Proc : pc[p] \in {"have", "changed"} => valid[buf[p]]
    /\ \A b \in Buf : /\ dirty[b] => valid[b]
                      /\ valid[b] => blockno[b] # NoBlock

\* Under idelock.
IdeInv ==
    /\ \A i, j \in DOMAIN idequeue : idequeue[i] = idequeue[j] => i = j
    /\ \A i \in DOMAIN idequeue :
           locked[idequeue[i]] # NoProc /\ pc[locked[idequeue[i]]] = "io"
    /\ \A p \in Proc : pc[p] = "io" =>
           /\ \E i \in DOMAIN idequeue : idequeue[i] = buf[p]
           /\ valid[buf[p]] => dirty[buf[p]]
    /\ cmd = IF idequeue = <<>> THEN NoCmd ELSE idestart(Head(idequeue), dirty)
    /\ irq => /\ idequeue # <<>>
              /\ LET b == Head(idequeue) IN dirty[b] => disk[blockno[b]] = data[b]

\* What the test of refcnt in bget() means: it follows from RefInv.
UnusedInv == \A b \in Buf : refcnt[b] = 0 => \A p \in Proc : buf[p] # b

BcacheInv == BcacheTypeOK /\ RefInv /\ UnusedInv /\ LockInv /\ IdeInv /\ CleanIsOnDisk

USE BcacheAssumption, SMTT(60)

-----------------------------------------------------------------------------
(* Facts about a state                                                     *)

LEMMA Busy ==
    ASSUME BcacheInv, NEW p \in Proc, pc[p] # "user"
    PROVE  /\ buf[p] \in Buf /\ want[p] \in Block /\ blockno[buf[p]] = want[p]
           /\ refcnt[buf[p]] \in Nat \ {0}
<1>1. buf[p] \in Buf /\ want[p] \in Block /\ blockno[buf[p]] = want[p]
  BY Zenon DEF BcacheInv, RefInv
<1>2. refcnt[buf[p]] # 0
  BY <1>1, Zenon DEF BcacheInv, UnusedInv
<1>3. QED BY <1>1, <1>2, Zenon DEF BcacheInv, BcacheTypeOK

\* The request that is being served.
LEMMA Served ==
    ASSUME BcacheInv, NEW b, idequeue # <<>>, b = Head(idequeue)
    PROVE  /\ b \in Buf /\ blockno[b] \in Block
           /\ 1 \in DOMAIN idequeue /\ b = idequeue[1]
           /\ cmd.op = IF dirty[b] THEN "write" ELSE "read"
           /\ cmd.block = blockno[b]
           /\ dirty[b] => cmd.data = data[b]
           /\ locked[b] \in Proc /\ pc[locked[b]] = "io" /\ buf[locked[b]] = b
           /\ Tail(idequeue) \in Seq(Buf)
<1>1. /\ b \in Buf /\ 1 \in DOMAIN idequeue /\ b = idequeue[1]
      /\ Tail(idequeue) \in Seq(Buf)
  BY DEF BcacheInv, BcacheTypeOK
<1>2. locked[b] \in Proc /\ pc[locked[b]] = "io"
  BY <1>1 DEF BcacheInv, BcacheTypeOK, IdeInv
<1>3. buf[locked[b]] = b
  BY <1>1, <1>2, Zenon DEF BcacheInv, LockInv
<1>4. blockno[b] \in Block
  BY <1>2, <1>3, Busy, Zenon
<1>5. cmd = IF dirty[b] THEN [op |-> "write", block |-> blockno[b], data |-> data[b]]
            ELSE [op |-> "read", block |-> blockno[b]]
  BY Zenon DEF BcacheInv, IdeInv, idestart
<1>6. /\ cmd.op = IF dirty[b] THEN "write" ELSE "read"
      /\ cmd.block = blockno[b] /\ (dirty[b] => cmd.data = data[b])
  BY <1>5, Zenon
<1>7. QED BY <1>1, <1>2, <1>3, <1>4, <1>6, Zenon

\* Who works on a buffer he has locked does not wait for the disk.
LEMMA NotQueued ==
    ASSUME BcacheInv, NEW p \in Proc, pc[p] \in {"locked", "have", "changed"}
    PROVE  \A i \in DOMAIN idequeue : idequeue[i] # buf[p]
  BY DEF BcacheInv, IdeInv, LockInv, Holding

\* The functions the variables are, and who is where.
Domains ==
    /\ DOMAIN blockno = Buf /\ DOMAIN valid = Buf /\ DOMAIN dirty = Buf
    /\ DOMAIN data = Buf /\ DOMAIN locked = Buf /\ DOMAIN disk = Block
    /\ DOMAIN refcnt = Buf /\ DOMAIN pc = Proc /\ DOMAIN buf = Proc /\ DOMAIN want = Proc

Shape ==
    /\ \A q \in Proc : pc[q] # "user" => buf[q] \in Buf
    /\ \A c \in Buf : locked[c] # NoProc => locked[c] \in Proc
    /\ \A i \in DOMAIN idequeue :
           /\ idequeue[i] \in Buf /\ locked[idequeue[i]] \in Proc
           /\ pc[locked[idequeue[i]]] = "io" /\ buf[locked[idequeue[i]]] = idequeue[i]

LEMMA HaveDomains == ASSUME BcacheInv PROVE Domains
  BY Zenon DEF BcacheInv, BcacheTypeOK, Domains

LEMMA Shaped == ASSUME BcacheInv PROVE Shape
<1>1. /\ \A q \in Proc : pc[q] # "user" => buf[q] \in Buf
      /\ \A c \in Buf : locked[c] # NoProc => locked[c] \in Proc
      /\ \A i \in DOMAIN idequeue : idequeue[i] \in Buf
  BY Busy DEF BcacheInv, BcacheTypeOK
<1>2. \A i \in DOMAIN idequeue :
          /\ locked[idequeue[i]] \in Proc
          /\ pc[locked[idequeue[i]]] = "io" /\ buf[locked[idequeue[i]]] = idequeue[i]
  BY <1>1, Zenon DEF BcacheInv, IdeInv, LockInv
<1>3. QED BY <1>1, <1>2, Zenon DEF Shape

-----------------------------------------------------------------------------
(* The steps keep the types                                                *)

LEMMA TypeStep == ASSUME BcacheInv, [BcacheNext]_bcacheVars PROVE BcacheTypeOK'
<1>1. ASSUME NEW p \in Proc, NEW k \in Block, NEW b \in Buf, bgetHit(p, k, b)
      PROVE  BcacheTypeOK'
  BY <1>1 DEF BcacheInv, BcacheTypeOK, bgetHit, ideVars, PC
<1>2. ASSUME NEW p \in Proc, NEW k \in Block, NEW b \in Buf, bgetMiss(p, k, b)
      PROVE  BcacheTypeOK'
  BY <1>2, Zenon DEF BcacheInv, BcacheTypeOK, bgetMiss, ideVars, PC
<1>3. ASSUME NEW p \in Proc, acquiresleep(p) PROVE BcacheTypeOK'
  BY <1>3, Busy, Zenon DEF BcacheInv, BcacheTypeOK, acquiresleep, ideVars, PC
<1>4. ASSUME NEW p \in Proc, bread(p) PROVE BcacheTypeOK'
  <2>1. CASE valid[buf[p]]
    BY <1>4, <2>1, Zenon DEF BcacheInv, BcacheTypeOK, bread, bufVars, ideVars, PC
  <2>2. CASE ~valid[buf[p]]
    <3>1. /\ idequeue' = Append(idequeue, buf[p]) /\ buf[p] \in Buf
          /\ pc' = [pc EXCEPT ![p] = "io"]
          /\ UNCHANGED <<disk, irq, blockno, valid, dirty, refcnt, data, locked, buf, want>>
      BY <1>4, <2>2, Busy, Zenon DEF bread, iderw, bufVars
    <3>2. QED BY <3>1 DEF BcacheInv, BcacheTypeOK, PC
  <2>3. QED BY <2>1, <2>2, Zenon
<1>5. ASSUME NEW p \in Proc, NEW v \in Data, Change(p, v) PROVE BcacheTypeOK'
  BY <1>5, Busy, Zenon DEF BcacheInv, BcacheTypeOK, Change, ideVars, PC
<1>6. ASSUME NEW p \in Proc, bwrite(p) PROVE BcacheTypeOK'
  BY <1>6, Busy DEF BcacheInv, BcacheTypeOK, bwrite, iderw, ideVars, PC
<1>7. ASSUME NEW p \in Proc, log_write(p) PROVE BcacheTypeOK'
  BY <1>7, Busy, Zenon DEF BcacheInv, BcacheTypeOK, log_write, ideVars, PC
<1>8. ASSUME NEW p \in Proc, releasesleep(p) PROVE BcacheTypeOK'
  BY <1>8, Busy, Zenon DEF BcacheInv, BcacheTypeOK, releasesleep, ideVars, PC
<1>9. ASSUME NEW p \in Proc, brelse(p) PROVE BcacheTypeOK'
  BY <1>9, Busy DEF BcacheInv, BcacheTypeOK, brelse, ideVars, PC
<1>10. CASE DriveDone
  <2>1. idequeue # <<>>
    BY <1>10, Zenon DEF DriveDone, BcacheInv, IdeInv
  <2>2. disk' \in [Block -> Data]
    BY <1>10, <2>1, Served DEF DriveDone, BcacheInv, BcacheTypeOK
  <2>3. QED BY <1>10, <2>2, Zenon DEF BcacheInv, BcacheTypeOK, DriveDone, bufVars
<1>11. CASE ideintr
  <2> DEFINE b == Head(idequeue)
  <2>1. b \in Buf /\ cmd.block \in Block /\ Tail(idequeue) \in Seq(Buf)
    BY <1>11, Served, Zenon DEF ideintr
  <2>2. /\ data' = IF dirty[b] THEN data ELSE [data EXCEPT ![b] = disk[cmd.block]]
        /\ valid' = [valid EXCEPT ![b] = TRUE]
        /\ dirty' = [dirty EXCEPT ![b] = FALSE]
        /\ pc' = [p \in Proc |-> IF pc[p] = "io" /\ buf[p] = b THEN "have" ELSE pc[p]]
        /\ idequeue' = Tail(idequeue) /\ irq' = FALSE
        /\ UNCHANGED <<disk, blockno, refcnt, locked, buf, want>>
    BY <1>11, Zenon DEF ideintr
  <2> HIDE DEF b
  <2>3. data' \in [Buf -> Data]
    BY <2>1, <2>2, Zenon DEF BcacheInv, BcacheTypeOK
  <2>4. QED BY <2>1, <2>2, <2>3, Zenon DEF BcacheInv, BcacheTypeOK, PC
<1>12. CASE UNCHANGED bcacheVars
  BY <1>12, Zenon DEF BcacheInv, BcacheTypeOK, bcacheVars
<1>13. QED
  BY <1>1, <1>2, <1>3, <1>4, <1>5, <1>6, <1>7, <1>8, <1>9, <1>10, <1>11, <1>12, Zenon
     DEF BcacheNext, ProcStep

-----------------------------------------------------------------------------
(* What the other steps keep: the sleep locks and the flags of a buffer,   *)
(* the queue of the disk, and the clean buffers                            *)

BufInv == LockInv /\ IdeInv /\ CleanIsOnDisk

\* Steps that leave the queue and what is on it alone.
LEMMA IdeFrame ==
    ASSUME BcacheInv, UNCHANGED <<idequeue, cmd, irq, disk>>,
           \A i \in DOMAIN idequeue :
               /\ blockno'[idequeue[i]] = blockno[idequeue[i]]
               /\ data'[idequeue[i]] = data[idequeue[i]]
               /\ dirty'[idequeue[i]] = dirty[idequeue[i]]
               /\ locked'[idequeue[i]] = locked[idequeue[i]],
           \A q \in Proc : pc[q] = "io" => pc'[q] = "io",
           \A q \in Proc : pc'[q] = "io" =>
               /\ pc[q] = "io" /\ buf'[q] = buf[q]
               /\ valid'[buf[q]] = valid[buf[q]] /\ dirty'[buf[q]] = dirty[buf[q]]
    PROVE  IdeInv'
<1>1. \A i \in DOMAIN idequeue : locked[idequeue[i]] \in Proc
  BY DEF BcacheInv, IdeInv, BcacheTypeOK
<1>2. idequeue # <<>> => 1 \in DOMAIN idequeue /\ Head(idequeue) = idequeue[1]
  BY Served, Zenon
<1>3. cmd' = IF idequeue' = <<>> THEN NoCmd ELSE idestart(Head(idequeue), dirty)'
  BY <1>2 DEF BcacheInv, IdeInv, idestart
<1>4. \A i \in DOMAIN idequeue' :
          locked'[idequeue'[i]] # NoProc /\ pc'[locked'[idequeue'[i]]] = "io"
  BY <1>1 DEF BcacheInv, IdeInv
<1>5. \A q \in Proc : pc'[q] = "io" =>
          /\ \E i \in DOMAIN idequeue' : idequeue'[i] = buf'[q]
          /\ valid'[buf'[q]] => dirty'[buf'[q]]
  BY DEF BcacheInv, IdeInv
<1>6. irq' => /\ idequeue' # <<>>
              /\ dirty'[Head(idequeue')] => disk'[blockno'[Head(idequeue')]] = data'[Head(idequeue')]
  BY <1>2 DEF BcacheInv, IdeInv
<1>7. \A i, j \in DOMAIN idequeue' : idequeue'[i] = idequeue'[j] => i = j
  BY Zenon DEF BcacheInv, IdeInv
<1>8. QED BY <1>3, <1>4, <1>5, <1>6, <1>7, Zenon DEF IdeInv

\* iderw() of a buffer that is not queued.
LEMMA IdeAppend ==
    ASSUME BcacheInv, NEW p \in Proc, NEW b \in Buf, b = buf[p], locked[b] = p,
           \A i \in DOMAIN idequeue : idequeue[i] # b,
           UNCHANGED <<disk, blockno, valid, data, locked, irq, buf>>,
           idequeue' = Append(idequeue, b), pc' = [pc EXCEPT ![p] = "io"],
           \A c \in Buf : c # b => dirty'[c] = dirty[c], valid[b] => dirty'[b],
           cmd' = IF idequeue = <<>> THEN idestart(b, dirty') ELSE cmd
    PROVE  IdeInv'
<1>1. /\ idequeue \in Seq(Buf) /\ Len(idequeue) \in Nat
      /\ DOMAIN idequeue = 1..Len(idequeue) /\ DOMAIN idequeue' = 1..(Len(idequeue) + 1)
      /\ \A i \in DOMAIN idequeue : idequeue'[i] = idequeue[i] /\ idequeue[i] \in Buf
      /\ idequeue'[Len(idequeue) + 1] = b
  BY DEF BcacheInv, BcacheTypeOK
<1>2. /\ idequeue' # <<>> /\ Head(idequeue') = idequeue'[1]
      /\ idequeue = <<>> => Head(idequeue') = b
      /\ idequeue # <<>> => /\ Head(idequeue') = Head(idequeue)
                            /\ Head(idequeue) \in Buf /\ Head(idequeue) # b
  BY <1>1
<1>3. cmd' = idestart(Head(idequeue), dirty)'
  <2>1. CASE idequeue = <<>>
    BY <1>2, <2>1, Zenon DEF idestart
  <2>2. CASE idequeue # <<>>
    <3>1. cmd' = cmd /\ cmd = idestart(Head(idequeue), dirty)
      BY <2>2, Zenon DEF BcacheInv, IdeInv
    <3>2. dirty'[Head(idequeue)] = dirty[Head(idequeue)] /\ Head(idequeue') = Head(idequeue)
      BY <1>2, <2>2, Zenon
    <3>3. QED BY <3>1, <3>2, Zenon DEF idestart
  <2>3. QED BY <2>1, <2>2, Zenon
<1>4. \A q \in Proc : pc'[q] = IF q = p THEN "io" ELSE pc[q]
  BY Zenon DEF BcacheInv, BcacheTypeOK
<1>5. \A i \in DOMAIN idequeue' :
          locked'[idequeue'[i]] # NoProc /\ pc'[locked'[idequeue'[i]]] = "io"
  <2>1. \A i \in DOMAIN idequeue : locked[idequeue[i]] \in Proc /\ pc[locked[idequeue[i]]] = "io"
    BY DEF BcacheInv, IdeInv, BcacheTypeOK
  <2>2. QED BY <1>1, <1>4, <2>1
<1>6. \A q \in Proc : pc'[q] = "io" => \E i \in DOMAIN idequeue' : idequeue'[i] = buf'[q]
  <2>1. \A q \in Proc : pc[q] = "io" => \E i \in DOMAIN idequeue : idequeue[i] = buf[q]
    BY Zenon DEF BcacheInv, IdeInv
  <2>2. DOMAIN idequeue \subseteq DOMAIN idequeue' /\ Len(idequeue) + 1 \in DOMAIN idequeue'
    BY <1>1
  <2>3. QED BY <1>1, <1>4, <2>1, <2>2
<1>7. \A q \in Proc : pc'[q] = "io" => (valid'[buf'[q]] => dirty'[buf'[q]])
  <2>1. \A q \in Proc : pc[q] = "io" => buf[q] \in Buf /\ (valid[buf[q]] => dirty[buf[q]])
    BY Busy, Zenon DEF BcacheInv, IdeInv
  <2>2. QED BY <1>4, <2>1
<1>8. irq' => (dirty'[Head(idequeue')] => disk'[blockno'[Head(idequeue')]] = data'[Head(idequeue')])
  BY <1>2, Zenon DEF BcacheInv, IdeInv
<1>9. \A i, j \in DOMAIN idequeue' : idequeue'[i] = idequeue'[j] => i = j
  <2>1. \A i, j \in DOMAIN idequeue : idequeue[i] = idequeue[j] => i = j
    BY Zenon DEF BcacheInv, IdeInv
  <2>2. QED BY <1>1, <2>1
<1>10. QED BY <1>2, <1>3, <1>5, <1>6, <1>7, <1>8, <1>9 DEF IdeInv

LEMMA CleanFrame ==
    ASSUME CleanIsOnDisk, UNCHANGED <<disk, blockno, valid, dirty, data>>,
           \A q \in Proc : pc[q] = "changed" => pc'[q] = "changed" /\ buf'[q] = buf[q]
    PROVE  CleanIsOnDisk'
  BY DEF CleanIsOnDisk

-----------------------------------------------------------------------------
(* The steps of the processes                                              *)

LEMMA HitStep ==
    ASSUME BcacheInv, NEW p \in Proc, NEW k \in Block, NEW b \in Buf, bgetHit(p, k, b)
    PROVE  BufInv'
<1>1. Shape
  BY Shaped, Zenon
<1>2. /\ UNCHANGED <<idequeue, cmd, irq, disk, blockno, data, dirty, valid, locked>>
      /\ pc[p] = "user" /\ pc'[p] = "lock"
      /\ \A q \in Proc : q # p => pc'[q] = pc[q] /\ buf'[q] = buf[q]
  BY HaveDomains, Zenon DEF bgetHit, ideVars, Domains
<1>3. LockInv'
  BY <1>1, <1>2 DEF BcacheInv, LockInv, Holding, Shape
<1>4. IdeInv'
  BY <1>2, IdeFrame, Zenon
<1>5. CleanIsOnDisk'
  BY <1>2, CleanFrame, Zenon DEF BcacheInv
<1>6. QED BY <1>3, <1>4, <1>5, Zenon DEF BufInv

LEMMA MissStep ==
    ASSUME BcacheInv, NEW p \in Proc, NEW k \in Block, NEW b \in Buf, bgetMiss(p, k, b)
    PROVE  BufInv'
<1>1. Shape
  BY Shaped, Zenon
<1>2. /\ UNCHANGED <<idequeue, cmd, irq, disk, data, locked>>
      /\ pc[p] = "user" /\ pc'[p] = "lock" /\ ~valid'[b] /\ ~dirty'[b]
      /\ \A q \in Proc : q # p => pc'[q] = pc[q] /\ buf'[q] = buf[q]
      /\ \A c \in Buf : c # b => /\ blockno'[c] = blockno[c] /\ dirty'[c] = dirty[c]
                                 /\ valid'[c] = valid[c]
  BY HaveDomains, Zenon DEF bgetMiss, ideVars, Domains
<1>3. \A q \in Proc : buf[q] # b
  BY Zenon DEF bgetMiss, Recyclable, BcacheInv, UnusedInv
<1>4. LockInv'
  BY <1>1, <1>2, <1>3 DEF BcacheInv, LockInv, Holding, Shape
<1>5. IdeInv'
  BY <1>1, <1>2, <1>3, IdeFrame DEF Shape
<1>6. CleanIsOnDisk'
  BY <1>2 DEF BcacheInv, CleanIsOnDisk
<1>7. QED BY <1>4, <1>5, <1>6, Zenon DEF BufInv

LEMMA AcquireStep == ASSUME BcacheInv, NEW p \in Proc, acquiresleep(p) PROVE BufInv'
<1>1. Shape
  BY Shaped, Zenon
<1>2. /\ UNCHANGED <<idequeue, cmd, irq, disk, blockno, data, dirty, valid, buf>>
      /\ pc[p] = "lock" /\ \A q \in Proc : q # p => pc'[q] = pc[q]
      /\ \/ pc'[p] = "locked" /\ locked[buf[p]] = NoProc /\ locked'[buf[p]] = p
         \/ pc'[p] = "locksleep" /\ locked' = locked
      /\ \A c \in Buf : c # buf[p] => locked'[c] = locked[c]
  BY <1>1, HaveDomains, Zenon DEF acquiresleep, ideVars, Shape, Domains
<1>3. LockInv'
  BY <1>1, <1>2 DEF BcacheInv, LockInv, Holding, Shape
<1>4. IdeInv'
  BY <1>1, <1>2, IdeFrame DEF Shape
<1>5. CleanIsOnDisk'
  BY <1>2, CleanFrame, Zenon DEF BcacheInv
<1>6. QED BY <1>3, <1>4, <1>5, Zenon DEF BufInv

LEMMA BreadStep == ASSUME BcacheInv, NEW p \in Proc, bread(p) PROVE BufInv'
<1>1. Shape
  BY Shaped, Zenon
<1>2. /\ pc[p] = "locked" /\ UNCHANGED <<disk, irq, blockno, valid, dirty, data, locked, buf>>
      /\ \/ valid[buf[p]] /\ pc' = [pc EXCEPT ![p] = "have"] /\ UNCHANGED <<idequeue, cmd>>
         \/ ~valid[buf[p]] /\ iderw(p, buf[p], dirty)
  BY Zenon DEF bread, bufVars, ideVars, iderw
<1>3. /\ \A q \in Proc : q # p => pc'[q] = pc[q]
      /\ pc'[p] = IF valid[buf[p]] THEN "have" ELSE "io"
  BY <1>2, HaveDomains, Zenon DEF iderw, Domains
<1>4. LockInv'
  BY <1>1, <1>2, <1>3 DEF BcacheInv, LockInv, Holding, Shape
<1>5. CASE valid[buf[p]]
  <2>1. IdeInv'
    BY <1>2, <1>3, <1>5, IdeFrame, Zenon
  <2>2. QED BY <1>2, <1>3, <1>4, <2>1, CleanFrame, Zenon DEF BcacheInv, BufInv
<1>6. CASE ~valid[buf[p]]
  <2>1. PICK b \in Buf : b = buf[p]
    BY <1>1, <1>2, Zenon DEF Shape
  <2>2. /\ locked[b] = p /\ \A i \in DOMAIN idequeue : idequeue[i] # b
    BY <1>2, <2>1, NotQueued DEF BcacheInv, LockInv, Holding
  <2>3. /\ idequeue' = Append(idequeue, b) /\ pc' = [pc EXCEPT ![p] = "io"] /\ ~valid[b]
        /\ cmd' = IF idequeue = <<>> THEN idestart(b, dirty') ELSE cmd
    BY <1>2, <1>6, <2>1 DEF iderw
  <2>4. IdeInv'
    BY <1>2, <2>1, <2>2, <2>3, IdeAppend, Zenon
  <2>5. QED BY <1>2, <1>3, <1>4, <2>4, CleanFrame, Zenon DEF BcacheInv, BufInv
<1>7. QED BY <1>5, <1>6, Zenon

LEMMA ChangeStep ==
    ASSUME BcacheInv, NEW p \in Proc, NEW v \in Data, Change(p, v) PROVE BufInv'
<1>1. Shape
  BY Shaped, Zenon
<1>2. /\ UNCHANGED <<idequeue, cmd, irq, disk, blockno, dirty, valid, locked, buf>>
      /\ pc[p] \in {"have", "changed"} /\ pc'[p] = "changed"
      /\ \A q \in Proc : q # p => pc'[q] = pc[q]
      /\ \A c \in Buf : c # buf[p] => data'[c] = data[c]
  BY <1>1, HaveDomains, Zenon DEF Change, ideVars, Shape, Domains
<1>3. \A i \in DOMAIN idequeue : idequeue[i] # buf[p]
  BY <1>2, NotQueued, Zenon
<1>4. LockInv'
  BY <1>1, <1>2 DEF BcacheInv, LockInv, Holding, Shape
<1>5. IdeInv'
  BY <1>1, <1>2, <1>3, IdeFrame DEF Shape
<1>6. CleanIsOnDisk'
  BY <1>2 DEF BcacheInv, CleanIsOnDisk
<1>7. QED BY <1>4, <1>5, <1>6, Zenon DEF BufInv

LEMMA BwriteStep == ASSUME BcacheInv, NEW p \in Proc, bwrite(p) PROVE BufInv'
<1>1. Shape
  BY Shaped, Zenon
<1>2. PICK b \in Buf : b = buf[p]
  BY <1>1, Zenon DEF bwrite, Shape
<1>3. /\ UNCHANGED <<disk, irq, blockno, valid, data, locked, buf>>
      /\ pc[p] \in {"have", "changed"} /\ locked[b] = p
      /\ idequeue' = Append(idequeue, b) /\ pc' = [pc EXCEPT ![p] = "io"]
      /\ cmd' = IF idequeue = <<>> THEN idestart(b, dirty') ELSE cmd
      /\ dirty'[b] /\ \A c \in Buf : c # b => dirty'[c] = dirty[c]
  BY <1>1, <1>2, HaveDomains, Zenon DEF bwrite, iderw, Shape, Domains
<1>4. pc'[p] = "io" /\ \A q \in Proc : q # p => pc'[q] = pc[q]
  BY <1>3, HaveDomains, Zenon DEF Domains
<1>5. \A i \in DOMAIN idequeue : idequeue[i] # b
  BY <1>2, <1>3, NotQueued, Zenon
<1>6. LockInv'
  BY <1>1, <1>2, <1>3, <1>4 DEF BcacheInv, LockInv, Holding, Shape
<1>7. IdeInv'
  BY <1>2, <1>3, <1>5, IdeAppend, Zenon
<1>8. CleanIsOnDisk'
  BY <1>2, <1>3, <1>4 DEF BcacheInv, CleanIsOnDisk
<1>9. QED BY <1>6, <1>7, <1>8, Zenon DEF BufInv

LEMMA LogWriteStep == ASSUME BcacheInv, NEW p \in Proc, log_write(p) PROVE BufInv'
<1>1. Shape
  BY Shaped, Zenon
<1>2. /\ UNCHANGED <<idequeue, cmd, irq, disk, blockno, data, valid, locked, buf>>
      /\ pc[p] = "changed" /\ pc'[p] = "have" /\ dirty'[buf[p]]
      /\ \A q \in Proc : q # p => pc'[q] = pc[q]
      /\ \A c \in Buf : c # buf[p] => dirty'[c] = dirty[c]
  BY <1>1, HaveDomains, Zenon DEF log_write, ideVars, Shape, Domains
<1>3. \A i \in DOMAIN idequeue : idequeue[i] # buf[p]
  BY <1>2, NotQueued, Zenon
<1>4. \A q \in Proc : pc[q] = "io" => buf[q] # buf[p]
  BY <1>2 DEF BcacheInv, LockInv, Holding
<1>5. LockInv'
  BY <1>1, <1>2 DEF BcacheInv, LockInv, Holding, Shape
<1>6. IdeInv'
  BY <1>1, <1>2, <1>3, <1>4, IdeFrame DEF Shape
<1>7. CleanIsOnDisk'
  BY <1>2 DEF BcacheInv, CleanIsOnDisk
<1>8. QED BY <1>5, <1>6, <1>7, Zenon DEF BufInv

LEMMA ReleaseStep == ASSUME BcacheInv, NEW p \in Proc, releasesleep(p) PROVE BufInv'
<1>1. Shape
  BY Shaped, Zenon
<1>2. /\ UNCHANGED <<idequeue, cmd, irq, disk, blockno, data, dirty, valid, buf>>
      /\ pc[p] = "have" /\ pc'[p] = "drop" /\ locked[buf[p]] = p /\ locked'[buf[p]] = NoProc
      /\ \A c \in Buf : c # buf[p] => locked'[c] = locked[c]
  BY <1>1, HaveDomains, Zenon DEF releasesleep, ideVars, Shape, Domains
<1>3. \A q \in Proc : q # p => IF pc[q] \in Holding THEN pc'[q] = pc[q]
                               ELSE pc'[q] \notin Holding
  BY Zenon DEF releasesleep, Holding
<1>4. \A i \in DOMAIN idequeue : idequeue[i] # buf[p]
  BY <1>2, NotQueued, Zenon
<1>5. LockInv'
  <2>1. \A q \in Proc : pc'[q] \in Holding => q # p /\ pc[q] = pc'[q] /\ buf[q] # buf[p]
    BY <1>2, <1>3 DEF BcacheInv, LockInv, Holding
  <2>2. \A q \in Proc : pc'[q] \in Holding => locked'[buf'[q]] = q
    BY <1>1, <1>2, <2>1 DEF BcacheInv, LockInv, Holding, Shape
  <2>3. \A c \in Buf : locked'[c] # NoProc => /\ buf'[locked'[c]] = c
                                               /\ pc'[locked'[c]] \in Holding
    BY <1>1, <1>2, <1>3 DEF BcacheInv, LockInv, Shape
  <2>4. \A q \in Proc : pc'[q] \in {"have", "changed"} => valid'[buf'[q]]
    BY <1>2, <2>1, Zenon DEF BcacheInv, LockInv, Holding
  <2>5. QED BY <1>2, <2>2, <2>3, <2>4 DEF BcacheInv, LockInv
<1>6. \A q \in Proc : /\ pc'[q] = "io" <=> pc[q] = "io"
                      /\ pc[q] = "changed" => pc'[q] = "changed"
  BY <1>2, <1>3, Zenon DEF Holding
<1>7. IdeInv'
  BY <1>1, <1>2, <1>4, <1>6, IdeFrame DEF Shape
<1>8. CleanIsOnDisk'
  BY <1>2, <1>6, CleanFrame DEF BcacheInv
<1>9. QED BY <1>5, <1>7, <1>8, Zenon DEF BufInv

LEMMA BrelseStep == ASSUME BcacheInv, NEW p \in Proc, brelse(p) PROVE BufInv'
<1>1. Shape
  BY Shaped, Zenon
<1>2. /\ UNCHANGED <<idequeue, cmd, irq, disk, blockno, data, dirty, valid, locked>>
      /\ pc[p] = "drop" /\ pc'[p] = "user"
      /\ \A q \in Proc : q # p => pc'[q] = pc[q] /\ buf'[q] = buf[q]
  BY <1>1, HaveDomains, Zenon DEF brelse, ideVars, Shape, Domains
<1>3. LockInv'
  BY <1>1, <1>2 DEF BcacheInv, LockInv, Holding, Shape
<1>4. IdeInv'
  BY <1>2, IdeFrame, Zenon
<1>5. CleanIsOnDisk'
  BY <1>2, CleanFrame, Zenon DEF BcacheInv
<1>6. QED BY <1>3, <1>4, <1>5, Zenon DEF BufInv

-----------------------------------------------------------------------------
(* The steps of the drive and of its interrupt                             *)

LEMMA DriveStep == ASSUME BcacheInv, DriveDone PROVE BufInv'
<1>1. /\ UNCHANGED <<idequeue, cmd, blockno, valid, dirty, data, locked, pc, buf>>
      /\ disk' = IF cmd.op = "write" THEN [disk EXCEPT ![cmd.block] = cmd.data] ELSE disk
  BY Zenon DEF DriveDone, bufVars
<1>2. idequeue # <<>>
  BY Zenon DEF DriveDone, BcacheInv, IdeInv
<1>3. PICK b : b = Head(idequeue)
  BY Zenon
<1>4. /\ b \in Buf /\ blockno[b] \in Block /\ cmd.block = blockno[b]
      /\ cmd.op = IF dirty[b] THEN "write" ELSE "read"
      /\ dirty[b] => cmd.data = data[b]
  BY <1>2, <1>3, Served
<1>5. IdeInv'
  <2>1. dirty[b] => disk'[blockno[b]] = data[b]
    BY <1>1, <1>4, HaveDomains, Zenon DEF Domains
  <2>2. idestart(Head(idequeue), dirty)' = idestart(Head(idequeue), dirty)
    BY <1>1, Zenon DEF idestart
  <2>3. QED BY <1>1, <1>2, <1>3, <2>1, <2>2 DEF BcacheInv, IdeInv
<1>6. CleanIsOnDisk'
  <2>1. SUFFICES ASSUME NEW c \in Buf, valid[c], ~dirty[c], cmd.op = "write"
                 PROVE  disk'[blockno[c]] = disk[blockno[c]]
    BY <1>1 DEF BcacheInv, CleanIsOnDisk
  <2>2. dirty[b] /\ b # c
    BY <1>4, <2>1, Zenon
  <2>3. blockno[c] # blockno[b]
    BY <1>4, <2>1, <2>2 DEF BcacheInv, LockInv, RefInv
  <2>4. QED BY <1>1, <1>4, <2>3
<1>7. QED BY <1>1, <1>5, <1>6, Zenon DEF BufInv, BcacheInv, LockInv

LEMMA IntrStep == ASSUME BcacheInv, ideintr PROVE BufInv'
<1>1. Shape
  BY Shaped, Zenon
<1>2. PICK b : b = Head(idequeue)
  BY Zenon
<1>3. PICK rest : rest = Tail(idequeue)
  BY Zenon
<1>4. irq /\ idequeue # <<>>
  BY Zenon DEF ideintr
<1>5. b \in Buf /\ b = idequeue[1] /\ cmd.block = blockno[b] /\ blockno[b] \in Block
  BY <1>2, <1>4, Served
<1>6. /\ idequeue' = rest /\ irq' = FALSE /\ UNCHANGED <<disk, blockno, locked, buf>>
      /\ cmd' = IF rest = <<>> THEN NoCmd ELSE idestart(Head(rest), dirty')
      /\ valid' = [valid EXCEPT ![b] = TRUE] /\ dirty' = [dirty EXCEPT ![b] = FALSE]
      /\ data' = IF dirty[b] THEN data ELSE [data EXCEPT ![b] = disk[cmd.block]]
      /\ pc' = [q \in Proc |-> IF pc[q] = "io" /\ buf[q] = b THEN "have" ELSE pc[q]]
  BY <1>2, <1>3 DEF ideintr
<1>7. /\ valid'[b] /\ ~dirty'[b]
      /\ data'[b] = IF dirty[b] THEN data[b] ELSE disk[blockno[b]]
      /\ \A c \in Buf : c # b => /\ data'[c] = data[c] /\ valid'[c] = valid[c]
                                 /\ dirty'[c] = dirty[c]
      /\ \A q \in Proc : pc'[q] = IF pc[q] = "io" /\ buf[q] = b THEN "have" ELSE pc[q]
  BY <1>5, <1>6, HaveDomains DEF Domains
<1>8. LockInv'
  <2>1. \A q \in Proc : pc'[q] \in Holding <=> pc[q] \in Holding
    BY <1>7, Zenon DEF Holding
  <2>2. /\ \A q \in Proc : pc'[q] \in Holding => locked'[buf'[q]] = q
        /\ \A c \in Buf : locked'[c] # NoProc => /\ buf'[locked'[c]] = c
                                                 /\ pc'[locked'[c]] \in Holding
    BY <1>1, <1>6, <2>1 DEF BcacheInv, LockInv, Shape
  <2>3. \A q \in Proc : pc'[q] \in {"have", "changed"} => valid'[buf'[q]]
    BY <1>1, <1>6, <1>7 DEF BcacheInv, LockInv, Shape
  <2>4. \A c \in Buf : (dirty'[c] => valid'[c]) /\ (valid'[c] => blockno'[c] # NoBlock)
    BY <1>5, <1>6, <1>7 DEF BcacheInv, LockInv
  <2>5. QED BY <2>2, <2>3, <2>4 DEF LockInv
<1>9. CleanIsOnDisk'
  <2>1. dirty[b] => disk[blockno[b]] = data[b]
    BY <1>2, <1>4, Zenon DEF BcacheInv, IdeInv
  <2>2. data'[b] = disk'[blockno'[b]]
    BY <1>6, <1>7, <2>1, Zenon
  <2>3. QED BY <1>6, <1>7, <2>2 DEF BcacheInv, CleanIsOnDisk
<1>10. IdeInv'
  <2>1. /\ rest \in Seq(Buf) /\ Len(rest) = Len(idequeue) - 1 /\ Len(idequeue) \in Nat
        /\ DOMAIN rest = 1..Len(rest) /\ DOMAIN idequeue = 1..Len(idequeue)
        /\ \A i \in DOMAIN rest : rest[i] = idequeue[i + 1] /\ i + 1 \in DOMAIN idequeue
    BY <1>3, <1>4 DEF BcacheInv, BcacheTypeOK
  <2>2. /\ \A i, j \in DOMAIN idequeue : idequeue[i] = idequeue[j] => i = j
        /\ \A i \in DOMAIN rest : rest[i] \in Buf /\ rest[i] # b
    BY <1>5, <2>1 DEF BcacheInv, IdeInv
  <2>3. \A i, j \in DOMAIN rest : rest[i] = rest[j] => i = j
    BY <2>1, <2>2
  <2>4. \A i \in DOMAIN rest : locked[rest[i]] # NoProc /\ pc'[locked[rest[i]]] = "io"
    BY <1>1, <1>7, <2>1, <2>2 DEF Shape
  <2>5. ASSUME NEW q \in Proc, pc'[q] = "io"
        PROVE  (\E i \in DOMAIN rest : rest[i] = buf[q]) /\ (valid'[buf[q]] => dirty'[buf[q]])
    <3>1. pc[q] = "io" /\ buf[q] # b
      BY <1>7, <2>5
    <3>2. PICK i \in DOMAIN idequeue : idequeue[i] = buf[q]
      BY <3>1, Zenon DEF BcacheInv, IdeInv
    <3>3. i - 1 \in DOMAIN rest /\ rest[i - 1] = buf[q]
      BY <1>5, <2>1, <3>1, <3>2
    <3>4. valid'[buf[q]] => dirty'[buf[q]]
      BY <1>1, <1>7, <3>1 DEF BcacheInv, IdeInv, Shape
    <3>5. QED BY <3>3, <3>4, Zenon
  <2>6. cmd' = IF idequeue' = <<>> THEN NoCmd ELSE idestart(Head(idequeue), dirty)'
    <3>1. CASE rest = <<>>
      BY <1>6, <3>1
    <3>2. CASE rest # <<>>
      <4>1. Head(rest) \in Buf /\ Head(rest) # b
        BY <2>1, <2>2, <3>2
      <4>2. cmd' = idestart(Head(rest), dirty') /\ idequeue' = rest
        BY <1>6, <3>2, Zenon
      <4>3. QED BY <1>6, <1>7, <3>2, <4>1, <4>2 DEF idestart
    <3>3. QED BY <3>1, <3>2
  <2>7. QED BY <1>6, <2>3, <2>4, <2>5, <2>6 DEF IdeInv
<1>11. QED BY <1>8, <1>9, <1>10, Zenon DEF BufInv

LEMMA BufStep == ASSUME BcacheInv, [BcacheNext]_bcacheVars PROVE BufInv'
<1>1. CASE UNCHANGED bcacheVars
  <2>1. LockInv' /\ IdeInv'
    BY <1>1, IdeFrame DEF bcacheVars, BcacheInv, LockInv
  <2>2. QED BY <1>1, <2>1, CleanFrame DEF bcacheVars, BcacheInv, BufInv
<1>2. CASE BcacheNext
  BY <1>2, HitStep, MissStep, AcquireStep, BreadStep, ChangeStep, BwriteStep, LogWriteStep,
     ReleaseStep, BrelseStep, DriveStep, IntrStep DEF BcacheNext, ProcStep
<1>3. QED BY <1>1, <1>2

-----------------------------------------------------------------------------
(* What a block holds and who uses it                                      *)

\* What Content and User are when a block is in at most one buffer.
ContentIs(c, k) ==
    /\ \A b \in Buf : blockno[b] = k /\ valid[b] => c = data[b]
    /\ (\A b \in Buf : blockno[b] = k => ~valid[b]) => c = disk[k]

UserIs(u, k) ==
    /\ \A b \in Buf : blockno[b] = k => u = locked[b]
    /\ (\A b \in Buf : blockno[b] # k) => u = NoProc

MapInv ==
    /\ Content = [k \in Block |-> Content[k]] /\ User = [k \in Block |-> User[k]]
    /\ \A k \in Block : ContentIs(Content[k], k) /\ UserIs(User[k], k)

LEMMA Mapped == BcacheInv => MapInv
<1>1. SUFFICES ASSUME BcacheInv PROVE MapInv
  OBVIOUS
<1>2. Content = [k \in Block |-> Content[k]] /\ User = [k \in Block |-> User[k]]
  BY DEF Content, User
<1>3. ASSUME NEW k \in Block PROVE ContentIs(Content[k], k)
  <2>1. ASSUME NEW b \in Buf, blockno[b] = k, valid[b] PROVE Content[k] = data[b]
    <3>1. b \in Cached(k) /\ \A c \in Cached(k) : c = b
      BY <1>1, <2>1 DEF Cached, BcacheInv, RefInv
    <3>2. \E c \in Cached(k) : valid[c]
      BY <2>1, <3>1
    <3>3. (CHOOSE c \in Cached(k) : valid[c]) \in Cached(k)
      BY <3>2, Zenon
    <3>4. (CHOOSE c \in Cached(k) : valid[c]) = b
      BY <3>1, <3>3, Zenon
    <3>5. QED BY <3>2, <3>4, Zenon DEF Content
  <2>2. ASSUME \A b \in Buf : blockno[b] = k => ~valid[b] PROVE Content[k] = disk[k]
    BY <2>2, Zenon DEF Content, Cached
  <2>3. QED BY <2>1, <2>2, Zenon DEF ContentIs
<1>4. ASSUME NEW k \in Block PROVE UserIs(User[k], k)
  <2>1. ASSUME NEW b \in Buf, blockno[b] = k PROVE User[k] = locked[b]
    <3>1. b \in Cached(k) /\ \A c \in Cached(k) : c = b
      BY <1>1, <2>1 DEF Cached, BcacheInv, RefInv
    <3>2. (CHOOSE c \in Cached(k) : TRUE) \in Cached(k)
      BY <3>1, Zenon
    <3>3. (CHOOSE c \in Cached(k) : TRUE) = b
      BY <3>1, <3>2, Zenon
    <3>4. QED BY <3>1, <3>3 DEF User
  <2>2. ASSUME \A b \in Buf : blockno[b] # k PROVE User[k] = NoProc
    BY <2>2, Zenon DEF User, Cached
  <2>3. QED BY <2>1, <2>2 DEF UserIs
<1>5. QED BY <1>2, <1>3, <1>4 DEF MapInv

LEMMA SameContent ==
    ASSUME MapInv, MapInv', \A k \in Block : Content'[k] = Content[k]
    PROVE  Content' = Content
  BY Zenon DEF MapInv

LEMMA SameUser ==
    ASSUME MapInv, MapInv', \A k \in Block : User'[k] = User[k]
    PROVE  User' = User
  BY Zenon DEF MapInv

\* Content and User depend on these variables only.
LEMMA ContentFrame ==
    ASSUME MapInv, MapInv', UNCHANGED <<disk, blockno, valid, data>>
    PROVE  Content' = Content
<1>1. ASSUME NEW k \in Block PROVE Content'[k] = Content[k]
  <2>1. ContentIs(Content[k], k) /\ ContentIs(Content[k], k)'
    BY Zenon DEF MapInv
  <2>2. CASE \E b \in Buf : blockno[b] = k /\ valid[b]
    <3>1. PICK b \in Buf : blockno[b] = k /\ valid[b]
      BY <2>2, Zenon
    <3>2. QED BY <2>1, <3>1 DEF ContentIs
  <2>3. CASE \A b \in Buf : blockno[b] = k => ~valid[b]
    BY <2>1, <2>3, Zenon DEF ContentIs
  <2>4. QED BY <2>2, <2>3
<1>2. QED BY <1>1, SameContent

LEMMA UserFrame ==
    ASSUME MapInv, MapInv', UNCHANGED <<blockno, locked>>
    PROVE  User' = User
<1>1. ASSUME NEW k \in Block PROVE User'[k] = User[k]
  <2>1. UserIs(User[k], k) /\ UserIs(User[k], k)'
    BY Zenon DEF MapInv
  <2>2. CASE \E b \in Buf : blockno[b] = k
    <3>1. PICK b \in Buf : blockno[b] = k
      BY <2>2, Zenon
    <3>2. QED BY <2>1, <3>1 DEF UserIs
  <2>3. CASE \A b \in Buf : blockno[b] # k
    BY <2>1, <2>3, Zenon DEF UserIs
  <2>4. QED BY <2>2, <2>3
<1>2. QED BY <1>1, SameUser

-----------------------------------------------------------------------------
(* The users of a buffer                                                   *)

LEMMA UsersFinite == \A b : IsFiniteSet(Users(b)) /\ Cardinality(Users(b)) \in Nat
<1>1. ASSUME NEW b PROVE IsFiniteSet(Users(b)) /\ Cardinality(Users(b)) \in Nat
  <2>1. Users(b) \in SUBSET Proc
    BY Zenon DEF Users
  <2>2. QED BY <2>1, FS_Subset, FS_CardinalityType, Zenon
<1>2. QED BY <1>1, Zenon

LEMMA Unused == RefInv => UnusedInv
<1>1. ASSUME RefInv, NEW b \in Buf, refcnt[b] = 0 PROVE \A p \in Proc : buf[p] # b
  <2>1. Users(b) = {}
    BY <1>1, UsersFinite, FS_EmptySet, Zenon DEF RefInv
  <2>2. QED BY <2>1, Zenon DEF Users
<1>2. QED BY <1>1, Zenon DEF UnusedInv

LEMMA UnusedNext == RefInv' => UnusedInv'
  BY Unused, PTL

-----------------------------------------------------------------------------
(* The steps keep the references                                           *)

LEMMA RefFrame ==
    ASSUME RefInv, UNCHANGED <<blockno, refcnt, buf, want>>,
           \A q \in Proc : pc'[q] = "user" <=> pc[q] = "user"
    PROVE  RefInv'
<1>1. \A b : Users(b)' = Users(b)
  BY Zenon DEF Users
<1>2. QED BY <1>1, Zenon DEF RefInv

LEMMA RefStep == ASSUME BcacheInv, [BcacheNext]_bcacheVars PROVE RefInv'
<1>d. Domains
  BY HaveDomains, Zenon
<1>1. ASSUME NEW p \in Proc, NEW k \in Block, NEW b \in Buf, bgetHit(p, k, b) \/ bgetMiss(p, k, b)
      PROVE  RefInv'
  <2>1. /\ pc[p] = "user" /\ pc'[p] = "lock" /\ buf'[p] = b /\ want'[p] = k
        /\ \A q \in Proc : q # p => pc'[q] = pc[q] /\ buf'[q] = buf[q] /\ want'[q] = want[q]
    BY <1>d, <1>1, Zenon DEF bgetHit, bgetMiss, Domains
  <2>2. buf[p] = NoBuf
    BY <2>1, Zenon DEF BcacheInv, RefInv
  <2>3. /\ Users(b)' = Users(b) \cup {p} /\ p \notin Users(b)
        /\ \A c \in Buf : c # b => Users(c)' = Users(c)
    BY <2>1, <2>2, Zenon DEF Users
  <2>4. Cardinality(Users(b)') = Cardinality(Users(b)) + 1
    <3>1. Cardinality(Users(b) \cup {p}) = Cardinality(Users(b)) + 1
      BY <2>3, UsersFinite, FS_AddElement, Zenon
    <3>2. QED BY <2>3, <3>1, Zenon
  <2>5. \A c \in Buf : c # b => Cardinality(Users(c)') = Cardinality(Users(c))
    BY <2>3, Zenon
  <2>6. refcnt'[b] = refcnt[b] + 1 /\ \A c \in Buf : c # b => refcnt'[c] = refcnt[c]
    BY <1>d, <1>1 DEF bgetHit, bgetMiss, Recyclable, Domains
  <2>7. /\ blockno'[b] = k /\ \A c \in Buf : c # b => blockno'[c] = blockno[c] /\ blockno'[c] # k
    BY <1>1 DEF bgetHit, bgetMiss, Cached, BcacheInv, BcacheTypeOK, RefInv
  <2>8. \A q \in Proc : buf[q] = b => blockno'[b] = blockno[b]
    <3>1. CASE bgetHit(p, k, b)
      BY <3>1, Zenon DEF bgetHit
    <3>2. CASE bgetMiss(p, k, b)
      BY <3>2, Zenon DEF bgetMiss, Recyclable, BcacheInv, UnusedInv
    <3>3. QED BY <1>1, <3>1, <3>2, Zenon
  <2>9. \A c \in Buf : refcnt'[c] = Cardinality(Users(c)')
    BY <2>4, <2>5, <2>6, Zenon DEF BcacheInv, RefInv
  <2>10. \A q \in Proc : IF pc'[q] = "user" THEN buf'[q] = NoBuf
                         ELSE /\ buf'[q] \in Buf /\ want'[q] \in Block
                              /\ blockno'[buf'[q]] = want'[q]
    BY <2>1, <2>7, <2>8 DEF BcacheInv, RefInv
  <2>11. \A a, c \in Buf : blockno'[a] = blockno'[c] /\ blockno'[a] # NoBlock => a = c
    BY <2>7 DEF BcacheInv, RefInv
  <2>12. QED BY <2>9, <2>10, <2>11, Zenon DEF RefInv
<1>2. ASSUME NEW p \in Proc, brelse(p) PROVE RefInv'
  <2>0. PICK b \in Buf : b = buf[p]
    BY <1>2, Busy, Zenon DEF brelse
  <2>1. /\ pc[p] = "drop" /\ pc'[p] = "user" /\ buf'[p] = NoBuf
        /\ \A q \in Proc : q # p => pc'[q] = pc[q] /\ buf'[q] = buf[q] /\ want'[q] = want[q]
        /\ blockno' = blockno /\ refcnt' = [refcnt EXCEPT ![b] = @ - 1]
    BY <1>d, <1>2, <2>0, Zenon DEF brelse, Domains
  <2>3. /\ Users(b)' = Users(b) \ {p} /\ p \in Users(b)
        /\ \A c \in Buf : c # b => Users(c)' = Users(c)
    BY <2>0, <2>1, Zenon DEF Users
  <2>4. Cardinality(Users(b)') = Cardinality(Users(b)) - 1
    <3>1. Cardinality(Users(b) \ {p}) = Cardinality(Users(b)) - 1
      BY <2>3, UsersFinite, FS_RemoveElement, Zenon
    <3>2. QED BY <2>3, <3>1, Zenon
  <2>5. \A c \in Buf : c # b => Cardinality(Users(c)') = Cardinality(Users(c))
    BY <2>3, Zenon
  <2>6. refcnt'[b] = refcnt[b] - 1 /\ \A c \in Buf : c # b => refcnt'[c] = refcnt[c]
    BY <2>1, Zenon DEF BcacheInv, BcacheTypeOK
  <2>7. \A c \in Buf : refcnt'[c] = Cardinality(Users(c)')
    BY <2>4, <2>5, <2>6, Zenon DEF BcacheInv, RefInv
  <2>8. \A q \in Proc : IF pc'[q] = "user" THEN buf'[q] = NoBuf
                        ELSE /\ buf'[q] \in Buf /\ want'[q] \in Block
                             /\ blockno'[buf'[q]] = want'[q]
    BY <2>1 DEF BcacheInv, RefInv
  <2>9. QED BY <2>1, <2>7, <2>8, Zenon DEF BcacheInv, RefInv
<1>3. ASSUME NEW p \in Proc, acquiresleep(p) \/ bread(p) \/ bwrite(p) \/ log_write(p) \/ releasesleep(p)
      PROVE  RefInv'
  <2>1. UNCHANGED <<blockno, refcnt, buf, want>>
    BY <1>3, Zenon DEF acquiresleep, bread, bwrite, log_write, releasesleep, bufVars
  <2>2. \A q \in Proc : pc'[q] = "user" <=> pc[q] = "user"
    <3>1. CASE releasesleep(p)
      BY <1>d, <3>1, Zenon DEF releasesleep, Domains
    <3>2. CASE ~releasesleep(p)
      BY <1>d, <1>3, <3>2, Zenon DEF acquiresleep, bread, bwrite, log_write, iderw, Domains
    <3>3. QED BY <3>1, <3>2, Zenon
  <2>3. QED BY <2>1, <2>2, RefFrame, Zenon DEF BcacheInv
<1>4. ASSUME NEW p \in Proc, NEW v \in Data, Change(p, v) PROVE RefInv'
  BY <1>d, <1>4, RefFrame, Zenon DEF Change, Domains, BcacheInv
<1>5. CASE DriveDone
  BY <1>5, RefFrame, Zenon DEF DriveDone, BcacheInv, bufVars
<1>6. CASE ideintr
  <2>1. UNCHANGED <<blockno, refcnt, buf, want>>
    BY <1>6, Zenon DEF ideintr
  <2>2. \A q \in Proc : pc'[q] = "user" <=> pc[q] = "user"
    BY <1>6, Zenon DEF ideintr
  <2>3. QED BY <2>1, <2>2, RefFrame, Zenon DEF BcacheInv
<1>7. CASE UNCHANGED bcacheVars
  BY <1>7, RefFrame, Zenon DEF bcacheVars, BcacheInv
<1>8. QED
  BY <1>1, <1>2, <1>3, <1>4, <1>5, <1>6, <1>7, Zenon DEF BcacheNext, ProcStep

-----------------------------------------------------------------------------
LEMMA InvInit == ASSUME BcacheInit PROVE BcacheInv
<1>1. BcacheTypeOK
  <2>1. data \in [Buf -> Data]
    BY Zenon DEF BcacheInit
  <2>2. valid \in [Buf -> BOOLEAN] /\ dirty \in [Buf -> BOOLEAN] /\ irq \in BOOLEAN
    BY Zenon DEF BcacheInit
  <2>3. /\ disk \in [Block -> Data] /\ blockno \in [Buf -> Block \cup {NoBlock}]
        /\ refcnt \in [Buf -> Nat] /\ locked \in [Buf -> Proc \cup {NoProc}]
        /\ idequeue \in Seq(Buf)
    BY DEF BcacheInit
  <2>4. /\ pc \in [Proc -> PC] /\ buf \in [Proc -> Buf \cup {NoBuf}]
        /\ want \in [Proc -> Block \cup {NoBlock}]
    BY Zenon DEF BcacheInit, PC
  <2>5. QED BY <2>1, <2>2, <2>3, <2>4, Zenon DEF BcacheTypeOK
<1>2. \A b \in Buf : Users(b) = {}
  BY Zenon DEF BcacheInit, Users
<1>3. \A b \in Buf : Cardinality(Users(b)) = 0
  BY <1>2, FS_EmptySet, Zenon
<1>4. RefInv
  BY <1>3, Zenon DEF BcacheInit, RefInv
<1>5. LockInv
  BY Zenon DEF BcacheInit, LockInv, Holding
<1>8. CleanIsOnDisk
  BY Zenon DEF BcacheInit, CleanIsOnDisk
<1>6. IdeInv
  BY DEF BcacheInit, IdeInv
<1>7. QED BY <1>1, <1>4, <1>5, <1>6, <1>8, Unused, Zenon DEF BcacheInv

\* The cache is consistent at every moment: references, sleep locks, the
\* queue of the disk and the flags of the buffers.
THEOREM BcacheInvariant == BcacheSpec => []BcacheInv
<1>1. BcacheInit => BcacheInv
  BY InvInit, Zenon
<1>2. BcacheInv /\ [BcacheNext]_bcacheVars => BcacheInv'
  <2>1. SUFFICES ASSUME BcacheInv, [BcacheNext]_bcacheVars PROVE BcacheInv'
    BY Zenon
  <2>2. BcacheTypeOK' /\ BufInv'
    BY <2>1, TypeStep, BufStep, Zenon
  <2>3. RefInv' /\ UnusedInv'
    BY <2>1, RefStep, UnusedNext, Zenon
  <2>4. QED BY <2>2, <2>3, Zenon DEF BcacheInv, BufInv
<1>3. QED BY <1>1, <1>2, PTL DEF BcacheSpec

\* bread() returns the buffer of the block it was asked for, locked and read
\* in, and no block is in two buffers.
THEOREM BcacheReturns == BcacheSpec => []BreadReturns
<1>1. BcacheInv => BreadReturns
  <2>1. SUFFICES ASSUME BcacheInv PROVE BreadReturns
    BY Zenon
  <2>2. \A p \in Proc : pc[p] \in {"have", "changed"} =>
            locked[buf[p]] = p /\ valid[buf[p]] /\ blockno[buf[p]] = want[p]
    BY <2>1, Busy DEF BcacheInv, LockInv, Holding
  <2>3. QED BY <2>1, <2>2, Zenon DEF BcacheInv, RefInv, BreadReturns
<1>2. QED BY <1>1, BcacheInvariant, PTL

\* A buffer that is valid and not dirty, and not being changed, has the
\* contents of its block on the disk: what bwrite() has returned from is there.
THEOREM BcacheClean == BcacheSpec => []CleanIsOnDisk
<1>1. BcacheInv => CleanIsOnDisk
  BY Zenon DEF BcacheInv
<1>2. QED BY <1>1, BcacheInvariant, PTL

-----------------------------------------------------------------------------
(* The cache implements the block store                                    *)

LEMMA StoreStep ==
    ASSUME BcacheInv, MapInv, MapInv', [BcacheNext]_bcacheVars
    PROVE  [Store!StoreNext]_(Store!storeVars)
<1> DEFINE Stutters == Content' = Content /\ User' = User
<1>d. Domains
  BY HaveDomains, Zenon
<1>1. ASSUME NEW p \in Proc, NEW k \in Block, NEW b \in Buf, bgetHit(p, k, b)
      PROVE  Stutters
  BY <1>1, ContentFrame, UserFrame, Zenon DEF bgetHit, ideVars
<1>2. ASSUME NEW p \in Proc, NEW k \in Block, NEW b \in Buf, bgetMiss(p, k, b)
      PROVE  Stutters
  <2>1. /\ UNCHANGED <<disk, data, locked>> /\ blockno'[b] = k /\ ~valid'[b]
        /\ \A c \in Buf : c # b => blockno'[c] = blockno[c] /\ valid'[c] = valid[c]
        /\ \A c \in Buf : blockno[c] # k
    BY <1>d, <1>2, Zenon DEF bgetMiss, ideVars, Cached, Domains
  <2>2. \A q \in Proc : buf[q] # b
    BY <1>2, Zenon DEF bgetMiss, Recyclable, BcacheInv, UnusedInv
  <2>3. locked[b] = NoProc
    BY <2>2 DEF BcacheInv, LockInv, BcacheTypeOK
  <2>4. valid[b] => data[b] = disk[blockno[b]]
    BY <1>2, <2>2, Zenon DEF bgetMiss, Recyclable, BcacheInv, CleanIsOnDisk
  <2>5. ASSUME NEW j \in Block PROVE Content'[j] = Content[j]
    <3>1. ContentIs(Content[j], j) /\ ContentIs(Content[j], j)'
      BY Zenon DEF MapInv
    <3>2. CASE \E c \in Buf : c # b /\ blockno[c] = j
      <4>1. PICK c \in Buf : c # b /\ blockno[c] = j
        BY <3>2, Zenon
      <4>2. j # k /\ blockno'[c] = j /\ valid'[c] = valid[c] /\ data'[c] = data[c]
            /\ disk'[j] = disk[j]
        BY <2>1, <4>1, Zenon
      <4>3. CASE valid[c]
        BY <3>1, <4>1, <4>2, <4>3, Zenon DEF ContentIs
      <4>4. CASE ~valid[c]
        <5>1. \A d \in Buf : blockno[d] = j => d = c
          BY <4>1 DEF BcacheInv, RefInv
        <5>2. \A d \in Buf : blockno'[d] = j => d = c
          BY <2>1, <4>2, <5>1
        <5>3. Content[j] = disk[j]
          BY <3>1, <4>4, <5>1 DEF ContentIs
        <5>4. Content'[j] = disk[j]
          BY <3>1, <4>2, <4>4, <5>2 DEF ContentIs
        <5>5. QED BY <5>3, <5>4, Zenon
      <4>5. QED BY <4>3, <4>4, Zenon
    <3>3. CASE ~\E c \in Buf : c # b /\ blockno[c] = j
      <4>1. Content'[j] = disk[j]
        BY <2>1, <3>1, <3>3 DEF ContentIs
      <4>2. Content[j] = disk[j]
        BY <2>1, <2>4, <3>1, <3>3 DEF ContentIs
      <4>3. QED BY <4>1, <4>2, Zenon
    <3>4. QED BY <3>2, <3>3, Zenon
  <2>6. ASSUME NEW j \in Block PROVE User'[j] = User[j]
    <3>1. UserIs(User[j], j) /\ UserIs(User[j], j)'
      BY Zenon DEF MapInv
    <3>2. CASE \E c \in Buf : c # b /\ blockno[c] = j
      BY <2>1, <3>1, <3>2 DEF UserIs
    <3>3. CASE ~\E c \in Buf : c # b /\ blockno[c] = j
      <4>1. User'[j] = NoProc
        BY <2>1, <2>3, <3>1, <3>3 DEF UserIs
      <4>2. User[j] = NoProc
        BY <2>1, <2>3, <3>1, <3>3 DEF UserIs
      <4>3. QED BY <4>1, <4>2, Zenon
    <3>4. QED BY <3>2, <3>3, Zenon
  <2>7. QED BY <2>5, <2>6, SameContent, SameUser
<1>3. ASSUME NEW p \in Proc, acquiresleep(p)
      PROVE  Stutters \/ \E k \in Block : Store!Take(p, k)
  <2>1. /\ UNCHANGED <<disk, blockno, valid, data>> /\ pc[p] = "lock"
    BY <1>3, Zenon DEF acquiresleep, ideVars
  <2>2. Content' = Content
    BY <2>1, ContentFrame, Zenon
  <2>3. CASE locked[buf[p]] # NoProc
    BY <1>3, <2>1, <2>2, <2>3, UserFrame DEF acquiresleep
  <2>4. CASE locked[buf[p]] = NoProc
    <3>1. PICK b \in Buf, k \in Block : b = buf[p] /\ k = blockno[b]
      BY <2>1, Busy, Zenon
    <3>2. locked[b] = NoProc /\ locked'[b] = p /\ \A c \in Buf : c # b => locked'[c] = locked[c]
      BY <1>d, <1>3, <2>4, <3>1 DEF acquiresleep, Domains
    <3>3. User[k] = NoProc /\ User'[k] = p
      BY <2>1, <3>1, <3>2 DEF MapInv, UserIs
    <3>4. \A j \in Block : j # k => User'[j] = User[j]
      BY <2>1, <3>1, <3>2 DEF MapInv, UserIs
    <3>5. User' = [User EXCEPT ![k] = p]
      BY <3>3, <3>4 DEF MapInv
    <3>6. QED BY <2>2, <3>3, <3>5, Zenon DEF Store!Take
  <2>5. QED BY <2>3, <2>4, Zenon
<1>4. ASSUME NEW p \in Proc, bread(p) \/ bwrite(p) \/ log_write(p) \/ brelse(p)
      PROVE  Stutters
  <2>1. UNCHANGED <<disk, blockno, valid, data, locked>>
    BY <1>4, Zenon DEF bread, bwrite, log_write, brelse, iderw, bufVars, ideVars
  <2>2. QED BY <2>1, ContentFrame, UserFrame
<1>5. ASSUME NEW p \in Proc, NEW v \in Data, Change(p, v)
      PROVE  \E k \in Block : Store!Change(p, k, v)
  <2>1. /\ UNCHANGED <<disk, blockno, valid, locked>> /\ pc[p] \in {"have", "changed"}
    BY <1>5, Zenon DEF Change, ideVars
  <2>2. PICK b \in Buf, k \in Block : b = buf[p] /\ k = blockno[b]
    BY <2>1, Busy, Zenon
  <2>3. /\ locked[b] = p /\ valid[b] /\ data'[b] = v
        /\ \A c \in Buf : c # b => data'[c] = data[c]
    <3>1. locked[b] = p /\ valid[b]
      BY <2>1, <2>2 DEF BcacheInv, LockInv, Holding
    <3>2. DOMAIN data = Buf /\ data' = [data EXCEPT ![b] = v]
      BY <1>d, <1>5, <2>2 DEF Change, Domains
    <3>3. QED BY <3>1, <3>2, Zenon
  <2>4. User' = User
    BY <2>1, UserFrame, Zenon
  <2>5. User[k] = p /\ Content'[k] = v
    <3>1. ContentIs(Content[k], k)' /\ UserIs(User[k], k)
      BY <2>2, Zenon DEF MapInv
    <3>2. User[k] = p
      BY <2>2, <2>3, <3>1 DEF UserIs
    <3>3. Content'[k] = v
      BY <2>1, <2>2, <2>3, <3>1 DEF ContentIs
    <3>4. QED BY <3>2, <3>3, Zenon
  <2>6. ASSUME NEW j \in Block, j # k PROVE Content'[j] = Content[j]
    <3>1. ContentIs(Content[j], j) /\ ContentIs(Content[j], j)'
      BY Zenon DEF MapInv
    <3>2. QED BY <2>1, <2>2, <2>3, <2>6, <3>1 DEF ContentIs
  <2>7. Content' = [Content EXCEPT ![k] = v]
    BY <2>5, <2>6, Zenon DEF MapInv
  <2>8. QED BY <2>4, <2>5, <2>7, Zenon DEF Store!Change
<1>6. ASSUME NEW p \in Proc, releasesleep(p) PROVE \E k \in Block : Store!Give(p, k)
  <2>1. /\ UNCHANGED <<disk, blockno, valid, data>> /\ pc[p] = "have" /\ locked[buf[p]] = p
    BY <1>6, Zenon DEF releasesleep, ideVars
  <2>2. PICK b \in Buf, k \in Block : b = buf[p] /\ k = blockno[b]
    BY <2>1, Busy, Zenon
  <2>3. locked[b] = p /\ locked'[b] = NoProc /\ \A c \in Buf : c # b => locked'[c] = locked[c]
    BY <1>d, <1>6, <2>1, <2>2 DEF releasesleep, Domains
  <2>4. Content' = Content
    BY <2>1, ContentFrame, Zenon
  <2>5. User[k] = p /\ User'[k] = NoProc
    BY <2>1, <2>2, <2>3 DEF MapInv, UserIs
  <2>6. \A j \in Block : j # k => User'[j] = User[j]
    BY <2>1, <2>2, <2>3 DEF MapInv, UserIs
  <2>7. User' = [User EXCEPT ![k] = NoProc]
    BY <2>5, <2>6 DEF MapInv
  <2>8. QED BY <2>4, <2>5, <2>7, Zenon DEF Store!Give
<1>7. ASSUME DriveDone PROVE Stutters
  <2>1. /\ UNCHANGED <<blockno, valid, dirty, data, locked>>
        /\ disk' = IF cmd.op = "write" THEN [disk EXCEPT ![cmd.block] = cmd.data] ELSE disk
    BY <1>7, Zenon DEF DriveDone, bufVars
  <2>2. idequeue # <<>>
    BY <1>7, Zenon DEF DriveDone, BcacheInv, IdeInv
  <2>3. PICK b : b = Head(idequeue)
    BY Zenon
  <2>4. \A j \in Block : disk'[j] = disk[j] \/ (j = blockno[b] /\ b \in Buf /\ valid[b])
    <3>1. /\ b \in Buf /\ cmd.op = (IF dirty[b] THEN "write" ELSE "read")
          /\ cmd.block = blockno[b]
      BY <2>2, <2>3, Served
    <3>2. dirty[b] => valid[b]
      BY <3>1, Zenon DEF BcacheInv, LockInv
    <3>3. disk \in [Block -> Data]
      BY Zenon DEF BcacheInv, BcacheTypeOK
    <3>4. QED BY <2>1, <3>1, <3>2, <3>3
  <2>5. ASSUME NEW j \in Block PROVE Content'[j] = Content[j]
    <3>1. ContentIs(Content[j], j) /\ ContentIs(Content[j], j)'
      BY Zenon DEF MapInv
    <3>2. CASE \E c \in Buf : blockno[c] = j /\ valid[c]
      <4>1. PICK c \in Buf : blockno[c] = j /\ valid[c]
        BY <3>2
      <4>2. QED BY <2>1, <3>1, <4>1 DEF ContentIs
    <3>3. CASE \A c \in Buf : blockno[c] = j => ~valid[c]
      <4>1. disk'[j] = disk[j]
        BY <2>4, <3>3, Zenon
      <4>2. QED BY <2>1, <3>1, <3>3, <4>1 DEF ContentIs
    <3>4. QED BY <3>2, <3>3
  <2>6. User' = User
    BY <2>1, UserFrame
  <2>7. QED BY <2>5, <2>6, SameContent
<1>8. ASSUME ideintr PROVE Stutters
  <2>1. PICK b : b = Head(idequeue)
    BY Zenon
  <2>2. /\ b \in Buf /\ cmd.block = blockno[b] /\ blockno[b] \in Block
        /\ locked[b] \in Proc /\ pc[locked[b]] = "io" /\ buf[locked[b]] = b
    BY <1>8, <2>1, Served DEF ideintr
  <2>3. /\ UNCHANGED <<disk, blockno, locked>> /\ valid'[b]
        /\ \A c \in Buf : c # b => data'[c] = data[c] /\ valid'[c] = valid[c]
        /\ data'[b] = IF dirty[b] THEN data[b] ELSE disk[blockno[b]]
    BY <1>d, <1>8, <2>1, <2>2 DEF ideintr, Domains
  <2>4. dirty[b] <=> valid[b]
    <3>1. dirty[b] => valid[b]
      BY <2>2, Zenon DEF BcacheInv, LockInv
    <3>2. valid[b] => dirty[b]
      BY <2>2 DEF BcacheInv, IdeInv
    <3>3. QED BY <3>1, <3>2, Zenon
  <2>5. ASSUME NEW j \in Block PROVE Content'[j] = Content[j]
    <3>1. ContentIs(Content[j], j) /\ ContentIs(Content[j], j)'
      BY Zenon DEF MapInv
    <3>2. CASE j = blockno[b]
      <4>1. \A c \in Buf : blockno[c] = j => c = b
        BY <2>2, <3>2 DEF BcacheInv, RefInv
      <4>2. QED BY <2>2, <2>3, <2>4, <3>1, <3>2, <4>1 DEF ContentIs
    <3>3. CASE j # blockno[b]
      BY <2>3, <3>1, <3>3 DEF ContentIs
    <3>4. QED BY <3>2, <3>3, Zenon
  <2>6. User' = User
    BY <2>3, UserFrame, Zenon
  <2>7. QED BY <2>5, <2>6, SameContent, Zenon
<1>9. ASSUME UNCHANGED bcacheVars PROVE Stutters
  BY <1>9, ContentFrame, UserFrame, Zenon DEF bcacheVars
<1> HIDE DEF Stutters
<1>10. Stutters \/ Store!StoreNext
  BY <1>1, <1>2, <1>3, <1>4, <1>5, <1>6, <1>7, <1>8, <1>9
     DEF BcacheNext, ProcStep, Store!StoreNext
<1>11. QED BY <1>10, Zenon DEF Stutters, Store!storeVars

\* The cache implements the block store: which blocks are cached, read or
\* written back is not to be seen, and a block has one user at a time.
THEOREM BcacheRefines == BcacheSpec => StoreSpec
<1>1. BcacheInit => Store!StoreInit
  <2>1. SUFFICES ASSUME BcacheInit PROVE Store!StoreInit
    BY Zenon
  <2>2. /\ disk \in [Block -> Data] /\ \A b \in Buf : blockno[b] = NoBlock
    BY <2>1, Zenon DEF BcacheInit
  <2>3. \A k \in Block, b \in Buf : b \notin Cached(k)
    BY <2>2, Zenon DEF Cached
  <2>4. \A k \in Block : Cached(k) = {}
    BY <2>3, Zenon DEF Cached
  <2>5. Content = [k \in Block |-> disk[k]]
    BY <2>4, Zenon DEF Content
  <2>6. User = [k \in Block |-> NoProc]
    BY <2>4, Zenon DEF User
  <2>7. Content \in [Block -> Data]
    BY <2>2, <2>5, Zenon
  <2>8. QED BY <2>6, <2>7, Zenon DEF Store!StoreInit
<1>2. BcacheInv /\ BcacheInv' /\ MapInv /\ MapInv' /\ [BcacheNext]_bcacheVars
      => [Store!StoreNext]_(Store!storeVars)
  BY StoreStep, Zenon
<1>3. QED BY <1>1, <1>2, Mapped, BcacheInvariant, PTL DEF BcacheSpec, StoreSpec, Store!StoreSpec
=============================================================================
