----------------------------- MODULE LogProofs ------------------------------
(***************************************************************************)
(* What a step of the log does: it keeps the types and the order of the    *)
(* writes of commit() and of the recovery, and it is a step of AtomicDisk  *)
(* or none.  With the accounts of begin_op(), log_write() and end_op() the *)
(* theorems follow: the invariant of the log, that it never runs out of    *)
(* room, and that it implements atomic group commit.                       *)
(***************************************************************************)
EXTENDS Log, FiniteSetTheorems, TLAPS

InLog(b) == \E i \in DOMAIN lh : lh[i] = b
Distinct(s) == \A i, j \in DOMAIN s : s[i] = s[j] => i = j

\* What calls may still write when each may write n blocks: the blocks that
\* begin_op() has reserved, and those that will be used at most.
Rest(ops, w, n) == {r \in ops \X (1..n) : Cardinality(w[r[1]]) < r[2]}
Reserved == Rest(InOp, wrote, MAXOPBLOCKS)
Possible == Rest(InOp, wrote, OpBlocks)

\* The accounting of begin_op(), log_write() and end_op().
CountInv ==
    /\ outstanding = Cardinality(InOp)
    /\ \A p \in Proc :
           /\ IsFiniteSet(wrote[p]) /\ Cardinality(wrote[p]) <= OpBlocks
           /\ p \notin InOp => wrote[p] = {}
           /\ \A b \in wrote[p] : InLog(b)
           /\ pc[p] = "log_write" =>
                  blk[p] \in Block
                  /\ (blk[p] \in wrote[p] \/ Cardinality(wrote[p]) < OpBlocks)
    /\ Len(lh) + Cardinality(Reserved) <= LOGSIZE
    /\ Len(head) <= LOGSIZE

\* How far commit() or the recovery has come, on the disk and in memory.
PhaseInv ==
    /\ Distinct(lh) /\ Distinct(head)
    /\ tail <= Len(lh)
    /\ phase # "idle" => InOp = {}
    /\ Booting => cache = disk /\ \A p \in Proc : pc[p] = "user"
    /\ phase \in {"read_head", "done"} => lh = <<>>
    /\ phase \in {"install", "erase", "boot_install", "boot_erase"} => head = lh
    /\ phase \in {"idle", "write_log", "write_head", "done"} => head = <<>>
    /\ phase \notin {"write_log", "install", "boot_install"} => tail = 0
    /\ phase = "write_log" => \A i \in 1..tail : logblk[i] = cache[lh[i]]
    /\ phase \in {"write_head", "install", "erase"} =>
           \A i \in DOMAIN lh : logblk[i] = cache[lh[i]]
    /\ phase \in {"install", "boot_install"} =>
           \A i \in 1..tail : disk[lh[i]] = logblk[i]
    /\ phase \in {"erase", "boot_erase"} =>
           \A i \in DOMAIN lh : disk[lh[i]] = logblk[i]
    /\ ~Booting => \A b \in Block :
           \/ InLog(b) \/ cache[b] = disk[b]
           \/ \E p \in Proc : pc[p] = "log_write" /\ blk[p] = b

LogInv == LogTypeOK /\ CountInv /\ PhaseInv

\* What the accounting is for.
Accounted ==
    /\ Len(lh) <= LOGSIZE
    /\ outstanding = 0 <=> InOp = {}
    /\ \A p \in InOp : outstanding = 1 <=> InOp = {p}

USE LogAssumption, SMTT(60)

-----------------------------------------------------------------------------
\* The loop of log_write() over log.lh.block: a block is absorbed or added.
Absorb(s, x) == IF \E i \in DOMAIN s : s[i] = x THEN s ELSE Append(s, x)
Holds(s, c) == \E i \in DOMAIN s : s[i] = c

LEMMA Absorbed ==
    ASSUME NEW s \in Seq(Block), NEW x \in Block
    PROVE  /\ Absorb(s, x) \in Seq(Block)
           /\ Distinct(s) => Distinct(Absorb(s, x))
           /\ \A c : (c = x \/ Holds(s, c)) => Holds(Absorb(s, x), c)
<1> DEFINE t == Absorb(s, x)
<1>1. CASE \E i \in DOMAIN s : s[i] = x
  BY <1>1, Zenon DEF Absorb, Holds
<1>2. CASE ~\E i \in DOMAIN s : s[i] = x
  <2>1. t = Append(s, x) /\ t \in Seq(Block) /\ Len(s) \in Nat
    BY <1>2 DEF Absorb
  <2> HIDE DEF t
  <2>2. /\ DOMAIN t = 1..(Len(s) + 1) /\ DOMAIN s = 1..Len(s)
        /\ t[Len(s) + 1] = x /\ \A i \in 1..Len(s) : t[i] = s[i]
    BY <2>1
  <2>3. Distinct(s) => Distinct(t)
    BY <1>2, <2>1, <2>2 DEF Distinct
  <2>4. ASSUME NEW c, c = x \/ Holds(s, c) PROVE Holds(t, c)
    BY <2>1, <2>2, <2>4 DEF Holds
  <2>5. QED BY <2>1, <2>3, <2>4, Zenon DEF t
<1>3. QED BY <1>1, <1>2, Zenon

-----------------------------------------------------------------------------
(* The steps keep the types                                                *)

LEMMA TypeStep == ASSUME LogInv, Accounted, [LogNext]_logVars PROVE LogTypeOK'
<1> USE DEF LogInv
<1>1. Len(lh) \in Nat /\ Len(lh) <= LOGSIZE
  BY DEF LogTypeOK, Accounted
<1>2. ASSUME NEW p \in Proc, SysCall(p) \/ BeginSleep(p) \/ BeginEnter(p)
      PROVE  LogTypeOK'
  <2>1. CASE SysCall(p)
    BY <2>1, Zenon DEF LogTypeOK, SysCall
  <2>2. CASE BeginSleep(p)
    BY <2>2, Zenon DEF LogTypeOK, BeginSleep
  <2>3. CASE BeginEnter(p)
    BY <2>3 DEF LogTypeOK, BeginEnter
  <2>4. QED BY <1>2, <2>1, <2>2, <2>3, Zenon
<1>3. ASSUME NEW p \in Proc, LogWrite(p) PROVE LogTypeOK'
  BY <1>3 DEF LogTypeOK, LogWrite, CountInv
<1>4. ASSUME NEW p \in Proc, EndOp(p) PROVE LogTypeOK'
  <2>1. outstanding - 1 \in Nat
    BY <1>4 DEF EndOp, InOp, Accounted, LogTypeOK
  <2>2. QED BY <1>4, <2>1, Zenon DEF LogTypeOK, EndOp, Wake
<1>5. ASSUME NEW p \in Proc, EndCommit(p) PROVE LogTypeOK'
  BY <1>5, Zenon DEF LogTypeOK, EndCommit, Wake
<1>6. ASSUME NEW p \in Proc, NEW b \in Block, NEW v \in Data, Modify(p, b, v)
      PROVE  LogTypeOK'
  BY <1>6, Zenon DEF LogTypeOK, Modify
<1>7. CASE write_log
  <2>1. tail < Len(lh) => /\ tail + 1 \in Slots /\ tail + 1 \in DOMAIN lh
                          /\ cache[lh[tail + 1]] \in Data
    BY <1>1 DEF LogTypeOK, Slots
  <2>2. logblk' \in [Slots -> Data] /\ tail' \in Nat
    <3>1. CASE tail < Len(lh)
      <4>1. /\ logblk' = [logblk EXCEPT ![tail + 1] = cache[lh[tail + 1]]]
            /\ tail' = tail + 1
        BY <1>7, <3>1, Zenon DEF write_log
      <4>2. QED BY <2>1, <3>1, <4>1 DEF LogTypeOK
    <3>2. CASE ~(tail < Len(lh))
      BY <1>7, <3>2 DEF LogTypeOK, write_log
    <3>3. QED BY <3>1, <3>2, Zenon
  <2>3. phase' \in {"write_log", "done", "write_head"}
    BY <1>7, Zenon DEF write_log
  <2>4. UNCHANGED <<disk, head, cache, lh, outstanding, pc, blk, wrote>>
    BY <1>7, Zenon DEF write_log
  <2>5. QED BY <2>2, <2>3, <2>4, Zenon DEF LogTypeOK
<1>8. CASE write_head \/ read_head \/ erase
  <2>1. CASE write_head
    BY <2>1, Zenon DEF LogTypeOK, write_head
  <2>2. CASE read_head
    BY <2>2, Zenon DEF LogTypeOK, read_head
  <2>3. CASE erase
    BY <2>3 DEF LogTypeOK, erase
  <2>4. QED BY <1>8, <2>1, <2>2, <2>3, Zenon
<1>9. CASE install_trans
  <2>1. tail < Len(lh) => lh[tail + 1] \in Block /\ logblk[tail + 1] \in Data
    BY <1>1 DEF LogTypeOK, Slots
  <2>2. disk' \in [Block -> Data] /\ cache' \in [Block -> Data] /\ tail' \in Nat
    <3>1. CASE tail < Len(lh)
      <4>1. /\ disk' = [disk EXCEPT ![lh[tail + 1]] = logblk[tail + 1]]
            /\ cache' = [cache EXCEPT ![lh[tail + 1]] = logblk[tail + 1]]
            /\ tail' = tail + 1
        BY <1>9, <3>1, Zenon DEF install_trans
      <4>2. QED BY <2>1, <3>1, <4>1 DEF LogTypeOK
    <3>2. CASE ~(tail < Len(lh))
      BY <1>9, <3>2 DEF LogTypeOK, install_trans
    <3>3. QED BY <3>1, <3>2, Zenon
  <2>3. phase' \in {"install", "boot_install", "erase", "boot_erase"}
    BY <1>9, Zenon DEF install_trans
  <2>4. UNCHANGED <<logblk, head, lh, outstanding, pc, blk, wrote>>
    BY <1>9, Zenon DEF install_trans
  <2>5. QED BY <2>2, <2>3, <2>4, Zenon DEF LogTypeOK
<1>10. CASE Crash
  BY <1>10 DEF LogTypeOK, Crash, Reset
<1>11. CASE UNCHANGED logVars
  BY <1>11, Zenon DEF LogTypeOK, logVars
<1>12. QED
  BY <1>2, <1>3, <1>4, <1>5, <1>6, <1>7, <1>8, <1>9, <1>10, <1>11, Zenon
     DEF LogNext, DiskStep

-----------------------------------------------------------------------------
(* The steps keep the order of commit() and of the recovery                *)

\* While a call is in progress, nothing commits and the log on disk is empty.
LEMMA Working ==
    ASSUME LogInv, NEW p \in Proc, pc[p] \in {"begin", "op", "log_write"}, ~committing
    PROVE  phase = "idle" /\ head = <<>> /\ tail = 0
  BY Zenon DEF LogInv, PhaseInv, LogTypeOK, committing, Booting

LEMMA OpWorks ==
    ASSUME LogInv, NEW p \in InOp
    PROVE  phase = "idle" /\ head = <<>> /\ tail = 0 /\ ~committing /\ ~Booting
  BY Zenon DEF LogInv, PhaseInv, committing, Booting

LEMMA PowerOn ==
    ASSUME lh' = <<>>, Distinct(head'), tail' = 0, phase' = "read_head", cache' = disk',
           \A q \in Proc : pc'[q] = "user"
    PROVE  PhaseInv'
<1>1. InOp' = {} /\ Booting'
  BY Zenon DEF InOp, Booting
<1>2. Distinct(lh') /\ tail' <= Len(lh')
  BY DEF Distinct
<1>3. QED BY <1>1, <1>2, Zenon DEF PhaseInv

LEMMA PhaseStep ==
    ASSUME LogInv, Accounted, LogTypeOK', [LogNext]_logVars PROVE PhaseInv'
<1> USE DEF LogInv
<1>1. Len(lh) \in Nat
  BY DEF LogTypeOK
<1>2. ASSUME NEW p \in Proc, SysCall(p) \/ BeginSleep(p) \/ EndCommit(p)
      PROVE  PhaseInv'
  <2>1. /\ InOp' = InOp
        /\ \A q \in Proc : pc[q] = "log_write" => pc'[q] = "log_write"
    BY <1>2, Zenon DEF InOp, SysCall, BeginSleep, EndCommit, Wake, LogTypeOK
  <2>2. /\ UNCHANGED <<disk, logblk, head, cache, lh, tail, blk>>
        /\ phase' = phase \/ (phase = "done" /\ phase' = "idle")
    BY <1>2, Zenon DEF SysCall, BeginSleep, EndCommit
  <2>3. ~Booting
    BY <1>2, Zenon DEF SysCall, BeginSleep, EndCommit, Booting, PhaseInv
  <2>4. ~Booting'
    BY <2>2, <2>3, Zenon DEF Booting
  <2>5. QED BY <2>1, <2>2, <2>3, <2>4 DEF PhaseInv, InLog, Distinct
<1>3. ASSUME NEW p \in Proc, BeginEnter(p) PROVE PhaseInv'
  <2>1. phase = "idle" /\ head = <<>> /\ tail = 0
    BY <1>3, Working, Zenon DEF BeginEnter, MustWait
  <2>2. /\ UNCHANGED <<disk, logblk, head, cache, lh, phase, tail, blk>>
        /\ \A q \in Proc : pc[q] = "log_write" => pc'[q] = "log_write"
    BY <1>3, Zenon DEF BeginEnter, LogTypeOK
  <2>3. QED BY <2>1, <2>2 DEF PhaseInv, InLog, Distinct, Booting
<1>4. ASSUME NEW p \in Proc, NEW b \in Block, NEW v \in Data, Modify(p, b, v)
      PROVE  PhaseInv'
  <2>1. phase = "idle" /\ head = <<>> /\ tail = 0 /\ ~Booting
    BY <1>4, OpWorks, Zenon DEF Modify, InOp
  <2>2. UNCHANGED <<disk, logblk, head, lh, phase, tail>>
    BY <1>4, Zenon DEF Modify
  <2>3. \A c \in Block : \/ InLog(c)' \/ cache'[c] = disk'[c]
                         \/ \E q \in Proc : pc'[q] = "log_write" /\ blk'[q] = c
    BY <1>4, <2>1 DEF Modify, LogTypeOK, PhaseInv, InLog
  <2>4. QED BY <2>1, <2>2, <2>3 DEF PhaseInv, Distinct, Booting
<1>5. ASSUME NEW p \in Proc, LogWrite(p) PROVE PhaseInv'
  <2>1. phase = "idle" /\ head = <<>> /\ tail = 0 /\ ~Booting
    BY <1>5, OpWorks, Zenon DEF LogWrite, InOp
  <2>2. UNCHANGED <<disk, logblk, head, cache, phase, tail>>
    BY <1>5, Zenon DEF LogWrite
  <2>3. blk[p] \in Block
    BY <1>5, Zenon DEF LogWrite, CountInv
  <2>4. Distinct(lh')
    <3>1. lh \in Seq(Block) /\ Distinct(lh) /\ lh' = Absorb(lh, blk[p])
      BY <1>5, Zenon DEF LogWrite, LogTypeOK, PhaseInv, Absorb
    <3>2. Distinct(Absorb(lh, blk[p]))
      BY <2>3, <3>1, Absorbed, Zenon
    <3>3. QED BY <3>1, <3>2, Zenon
  <2>5. \A c \in Block : (InLog(c) \/ c = blk[p]) => InLog(c)'
    <3>1. lh \in Seq(Block) /\ lh' = Absorb(lh, blk[p])
      BY <1>5, Zenon DEF LogWrite, LogTypeOK, Absorb
    <3>2. \A c : (c = blk[p] \/ Holds(lh, c)) => Holds(Absorb(lh, blk[p]), c)
      BY <2>3, <3>1, Absorbed, Zenon
    <3>3. \A c : (c = blk[p] \/ Holds(lh, c)) => Holds(lh', c)
      BY <3>1, <3>2, Zenon
    <3>4. QED BY <3>3, Zenon DEF InLog, Holds
  <2>6. \A q \in Proc : q # p => pc'[q] = pc[q] /\ blk'[q] = blk[q]
    BY <1>5 DEF LogWrite, LogTypeOK
  <2>7. \A c \in Block : \/ InLog(c)' \/ cache'[c] = disk'[c]
                         \/ \E q \in Proc : pc'[q] = "log_write" /\ blk'[q] = c
    BY <2>1, <2>2, <2>5, <2>6 DEF PhaseInv
  <2>8. Len(lh') \in Nat
    BY DEF LogTypeOK
  <2>9. QED BY <2>1, <2>2, <2>4, <2>7, <2>8 DEF PhaseInv, Booting
<1>6. ASSUME NEW p \in Proc, EndOp(p) PROVE PhaseInv'
  <2>1. p \in InOp /\ phase = "idle" /\ head = <<>> /\ tail = 0 /\ ~Booting
    BY <1>6, OpWorks, Zenon DEF EndOp, InOp
  <2>2. /\ UNCHANGED <<disk, logblk, head, cache, lh, tail, blk>>
        /\ phase' \in {"idle", "write_log"}
    BY <1>6, <2>1, Zenon DEF EndOp
  <2>3. /\ \A q \in Proc : pc[q] = "log_write" => pc'[q] = "log_write"
        /\ InOp' = InOp \ {p}
    <3>1. /\ pc'[p] \in {"commit", "user"}
          /\ \A q \in Proc : q # p => pc'[q] = pc[q] \/ (pc[q] = "asleep" /\ pc'[q] = "begin")
      <4>1. pc' = [pc EXCEPT ![p] = "commit"] \/ pc' = [Wake EXCEPT ![p] = "user"]
        BY <1>6, Zenon DEF EndOp
      <4>2. pc \in [Proc -> {"user", "begin", "asleep", "op", "log_write", "commit"}]
        BY Zenon DEF LogTypeOK
      <4>3. CASE pc' = [pc EXCEPT ![p] = "commit"]
        BY <4>2, <4>3
      <4>4. CASE pc' = [Wake EXCEPT ![p] = "user"]
        BY <4>4 DEF Wake
      <4>5. QED BY <4>1, <4>3, <4>4
    <3>2. pc[p] = "op"
      BY <1>6, Zenon DEF EndOp
    <3>3. QED BY <3>1, <3>2 DEF InOp
  <2>4. phase' = "write_log" => InOp' = {}
    <3>1. SUFFICES ASSUME phase' = "write_log" PROVE InOp' = {}
      BY Zenon
    <3>2. outstanding = 1
      BY <1>6, <2>1, <3>1 DEF EndOp, LogTypeOK
    <3>3. InOp = {p}
      BY <2>1, <3>2, Zenon DEF Accounted
    <3>4. QED BY <2>3, <3>3, Zenon
  <2>5. QED BY <2>1, <2>2, <2>3, <2>4 DEF PhaseInv, InLog, Distinct, Booting
<1>7. CASE write_log
  <2>1. /\ UNCHANGED <<disk, head, cache, lh, pc, blk>>
        /\ phase = "write_log" /\ phase' \in {"write_log", "done", "write_head"}
    BY <1>7, Zenon DEF write_log
  <2>2. InOp' = InOp
    BY <2>1, Zenon DEF InOp
  <2>3. /\ tail' \in Nat /\ tail' <= Len(lh)
        /\ phase' # "write_log" => tail' = 0
        /\ phase' = "done" => lh = <<>>
    BY <1>1, <1>7 DEF write_log, LogTypeOK, PhaseInv
  <2>4. phase' = "write_log" => \A i \in 1..tail' : logblk'[i] = cache[lh[i]]
    BY <1>1, <1>7 DEF write_log, LogTypeOK, PhaseInv, Slots, Accounted
  <2>5. phase' = "write_head" => \A i \in DOMAIN lh : logblk'[i] = cache[lh[i]]
    BY <1>1, <1>7 DEF write_log, LogTypeOK, PhaseInv
  <2>6. QED BY <2>1, <2>2, <2>3, <2>4, <2>5 DEF PhaseInv, InLog, Distinct, Booting
<1>8. CASE write_head
  <2>1. /\ UNCHANGED <<disk, logblk, cache, lh, tail, pc, blk>>
        /\ head' = lh /\ phase = "write_head" /\ phase' = "install"
    BY <1>8, Zenon DEF write_head
  <2>2. InOp' = InOp
    BY <2>1, Zenon DEF InOp
  <2>3. tail = 0
    BY <2>1, Zenon DEF PhaseInv
  <2>4. QED BY <2>1, <2>2, <2>3 DEF PhaseInv, InLog, Distinct, Booting
<1>9. CASE install_trans
  <2>1. /\ UNCHANGED <<logblk, head, lh, pc, blk>>
        /\ \/ phase = "install" /\ phase' \in {"install", "erase"}
           \/ phase = "boot_install" /\ phase' \in {"boot_install", "boot_erase"}
    BY <1>9, Zenon DEF install_trans
  <2>2. InOp' = InOp
    BY <2>1, Zenon DEF InOp
  <2>3. /\ tail' \in Nat /\ tail' <= Len(lh)
        /\ phase' \in {"erase", "boot_erase"} => tail' = 0
    BY <1>1, <1>9 DEF install_trans, LogTypeOK, PhaseInv
  <2>4. phase' = phase => \A i \in 1..tail' : disk'[lh[i]] = logblk[i]
    BY <1>1, <1>9 DEF install_trans, LogTypeOK, PhaseInv, Distinct
  <2>5. phase' # phase => \A i \in DOMAIN lh : disk'[lh[i]] = logblk[i]
    BY <1>1, <1>9 DEF install_trans, LogTypeOK, PhaseInv
  <2>6. phase = "install" => \A i \in DOMAIN lh : logblk[i] = cache'[lh[i]]
    BY <1>1, <1>9 DEF install_trans, LogTypeOK, PhaseInv, Distinct
  <2>7. phase = "boot_install" => cache' = disk'
    BY <1>9, Zenon DEF install_trans, PhaseInv, Booting
  <2>8. \A b \in Block : ~InLog(b) => cache'[b] = cache[b] /\ disk'[b] = disk[b]
    BY <1>1, <1>9 DEF install_trans, LogTypeOK, InLog
  <2>9. QED BY <2>1, <2>2, <2>3, <2>4, <2>5, <2>6, <2>7, <2>8
            DEF PhaseInv, InLog, Distinct, Booting
<1>10. CASE erase
  <2>1. /\ UNCHANGED <<disk, logblk, cache, tail, pc, blk>>
        /\ lh' = <<>> /\ head' = <<>>
        /\ \/ phase = "erase" /\ phase' = "done"
           \/ phase = "boot_erase" /\ phase' = "idle"
    BY <1>10, Zenon DEF erase
  <2>2. InOp = {} /\ InOp' = {} /\ tail = 0
    BY <2>1 DEF InOp, PhaseInv
  <2>3. cache = disk
    <3>1. CASE phase = "boot_erase"
      BY <3>1, Zenon DEF PhaseInv, Booting
    <3>2. CASE phase = "erase"
      <4>1. \A b \in Block : cache[b] = disk[b]
        BY <2>2, <3>2 DEF PhaseInv, Booting, InLog, InOp
      <4>2. QED BY <4>1 DEF LogTypeOK
    <3>3. QED BY <2>1, <3>1, <3>2, Zenon
  <2>4. QED BY <2>1, <2>2, <2>3 DEF PhaseInv, Distinct, Booting
<1>11. CASE read_head
  <2>1. /\ UNCHANGED <<disk, logblk, head, cache, tail, pc, blk>>
        /\ lh' = head /\ phase = "read_head" /\ phase' = "boot_install"
    BY <1>11, Zenon DEF read_head
  <2>2. InOp' = InOp /\ tail = 0 /\ Len(head) \in Nat
    BY <2>1 DEF InOp, PhaseInv, LogTypeOK
  <2>3. QED BY <2>1, <2>2 DEF PhaseInv, Distinct, Booting
<1>12. CASE Crash
  <2>1. /\ lh' = <<>> /\ tail' = 0 /\ phase' = "read_head" /\ cache' = disk'
        /\ head' = head /\ \A q \in Proc : pc'[q] = "user"
    BY <1>12, Zenon DEF Crash, Reset
  <2>2. Distinct(head')
    BY <2>1 DEF PhaseInv
  <2>3. QED BY <2>1, <2>2, PowerOn, Zenon
<1>13. CASE UNCHANGED logVars
  BY <1>13 DEF logVars, PhaseInv, Distinct, Booting, InOp, InLog
<1>14. QED
  BY <1>2, <1>3, <1>4, <1>5, <1>6, <1>7, <1>8, <1>9, <1>10, <1>11, <1>12, <1>13, Zenon
  DEF LogNext, DiskStep

-----------------------------------------------------------------------------
(* Atomic commit                                                           *)

\* Recovered, of a given disk, log and header.
RecoveredOf(d, l, h) ==
    [b \in Block |-> IF Holds(h, b) THEN l[CHOOSE i \in DOMAIN h : h[i] = b] ELSE d[b]]

LEMMA RecoveredIs == Recovered = RecoveredOf(disk, logblk, head)
  BY Zenon DEF Recovered, RecoveredOf, Holds

\* An empty log changes nothing; otherwise the log decides.
LEMMA RecoveredEmpty ==
    ASSUME NEW d \in [Block -> Data], NEW l PROVE RecoveredOf(d, l, <<>>) = d
<1>1. \A b \in Block : ~Holds(<<>>, b)
  BY DEF Holds
<1>2. QED BY <1>1, Zenon DEF RecoveredOf

LEMMA RecoveredFrom ==
    ASSUME NEW d, NEW l, NEW h, Distinct(h)
    PROVE  /\ \A i \in DOMAIN h : h[i] \in Block => RecoveredOf(d, l, h)[h[i]] = l[i]
           /\ \A b \in Block : ~Holds(h, b) => RecoveredOf(d, l, h)[b] = d[b]
<1>1. ASSUME NEW i \in DOMAIN h, h[i] \in Block PROVE RecoveredOf(d, l, h)[h[i]] = l[i]
  <2>1. Holds(h, h[i])
    BY Zenon DEF Holds
  <2>2. (CHOOSE j \in DOMAIN h : h[j] = h[i]) = i
    BY Zenon DEF Distinct
  <2>3. QED BY <1>1, <2>1, <2>2, Zenon DEF RecoveredOf
<1>2. ASSUME NEW b \in Block, ~Holds(h, b) PROVE RecoveredOf(d, l, h)[b] = d[b]
  BY <1>2, Zenon DEF RecoveredOf
<1>3. QED BY <1>1, <1>2, Zenon

\* The recovered disk is f when f agrees with the log and, elsewhere, the disk.
LEMMA RecoveredAs ==
    ASSUME NEW d, NEW l, NEW h \in Seq(Block), Distinct(h), NEW f \in [Block -> Data],
           \A i \in DOMAIN h : l[i] = f[h[i]],
           \A b \in Block : ~Holds(h, b) => d[b] = f[b]
    PROVE  RecoveredOf(d, l, h) = f
<1>1. ASSUME NEW b \in Block PROVE RecoveredOf(d, l, h)[b] = f[b]
  <2>1. CASE ~Holds(h, b)
    BY <2>1, RecoveredFrom
  <2>2. CASE Holds(h, b)
    <3>1. PICK i \in DOMAIN h : h[i] = b
      BY <2>2, Zenon DEF Holds
    <3>2. RecoveredOf(d, l, h)[h[i]] = l[i]
      BY <3>1, RecoveredFrom
    <3>3. QED BY <3>1, <3>2, Zenon
  <2>3. QED BY <2>1, <2>2, Zenon
<1>2. RecoveredOf(d, l, h) = [b \in Block |-> RecoveredOf(d, l, h)[b]]
  BY DEF RecoveredOf
<1>3. QED BY <1>1, <1>2, Zenon

LEMMA InitRefines == ASSUME LogInit PROVE Atomic!AbsInit
<1>1. Recovered = disk /\ disk \in [Block -> Data]
  BY RecoveredIs, RecoveredEmpty, Zenon DEF LogInit
<1>2. Booting /\ InOp = {} /\ phase = "read_head"
  BY Zenon DEF LogInit, Booting, InOp
<1>3. QED BY <1>1, <1>2 DEF Atomic!AbsInit

LEMMA SameRecovered ==
    ASSUME UNCHANGED <<disk, logblk, head>> PROVE Recovered' = Recovered
  BY DEF Recovered

LEMMA StepRefines ==
    ASSUME LogInv, Accounted, [LogNext]_logVars
    PROVE  [Atomic!AbsNext]_(Atomic!absVars)
<1> DEFINE Stutters == UNCHANGED Atomic!absVars
<1> USE DEF LogInv
<1>1. ASSUME NEW p \in Proc, SysCall(p) \/ BeginSleep(p) \/ EndCommit(p) \/ LogWrite(p)
      PROVE  Stutters
  <2>1. InOp' = InOp
    BY <1>1, Zenon DEF SysCall, BeginSleep, EndCommit, LogWrite, InOp, Wake, LogTypeOK
  <2>2. UNCHANGED <<disk, logblk, head, cache>>
    BY <1>1, Zenon DEF SysCall, BeginSleep, EndCommit, LogWrite
  <2>3. phase' = phase \/ (phase = "done" /\ phase' = "idle")
    BY <1>1, Zenon DEF SysCall, BeginSleep, EndCommit, LogWrite
  <2>4. Booting' = Booting /\ (phase \in {"write_log", "write_head"})'
                                = (phase \in {"write_log", "write_head"})
    BY <2>3 DEF Booting
  <2>5. Recovered' = Recovered
    BY <2>2, SameRecovered, Zenon
  <2>6. QED BY <2>1, <2>2, <2>4, <2>5, Zenon DEF Atomic!absVars
<1>2. ASSUME NEW p \in Proc, BeginEnter(p) PROVE Atomic!Begin(p)
  <2>1. InOp' = InOp \cup {p} /\ p \notin InOp
    BY <1>2 DEF BeginEnter, InOp, LogTypeOK
  <2>2. UNCHANGED <<disk, logblk, head, cache, phase>> /\ phase = "idle"
    BY <1>2, Working, Zenon DEF BeginEnter, MustWait
  <2>3. Recovered' = Recovered /\ ~Booting /\ ~Booting'
    BY <2>2, SameRecovered, Zenon DEF Booting
  <2>4. QED BY <2>1, <2>2, <2>3, Zenon DEF Atomic!Begin
<1>3. ASSUME NEW p \in Proc, NEW b \in Block, NEW v \in Data, Modify(p, b, v)
      PROVE  Atomic!Write(p, b, v)
  <2>1. InOp' = InOp /\ p \in InOp
    BY <1>3, Zenon DEF Modify, InOp, LogTypeOK
  <2>2. UNCHANGED <<disk, logblk, head, phase>> /\ cache' = [cache EXCEPT ![b] = v]
    BY <1>3, Zenon DEF Modify
  <2>3. Recovered' = Recovered /\ ~Booting /\ ~Booting'
    BY <2>1, <2>2, SameRecovered, OpWorks, Zenon DEF Booting
  <2>4. QED BY <2>1, <2>2, <2>3, Zenon DEF Atomic!Write
<1>4. ASSUME NEW p \in Proc, EndOp(p) PROVE Atomic!End(p)
  <2>1. InOp' = InOp \ {p} /\ p \in InOp
    BY <1>4, Zenon DEF EndOp, InOp, Wake, LogTypeOK
  <2>2. /\ UNCHANGED <<disk, logblk, head, cache>> /\ phase = "idle"
        /\ phase' = IF outstanding' = 0 THEN "write_log" ELSE "idle"
    BY <1>4, <2>1, OpWorks, Zenon DEF EndOp
  <2>3. Recovered' = Recovered /\ ~Booting /\ ~Booting'
    BY <2>2, SameRecovered, Zenon DEF Booting
  <2>4. (outstanding' = 0) = (InOp' = {})
    <3>1. outstanding' = 0 <=> outstanding = 1
      BY <1>4 DEF EndOp, LogTypeOK
    <3>2. outstanding = 1 <=> InOp = {p}
      BY <2>1, Zenon DEF Accounted
    <3>3. QED BY <2>1, <3>1, <3>2
  <2>5. QED BY <2>1, <2>2, <2>3, <2>4 DEF Atomic!End
<1>5. ASSUME write_log PROVE Atomic!Commit \/ Stutters
  <2>1. /\ UNCHANGED <<disk, head, cache, pc>> /\ phase = "write_log"
        /\ phase' \in {"write_log", "write_head"} \/ (phase' = "done" /\ lh = <<>>)
    BY <1>5, Zenon DEF write_log
  <2>2. head = <<>> /\ head' = <<>> /\ InOp = {} /\ InOp' = {} /\ ~Booting /\ ~Booting'
    BY <2>1 DEF PhaseInv, InOp, Booting
  <2>3. Recovered = disk /\ Recovered' = disk
    <3>1. RecoveredOf(disk, logblk, <<>>) = disk /\ RecoveredOf(disk, logblk', <<>>) = disk
      BY RecoveredEmpty, Zenon DEF LogTypeOK
    <3>2. Recovered' = RecoveredOf(disk', logblk', head')
      BY Zenon DEF Recovered, RecoveredOf, Holds
    <3>3. QED BY <2>1, <2>2, <3>1, <3>2, RecoveredIs, Zenon
  <2>4. CASE phase' \in {"write_log", "write_head"}
    BY <2>1, <2>2, <2>3, <2>4 DEF Atomic!absVars
  <2>5. CASE phase' = "done" /\ lh = <<>>
    <3>1. \A b \in Block : cache[b] = disk[b]
      BY <2>2, <2>5 DEF PhaseInv, InLog, InOp
    <3>2. cache = disk
      BY <3>1 DEF LogTypeOK
    <3>3. QED BY <2>1, <2>2, <2>3, <2>5, <3>2 DEF Atomic!Commit
  <2>6. QED BY <2>1, <2>4, <2>5, Zenon
<1>6. ASSUME write_head PROVE Atomic!Commit
  <2>1. /\ UNCHANGED <<disk, logblk, cache, lh, pc>> /\ head' = lh
        /\ phase = "write_head" /\ phase' = "install"
    BY <1>6 DEF write_head
  <2>2. InOp = {} /\ InOp' = InOp /\ ~Booting /\ ~Booting'
    BY <2>1 DEF PhaseInv, InOp, Booting
  <2>3. /\ \A i \in DOMAIN lh : logblk[i] = cache[lh[i]]
        /\ \A b \in Block : ~Holds(lh, b) => disk[b] = cache[b]
    BY <2>1, <2>2 DEF PhaseInv, InLog, Holds, InOp
  <2>4. RecoveredOf(disk, logblk, lh) = cache
    <3>1. lh \in Seq(Block) /\ Distinct(lh) /\ cache \in [Block -> Data]
      BY Zenon DEF LogTypeOK, PhaseInv
    <3>2. QED BY <2>3, <3>1, RecoveredAs
  <2>5. Recovered' = RecoveredOf(disk', logblk', head')
    BY Zenon DEF Recovered, RecoveredOf, Holds
  <2>6. Recovered' = cache
    BY <2>1, <2>4, <2>5, Zenon
  <2>7. QED BY <2>1, <2>2, <2>6 DEF Atomic!Commit
<1>7. ASSUME install_trans PROVE Stutters
  <2>1. /\ UNCHANGED <<logblk, head, lh, pc>> /\ head = lh /\ phase # "write_log"
        /\ phase # "write_head" /\ phase' \notin {"write_log", "write_head"}
        /\ Booting' = Booting
    BY <1>7 DEF install_trans, PhaseInv, Booting
  <2>2. InOp' = InOp
    BY <2>1, Zenon DEF InOp
  <2>3. \A b \in Block : ~Holds(lh, b) => disk'[b] = disk[b]
    BY <1>7 DEF install_trans, Holds, LogTypeOK
  <2>4. Recovered' = Recovered
    BY <2>1, <2>3 DEF Recovered, Holds
  <2>5. ~Booting => cache' = cache
    <3>1. SUFFICES ASSUME ~Booting, tail < Len(lh) PROVE cache' = cache
      BY <1>7 DEF install_trans
    <3>2. phase = "install" /\ tail + 1 \in DOMAIN lh
      BY <1>7, <3>1 DEF install_trans, Booting, LogTypeOK
    <3>3. cache[lh[tail + 1]] = logblk[tail + 1]
      BY <3>2, Zenon DEF PhaseInv
    <3>4. cache' = [cache EXCEPT ![lh[tail + 1]] = logblk[tail + 1]]
      BY <1>7, <3>1, Zenon DEF install_trans
    <3>5. QED BY <3>3, <3>4 DEF LogTypeOK
  <2>6. QED BY <2>1, <2>2, <2>4, <2>5 DEF Atomic!absVars
<1>8. ASSUME erase PROVE Stutters
  <2>1. /\ UNCHANGED <<disk, logblk, cache, pc>> /\ head' = <<>> /\ head = lh
        /\ \/ phase = "erase" /\ phase' = "done"
           \/ phase = "boot_erase" /\ phase' = "idle"
    BY <1>8 DEF erase, PhaseInv
  <2>2. InOp' = InOp
    BY <2>1 DEF InOp
  <2>3. \A i \in DOMAIN head : logblk[i] = disk[head[i]]
    BY <2>1 DEF PhaseInv
  <2>4. RecoveredOf(disk, logblk, head) = disk
    <3>1. head \in Seq(Block) /\ Distinct(head) /\ disk \in [Block -> Data]
      BY Zenon DEF LogTypeOK, PhaseInv
    <3>2. QED BY <2>3, <3>1, RecoveredAs
  <2>5. Recovered' = RecoveredOf(disk', logblk', head')
    BY Zenon DEF Recovered, RecoveredOf, Holds
  <2>6. RecoveredOf(disk, logblk, <<>>) = disk
    BY RecoveredEmpty, Zenon DEF LogTypeOK
  <2>7. Recovered' = disk /\ Recovered = disk
    BY <2>1, <2>4, <2>5, <2>6, RecoveredIs, Zenon
  <2>8. Booting => cache = disk
    BY Zenon DEF PhaseInv
  <2>9. QED BY <2>1, <2>2, <2>7, <2>8 DEF Atomic!absVars, Booting
<1>9. ASSUME read_head PROVE Stutters
  <2>1. /\ UNCHANGED <<disk, logblk, head, cache, pc>>
        /\ phase = "read_head" /\ phase' = "boot_install"
    BY <1>9, Zenon DEF read_head
  <2>2. Recovered' = Recovered /\ InOp' = InOp /\ Booting /\ Booting'
    BY <2>1, SameRecovered DEF InOp, Booting
  <2>3. QED BY <2>1, <2>2 DEF Atomic!absVars
<1>10. ASSUME Crash PROVE Atomic!Fail
  <2>1. Recovered' = Recovered
    BY <1>10, SameRecovered DEF Crash
  <2>2. InOp' = {} /\ Booting' /\ phase' = "read_head"
    BY <1>10 DEF Crash, Reset, InOp, Booting
  <2>3. QED BY <2>1, <2>2 DEF Atomic!Fail
<1>11. ASSUME UNCHANGED logVars PROVE Stutters
  BY <1>11 DEF logVars, Atomic!absVars, Recovered, InOp, Booting
<1> HIDE DEF Stutters
<1>12. Atomic!AbsNext \/ Stutters
  BY <1>1, <1>2, <1>3, <1>4, <1>5, <1>6, <1>7, <1>8, <1>9, <1>10, <1>11
     DEF LogNext, DiskStep, Atomic!AbsNext
<1>13. QED BY <1>12, Zenon DEF Stutters


-----------------------------------------------------------------------------
(* Counting                                                                *)

LEMMA RestCount ==
    ASSUME NEW ops \in SUBSET Proc, NEW w, NEW n \in Nat
    PROVE  /\ IsFiniteSet(ops) /\ Cardinality(ops) \in Nat
           /\ IsFiniteSet(Rest(ops, w, n)) /\ Cardinality(Rest(ops, w, n)) \in Nat
           /\ Cardinality(Rest(ops, w, n)) <= Cardinality(ops) * n
<1>1. IsFiniteSet(ops) /\ Cardinality(ops) \in Nat
  BY FS_Subset, FS_CardinalityType, Zenon
<1>2. IsFiniteSet(1..n) /\ Cardinality(1..n) = n
  BY FS_Interval
<1> DEFINE All == ops \X (1..n)
<1>3. IsFiniteSet(All) /\ Cardinality(All) = Cardinality(ops) * n
  BY <1>1, <1>2, FS_Product, Zenon
<1>4. Rest(ops, w, n) \in SUBSET All
  BY Zenon DEF Rest
<1> HIDE DEF All
<1>5. IsFiniteSet(Rest(ops, w, n)) /\ Cardinality(Rest(ops, w, n)) <= Cardinality(All)
  BY <1>3, <1>4, FS_Subset, Zenon
<1>6. Cardinality(Rest(ops, w, n)) \in Nat
  BY <1>5, FS_CardinalityType, Zenon
<1>7. QED BY <1>1, <1>3, <1>5, <1>6, Zenon

\* A call that ends, or that logs a block again, gives back what it had,
LEMMA RestShrinks ==
    ASSUME NEW ops \in SUBSET Proc, NEW w, NEW ops1 \in SUBSET ops, NEW w1, NEW n \in Nat,
           \A q \in ops1 : /\ Cardinality(w[q]) \in Nat /\ Cardinality(w1[q]) \in Nat
                           /\ Cardinality(w[q]) <= Cardinality(w1[q])
    PROVE  Cardinality(Rest(ops1, w1, n)) <= Cardinality(Rest(ops, w, n))
<1>1. Rest(ops1, w1, n) \in SUBSET Rest(ops, w, n)
  BY DEF Rest
<1>2. QED BY <1>1, RestCount, FS_Subset, Zenon

\* and a call that logs another block uses one of its own.
LEMMA RestUsed ==
    ASSUME NEW ops \in SUBSET Proc, NEW w, NEW w1, NEW n \in Nat, NEW p \in ops,
           \A q \in ops : /\ Cardinality(w[q]) \in Nat /\ Cardinality(w1[q]) \in Nat
                          /\ Cardinality(w[q]) <= Cardinality(w1[q]),
           Cardinality(w[p]) < Cardinality(w1[p]), Cardinality(w[p]) < n
    PROVE  Cardinality(Rest(ops, w1, n)) + 1 <= Cardinality(Rest(ops, w, n))
<1> DEFINE x == <<p, Cardinality(w[p]) + 1>>
           R == Rest(ops, w, n)
           R1 == Rest(ops, w1, n)
<1>1. x \in R /\ R1 \in SUBSET (R \ {x})
  BY DEF Rest
<1>2. IsFiniteSet(R) /\ Cardinality(R) \in Nat
  BY RestCount, Zenon
<1> HIDE DEF x, R, R1
<1>3. IsFiniteSet(R \ {x}) /\ Cardinality(R \ {x}) = Cardinality(R) - 1
  BY <1>1, <1>2, FS_RemoveElement, Zenon
<1>4. Cardinality(R1) <= Cardinality(R \ {x}) /\ IsFiniteSet(R1)
  BY <1>1, <1>3, FS_Subset, Zenon
<1>5. Cardinality(R1) \in Nat
  BY <1>4, FS_CardinalityType, Zenon
<1>6. QED BY <1>2, <1>3, <1>4, <1>5 DEF R, R1

LEMMA CountsAreNat ==
    /\ IsFiniteSet(InOp) /\ Cardinality(InOp) \in Nat
    /\ Cardinality(Reserved) \in Nat
<1>1. InOp \in SUBSET Proc
  BY Zenon DEF InOp
<1>2. QED BY <1>1, RestCount, Zenon DEF Reserved

LEMMA LogFits == ASSUME LogTypeOK, CountInv PROVE Len(lh) \in Nat /\ Len(lh) <= LOGSIZE
  BY CountsAreNat DEF LogTypeOK, CountInv

\* The log is never overrun, and log.outstanding tells the last call.
LEMMA AccountsHold == ASSUME LogTypeOK, CountInv PROVE Accounted
<1>1. outstanding = 0 <=> InOp = {}
  BY CountsAreNat, FS_EmptySet, Zenon DEF CountInv
<1>2. ASSUME NEW p \in InOp PROVE outstanding = 1 <=> InOp = {p}
  <2>1. InOp = {p} => Cardinality(InOp) = 1
    BY FS_Singleton, Zenon
  <2>2. /\ IsFiniteSet(InOp \ {p}) /\ Cardinality(InOp \ {p}) = Cardinality(InOp) - 1
    BY CountsAreNat, FS_RemoveElement, Zenon
  <2>3. Cardinality(InOp) = 1 => InOp \ {p} = {}
    BY <2>2, FS_EmptySet
  <2>4. QED BY <2>1, <2>3, Zenon DEF CountInv
<1>3. QED BY <1>1, <1>2, LogFits, Zenon DEF Accounted

-----------------------------------------------------------------------------
(* The steps keep the accounts                                             *)

\* Steps that neither log nor begin or end a call.
LEMMA CountFrame ==
    ASSUME CountInv, UNCHANGED <<lh, outstanding, blk, wrote>>, InOp' = InOp,
           \A q \in Proc : pc'[q] = "log_write" => pc[q] = "log_write",
           Len(head') <= LOGSIZE
    PROVE  CountInv'
<1>1. Reserved' = Reserved
  BY Zenon DEF Reserved, Rest
<1>2. QED BY <1>1, Zenon DEF CountInv, InLog

\* Steps with no call in progress.
LEMMA CountIdle ==
    ASSUME InOp' = {}, \A q \in Proc : wrote'[q] = {}, outstanding' = 0,
           Len(lh') \in Nat, Len(lh') <= LOGSIZE, Len(head') <= LOGSIZE
    PROVE  CountInv'
<1>1. Reserved' = {}
  BY Zenon DEF Reserved, Rest
<1>2. \A q \in Proc : pc'[q] # "log_write"
  BY Zenon DEF InOp
<1>3. IsFiniteSet({}) /\ Cardinality({}) = 0
  BY FS_EmptySet, Zenon
<1>4. Len(lh') + Cardinality(Reserved') <= LOGSIZE /\ outstanding' = Cardinality(InOp')
  BY <1>1, <1>3
<1>5. \A q \in Proc : wrote'[q] = {} /\ IsFiniteSet(wrote'[q]) /\ Cardinality(wrote'[q]) = 0
  BY <1>3, Zenon
<1>6. QED BY <1>2, <1>4, <1>5 DEF CountInv

\* What log_write() adds to the log and to what its call has written.
LEMMA WriteCounts ==
    ASSUME LogInv, NEW p \in Proc, LogWrite(p)
    PROVE  /\ InOp' = InOp /\ p \in InOp /\ Len(lh) \in Nat
           /\ \A q \in Proc :
                  /\ IsFiniteSet(wrote'[q]) /\ Cardinality(wrote'[q]) <= OpBlocks
                  /\ Cardinality(wrote[q]) \in Nat /\ Cardinality(wrote'[q]) \in Nat
                  /\ Cardinality(wrote[q]) <= Cardinality(wrote'[q])
           /\ \/ lh' = lh
              \/ /\ Len(lh') = Len(lh) + 1 /\ Cardinality(wrote[p]) < OpBlocks
                 /\ Cardinality(wrote[p]) < Cardinality(wrote'[p])
<1> USE DEF LogInv
<1>1. InOp' = InOp /\ p \in InOp
  BY Zenon DEF InOp, LogWrite, LogTypeOK
<1>2. /\ blk[p] \in Block /\ wrote'[p] = wrote[p] \cup {blk[p]}
      /\ \A q \in Proc : q # p => wrote'[q] = wrote[q]
  BY Zenon DEF LogWrite, LogTypeOK, CountInv
<1>3. /\ IsFiniteSet(wrote'[p])
      /\ Cardinality(wrote'[p]) = IF blk[p] \in wrote[p] THEN Cardinality(wrote[p])
                                  ELSE Cardinality(wrote[p]) + 1
  <2>1. IsFiniteSet(wrote[p])
    BY Zenon DEF CountInv
  <2>2. /\ IsFiniteSet(wrote[p] \cup {blk[p]})
        /\ Cardinality(wrote[p] \cup {blk[p]}) = IF blk[p] \in wrote[p]
                                                 THEN Cardinality(wrote[p])
                                                 ELSE Cardinality(wrote[p]) + 1
    BY <2>1, FS_AddElement, Zenon
  <2>3. wrote'[p] = wrote[p] \cup {blk[p]}
    BY <1>2, Zenon
  <2>4. QED BY <2>2, <2>3, Zenon
<1>4. \A q \in Proc : Cardinality(wrote[q]) \in Nat /\ Cardinality(wrote[q]) <= OpBlocks
  BY FS_CardinalityType, Zenon DEF CountInv
<1>5. blk[p] \in wrote[p] \/ Cardinality(wrote[p]) < OpBlocks
  BY Zenon DEF CountInv, LogWrite
<1>6. \A q \in Proc :
          /\ IsFiniteSet(wrote'[q]) /\ Cardinality(wrote'[q]) <= OpBlocks
          /\ Cardinality(wrote'[q]) \in Nat
          /\ Cardinality(wrote[q]) <= Cardinality(wrote'[q])
  <2>1. TAKE q \in Proc
  <2>2. CASE q # p
    BY <1>2, <1>4, <2>2 DEF CountInv
  <2>3. CASE q = p
    BY <1>3, <1>4, <1>5, <2>3
  <2>4. QED BY <2>2, <2>3, Zenon
<1>7. \/ lh' = lh
      \/ Len(lh') = Len(lh) + 1 /\ blk[p] \notin wrote[p]
  <2>1. CASE InLog(blk[p])
    BY <2>1, Zenon DEF InLog, LogWrite
  <2>2. CASE ~InLog(blk[p])
    <3>1. Len(lh') = Len(lh) + 1
      BY <1>2, <2>2 DEF InLog, LogWrite, LogTypeOK
    <3>2. blk[p] \notin wrote[p]
      BY <2>2, Zenon DEF CountInv
    <3>3. QED BY <3>1, <3>2
  <2>3. QED BY <2>1, <2>2, Zenon
<1>8. Len(lh) \in Nat
  BY LogFits, Zenon
<1>9. blk[p] \notin wrote[p] =>
          Cardinality(wrote[p]) < OpBlocks /\ Cardinality(wrote[p]) < Cardinality(wrote'[p])
  BY <1>3, <1>4, <1>5
<1>10. QED BY <1>1, <1>4, <1>6, <1>7, <1>8, <1>9, Zenon

\* Whatever calls may write at most, log_write() takes from it what it adds.
LEMMA WriteRest ==
    ASSUME LogInv, NEW p \in Proc, LogWrite(p), NEW n \in Nat, OpBlocks <= n
    PROVE  /\ Cardinality(Rest(InOp, wrote, n)) \in Nat
           /\ Cardinality(Rest(InOp', wrote', n)) \in Nat /\ Len(lh') \in Nat
           /\ Len(lh') + Cardinality(Rest(InOp', wrote', n))
                  <= Len(lh) + Cardinality(Rest(InOp, wrote, n))
<1>1. InOp \in SUBSET Proc /\ p \in InOp /\ InOp' = InOp /\ Len(lh) \in Nat
  BY WriteCounts, Zenon DEF InOp
<1>2. /\ Cardinality(Rest(InOp, wrote, n)) \in Nat
      /\ Cardinality(Rest(InOp, wrote', n)) \in Nat
  BY <1>1, RestCount, Zenon
<1>3. \A q \in InOp : /\ Cardinality(wrote[q]) \in Nat /\ Cardinality(wrote'[q]) \in Nat
                      /\ Cardinality(wrote[q]) <= Cardinality(wrote'[q])
  BY <1>1, WriteCounts, Zenon
<1>4. CASE lh' = lh
  <2>1. Cardinality(Rest(InOp, wrote', n)) <= Cardinality(Rest(InOp, wrote, n))
    BY <1>1, <1>3, RestShrinks, Zenon
  <2>2. QED BY <1>1, <1>2, <1>4, <2>1
<1>5. CASE /\ Len(lh') = Len(lh) + 1 /\ Cardinality(wrote[p]) < OpBlocks
           /\ Cardinality(wrote[p]) < Cardinality(wrote'[p])
  <2>1. Cardinality(wrote[p]) < n
    BY <1>1, <1>3, <1>5
  <2>2. Cardinality(Rest(InOp, wrote', n)) + 1 <= Cardinality(Rest(InOp, wrote, n))
    BY <1>1, <1>3, <1>5, <2>1, RestUsed, Zenon
  <2>3. QED BY <1>1, <1>2, <1>5, <2>2
<1>6. QED BY <1>4, <1>5, WriteCounts, Zenon

LEMMA CountStep == ASSUME LogInv, [LogNext]_logVars PROVE CountInv'
<1> USE DEF LogInv
<1>1. Len(lh) \in Nat /\ Len(lh) <= LOGSIZE
  BY LogFits, Zenon
<1>2. InOp \in SUBSET Proc /\ InOp' \in SUBSET Proc
  BY Zenon DEF InOp
<1>3. ASSUME NEW p \in Proc, SysCall(p) \/ BeginSleep(p) \/ EndCommit(p)
      PROVE  CountInv'
  <2>1. InOp' = InOp /\ \A q \in Proc : pc'[q] = "log_write" => pc[q] = "log_write"
    BY <1>3, Zenon DEF InOp, SysCall, BeginSleep, EndCommit, Wake, LogTypeOK
  <2>2. UNCHANGED <<lh, head, outstanding, blk, wrote>>
    BY <1>3, Zenon DEF SysCall, BeginSleep, EndCommit
  <2>3. QED BY <2>1, <2>2, CountFrame, Zenon DEF CountInv
<1>4. ASSUME NEW p \in Proc, BeginEnter(p) PROVE CountInv'
  <2>1. /\ InOp' = InOp \cup {p} /\ p \notin InOp
        /\ \A q \in Proc : pc'[q] = "log_write" => pc[q] = "log_write"
    BY <1>4, Zenon DEF InOp, BeginEnter, LogTypeOK
  <2>2. Cardinality(InOp') = outstanding + 1 /\ outstanding \in Nat
    BY <2>1, CountsAreNat, FS_AddElement, Zenon DEF CountInv
  <2>3. /\ Cardinality(Reserved') \in Nat
        /\ Cardinality(Reserved') <= (outstanding + 1) * MAXOPBLOCKS
    BY <1>2, <2>2, RestCount, Zenon DEF Reserved
  <2>4. Len(lh) + (outstanding + 1) * MAXOPBLOCKS <= LOGSIZE
    <3>1. (outstanding + 1) * MAXOPBLOCKS \in Int
      BY <2>2
    <3>2. QED BY <1>1, <1>4, <3>1 DEF BeginEnter, MustWait
  <2>5. UNCHANGED <<lh, head, blk, wrote>> /\ outstanding' = outstanding + 1
    BY <1>4, Zenon DEF BeginEnter
  <2>6. Len(lh') + Cardinality(Reserved') <= LOGSIZE
    <3>1. (outstanding + 1) * MAXOPBLOCKS \in Int
      BY <2>2
    <3>2. QED BY <1>1, <2>3, <2>4, <2>5, <3>1
  <2>7. QED BY <2>1, <2>2, <2>5, <2>6, Zenon DEF CountInv, InLog
<1>5. ASSUME NEW p \in Proc, NEW b \in Block, NEW v \in Data, Modify(p, b, v)
      PROVE  CountInv'
  <2>1. InOp' = InOp
    BY <1>5, Zenon DEF InOp, Modify, LogTypeOK
  <2>2. Reserved' = Reserved
    BY <1>5, <2>1, Zenon DEF Reserved, Rest, Modify
  <2>3. QED BY <1>5, <2>1, <2>2 DEF CountInv, InLog, Modify, LogTypeOK
<1>6. ASSUME NEW p \in Proc, LogWrite(p) PROVE CountInv'
  <2>1. InOp' = InOp /\ p \in InOp
        /\ \A q \in Proc : pc'[q] = "log_write" => pc[q] = "log_write" /\ q # p
    BY <1>6, Zenon DEF InOp, LogWrite, LogTypeOK
  <2>2. /\ blk[p] \in Block /\ wrote'[p] = wrote[p] \cup {blk[p]}
        /\ \A q \in Proc : q # p => wrote'[q] = wrote[q] /\ blk'[q] = blk[q]
    BY <1>6, Zenon DEF LogWrite, LogTypeOK, CountInv
  <2>5. \A q \in Proc : IsFiniteSet(wrote'[q]) /\ Cardinality(wrote'[q]) <= OpBlocks
    BY <1>6, WriteCounts, Zenon
  <2>6. \A c : (c = blk[p] \/ Holds(lh, c)) => Holds(lh', c)
    <3>1. lh \in Seq(Block) /\ lh' = Absorb(lh, blk[p])
      BY <1>6, Zenon DEF LogWrite, LogTypeOK, Absorb
    <3>2. \A c : (c = blk[p] \/ Holds(lh, c)) => Holds(Absorb(lh, blk[p]), c)
      BY <2>2, <3>1, Absorbed, Zenon
    <3>3. QED BY <3>1, <3>2, Zenon
  <2>8. Len(lh') + Cardinality(Reserved') <= LOGSIZE
    <3>1. /\ Cardinality(Reserved) \in Nat /\ Cardinality(Reserved') \in Nat /\ Len(lh') \in Nat
          /\ Len(lh') + Cardinality(Reserved') <= Len(lh) + Cardinality(Reserved)
      BY <1>6, WriteRest DEF Reserved
    <3>2. QED BY <1>1, <3>1 DEF CountInv
  <2>9. outstanding' = outstanding /\ head' = head
    BY <1>6, Zenon DEF LogWrite
  <2>10. \A q \in Proc : \A c \in wrote'[q] : \E i \in DOMAIN lh' : lh'[i] = c
    BY <2>2, <2>6, Zenon DEF CountInv, InLog, Holds
  <2>11. QED BY <2>1, <2>2, <2>5, <2>8, <2>9, <2>10, Zenon DEF CountInv, InLog
<1>7. ASSUME NEW p \in Proc, EndOp(p) PROVE CountInv'
  <2>1. /\ InOp' = InOp \ {p} /\ p \in InOp
        /\ \A q \in Proc : pc'[q] = "log_write" => pc[q] = "log_write" /\ q # p
    BY <1>7, Zenon DEF InOp, EndOp, Wake, LogTypeOK
  <2>2. /\ wrote'[p] = {} /\ \A q \in Proc : q # p => wrote'[q] = wrote[q]
        /\ UNCHANGED <<lh, head, blk>> /\ outstanding' = outstanding - 1
    BY <1>7, Zenon DEF EndOp, LogTypeOK
  <2>3. Cardinality(InOp') = outstanding - 1
    BY <2>1, CountsAreNat, FS_RemoveElement, Zenon DEF CountInv
  <2>4. \A q \in Proc : Cardinality(wrote[q]) \in Nat
    BY FS_CardinalityType, Zenon DEF CountInv
  <2>5. Cardinality(Reserved') <= Cardinality(Reserved)
    <3>1. /\ InOp' \in SUBSET InOp
          /\ \A q \in InOp' : /\ Cardinality(wrote[q]) \in Nat /\ Cardinality(wrote'[q]) \in Nat
                              /\ Cardinality(wrote[q]) <= Cardinality(wrote'[q])
      BY <1>2, <2>1, <2>2, <2>4
    <3>2. QED BY <1>2, <3>1, RestShrinks, Zenon DEF Reserved
  <2>6. Cardinality(Reserved') \in Nat
    BY <1>2, RestCount, Zenon DEF Reserved
  <2>7. Len(lh') + Cardinality(Reserved') <= LOGSIZE
    BY <1>1, <2>2, <2>5, <2>6, CountsAreNat DEF CountInv
  <2>8. \A q \in Proc : /\ IsFiniteSet(wrote'[q]) /\ Cardinality(wrote'[q]) <= OpBlocks
                        /\ q \notin InOp' => wrote'[q] = {}
                        /\ \A b \in wrote'[q] : InLog(b)
    <3>1. IsFiniteSet(wrote'[p]) /\ Cardinality(wrote'[p]) = 0
      BY <2>2, FS_EmptySet, Zenon
    <3>2. TAKE q \in Proc
    <3>3. CASE q = p
      BY <2>2, <3>1, <3>3
    <3>4. CASE q # p
      BY <2>1, <2>2, <3>4, Zenon DEF CountInv
    <3>5. QED BY <3>3, <3>4
  <2>9. \A q \in Proc : pc'[q] = "log_write" =>
            blk'[q] \in Block /\ (blk'[q] \in wrote'[q] \/ Cardinality(wrote'[q]) < OpBlocks)
    BY <2>1, <2>2, Zenon DEF CountInv
  <2>10. QED BY <2>2, <2>3, <2>7, <2>8, <2>9, Zenon DEF CountInv, InLog
<1>8. CASE write_log \/ write_head \/ install_trans
  <2>1. UNCHANGED <<pc, lh, outstanding, blk, wrote>>
    BY <1>8, Zenon DEF write_log, write_head, install_trans
  <2>2. Len(head') <= LOGSIZE
    BY <1>1, <1>8 DEF write_log, write_head, install_trans, CountInv
  <2>3. QED BY <2>1, <2>2, CountFrame, Zenon DEF InOp
<1>9. CASE erase \/ read_head
  <2>1. InOp = {}
    BY <1>9, Zenon DEF erase, read_head, PhaseInv
  <2>2. InOp' = {} /\ UNCHANGED <<outstanding, wrote>>
    BY <1>9, <2>1, Zenon DEF InOp, erase, read_head
  <2>3. outstanding = 0 /\ \A q \in Proc : wrote[q] = {}
    BY <2>1, FS_EmptySet, Zenon DEF CountInv
  <2>4. Len(lh') \in Nat /\ Len(lh') <= LOGSIZE /\ Len(head') <= LOGSIZE
    <3>1. CASE erase
      BY <3>1 DEF erase
    <3>2. CASE read_head
      <4>1. lh' = head /\ head' = head
        BY <3>2, Zenon DEF read_head
      <4>2. Len(head) \in Nat /\ Len(head) <= LOGSIZE
        BY DEF CountInv, LogTypeOK
      <4>3. QED BY <4>1, <4>2
    <3>3. QED BY <1>9, <3>1, <3>2
  <2>5. QED BY <2>2, <2>3, <2>4, CountIdle, Zenon
<1>10. CASE Crash
  <2>1. /\ InOp' = {} /\ outstanding' = 0 /\ lh' = <<>> /\ head' = head
        /\ \A q \in Proc : wrote'[q] = {}
    BY <1>10, Zenon DEF Crash, Reset, InOp
  <2>2. Len(lh') = 0
    BY <2>1, Zenon
  <2>3. QED BY <2>1, <2>2, CountIdle DEF CountInv
<1>11. CASE UNCHANGED logVars
  BY <1>11, CountFrame, Zenon DEF logVars, InOp, CountInv
<1>12. QED
  BY <1>3, <1>4, <1>5, <1>6, <1>7, <1>8, <1>9, <1>10, <1>11, Zenon DEF LogNext, DiskStep

-----------------------------------------------------------------------------
LEMMA InvInit == ASSUME LogInit PROVE LogInv
<1>1. LogTypeOK
  BY DEF LogInit, LogTypeOK
<1>2. InOp = {} /\ Reserved = {} /\ Cardinality({}) = 0
  BY FS_EmptySet, Zenon DEF LogInit, InOp, Reserved, Rest
<1>3. CountInv
  BY <1>2, FS_EmptySet DEF LogInit, CountInv
<1>4. PhaseInv
  BY <1>2 DEF LogInit, PhaseInv, Distinct, Booting
<1>5. QED BY <1>1, <1>3, <1>4 DEF LogInv

\* The log is consistent at every moment: the accounting of the calls, the
\* order of the writes of commit() and of the recovery, and the types.
THEOREM LogInvariant == LogSpec => []LogInv
<1>1. LogInit => LogInv
  BY InvInit, Zenon
<1>2. LogInv /\ [LogNext]_logVars => LogInv'
  BY AccountsHold, TypeStep, CountStep, PhaseStep, Zenon DEF LogInv
<1>3. QED BY <1>1, <1>2, PTL DEF LogSpec

-----------------------------------------------------------------------------
(* Room in the log                                                         *)

\* A call that runs alone logs no block that it does not write itself.  begin_op()
\* lets a second one in when there is room for both reservations, and then what
\* they will write at most leaves free what neither of them will use.
Small(s) == Len(s) < LOGSIZE /\ Len(s) < Room
SharedMost == LOGSIZE - 2 * (MAXOPBLOCKS - OpBlocks)
RoomInv ==
    /\ Small(lh) /\ Small(head)
    /\ phase = "idle" /\ InOp = {} => lh = <<>>
    /\ \/ InOp = {}
       \/ \E p \in Proc : InOp = {p} /\ Len(lh) <= Cardinality(wrote[p])
       \/ Len(lh) + Cardinality(Possible) <= SharedMost

\* Steps that change neither the log nor the calls.
LEMMA RoomFrame ==
    ASSUME RoomInv, UNCHANGED <<lh, head, wrote>>, InOp' = InOp,
           phase' = phase \/ phase' # "idle" \/ lh = <<>>
    PROVE  RoomInv'
<1>1. Possible' = Possible
  BY Zenon DEF Possible, Rest
<1>2. QED BY <1>1, Zenon DEF RoomInv, Small

LEMMA RoomStep ==
    ASSUME OpBlocks < MAXOPBLOCKS, OpBlocks < Room, SharedMost < Room,
           LogInv, RoomInv, [LogNext]_logVars
    PROVE  RoomInv'
<1>1. /\ Len(lh) \in Nat /\ SharedMost \in Int /\ SharedMost < LOGSIZE
      /\ OpBlocks < LOGSIZE /\ Room \in Int
  <2>1. Len(lh) \in Nat
    BY LogFits, Zenon DEF LogInv
  <2>2. QED BY <2>1 DEF SharedMost, Room
<1>2. InOp \in SUBSET Proc /\ InOp' \in SUBSET Proc
  BY Zenon DEF InOp
<1>3. ASSUME NEW p \in Proc, SysCall(p) \/ BeginSleep(p) \/ EndCommit(p)
      PROVE  RoomInv'
  <2>1. InOp' = InOp
    BY <1>3, Zenon DEF InOp, SysCall, BeginSleep, EndCommit, Wake, LogInv, LogTypeOK
  <2>2. UNCHANGED <<lh, head, wrote>> /\ (phase' = phase \/ lh = <<>>)
    BY <1>3, Zenon DEF SysCall, BeginSleep, EndCommit, LogInv, PhaseInv
  <2>3. QED BY <2>1, <2>2, RoomFrame, Zenon
<1>4. ASSUME NEW p \in Proc, BeginEnter(p) PROVE RoomInv'
  <2>1. InOp' = InOp \cup {p} /\ p \notin InOp /\ UNCHANGED <<lh, head, wrote>>
    BY <1>4, Zenon DEF InOp, BeginEnter, LogInv, LogTypeOK
  <2>2. phase = "idle"
    BY <1>4, Zenon DEF BeginEnter, MustWait, committing, Booting, LogInv, LogTypeOK, PhaseInv
  <2>3. CASE InOp = {}
    <3>1. lh = <<>> /\ InOp' = {p}
      BY <2>1, <2>2, <2>3, Zenon DEF RoomInv
    <3>2. Cardinality(wrote'[p]) = 0
      BY <2>1, FS_EmptySet, Zenon DEF LogInv, CountInv
    <3>3. Len(lh') <= Cardinality(wrote'[p])
      BY <2>1, <3>1, <3>2
    <3>4. QED BY <2>1, <3>1, <3>3, Zenon DEF RoomInv, Small
  <2>4. CASE InOp # {}
    <3>1. /\ IsFiniteSet(InOp) /\ Cardinality(InOp) = outstanding
          /\ Cardinality(InOp) \in Nat
      BY <1>2, RestCount, Zenon DEF LogInv, CountInv
    <3>2. outstanding # 0
      BY <2>4, <3>1, FS_EmptySet, Zenon
    <3>3. Cardinality(InOp') = outstanding + 1
      BY <2>1, <3>1, FS_AddElement, Zenon
    <3>4. /\ Cardinality(Possible') \in Nat
          /\ Cardinality(Possible') <= (outstanding + 1) * OpBlocks
      BY <1>2, <3>3, RestCount, Zenon DEF Possible
    <3>5. Len(lh) + (outstanding + 1) * MAXOPBLOCKS <= LOGSIZE
      <4>1. (outstanding + 1) * MAXOPBLOCKS \in Int
        BY <3>1
      <4>2. QED BY <1>1, <1>4, <4>1 DEF BeginEnter, MustWait
    <3>6. (outstanding + 1) * OpBlocks + 2 * (MAXOPBLOCKS - OpBlocks)
              <= (outstanding + 1) * MAXOPBLOCKS
      <4>1. PICK d \in Nat : MAXOPBLOCKS = OpBlocks + d
        OBVIOUS
      <4>2. PICK k \in Nat : outstanding + 1 = k + 2
        BY <3>1, <3>2
      <4>3. (k + 2) * (OpBlocks + d) = (k + 2) * OpBlocks + (k * d + 2 * d) /\ k * d >= 0
        OBVIOUS
      <4>4. (k + 2) * OpBlocks \in Int /\ k * d \in Int
        OBVIOUS
      <4>5. QED BY <4>1, <4>2, <4>3, <4>4
    <3>7. Len(lh') + Cardinality(Possible') <= SharedMost
      <4>1. (outstanding + 1) * OpBlocks \in Int /\ (outstanding + 1) * MAXOPBLOCKS \in Int
        BY <3>1
      <4>2. QED BY <1>1, <2>1, <3>4, <3>5, <3>6, <4>1 DEF SharedMost
    <3>8. QED BY <2>1, <3>7, Zenon DEF RoomInv, Small
  <2>5. QED BY <2>3, <2>4, Zenon
<1>5. ASSUME NEW p \in Proc, NEW b \in Block, NEW v \in Data, Modify(p, b, v)
      PROVE  RoomInv'
  <2>1. InOp' = InOp /\ UNCHANGED <<lh, head, wrote, phase>>
    BY <1>5, Zenon DEF InOp, Modify, LogInv, LogTypeOK
  <2>2. QED BY <2>1, RoomFrame, Zenon
<1>6. ASSUME NEW p \in Proc, LogWrite(p) PROVE RoomInv'
  <2>1. InOp' = InOp /\ p \in InOp /\ head' = head
    BY <1>6, WriteCounts, Zenon DEF LogWrite
  <2>2. /\ Cardinality(Possible) \in Nat /\ Cardinality(Possible') \in Nat
        /\ Len(lh') \in Nat
        /\ Len(lh') + Cardinality(Possible') <= Len(lh) + Cardinality(Possible)
    BY <1>6, WriteRest DEF Possible
  <2>3. CASE Len(lh) + Cardinality(Possible) <= SharedMost
    <3>1. Len(lh') + Cardinality(Possible') <= SharedMost /\ Small(lh')
      BY <1>1, <2>2, <2>3 DEF Small
    <3>2. QED BY <2>1, <3>1, Zenon DEF RoomInv, Small
  <2>4. CASE \E q \in Proc : InOp = {q} /\ Len(lh) <= Cardinality(wrote[q])
    <3>1. InOp = {p} /\ Len(lh) <= Cardinality(wrote[p])
      BY <2>1, <2>4, Zenon
    <3>2. Len(lh') <= Cardinality(wrote'[p]) /\ Cardinality(wrote'[p]) <= OpBlocks
      BY <1>1, <1>6, <3>1, WriteCounts
    <3>3. Cardinality(wrote'[p]) \in Nat
      BY <1>6, WriteCounts, Zenon
    <3>4. Small(lh')
      BY <1>1, <2>2, <3>2, <3>3 DEF Small
    <3>5. QED BY <2>1, <3>1, <3>2, <3>4, Zenon DEF RoomInv, Small
  <2>5. QED BY <2>1, <2>3, <2>4, Zenon DEF RoomInv
<1>7. ASSUME NEW p \in Proc, EndOp(p) PROVE RoomInv'
  <2>1. InOp' = InOp \ {p} /\ p \in InOp /\ UNCHANGED <<lh, head>>
    BY <1>7, Zenon DEF InOp, EndOp, Wake, LogInv, LogTypeOK
  <2>2. InOp' = {} => phase' # "idle"
    <3>1. Cardinality(InOp') = outstanding - 1
      BY <1>2, <2>1, RestCount, FS_RemoveElement, Zenon DEF LogInv, CountInv
    <3>2. QED BY <1>7, <3>1, FS_EmptySet, Zenon DEF EndOp
  <2>3. CASE InOp' = {}
    BY <2>1, <2>2, <2>3, Zenon DEF RoomInv, Small
  <2>4. CASE InOp' # {}
    <3>1. Len(lh) + Cardinality(Possible) <= SharedMost
      BY <2>1, <2>4, Zenon DEF RoomInv
    <3>2. \A q \in Proc : Cardinality(wrote[q]) \in Nat
      BY FS_CardinalityType, Zenon DEF LogInv, CountInv
    <3>3. \A q \in InOp' : wrote'[q] = wrote[q]
      BY <1>7, <2>1, Zenon DEF EndOp, InOp, LogInv, LogTypeOK
    <3>4. /\ InOp' \in SUBSET InOp
          /\ \A q \in InOp' : /\ Cardinality(wrote[q]) \in Nat /\ Cardinality(wrote'[q]) \in Nat
                              /\ Cardinality(wrote[q]) <= Cardinality(wrote'[q])
      BY <1>2, <2>1, <3>2, <3>3
    <3>5. Cardinality(Possible') <= Cardinality(Possible)
      BY <1>2, <3>4, RestShrinks, Zenon DEF Possible
    <3>6. Cardinality(Possible) \in Nat /\ Cardinality(Possible') \in Nat
      BY <1>2, RestCount, Zenon DEF Possible
    <3>7. Len(lh') + Cardinality(Possible') <= SharedMost
      BY <1>1, <2>1, <3>1, <3>5, <3>6
    <3>8. QED BY <2>1, <2>4, <3>7, Zenon DEF RoomInv, Small
  <2>5. QED BY <2>3, <2>4, Zenon
<1>8. CASE write_log \/ install_trans
  <2>1. InOp' = InOp /\ UNCHANGED <<lh, head, wrote>> /\ phase' # "idle"
    BY <1>8, Zenon DEF write_log, install_trans, InOp
  <2>2. QED BY <2>1, RoomFrame, Zenon
<1>9. CASE DiskStep /\ ~write_log /\ ~install_trans
  <2>1. InOp = {} /\ InOp' = {}
    BY <1>9, Zenon DEF DiskStep, write_head, erase, read_head, InOp, LogInv, PhaseInv
  <2>2. (phase' = "idle" => lh' = <<>>) /\ Small(lh') /\ Small(head')
    <3>1. CASE erase
      BY <1>1, <3>1 DEF erase, Small
    <3>2. CASE read_head
      BY <3>2, Zenon DEF read_head, RoomInv, Small
    <3>3. CASE write_head
      BY <3>3, Zenon DEF write_head, RoomInv, Small
    <3>4. QED BY <1>9, <3>1, <3>2, <3>3, Zenon DEF DiskStep
  <2>3. QED BY <2>1, <2>2, Zenon DEF RoomInv
<1>10. CASE Crash
  <2>1. InOp' = {} /\ phase' # "idle" /\ lh' = <<>> /\ head' = head
    BY <1>10, Zenon DEF Crash, Reset, InOp
  <2>2. Small(lh')
    BY <1>1, <2>1 DEF Small
  <2>3. QED BY <2>1, <2>2, Zenon DEF RoomInv, Small
<1>11. CASE UNCHANGED logVars
  <2>1. InOp' = InOp /\ UNCHANGED <<lh, head, wrote, phase>>
    BY <1>11, Zenon DEF logVars, InOp
  <2>2. QED BY <2>1, RoomFrame, Zenon
<1>12. QED
  BY <1>3, <1>4, <1>5, <1>6, <1>7, <1>8, <1>9, <1>10, <1>11, Zenon DEF LogNext, DiskStep

\* log_write() never panics, and the check it makes of log.lh.n before it takes
\* log.lock does no harm, when every system call writes fewer blocks than
\* begin_op() reserves, and the log area has room for one such call alone and
\* for as many as two calls leave of LOGSIZE: in xv6, for every call that writes
\* at most 9 blocks.
THEOREM LogRoom ==
    ASSUME OpBlocks < MAXOPBLOCKS, OpBlocks < Room,
           LOGSIZE - 2 * (MAXOPBLOCKS - OpBlocks) < Room
    PROVE  LogSpec => []HasRoom
<1> USE DEF SharedMost
<1>1. LogInit => RoomInv
  <2>1. 0 < LOGSIZE /\ 0 < Room
    BY DEF Room
  <2>2. LogInit => InOp = {} /\ Small(lh) /\ Small(head) /\ lh = <<>>
    BY <2>1 DEF LogInit, InOp, Small
  <2>3. QED BY <2>2, Zenon DEF RoomInv
<1>2. LogInv /\ RoomInv /\ [LogNext]_logVars => RoomInv'
  BY RoomStep, Zenon
<1>3. LogInv /\ RoomInv => HasRoom
  BY DEF LogInv, RoomInv, Small, HasRoom, LogTypeOK, Room
<1>4. QED BY <1>1, <1>2, <1>3, LogInvariant, PTL DEF LogSpec

-----------------------------------------------------------------------------
\* The log implements atomic group commit: what a reboot finds changes only in
\* write_head(), and then to what all finished calls have written.
THEOREM LogRefines == LogSpec => AtomicSpec
<1>1. LogInit => Atomic!AbsInit
  BY InitRefines
<1>2. LogInv /\ [LogNext]_logVars => [Atomic!AbsNext]_(Atomic!absVars)
  BY AccountsHold, StepRefines DEF LogInv
<1>3. QED BY <1>1, <1>2, LogInvariant, PTL DEF LogSpec, AtomicSpec, Atomic!AbsSpec

\* When the last end_op() has returned, a crash loses nothing.
THEOREM LogDurable == LogSpec => []Atomic!Durable
<1>1. Atomic!AbsInit => Atomic!Durable
  BY Zenon DEF Atomic!AbsInit, Atomic!Durable
<1>2. Atomic!Durable /\ [Atomic!AbsNext]_(Atomic!absVars) => Atomic!Durable'
  BY Zenon DEF Atomic!Durable, Atomic!AbsNext, Atomic!absVars, Atomic!Begin, Atomic!Write,
         Atomic!End, Atomic!Commit, Atomic!Fail
<1>3. QED BY <1>1, <1>2, LogRefines, PTL DEF AtomicSpec, Atomic!AbsSpec
=============================================================================
