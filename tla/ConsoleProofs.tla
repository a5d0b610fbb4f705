---------------------------- MODULE ConsoleProofs ----------------------------
(***************************************************************************)
(* The theorems about the spin locks, the interrupts and the console: the  *)
(* five invariants of the console hold for any number of processors and    *)
(* processes, any size of the input buffer and any word that it divides.   *)
(*                                                                         *)
(* The invariant lists every place a kernel thread can be in, as the code  *)
(* it has left with the locks it holds there (In), and says that ncli      *)
(* counts these locks and intena is what interrupts were before the first. *)
(***************************************************************************)
EXTENDS Console, TLAPS

OpNames == {"sysret", "iret", "restore", "SLEEPING", "RUNNABLE", "getc", "wakeup", "pick"}
Instr ==
    {Op(o) : o \in OpNames} \cup {Acquire(l) : l \in Lock} \cup {Spin(l) : l \in Lock}
    \cup {Release(l) : l \in Lock} \cup {Read(n, first) : n \in Nat \ {0}, first \in BOOLEAN}
Code == Seq(Instr)

-----------------------------------------------------------------------------
(* Where a thread can be: the code that is left, and the locks held there  *)

\* The loop of consoleread().
Reading == {<<Read(n, first), Release(cons), Op("sysret")>> : n \in Nat \ {0}, first \in BOOLEAN}

\* In a system call, which began with interrupts on.
InCall(s, H) ==
    \/ /\ H = {}
       /\ \/ s = <<>> \/ s = <<Op("sysret")>> \/ s = consolewrite
          \/ s = getpinfo \/ s = <<Acquire(ptable)>> \o getpinfoPrints
          \/ \E rd \in Reading : s = <<Acquire(cons)>> \o rd
    \/ /\ H = {cons}
       /\ \/ s \in Reading \/ s = <<Release(cons), Op("sysret")>>
          \/ \E rd \in Reading : s = sleep \o rd
    \/ /\ H = {ptable}
       /\ \/ s = <<Release(ptable), Acquire(ptable)>> \o getpinfoPrints
          \/ s = getpinfoPrints \/ s = <<Release(ptable), Op("sysret")>>
          \/ \E rd \in Reading :
                \/ s = <<Op("SLEEPING"), Op("restore"), Release(ptable), Acquire(cons)>> \o rd
                \/ s = <<Release(ptable), Acquire(cons)>> \o rd
    \/ /\ H = {ptable, cons}
       /\ \/ s = <<Release(cons), Release(ptable), Op("sysret")>>
          \/ \E rd \in Reading :
                s = <<Release(cons), Op("SLEEPING"), Op("restore"), Release(ptable),
                      Acquire(cons)>> \o rd

\* Where the timer may cut a process, and in yield() on top of that.
Cut == {s \in Code : InCall(s, {}) \/ s = <<Op("iret")>>}

InYield(s, H) ==
    \/ /\ H = {}
       /\ \E f \in Cut : s = (yield \o <<Op("iret")>>) \o f \/ s = <<Op("iret")>> \o f
    \/ /\ H = {ptable}
       /\ \E f \in Cut :
             \/ s = <<Op("RUNNABLE"), Op("restore"), Release(ptable), Op("iret")>> \o f
             \/ s = <<Release(ptable), Op("iret")>> \o f

\* In sched(), switched away or just resumed.
AfterSleep(s) == \E rd \in Reading : s = <<Op("restore"), Release(ptable), Acquire(cons)>> \o rd
AfterYield(s) == \E f \in Cut : s = <<Op("restore"), Release(ptable), Op("iret")>> \o f

\* In forkret().
Forked(s, H) ==
    \/ H = {ptable} /\ s = <<Release(ptable), Op("iret")>>
    \/ H = {} /\ s = <<Op("iret")>>

\* In consoleintr(), before or after it has found the key for procdump().
Getting == {<<Op("getc"), Release(cons), Op("iret")>>, <<Op("getc")>> \o procdump}
InHandler(s, H) ==
    \/ H = {} /\ (s = consoleintr \/ s = <<Acquire(cons), Release(cons), Op("iret")>>
                  \/ s = <<Op("iret")>>)
    \/ /\ H = {cons}
       /\ \/ s \in Getting \/ s = <<Release(cons), Op("iret")>> \/ s = procdump
          \/ \E g \in Getting : s = wakeup \o g
    \/ /\ H = {ptable, cons}
       /\ \E g \in Getting : s = <<Op("wakeup"), Release(ptable)>> \o g \/ s = <<Release(ptable)>> \o g

InScheduler(s, H) ==
    \/ H = {} /\ s = SchedLoop
    \/ H = {ptable} /\ s = <<Op("pick")>>

\* The three kinds of threads, not in the middle of a switch.  en is whether
\* interrupts are on when the thread holds no lock.
In(kind, s, H, en) ==
    \/ kind = "handler" /\ InHandler(s, H) /\ ~en
    \/ kind = "scheduler" /\ InScheduler(s, H)
    \/ /\ kind = "process"
       /\ \/ InCall(s, H) /\ en
          \/ InYield(s, H) /\ ~en
          \/ Forked(s, H)

-----------------------------------------------------------------------------
(* The invariant                                                           *)

Held(c) == {l \in Lock : holder[l] = c}
Nest(H) == IF H = {} THEN 0 ELSE IF H = {ptable, cons} THEN 2 ELSE 1

Kind(c) == IF Handling(c) THEN "handler" ELSE IF cur[c] # NoProc THEN "process" ELSE "scheduler"

\* A thread that spins in acquire() is where it was when it called it.
Unspun(s) == IF s # <<>> /\ Head(s).op = "spin" THEN <<Acquire(Head(s).lock)>> \o Tail(s) ELSE s

\* Whether interrupts are on, or will be when the last lock is released.
Enabled(c) == IF ncli[c] = 0 THEN IF_[c] ELSE intena[c]

CpuInv(c) ==
    /\ \/ In(Kind(c), Unspun(Thread(c)), Held(c), Enabled(c))
       \/ /\ Kind(c) = "process" /\ Held(c) = {ptable}
          /\ AfterSleep(Thread(c)) \/ AfterYield(Thread(c))
    /\ ncli[c] = Nest(Held(c)) + IF At(c, "spin") THEN 1 ELSE 0
    /\ ncli[c] > 0 => ~IF_[c]
    /\ cur[c] # NoProc => scode[c] = <<Op("pick")>>
    /\ Handling(c) => IF cur[c] = NoProc THEN scode[c] = SchedLoop ELSE code[cur[c]] \in Cut

ProcInv(p) ==
    /\ state[p] # "RUNNING" =>
           Forked(code[p], {ptable}) \/ AfterSleep(code[p]) \/ AfterYield(code[p])
    /\ AfterSleep(code[p]) => saved[p]
    /\ AfterYield(code[p]) => ~saved[p]

CurInv ==
    /\ \A c \in Cpu : cur[c] # NoProc => state[cur[c]] = "RUNNING"
    /\ \A p \in Proc : state[p] = "RUNNING" => \E c \in Cpu : cur[c] = p
    /\ \A c, d \in Cpu : cur[c] = cur[d] /\ cur[c] # NoProc => c = d

CodeOK ==
    /\ ConsTypeOK
    /\ code \in [Proc -> Code] /\ scode \in [Cpu -> Code] /\ hcode \in [Cpu -> Code]

ConsInv ==
    /\ CodeOK /\ CurInv
    /\ \A c \in Cpu : CpuInv(c)
    /\ \A p \in Proc : ProcInv(p)

-----------------------------------------------------------------------------
(* The input buffer                                                        *)

\* The sizes of the buffer and of an unsigned word.
LEMMA Sizes == INPUT_BUF \in Nat \ {0} /\ WORD \in Nat /\ INPUT_BUF < WORD
  BY ConsoleAssumption

\* Unsigned words wrap at most once when two of them are added or subtracted.
LEMMA Wrap ==
    ASSUME NEW x \in Int, -WORD <= x, x < 2 * WORD
    PROVE  x % WORD = IF x < 0 THEN x + WORD ELSE IF x < WORD THEN x ELSE x - WORD
<1>0. WORD \in Nat /\ WORD > 0  BY Sizes
<1>1. CASE x < 0  BY <1>0, <1>1
<1>2. CASE 0 <= x /\ x < WORD  BY <1>0, <1>2
<1>3. CASE WORD <= x  BY <1>0, <1>3
<1> QED  BY <1>0, <1>1, <1>2, <1>3

\* What the unsigned difference of two indices is.
LEMMA MinusIs ==
    ASSUME NEW a \in 0..(WORD - 1), NEW b \in 0..(WORD - 1)
    PROVE  Minus(a, b) = IF b <= a THEN a - b ELSE a - b + WORD
<1>1. a - b \in Int /\ -WORD <= a - b /\ a - b < 2 * WORD /\ a - b < WORD  BY Sizes
<1>2. (a - b) % WORD = IF a - b < 0 THEN a - b + WORD
                       ELSE IF a - b < WORD THEN a - b ELSE a - b - WORD
  BY <1>1, Wrap
<1> QED  BY <1>1, <1>2 DEF Minus

\* The part of the type invariant that is about struct input.
InType ==
    inbuf \in [0..(INPUT_BUF - 1) -> {"x", "newline", "eof"}] /\ {r, w, e} \subseteq 0..(WORD - 1)

\* Any key, and reading a character, keep the buffer within its bounds.
LEMMA InputStep ==
    InputInBounds => \A c :
        /\ \A k : getc(c, k) => InType' /\ Minus(w', r') <= Minus(e', r') /\ Minus(e', r') <= INPUT_BUF
        /\ readChar(c) => InType' /\ Minus(w', r') <= Minus(e', r') /\ Minus(e', r') <= INPUT_BUF
\* It is an unsigned word.
<1>MinusType.
    ASSUME NEW a \in 0..(WORD - 1), NEW b \in 0..(WORD - 1)
    PROVE  Minus(a, b) \in 0..(WORD - 1)
  <2> USE <1>MinusType
  <2> QED BY MinusIs, Sizes
\* The index after a, and its distance from b.
<1>Next1.
    ASSUME NEW a \in 0..(WORD - 1)
    PROVE  /\ (a + 1) % WORD = IF a = WORD - 1 THEN 0 ELSE a + 1
           /\ (a + 1) % WORD \in 0..(WORD - 1)
  <2> USE <1>Next1
  <2>1. a + 1 \in Int /\ -WORD <= a + 1 /\ a + 1 < 2 * WORD /\ a + 1 >= 0 /\ WORD \in Nat
    BY Sizes
  <2>2. (a + 1) % WORD = IF a + 1 < 0 THEN a + 1 + WORD
                         ELSE IF a + 1 < WORD THEN a + 1 ELSE a + 1 - WORD
    BY <2>1, Wrap
  <2> QED  BY <2>1, <2>2
\* e goes on by one when a character is stored.
<1>StoreBounds.
    ASSUME NEW a \in 0..(WORD - 1), NEW b \in 0..(WORD - 1), Minus(a, b) < INPUT_BUF
    PROVE  Minus((a + 1) % WORD, b) = Minus(a, b) + 1
  <2> USE <1>StoreBounds
  <2>1. (a + 1) % WORD \in 0..(WORD - 1)  BY Zenon, <1>Next1
  <2>2. (a + 1) % WORD = IF a = WORD - 1 THEN 0 ELSE a + 1  BY Zenon, <1>Next1
  <2>3. /\ Minus(a, b) = IF b <= a THEN a - b ELSE a - b + WORD
        /\ Minus((a + 1) % WORD, b) = IF b <= (a + 1) % WORD THEN ((a + 1) % WORD) - b
                                      ELSE ((a + 1) % WORD) - b + WORD
    BY Zenon, <2>1, MinusIs
  <2> DEFINE f == (a + 1) % WORD
  <2>4. f = (a + 1) % WORD  OBVIOUS
  <2> HIDE DEF f
  <2> QED  BY <2>2, <2>3, <2>4, Sizes
\* "backspace" takes back one character that is still being edited.
<1>BackBounds.
    ASSUME NEW a \in 0..(WORD - 1), NEW b \in 0..(WORD - 1), NEW d \in 0..(WORD - 1),
           Minus(b, d) <= Minus(a, d), a # b
    PROVE  /\ Minus(a, 1) \in 0..(WORD - 1)
           /\ Minus(Minus(a, 1), d) = Minus(a, d) - 1 /\ Minus(b, d) <= Minus(a, d) - 1
  <2> USE <1>BackBounds
  <2>1. 1 \in 0..(WORD - 1)  BY Sizes
  <2>2. Minus(a, 1) = IF 1 <= a THEN a - 1 ELSE a - 1 + WORD  BY Zenon, <2>1, MinusIs
  <2>3. Minus(a, 1) \in 0..(WORD - 1)  BY <2>2, Sizes
  <2>4. /\ Minus(a, d) = IF d <= a THEN a - d ELSE a - d + WORD
        /\ Minus(b, d) = IF d <= b THEN b - d ELSE b - d + WORD
        /\ Minus(Minus(a, 1), d) = IF d <= Minus(a, 1) THEN Minus(a, 1) - d
                                   ELSE Minus(a, 1) - d + WORD
    BY Zenon, <2>3, MinusIs
  <2>5. Minus(b, d) < Minus(a, d)  BY <2>4, Sizes
  <2>6. a # d  BY <2>4, <2>5, Sizes
  <2>7. Minus(Minus(a, 1), d) = Minus(a, d) - 1  BY <2>2, <2>3, <2>4, <2>6, Sizes
  <2> QED  BY <2>3, <2>4, <2>5, <2>7, Sizes
\* "kill line" goes back to a place between w and e.
<1>KeepBounds.
    ASSUME NEW a \in 0..(WORD - 1), NEW b \in 0..(WORD - 1), NEW d \in 0..(WORD - 1),
           Minus(b, d) <= Minus(a, d), NEW n \in 0..Minus(a, b)
    PROVE  /\ (b + n) % WORD \in 0..(WORD - 1)
           /\ Minus((b + n) % WORD, d) = Minus(b, d) + n
           /\ Minus(b, d) + n <= Minus(a, d) /\ Minus(b, d) <= Minus(b, d) + n
  <2> USE <1>KeepBounds
  <2>1. /\ Minus(a, d) = IF d <= a THEN a - d ELSE a - d + WORD
        /\ Minus(b, d) = IF d <= b THEN b - d ELSE b - d + WORD
        /\ Minus(a, b) = IF b <= a THEN a - b ELSE a - b + WORD
    BY Zenon, MinusIs
  <2>2. n \in Nat /\ n <= Minus(a, b) /\ n < WORD  BY <2>1, Sizes
  <2>3. Minus(a, b) = Minus(a, d) - Minus(b, d)  BY <2>1, Sizes
  <2> DEFINE x == b + n
             f == x % WORD
  <2>4. x = b + n /\ x \in Int /\ -WORD <= x /\ x < 2 * WORD /\ 0 <= x  BY <2>2, Sizes
  <2> HIDE DEF x
  <2>5. f = IF x < WORD THEN x ELSE x - WORD
    <3>1. f = IF x < 0 THEN x + WORD ELSE IF x < WORD THEN x ELSE x - WORD  BY Zenon, <2>4, Wrap
    <3> HIDE DEF f
    <3> QED  BY <2>4, <3>1
  <2> HIDE DEF f
  <2>6. f \in 0..(WORD - 1)  BY <2>2, <2>4, <2>5, Sizes
  <2>7. Minus(f, d) = IF d <= f THEN f - d ELSE f - d + WORD  BY Zenon, <2>6, MinusIs
  <2>8. Minus(f, d) = Minus(b, d) + n  BY <2>1, <2>2, <2>3, <2>4, <2>5, <2>7, Sizes
  <2>9. Minus(b, d) + n <= Minus(a, d) /\ Minus(b, d) <= Minus(b, d) + n  BY <2>1, <2>2, <2>3, Sizes
  <2> QED  BY Zenon, <2>6, <2>8, <2>9 DEF f, x
\* consoleread() moves r towards w.
<1>ReadBounds.
    ASSUME NEW a \in 0..(WORD - 1), NEW b \in 0..(WORD - 1), NEW d \in 0..(WORD - 1),
           Minus(b, d) <= Minus(a, d), b # d
    PROVE  /\ Minus(b, (d + 1) % WORD) = Minus(b, d) - 1
           /\ Minus(a, (d + 1) % WORD) = Minus(a, d) - 1
           /\ Minus(a, d) \in 0..(WORD - 1) /\ Minus(b, d) \in 0..(WORD - 1)
  <2> USE <1>ReadBounds
  <2>1. (d + 1) % WORD \in 0..(WORD - 1)  BY Zenon, <1>Next1
  <2>2. (d + 1) % WORD = IF d = WORD - 1 THEN 0 ELSE d + 1  BY Zenon, <1>Next1
  <2> DEFINE f == (d + 1) % WORD
  <2>3. f \in 0..(WORD - 1) /\ f = IF d = WORD - 1 THEN 0 ELSE d + 1  BY Zenon, <2>1, <2>2
  <2> HIDE DEF f
  <2>4. /\ Minus(a, d) = IF d <= a THEN a - d ELSE a - d + WORD
        /\ Minus(b, d) = IF d <= b THEN b - d ELSE b - d + WORD
        /\ Minus(a, f) = IF f <= a THEN a - f ELSE a - f + WORD
        /\ Minus(b, f) = IF f <= b THEN b - f ELSE b - f + WORD
    BY Zenon, <2>3, MinusIs
  <2>5. Minus(b, f) = Minus(b, d) - 1 /\ Minus(b, d) > 0  BY <2>3, <2>4, Sizes
  <2>6. a # d  BY <2>4, <2>5, Sizes
  <2>7. Minus(a, f) = Minus(a, d) - 1  BY <2>3, <2>4, <2>6, Sizes
  <2>8. Minus(a, d) \in 0..(WORD - 1) /\ Minus(b, d) \in 0..(WORD - 1)  BY <2>4, Sizes
  <2> QED  BY Zenon, <2>5, <2>7, <2>8 DEF f
\* Forgetting characters leaves a buffer.
<1>ForgetType.
    ASSUME NEW buf \in [0..(INPUT_BUF - 1) -> {"x", "newline", "eof"}], NEW from, NEW to
    PROVE  Forget(buf, from, to) \in [0..(INPUT_BUF - 1) -> {"x", "newline", "eof"}]
  <2> USE <1>ForgetType
  <2> DEFINE P(i) == \E n \in 0..(INPUT_BUF - 1) : n < Minus(to, from) /\ (from + n) % INPUT_BUF = i
  <2>1. Forget(buf, from, to) = [i \in DOMAIN buf |-> IF P(i) THEN "x" ELSE buf[i]]
    BY Zenon DEF Forget
  <2> HIDE DEF P
  <2> QED  BY <2>1
\* Any key keeps the buffer within its bounds,
<1>GetcInput.
    ASSUME InputInBounds, NEW c, NEW k, getc(c, k)
    PROVE  InType' /\ Minus(w', r') <= Minus(e', r') /\ Minus(e', r') <= INPUT_BUF
  <2> USE <1>GetcInput
  <2> DEFINE stored == k \in {"x", "newline", "eof"} /\ Minus(e, r) < INPUT_BUF
             line == stored /\ (k # "x" \/ Minus(e + 1, r) = INPUT_BUF)
             full == (e + 1) % WORD
  <2>0. /\ inbuf \in [0..(INPUT_BUF - 1) -> {"x", "newline", "eof"}]
        /\ r \in 0..(WORD - 1) /\ w \in 0..(WORD - 1) /\ e \in 0..(WORD - 1)
        /\ Minus(w, r) <= Minus(e, r) /\ Minus(e, r) <= INPUT_BUF
    BY DEF InputInBounds, ConsTypeOK
  <2>1. PICK keep \in 0..Minus(e, w) :
            e' = CASE stored -> full
                   [] k = "backspace" /\ e # w -> Minus(e, 1)
                   [] k = "killline" -> (w + keep) % WORD
                   [] OTHER -> e
    BY DEF getc
  <2>2. /\ inbuf' = IF stored THEN [inbuf EXCEPT ![e % INPUT_BUF] = k] ELSE Forget(inbuf, e', e)
        /\ w' = IF line THEN full ELSE w
        /\ r' = r
    BY DEF getc
  <2>3. stored => k \in {"x", "newline", "eof"} /\ Minus(e, r) < INPUT_BUF  OBVIOUS
  <2>4. line => stored  OBVIOUS
  <2> HIDE DEF stored, line
  <2>5. Minus(e, r) \in 0..(WORD - 1) /\ Minus(w, r) \in 0..(WORD - 1)
    BY Zenon, <2>0, <1>MinusType
  <2>6. CASE stored
    <3>1. e' = full
      <4>1. k # "backspace" /\ k # "killline"  BY <2>3, <2>6
      <4> QED  BY Zenon, <2>1, <2>6, <4>1
    <3>2. full \in 0..(WORD - 1) /\ Minus(full, r) = Minus(e, r) + 1
      BY Zenon, <2>0, <2>3, <2>6, <1>Next1, <1>StoreBounds
    <3> HIDE DEF full
    <3>3. w' = full \/ w' = w  BY Zenon, <2>2
    <3>4. inbuf' \in [0..(INPUT_BUF - 1) -> {"x", "newline", "eof"}]
      BY Zenon, <2>0, <2>2, <2>3, <2>6
    <3>5. InType'  BY <2>0, <2>2, <3>1, <3>2, <3>3, <3>4 DEF InType
    <3>6. Minus(e', r') <= INPUT_BUF /\ Minus(w', r') <= Minus(e', r')
      <4>1. Minus(e, r) + 1 <= INPUT_BUF /\ Minus(w, r) <= Minus(e, r) + 1
            /\ Minus(e, r) + 1 <= Minus(e, r) + 1
        BY <2>0, <2>3, <2>5, <2>6, Sizes
      <4> QED  BY Zenon, <2>2, <3>1, <3>2, <3>3, <4>1
    <3> QED  BY Zenon, <3>5, <3>6
  <2>7. CASE ~stored
    <3>1. w' = w /\ inbuf' = Forget(inbuf, e', e)  BY Zenon, <2>2, <2>4, <2>7
    <3>2. inbuf' \in [0..(INPUT_BUF - 1) -> {"x", "newline", "eof"}]
      BY Zenon, <2>0, <3>1, <1>ForgetType
    <3>3. e' \in 0..(WORD - 1) /\ Minus(w, r) <= Minus(e', r) /\ Minus(e', r) <= Minus(e, r)
      <4>1. CASE k = "backspace" /\ e # w
        <5>1. e' = Minus(e, 1)  BY Zenon, <2>1, <2>7, <4>1
        <5>2. /\ Minus(e, 1) \in 0..(WORD - 1) /\ Minus(Minus(e, 1), r) = Minus(e, r) - 1
              /\ Minus(w, r) <= Minus(e, r) - 1
          BY Zenon, <2>0, <4>1, <1>BackBounds
        <5> HIDE <2>1
        <5> QED  BY <2>5, <5>1, <5>2
      <4>2. CASE k = "killline"
        <5>1. e' = (w + keep) % WORD
          <6>1. k # "backspace"  BY <4>2
          <6> QED  BY Zenon, <2>1, <2>7, <4>2, <6>1
        <5>2. /\ (w + keep) % WORD \in 0..(WORD - 1)
              /\ Minus((w + keep) % WORD, r) = Minus(w, r) + keep
              /\ Minus(w, r) + keep <= Minus(e, r) /\ Minus(w, r) <= Minus(w, r) + keep
          BY Zenon, <2>0, <1>KeepBounds
        <5> QED  BY Zenon, <5>1, <5>2
      <4>3. CASE ~(k = "backspace" /\ e # w) /\ k # "killline"
        <5>1. e' = e  BY Zenon, <2>1, <2>7, <4>3
        <5>2. Minus(e, r) <= Minus(e, r)  BY <2>5
        <5> QED  BY Zenon, <2>0, <5>1, <5>2
      <4> QED  BY Zenon, <4>1, <4>2, <4>3
    <3>4. Minus(e', r) \in 0..(WORD - 1)
      BY Zenon, <2>0, <3>3, <1>MinusType
    <3>5. InType'  BY <2>0, <2>2, <3>1, <3>2, <3>3 DEF InType
    <3>6. Minus(e', r') <= INPUT_BUF /\ Minus(w', r') <= Minus(e', r')
      <4>1. Minus(e', r) <= INPUT_BUF  BY <2>0, <2>5, <3>3, <3>4, Sizes
      <4> QED  BY Zenon, <2>2, <3>1, <3>3, <4>1
    <3> QED  BY Zenon, <3>5, <3>6
  <2> QED  BY Zenon, <2>6, <2>7
\* and so does reading a character.
<1>ReadCharInput.
    ASSUME InputInBounds, NEW c, readChar(c)
    PROVE  InType' /\ Minus(w', r') <= Minus(e', r') /\ Minus(e', r') <= INPUT_BUF
  <2> USE <1>ReadCharInput
  <2>0. /\ inbuf \in [0..(INPUT_BUF - 1) -> {"x", "newline", "eof"}]
        /\ r \in 0..(WORD - 1) /\ w \in 0..(WORD - 1) /\ e \in 0..(WORD - 1)
        /\ Minus(w, r) <= Minus(e, r) /\ Minus(e, r) <= INPUT_BUF
    BY DEF InputInBounds, ConsTypeOK
  <2>1. /\ r # w /\ w' = w /\ e' = e /\ inbuf' = Forget(inbuf, r, r')
        /\ r' = r \/ r' = (r + 1) % WORD
    BY DEF readChar
  <2>2. inbuf' \in [0..(INPUT_BUF - 1) -> {"x", "newline", "eof"}]
    BY Zenon, <2>0, <2>1, <1>ForgetType
  <2>3. r' \in 0..(WORD - 1)  BY Zenon, <2>0, <2>1, <1>Next1
  <2>4. InType'  BY <2>0, <2>1, <2>2, <2>3 DEF InType
  <2>5. CASE r' = r  BY Zenon, <2>0, <2>1, <2>4, <2>5
  <2>6. CASE r' = (r + 1) % WORD
    <3>1. /\ Minus(w, (r + 1) % WORD) = Minus(w, r) - 1 /\ Minus(e, (r + 1) % WORD) = Minus(e, r) - 1
          /\ Minus(e, r) \in 0..(WORD - 1) /\ Minus(w, r) \in 0..(WORD - 1)
      BY Zenon, <2>0, <2>1, <1>ReadBounds
    <3>2. Minus(w, r) - 1 <= Minus(e, r) - 1 /\ Minus(e, r) - 1 <= INPUT_BUF
      BY <2>0, <3>1, Sizes
    <3> QED  BY Zenon, <2>1, <2>4, <2>6, <3>1, <3>2
  <2> QED  BY Zenon, <2>1, <2>5, <2>6
<1> QED  BY Zenon, <1>GetcInput, <1>ReadCharInput


-----------------------------------------------------------------------------
(* What a thread does next                                                 *)

\* Sequences are equal when their elements are.
LEMMA Pointwise ==
    ASSUME NEW S, NEW s \in Seq(S), NEW t \in Seq(S), Len(s) = Len(t),
           \A i \in 1..Len(s) : s[i] = t[i]
    PROVE  s = t
  OBVIOUS

\* The two locks, and that no process or processor is called "none".
LEMMA Names == /\ Lock = {ptable, cons} /\ ptable # cons
               /\ NoProc \notin Proc /\ NoCpu \notin Cpu
  BY SpinlockAssumption, ConsoleAssumption DEF ptable, cons, NoCpu, Cpu

\* The instructions.
LEMMA Instrs ==
    /\ \A l \in Lock : Acquire(l) \in Instr /\ Spin(l) \in Instr /\ Release(l) \in Instr
    /\ \A o \in OpNames : Op(o) \in Instr
    /\ \A n \in Nat \ {0}, f \in BOOLEAN : Read(n, f) \in Instr
  BY DEF Instr

\* The fields of an instruction.
LEMMA Fields ==
    /\ \A l : /\ Acquire(l).op = "acquire" /\ Acquire(l).lock = l
              /\ Spin(l).op = "spin" /\ Spin(l).lock = l
              /\ Release(l).op = "release" /\ Release(l).lock = l
    /\ \A o : Op(o).op = o
    /\ \A n, f : Read(n, f).op = "read" /\ Read(n, f).n = n /\ Read(n, f).first = f
  BY DEF Acquire, Spin, Release, Op, Read

\* The instructions the code of the kernel is made of.
LEMMA KeyInstrs ==
    /\ Acquire(ptable) \in Instr /\ Release(ptable) \in Instr
    /\ Acquire(cons) \in Instr /\ Release(cons) \in Instr
    /\ Op("sysret") \in Instr /\ Op("iret") \in Instr /\ Op("restore") \in Instr
    /\ Op("SLEEPING") \in Instr /\ Op("RUNNABLE") \in Instr
    /\ Op("getc") \in Instr /\ Op("wakeup") \in Instr /\ Op("pick") \in Instr
<1>1. ptable \in Lock /\ cons \in Lock  BY Names
<1>2. /\ Acquire(ptable) \in Instr /\ Release(ptable) \in Instr
      /\ Acquire(cons) \in Instr /\ Release(cons) \in Instr
  BY Zenon, <1>1, Instrs
<1> QED  BY Zenon, <1>2, Instrs DEF OpNames

\* The code s is the instruction i and then the code t.
Is(s, i, t) == s \in Code /\ s # <<>> /\ Head(s) = i /\ Tail(s) = t

\* Code that begins with a given instruction.
LEMMA Begin1 ==
    ASSUME NEW a \in Instr, NEW s \in Code
    PROVE  Is(<<a>> \o s, a, s)
  BY DEF Code, Is

\* The codes of the calls and handlers.
LEMMA Codes ==
    /\ Is(<<Op("sysret")>>, Op("sysret"), <<>>)
    /\ Is(consolewrite, Acquire(cons), <<Release(cons), Op("sysret")>>)
    /\ Is(<<Release(cons), Op("sysret")>>, Release(cons), <<Op("sysret")>>)
    /\ Is(getpinfoPrints, Acquire(cons), <<Release(cons), Release(ptable), Op("sysret")>>)
    /\ Is(<<Release(cons), Release(ptable), Op("sysret")>>, Release(cons), <<Release(ptable), Op("sysret")>>)
    /\ Is(<<Release(ptable), Op("sysret")>>, Release(ptable), <<Op("sysret")>>)
    /\ Is(<<Op("iret")>>, Op("iret"), <<>>)
    /\ Is(<<Release(ptable), Op("iret")>>, Release(ptable), <<Op("iret")>>)
    /\ Is(SchedLoop, Acquire(ptable), <<Op("pick")>>)
    /\ Is(<<Op("pick")>>, Op("pick"), <<>>)
    /\ Is(consoleintr, Acquire(cons), <<Op("getc"), Release(cons), Op("iret")>>)
    /\ Is(<<Op("getc"), Release(cons), Op("iret")>>, Op("getc"), <<Release(cons), Op("iret")>>)
    /\ Is(<<Release(cons), Op("iret")>>, Release(cons), <<Op("iret")>>)
    /\ Is(procdump, Release(cons), <<Acquire(cons), Release(cons), Op("iret")>>)
    /\ Is(<<Acquire(cons), Release(cons), Op("iret")>>, Acquire(cons), <<Release(cons), Op("iret")>>)
<1>1. Is(<<Op("sysret")>>, Op("sysret"), <<>>)
  BY KeyInstrs DEF Code, Is
<1>2. Is(consolewrite, Acquire(cons), <<Release(cons), Op("sysret")>>)
  BY KeyInstrs DEF Code, Is, consolewrite
<1>3. Is(<<Release(cons), Op("sysret")>>, Release(cons), <<Op("sysret")>>)
  BY KeyInstrs DEF Code, Is
<1>4. Is(getpinfoPrints, Acquire(cons), <<Release(cons), Release(ptable), Op("sysret")>>)
  BY KeyInstrs DEF Code, Is, getpinfoPrints
<1>5. Is(<<Release(cons), Release(ptable), Op("sysret")>>, Release(cons), <<Release(ptable), Op("sysret")>>)
  BY KeyInstrs DEF Code, Is
<1>6. Is(<<Release(ptable), Op("sysret")>>, Release(ptable), <<Op("sysret")>>)
  BY KeyInstrs DEF Code, Is
<1>7. Is(<<Op("iret")>>, Op("iret"), <<>>)
  BY KeyInstrs DEF Code, Is
<1>8. Is(<<Release(ptable), Op("iret")>>, Release(ptable), <<Op("iret")>>)
  BY KeyInstrs DEF Code, Is
<1>9. Is(SchedLoop, Acquire(ptable), <<Op("pick")>>)
  BY KeyInstrs DEF Code, Is, SchedLoop
<1>10. Is(<<Op("pick")>>, Op("pick"), <<>>)
  BY KeyInstrs DEF Code, Is
<1>11. Is(consoleintr, Acquire(cons), <<Op("getc"), Release(cons), Op("iret")>>)
  BY KeyInstrs DEF Code, Is, consoleintr
<1>12. Is(<<Op("getc"), Release(cons), Op("iret")>>, Op("getc"), <<Release(cons), Op("iret")>>)
  BY KeyInstrs DEF Code, Is
<1>13. Is(<<Release(cons), Op("iret")>>, Release(cons), <<Op("iret")>>)
  BY KeyInstrs DEF Code, Is
<1>14. Is(procdump, Release(cons), <<Acquire(cons), Release(cons), Op("iret")>>)
  BY KeyInstrs DEF Code, Is, procdump
<1>15. Is(<<Acquire(cons), Release(cons), Op("iret")>>, Acquire(cons), <<Release(cons), Op("iret")>>)
  BY KeyInstrs DEF Code, Is
<1> QED  BY Zenon, <1>1, <1>2, <1>3, <1>4, <1>5, <1>6, <1>7, <1>8, <1>9, <1>10, <1>11, <1>12, <1>13, <1>14, <1>15

\* The code of getpinfo().
LEMMA CallCodes ==
    /\ Is(getpinfo, Acquire(ptable), <<Release(ptable), Acquire(ptable)>> \o getpinfoPrints)
    /\ Is(<<Release(ptable), Acquire(ptable)>> \o getpinfoPrints, Release(ptable),
          <<Acquire(ptable)>> \o getpinfoPrints)
    /\ Is(<<Acquire(ptable)>> \o getpinfoPrints, Acquire(ptable), getpinfoPrints)
    /\ Is(<<Op("getc")>> \o procdump, Op("getc"), procdump)
<1>1. getpinfoPrints \in Code /\ procdump \in Code  BY Codes DEF Is
<1> QED  BY <1>1, KeyInstrs DEF Code, Is, getpinfo

\* The code of consoleread(), before and in sleep().
LEMMA ReadingCodes ==
    ASSUME NEW rd \in Reading
    PROVE  /\ \E n \in Nat \ {0}, f \in BOOLEAN :
                 Is(rd, Read(n, f), <<Release(cons), Op("sysret")>>)
           /\ Is(<<Acquire(cons)>> \o rd, Acquire(cons), rd)
           /\ Is(<<Release(ptable), Acquire(cons)>> \o rd, Release(ptable), <<Acquire(cons)>> \o rd)
           /\ Is(<<Op("restore"), Release(ptable), Acquire(cons)>> \o rd, Op("restore"),
                 <<Release(ptable), Acquire(cons)>> \o rd)
           /\ Is(<<Op("SLEEPING"), Op("restore"), Release(ptable), Acquire(cons)>> \o rd,
                 Op("SLEEPING"), <<Op("restore"), Release(ptable), Acquire(cons)>> \o rd)
           /\ Is(<<Release(cons), Op("SLEEPING"), Op("restore"), Release(ptable),
                   Acquire(cons)>> \o rd,
                 Release(cons),
                 <<Op("SLEEPING"), Op("restore"), Release(ptable), Acquire(cons)>> \o rd)
           /\ Is(sleep \o rd, Acquire(ptable),
                 <<Release(cons), Op("SLEEPING"), Op("restore"), Release(ptable),
                   Acquire(cons)>> \o rd)
<1>1. PICK n \in Nat \ {0}, f \in BOOLEAN : rd = <<Read(n, f), Release(cons), Op("sysret")>>
  BY DEF Reading
<1>2. Read(n, f) \in Instr  BY Instrs
<1>3. Is(rd, Read(n, f), <<Release(cons), Op("sysret")>>)
  BY <1>1, <1>2, KeyInstrs DEF Code, Is
<1>4. rd \in Code  BY <1>3 DEF Is
<1>5. /\ Is(<<Acquire(cons)>> \o rd, Acquire(cons), rd)
      /\ Is(<<Release(ptable), Acquire(cons)>> \o rd, Release(ptable), <<Acquire(cons)>> \o rd)
  BY <1>4, KeyInstrs DEF Code, Is
<1>6. /\ Is(<<Op("restore"), Release(ptable), Acquire(cons)>> \o rd, Op("restore"),
            <<Release(ptable), Acquire(cons)>> \o rd)
      /\ Is(<<Op("SLEEPING"), Op("restore"), Release(ptable), Acquire(cons)>> \o rd,
            Op("SLEEPING"), <<Op("restore"), Release(ptable), Acquire(cons)>> \o rd)
  BY <1>4, KeyInstrs DEF Code, Is
<1>7. Is(<<Release(cons), Op("SLEEPING"), Op("restore"), Release(ptable), Acquire(cons)>> \o rd,
         Release(cons),
         <<Op("SLEEPING"), Op("restore"), Release(ptable), Acquire(cons)>> \o rd)
  BY <1>4, KeyInstrs DEF Code, Is
<1>8. Is(sleep \o rd, Acquire(ptable),
         <<Release(cons), Op("SLEEPING"), Op("restore"), Release(ptable), Acquire(cons)>> \o rd)
  BY <1>4, KeyInstrs DEF Code, Is, sleep
<1> QED  BY Zenon, <1>3, <1>5, <1>6, <1>7, <1>8

\* Every code that InCall allows.
LEMMA InCalls ==
    /\ InCall(<<>>, {}) /\ InCall(<<Op("sysret")>>, {}) /\ InCall(consolewrite, {})
    /\ InCall(getpinfo, {}) /\ InCall(<<Acquire(ptable)>> \o getpinfoPrints, {})
    /\ InCall(<<Release(cons), Op("sysret")>>, {cons})
    /\ InCall(<<Release(ptable), Acquire(ptable)>> \o getpinfoPrints, {ptable})
    /\ InCall(getpinfoPrints, {ptable}) /\ InCall(<<Release(ptable), Op("sysret")>>, {ptable})
    /\ InCall(<<Release(cons), Release(ptable), Op("sysret")>>, {ptable, cons})
    /\ \A rd \in Reading :
          /\ InCall(<<Acquire(cons)>> \o rd, {}) /\ InCall(rd, {cons}) /\ InCall(sleep \o rd, {cons})
          /\ InCall(<<Op("SLEEPING"), Op("restore"), Release(ptable), Acquire(cons)>> \o rd, {ptable})
          /\ InCall(<<Release(ptable), Acquire(cons)>> \o rd, {ptable})
          /\ InCall(<<Release(cons), Op("SLEEPING"), Op("restore"), Release(ptable),
                      Acquire(cons)>> \o rd, {ptable, cons})
  BY Zenon DEF InCall

\* The sets of locks.
LEMMA Sets ==
    /\ \A l : {} \cup {l} = {l}
    /\ {cons} \cup {ptable} = {ptable, cons} /\ {ptable} \cup {cons} = {ptable, cons}
    /\ {cons} \ {cons} = {} /\ {ptable} \ {ptable} = {}
    /\ {ptable, cons} \ {cons} = {ptable} /\ {ptable, cons} \ {ptable} = {cons}
    /\ {ptable} # {} /\ {cons} # {} /\ {ptable, cons} # {} /\ {cons} # {ptable}
    /\ {ptable, cons} # {ptable} /\ {ptable, cons} # {cons}
    /\ Lock \ {} = {ptable, cons} /\ Lock \ {cons} = {ptable} /\ Lock \ {ptable} = {cons}
<1>1. /\ \A l : {} \cup {l} = {l}
      /\ {cons} \cup {ptable} = {ptable, cons} /\ {ptable} \cup {cons} = {ptable, cons}
      /\ {cons} \ {cons} = {} /\ {ptable} \ {ptable} = {}
  OBVIOUS
<1>2. /\ {ptable, cons} \ {cons} = {ptable} /\ {ptable, cons} \ {ptable} = {cons}
  BY Names
<1>3. /\ {ptable} # {} /\ {cons} # {} /\ {ptable, cons} # {} /\ {cons} # {ptable}
      /\ {ptable, cons} # {ptable} /\ {ptable, cons} # {cons}
  BY Names
<1>4. Lock \ {} = {ptable, cons} /\ Lock \ {cons} = {ptable} /\ Lock \ {ptable} = {cons}
  BY Names
<1> QED  BY Zenon, <1>1, <1>2, <1>3, <1>4

\* What a system call does next, and the locks it holds then.
LEMMA CallCode ==
    ASSUME NEW s, NEW H, InCall(s, H), s # <<>>
    PROVE  /\ s \in Code
           /\ \/ \E l \in Lock \ H : Head(s) = Acquire(l) /\ InCall(Tail(s), H \cup {l})
              \/ \E l \in H : Head(s) = Release(l) /\ InCall(Tail(s), H \ {l})
              \/ Head(s) = Op("SLEEPING") /\ H = {ptable} /\ AfterSleep(Tail(s))
              \/ Head(s) = Op("sysret") /\ H = {} /\ Tail(s) = <<>>
              \/ H = {cons} /\ s \in Reading
<1>1. CASE H = {}
  <2>0. /\ H \cup {ptable} = {ptable} /\ H \cup {cons} = {cons}
        /\ ptable \in Lock \ H /\ cons \in Lock \ H
    BY <1>1, Names
  <2>1. CASE s = <<Op("sysret")>>  BY Zenon, <2>1, <1>1, Codes DEF Is
  <2>2. CASE s = consolewrite
    <3>1. Is(s, Acquire(cons), <<Release(cons), Op("sysret")>>)  BY Zenon, <2>2, Codes
    <3>2. InCall(<<Release(cons), Op("sysret")>>, H \cup {cons})  BY Zenon, <2>0, InCalls
    <3> QED  BY Zenon, <2>0, <3>1, <3>2 DEF Is
  <2>3. CASE s = getpinfo
    <3>1. Is(s, Acquire(ptable), <<Release(ptable), Acquire(ptable)>> \o getpinfoPrints)
      BY Zenon, <2>3, CallCodes
    <3>2. InCall(<<Release(ptable), Acquire(ptable)>> \o getpinfoPrints, H \cup {ptable})
      BY Zenon, <2>0, InCalls
    <3> QED  BY Zenon, <2>0, <3>1, <3>2 DEF Is
  <2>4. CASE s = <<Acquire(ptable)>> \o getpinfoPrints
    <3>1. Is(s, Acquire(ptable), getpinfoPrints)  BY Zenon, <2>4, CallCodes
    <3>2. InCall(getpinfoPrints, H \cup {ptable})  BY Zenon, <2>0, InCalls
    <3> QED  BY Zenon, <2>0, <3>1, <3>2 DEF Is
  <2>5. CASE \E rd \in Reading : s = <<Acquire(cons)>> \o rd
    <3>0. PICK rd \in Reading : s = <<Acquire(cons)>> \o rd  BY Zenon, <2>5
    <3>1. Is(s, Acquire(cons), rd)  BY Zenon, <3>0, ReadingCodes
    <3>2. InCall(rd, H \cup {cons})  BY Zenon, <2>0, InCalls
    <3> QED  BY Zenon, <2>0, <3>1, <3>2 DEF Is
  <2> QED  BY Zenon, <1>1, <2>1, <2>2, <2>3, <2>4, <2>5, Sets DEF InCall
<1>2. CASE H = {cons}
  <2>0. /\ H \cup {ptable} = {ptable, cons} /\ H \ {cons} = {}
        /\ ptable \in Lock \ H /\ cons \in H
    BY <1>2, Names
  <2>1. CASE s \in Reading  BY Zenon, <2>1, <1>2, ReadingCodes DEF Is
  <2>2. CASE s = <<Release(cons), Op("sysret")>>
    <3>1. Is(s, Release(cons), <<Op("sysret")>>)  BY Zenon, <2>2, Codes
    <3>2. InCall(<<Op("sysret")>>, H \ {cons})  BY Zenon, <2>0, InCalls
    <3> QED  BY Zenon, <2>0, <3>1, <3>2 DEF Is
  <2>3. CASE \E rd \in Reading : s = sleep \o rd
    <3>0. PICK rd \in Reading : s = sleep \o rd  BY Zenon, <2>3
    <3>1. Is(s, Acquire(ptable), <<Release(cons), Op("SLEEPING"), Op("restore"), Release(ptable), Acquire(cons)>> \o rd)
      BY Zenon, <3>0, ReadingCodes
    <3>2. InCall(<<Release(cons), Op("SLEEPING"), Op("restore"), Release(ptable), Acquire(cons)>> \o rd, H \cup {ptable})
      BY Zenon, <2>0, InCalls
    <3> QED  BY Zenon, <2>0, <3>1, <3>2 DEF Is
  <2> QED  BY Zenon, <1>2, <2>1, <2>2, <2>3, Sets DEF InCall
<1>3. CASE H = {ptable}
  <2>0. /\ H \cup {cons} = {ptable, cons} /\ H \ {ptable} = {}
        /\ cons \in Lock \ H /\ ptable \in H
    BY <1>3, Names
  <2>1. CASE s = <<Release(ptable), Acquire(ptable)>> \o getpinfoPrints
    <3>1. Is(s, Release(ptable), <<Acquire(ptable)>> \o getpinfoPrints)  BY Zenon, <2>1, CallCodes
    <3>2. InCall(<<Acquire(ptable)>> \o getpinfoPrints, H \ {ptable})  BY Zenon, <2>0, InCalls
    <3> QED  BY Zenon, <2>0, <3>1, <3>2 DEF Is
  <2>2. CASE s = getpinfoPrints
    <3>1. Is(s, Acquire(cons), <<Release(cons), Release(ptable), Op("sysret")>>)
      BY Zenon, <2>2, Codes
    <3>2. InCall(<<Release(cons), Release(ptable), Op("sysret")>>, H \cup {cons})
      BY Zenon, <2>0, InCalls
    <3> QED  BY Zenon, <2>0, <3>1, <3>2 DEF Is
  <2>3. CASE s = <<Release(ptable), Op("sysret")>>
    <3>1. Is(s, Release(ptable), <<Op("sysret")>>)  BY Zenon, <2>3, Codes
    <3>2. InCall(<<Op("sysret")>>, H \ {ptable})  BY Zenon, <2>0, InCalls
    <3> QED  BY Zenon, <2>0, <3>1, <3>2 DEF Is
  <2>4. CASE \E rd \in Reading : s = <<Op("SLEEPING"), Op("restore"), Release(ptable), Acquire(cons)>> \o rd
    BY Zenon, <2>4, <1>3, ReadingCodes DEF Is, AfterSleep
  <2>5. CASE \E rd \in Reading : s = <<Release(ptable), Acquire(cons)>> \o rd
    <3>0. PICK rd \in Reading : s = <<Release(ptable), Acquire(cons)>> \o rd  BY Zenon, <2>5
    <3>1. Is(s, Release(ptable), <<Acquire(cons)>> \o rd)  BY Zenon, <3>0, ReadingCodes
    <3>2. InCall(<<Acquire(cons)>> \o rd, H \ {ptable})  BY Zenon, <2>0, InCalls
    <3> QED  BY Zenon, <2>0, <3>1, <3>2 DEF Is
  <2> QED  BY Zenon, <1>3, <2>1, <2>2, <2>3, <2>4, <2>5, Sets DEF InCall
<1>4. CASE H = {ptable, cons}
  <2>0. H \ {cons} = {ptable} /\ cons \in H
    BY <1>4, Names
  <2>1. CASE s = <<Release(cons), Release(ptable), Op("sysret")>>
    <3>1. Is(s, Release(cons), <<Release(ptable), Op("sysret")>>)  BY Zenon, <2>1, Codes
    <3>2. InCall(<<Release(ptable), Op("sysret")>>, H \ {cons})  BY Zenon, <2>0, InCalls
    <3> QED  BY Zenon, <2>0, <3>1, <3>2 DEF Is
  <2>2. CASE \E rd \in Reading : s = <<Release(cons), Op("SLEEPING"), Op("restore"), Release(ptable), Acquire(cons)>> \o rd
    <3>0. PICK rd \in Reading : s = <<Release(cons), Op("SLEEPING"), Op("restore"), Release(ptable), Acquire(cons)>> \o rd
      BY Zenon, <2>2
    <3>1. Is(s, Release(cons), <<Op("SLEEPING"), Op("restore"), Release(ptable), Acquire(cons)>> \o rd)
      BY Zenon, <3>0, ReadingCodes
    <3>2. InCall(<<Op("SLEEPING"), Op("restore"), Release(ptable), Acquire(cons)>> \o rd, H \ {cons})
      BY Zenon, <2>0, InCalls
    <3> QED  BY Zenon, <2>0, <3>1, <3>2 DEF Is
  <2> QED  BY Zenon, <1>4, <2>1, <2>2, Sets DEF InCall
<1> QED  BY Zenon, <1>1, <1>2, <1>3, <1>4 DEF InCall

\* The code the timer interrupt puts before the code it cuts.
LEMMA YieldIret ==
    yield \o <<Op("iret")>>
        = <<Acquire(ptable), Op("RUNNABLE"), Op("restore"), Release(ptable), Op("iret")>>
<1> DEFINE s == yield \o <<Op("iret")>>
           t == <<Acquire(ptable), Op("RUNNABLE"), Op("restore"), Release(ptable), Op("iret")>>
<1>1. Len(s) = 5 /\ Len(t) = 5  BY KeyInstrs DEF yield
<1>2. s[1] = t[1] /\ s[2] = t[2] /\ s[3] = t[3] /\ s[4] = t[4] /\ s[5] = t[5]
  BY KeyInstrs DEF yield
<1>3. s \in Seq(Instr) /\ t \in Seq(Instr)  BY KeyInstrs DEF yield
<1>4. \A i \in 1..Len(s) : s[i] = t[i]  BY <1>1, <1>2
<1> HIDE DEF s, t
<1>5. s = t  BY <1>1, <1>3, <1>4, Pointwise
<1> QED  BY <1>5 DEF s, t

\* Code on top of the code of a process that was cut.
LEMMA CutCodes ==
    ASSUME NEW f \in Cut
    PROVE  /\ f \in Code
           /\ Is(<<Op("iret")>> \o f, Op("iret"), f)
           /\ Is(<<Release(ptable), Op("iret")>> \o f, Release(ptable), <<Op("iret")>> \o f)
           /\ Is(<<Op("restore"), Release(ptable), Op("iret")>> \o f, Op("restore"),
                 <<Release(ptable), Op("iret")>> \o f)
           /\ Is(<<Op("RUNNABLE"), Op("restore"), Release(ptable), Op("iret")>> \o f,
                 Op("RUNNABLE"), <<Op("restore"), Release(ptable), Op("iret")>> \o f)
           /\ Is((yield \o <<Op("iret")>>) \o f, Acquire(ptable),
                 <<Op("RUNNABLE"), Op("restore"), Release(ptable), Op("iret")>> \o f)
<1>1. f \in Code  BY Zenon DEF Cut
<1>2. /\ Is(<<Op("iret")>> \o f, Op("iret"), f)
      /\ Is(<<Release(ptable), Op("iret")>> \o f, Release(ptable), <<Op("iret")>> \o f)
  BY <1>1, KeyInstrs DEF Code, Is
<1>3. /\ Is(<<Op("restore"), Release(ptable), Op("iret")>> \o f, Op("restore"),
            <<Release(ptable), Op("iret")>> \o f)
      /\ Is(<<Op("RUNNABLE"), Op("restore"), Release(ptable), Op("iret")>> \o f,
            Op("RUNNABLE"), <<Op("restore"), Release(ptable), Op("iret")>> \o f)
  BY <1>1, KeyInstrs DEF Code, Is
<1>4. Is(<<Acquire(ptable), Op("RUNNABLE"), Op("restore"), Release(ptable), Op("iret")>> \o f,
         Acquire(ptable), <<Op("RUNNABLE"), Op("restore"), Release(ptable), Op("iret")>> \o f)
  BY <1>1, KeyInstrs DEF Code, Is
<1>5. Is((yield \o <<Op("iret")>>) \o f, Acquire(ptable),
         <<Op("RUNNABLE"), Op("restore"), Release(ptable), Op("iret")>> \o f)
  BY Zenon, <1>4, YieldIret
<1> QED  BY Zenon, <1>1, <1>2, <1>3, <1>5

\* What yield() does next.
LEMMA YieldCode ==
    ASSUME NEW s, NEW H, InYield(s, H)
    PROVE  /\ s \in Code /\ s # <<>>
           /\ \/ H = {} /\ Head(s) = Acquire(ptable) /\ InYield(Tail(s), {ptable})
              \/ H = {} /\ Head(s) = Op("iret") /\ Tail(s) \in Cut
              \/ H = {ptable} /\ Head(s) = Op("RUNNABLE") /\ AfterYield(Tail(s))
              \/ H = {ptable} /\ Head(s) = Release(ptable) /\ InYield(Tail(s), {})
<1>0. \A f \in Cut :
         /\ InYield(<<Op("iret")>> \o f, {})
         /\ InYield(<<Op("RUNNABLE"), Op("restore"), Release(ptable), Op("iret")>> \o f, {ptable})
  BY Zenon DEF InYield
<1>1. CASE H = {} /\ \E f \in Cut : s = (yield \o <<Op("iret")>>) \o f
  BY Zenon, <1>0, <1>1, CutCodes DEF Is
<1>2. CASE H = {} /\ \E f \in Cut : s = <<Op("iret")>> \o f
  BY Zenon, <1>2, CutCodes DEF Is
<1>3. CASE /\ H = {ptable}
           /\ \E f \in Cut :
                 s = <<Op("RUNNABLE"), Op("restore"), Release(ptable), Op("iret")>> \o f
  BY Zenon, <1>3, CutCodes DEF Is, AfterYield
<1>4. CASE H = {ptable} /\ \E f \in Cut : s = <<Release(ptable), Op("iret")>> \o f
  BY Zenon, <1>0, <1>4, CutCodes DEF Is
<1> QED  BY Zenon, <1>1, <1>2, <1>3, <1>4 DEF InYield

\* What sched() does when it returns.
LEMMA AfterCode ==
    ASSUME NEW s, AfterSleep(s) \/ AfterYield(s)
    PROVE  /\ s \in Code /\ s # <<>> /\ Head(s) = Op("restore")
           /\ AfterSleep(s) => InCall(Tail(s), {ptable})
           /\ AfterYield(s) => InYield(Tail(s), {ptable})
<1>3. ASSUME AfterSleep(s) PROVE InCall(Tail(s), {ptable})
  <2>1. PICK rd \in Reading : s = <<Op("restore"), Release(ptable), Acquire(cons)>> \o rd
    BY Zenon, <1>3 DEF AfterSleep
  <2>2. Tail(s) = <<Release(ptable), Acquire(cons)>> \o rd  BY Zenon, <2>1, ReadingCodes DEF Is
  <2> QED  BY Zenon, <2>2, InCalls
<1>4. AfterYield(s) => InYield(Tail(s), {ptable})
  BY Zenon, CutCodes DEF Is, AfterYield, InYield
<1>5. s \in Code /\ s # <<>> /\ Head(s) = Op("restore")
  BY Zenon, ReadingCodes, CutCodes DEF Is, AfterSleep, AfterYield
<1> QED  BY Zenon, <1>3, <1>4, <1>5

\* The loop of consoleintr(), and wakeup() called from it.
LEMMA GettingCodes ==
    ASSUME NEW g \in Getting
    PROVE  /\ g \in Code /\ g # <<>> /\ Head(g) = Op("getc")
           /\ Tail(g) = <<Release(cons), Op("iret")>> \/ Tail(g) = procdump
           /\ Is(<<Release(ptable)>> \o g, Release(ptable), g)
           /\ Is(<<Op("wakeup"), Release(ptable)>> \o g, Op("wakeup"), <<Release(ptable)>> \o g)
           /\ Is(wakeup \o g, Acquire(ptable), <<Op("wakeup"), Release(ptable)>> \o g)
<1>1. \/ Is(g, Op("getc"), <<Release(cons), Op("iret")>>)
      \/ Is(g, Op("getc"), procdump)
  BY Zenon, Codes, CallCodes DEF Getting
<1>2. g \in Code  BY Zenon, <1>1 DEF Is
<1>3. /\ Is(<<Release(ptable)>> \o g, Release(ptable), g)
      /\ Is(<<Op("wakeup"), Release(ptable)>> \o g, Op("wakeup"), <<Release(ptable)>> \o g)
      /\ Is(wakeup \o g, Acquire(ptable), <<Op("wakeup"), Release(ptable)>> \o g)
  BY <1>2, KeyInstrs DEF Code, Is, wakeup
<1> QED  BY Zenon, <1>1, <1>3 DEF Is

\* What consoleintr() does next, and the locks it holds then.
LEMMA HandlerCode ==
    ASSUME NEW s, NEW H, InHandler(s, H)
    PROVE  /\ s \in Code /\ s # <<>>
           /\ \/ \E l \in Lock \ H : Head(s) = Acquire(l) /\ InHandler(Tail(s), H \cup {l})
              \/ \E l \in H : Head(s) = Release(l) /\ InHandler(Tail(s), H \ {l})
              \/ H = {} /\ s = <<Op("iret")>>
              \/ H = {cons} /\ s \in Getting
              \/ /\ H = {ptable, cons} /\ Head(s) = Op("wakeup")
                 /\ \E g \in Getting : Tail(s) = <<Release(ptable)>> \o g
<1>0. /\ InHandler(<<Op("iret")>>, {}) /\ InHandler(<<Release(cons), Op("iret")>>, {cons})
      /\ InHandler(<<Acquire(cons), Release(cons), Op("iret")>>, {})
      /\ \A g \in Getting : /\ InHandler(g, {cons})
                            /\ InHandler(<<Op("wakeup"), Release(ptable)>> \o g, {ptable, cons})
      /\ InHandler(<<Op("getc"), Release(cons), Op("iret")>>, {cons})
  BY Zenon DEF InHandler, Getting
<1>1. CASE H = {}
  <2>0. H \cup {cons} = {cons} /\ cons \in Lock \ H  BY <1>1, Names
  <2>1. CASE s = consoleintr
    <3>1. Is(s, Acquire(cons), <<Op("getc"), Release(cons), Op("iret")>>)  BY Zenon, <2>1, Codes
    <3>2. InHandler(<<Op("getc"), Release(cons), Op("iret")>>, H \cup {cons})
      BY Zenon, <1>0, <2>0
    <3> QED  BY Zenon, <2>0, <3>1, <3>2 DEF Is
  <2>2. CASE s = <<Acquire(cons), Release(cons), Op("iret")>>
    <3>1. Is(s, Acquire(cons), <<Release(cons), Op("iret")>>)  BY Zenon, <2>2, Codes
    <3>2. InHandler(<<Release(cons), Op("iret")>>, H \cup {cons})  BY Zenon, <1>0, <2>0
    <3> QED  BY Zenon, <2>0, <3>1, <3>2 DEF Is
  <2>3. CASE s = <<Op("iret")>>  BY Zenon, <1>1, <2>3, Codes DEF Is
  <2> QED  BY Zenon, <1>1, <2>1, <2>2, <2>3, Sets DEF InHandler
<1>2. CASE H = {cons}
  <2>0. /\ H \cup {ptable} = {ptable, cons} /\ H \ {cons} = {}
        /\ ptable \in Lock \ H /\ cons \in H
    BY <1>2, Names
  <2>1. CASE s \in Getting  BY Zenon, <1>2, <2>1, GettingCodes
  <2>2. CASE s = <<Release(cons), Op("iret")>>
    <3>1. Is(s, Release(cons), <<Op("iret")>>)  BY Zenon, <2>2, Codes
    <3>2. InHandler(<<Op("iret")>>, H \ {cons})  BY Zenon, <1>0, <2>0
    <3> QED  BY Zenon, <2>0, <3>1, <3>2 DEF Is
  <2>3. CASE s = procdump
    <3>1. Is(s, Release(cons), <<Acquire(cons), Release(cons), Op("iret")>>)
      BY Zenon, <2>3, Codes
    <3>2. InHandler(<<Acquire(cons), Release(cons), Op("iret")>>, H \ {cons})
      BY Zenon, <1>0, <2>0
    <3> QED  BY Zenon, <2>0, <3>1, <3>2 DEF Is
  <2>4. CASE \E g \in Getting : s = wakeup \o g
    <3>0. PICK g \in Getting : s = wakeup \o g  BY Zenon, <2>4
    <3>1. Is(s, Acquire(ptable), <<Op("wakeup"), Release(ptable)>> \o g)
      BY Zenon, <3>0, GettingCodes
    <3>2. InHandler(<<Op("wakeup"), Release(ptable)>> \o g, H \cup {ptable})
      BY Zenon, <1>0, <2>0
    <3> QED  BY Zenon, <2>0, <3>1, <3>2 DEF Is
  <2> QED  BY Zenon, <1>2, <2>1, <2>2, <2>3, <2>4, Sets DEF InHandler
<1>3. CASE H = {ptable, cons}
  <2>0. H \ {ptable} = {cons} /\ ptable \in H  BY <1>3, Names
  <2>1. CASE \E g \in Getting : s = <<Op("wakeup"), Release(ptable)>> \o g
    BY Zenon, <1>3, <2>1, GettingCodes DEF Is
  <2>2. CASE \E g \in Getting : s = <<Release(ptable)>> \o g
    <3>0. PICK g \in Getting : s = <<Release(ptable)>> \o g  BY Zenon, <2>2
    <3>1. Is(s, Release(ptable), g)  BY Zenon, <3>0, GettingCodes
    <3>2. InHandler(g, H \ {ptable})  BY Zenon, <1>0, <2>0
    <3> QED  BY Zenon, <2>0, <3>1, <3>2 DEF Is
  <2> QED  BY Zenon, <1>3, <2>1, <2>2, Sets DEF InHandler
<1> QED  BY Zenon, <1>1, <1>2, <1>3 DEF InHandler

-----------------------------------------------------------------------------
(* What a thread still has to do                                           *)

HasOp(s, o) == \E i \in DOMAIN s : s[i].op = o

\* An operation is the next one or a later one.
LEMMA Has ==
    ASSUME NEW s, NEW i, NEW t, Is(s, i, t), NEW o
    PROVE  HasOp(s, o) <=> i.op = o \/ HasOp(t, o)
<1>1. s \in Seq(Instr) /\ s # <<>> /\ i = Head(s) /\ t = Tail(s)  BY DEF Is, Code
<1>2. /\ DOMAIN s = 1..Len(s) /\ DOMAIN t = 1..(Len(s) - 1) /\ Len(s) \in Nat \ {0} /\ i = s[1]
      /\ \A j \in 1..(Len(s) - 1) : t[j] = s[j + 1]
  BY <1>1
<1>3. ASSUME HasOp(s, o), i.op # o PROVE HasOp(t, o)
  <2>1. PICK j \in DOMAIN s : s[j].op = o  BY <1>3 DEF HasOp
  <2>2. j # 1 /\ j - 1 \in DOMAIN t /\ t[j - 1] = s[j]  BY <1>2, <1>3, <2>1
  <2> QED  BY Zenon, <2>1, <2>2 DEF HasOp
<1>4. ASSUME HasOp(t, o) PROVE HasOp(s, o)
  <2>1. PICK j \in DOMAIN t : t[j].op = o  BY <1>4 DEF HasOp
  <2>2. j + 1 \in DOMAIN s /\ t[j] = s[j + 1]  BY <1>2, <2>1
  <2> QED  BY Zenon, <2>1, <2>2 DEF HasOp
<1>5. ASSUME i.op = o PROVE HasOp(s, o)
  <2>1. 1 \in DOMAIN s /\ s[1].op = o  BY <1>2, <1>5
  <2> QED  BY Zenon, <2>1 DEF HasOp
<1> QED  BY Zenon, <1>3, <1>4, <1>5

\* There is none in no code.
LEMMA HasNothing == ASSUME NEW o PROVE ~HasOp(<<>>, o)
  BY DEF HasOp

Lacks(s) == ~HasOp(s, "SLEEPING")

\* No process that holds no lock, or that has switched away, has a sched() of
\* sleep() ahead of it.
LEMMA Awake ==
    ASSUME NEW s
    PROVE  /\ InCall(s, {}) => Lacks(s)
           /\ s \in Cut => Lacks(s)
           /\ InYield(s, {}) => Lacks(s)
           /\ Forked(s, {ptable}) \/ Forked(s, {}) => Lacks(s)
           /\ AfterSleep(s) \/ AfterYield(s) => Lacks(s)
<1>0. /\ \A l : Acquire(l).op # "SLEEPING" /\ Release(l).op # "SLEEPING"
      /\ \A n, f : Read(n, f).op # "SLEEPING"
      /\ Op("sysret").op # "SLEEPING" /\ Op("iret").op # "SLEEPING"
      /\ Op("restore").op # "SLEEPING" /\ Op("RUNNABLE").op # "SLEEPING"
  BY Fields
<1>1. \A c, i, t : Is(c, i, t) /\ i.op # "SLEEPING" /\ Lacks(t) => Lacks(c)
  BY Zenon, Has DEF Lacks
<1>2. Lacks(<<>>)  BY Zenon, HasNothing DEF Lacks
<1>3. Lacks(<<Op("sysret")>>) /\ Lacks(<<Op("iret")>>)  BY Zenon, <1>0, <1>1, <1>2, Codes
<1>4. Lacks(<<Release(cons), Op("sysret")>>) /\ Lacks(<<Release(ptable), Op("sysret")>>)
      /\ Lacks(<<Release(ptable), Op("iret")>>)
  BY <1>0, <1>1, <1>3, Codes
<1>5. Lacks(consolewrite) /\ Lacks(<<Release(cons), Release(ptable), Op("sysret")>>)
  BY <1>0, <1>1, <1>4, Codes
<1>6. Lacks(getpinfoPrints)  BY Zenon, <1>0, <1>1, <1>5, Codes
<1>7. Lacks(<<Acquire(ptable)>> \o getpinfoPrints)  BY <1>0, <1>1, <1>6, CallCodes
<1>8. Lacks(<<Release(ptable), Acquire(ptable)>> \o getpinfoPrints)
  BY <1>0, <1>1, <1>7, CallCodes
<1>9. Lacks(getpinfo)  BY Zenon, <1>0, <1>1, <1>8, CallCodes
<1>10. ASSUME NEW rd \in Reading
       PROVE  /\ Lacks(<<Acquire(cons)>> \o rd)
              /\ Lacks(<<Op("restore"), Release(ptable), Acquire(cons)>> \o rd)
  <2>1. Lacks(rd)  BY <1>0, <1>1, <1>4, ReadingCodes
  <2>2. Lacks(<<Acquire(cons)>> \o rd)  BY <1>0, <1>1, <2>1, ReadingCodes
  <2>3. Lacks(<<Release(ptable), Acquire(cons)>> \o rd)
    BY <1>0, <1>1, <2>2, ReadingCodes
  <2> QED  BY Zenon, <1>0, <1>1, <2>2, <2>3, ReadingCodes
<1>11. InCall(s, {}) => Lacks(s)
  <2>1. InCall(s, {}) =>
          \/ s = <<>> \/ s = <<Op("sysret")>> \/ s = consolewrite
          \/ s = getpinfo \/ s = <<Acquire(ptable)>> \o getpinfoPrints
          \/ \E rd \in Reading : s = <<Acquire(cons)>> \o rd
    BY Zenon, Sets DEF InCall
  <2> QED  BY Zenon, <1>2, <1>3, <1>5, <1>7, <1>9, <1>10, <2>1
<1>12. ASSUME NEW f \in Cut PROVE Lacks(f)
  <2>1. CASE f = <<Op("iret")>>  BY Zenon, <1>3, <2>1
  <2>2. CASE InCall(f, {})
    <3>1. \/ f = <<>> \/ f = <<Op("sysret")>> \/ f = consolewrite
          \/ f = getpinfo \/ f = <<Acquire(ptable)>> \o getpinfoPrints
          \/ \E rd \in Reading : f = <<Acquire(cons)>> \o rd
      BY Zenon, <2>2, Sets DEF InCall
    <3> QED  BY Zenon, <1>2, <1>3, <1>5, <1>7, <1>9, <1>10, <3>1
  <2> QED  BY Zenon, <2>1, <2>2 DEF Cut
<1>13. ASSUME NEW f \in Cut
       PROVE  /\ Lacks(<<Op("iret")>> \o f) /\ Lacks((yield \o <<Op("iret")>>) \o f)
              /\ Lacks(<<Op("restore"), Release(ptable), Op("iret")>> \o f)
  <2>1. Lacks(f)  BY Zenon, <1>12
  <2>2. Lacks(<<Op("iret")>> \o f)  BY Zenon, <1>0, <1>1, <2>1, CutCodes
  <2>3. Lacks(<<Release(ptable), Op("iret")>> \o f)  BY <1>0, <1>1, <2>2, CutCodes
  <2>4. Lacks(<<Op("restore"), Release(ptable), Op("iret")>> \o f)
    BY Zenon, <1>0, <1>1, <2>3, CutCodes
  <2>5. Lacks(<<Op("RUNNABLE"), Op("restore"), Release(ptable), Op("iret")>> \o f)
    BY Zenon, <1>0, <1>1, <2>4, CutCodes
  <2> QED  BY <1>0, <1>1, <2>2, <2>4, <2>5, CutCodes
<1>14. s \in Cut => Lacks(s)  BY Zenon, <1>12
<1>15. InYield(s, {}) => Lacks(s)
  <2>1. InYield(s, {}) =>
            \E f \in Cut : s = (yield \o <<Op("iret")>>) \o f \/ s = <<Op("iret")>> \o f
    BY Zenon, Sets DEF InYield
  <2> QED  BY Zenon, <1>13, <2>1
<1>16. Forked(s, {ptable}) \/ Forked(s, {}) => Lacks(s)  BY Zenon, <1>3, <1>4 DEF Forked
<1>17. AfterSleep(s) \/ AfterYield(s) => Lacks(s)  BY Zenon, <1>10, <1>13 DEF AfterSleep, AfterYield
<1> QED  BY Zenon, <1>11, <1>14, <1>15, <1>16, <1>17

\* consoleintr() calls wakeup() once for each line.
LEMMA Quiet ==
    ASSUME NEW g \in Getting
    PROVE  ~HasOp(g, "wakeup") /\ HasOp(wakeup \o g, "wakeup")
<1>0. /\ \A l : Acquire(l).op # "wakeup" /\ Release(l).op # "wakeup"
      /\ Op("getc").op # "wakeup" /\ Op("iret").op # "wakeup" /\ Op("wakeup").op = "wakeup"
  BY Fields
<1>1. \A c, i, t : Is(c, i, t) => (HasOp(c, "wakeup") <=> i.op = "wakeup" \/ HasOp(t, "wakeup"))
  BY Zenon, Has
<1>2. ~HasOp(<<Op("iret")>>, "wakeup")  BY Zenon, <1>0, <1>1, HasNothing, Codes
<1>3. ~HasOp(<<Release(cons), Op("iret")>>, "wakeup")  BY Zenon, <1>0, <1>1, <1>2, Codes
<1>4. ~HasOp(<<Acquire(cons), Release(cons), Op("iret")>>, "wakeup")
  BY <1>0, <1>1, <1>3, Codes
<1>5. ~HasOp(procdump, "wakeup")  BY <1>0, <1>1, <1>4, Codes
<1>6. ~HasOp(g, "wakeup")
  <2>1. /\ Is(<<Op("getc"), Release(cons), Op("iret")>>, Op("getc"), <<Release(cons), Op("iret")>>)
        /\ Is(<<Op("getc")>> \o procdump, Op("getc"), procdump)
    BY Zenon, Codes, CallCodes
  <2>2. ~HasOp(<<Op("getc"), Release(cons), Op("iret")>>, "wakeup")
    BY Zenon, <1>0, <1>1, <1>3, <2>1
  <2>3. ~HasOp(<<Op("getc")>> \o procdump, "wakeup")  BY Zenon, <1>0, <1>1, <1>5, <2>1
  <2> QED  BY Zenon, <2>2, <2>3 DEF Getting
<1>7. /\ Is(<<Op("wakeup"), Release(ptable)>> \o g, Op("wakeup"), <<Release(ptable)>> \o g)
      /\ Is(wakeup \o g, Acquire(ptable), <<Op("wakeup"), Release(ptable)>> \o g)
  BY Zenon, GettingCodes
<1>8. HasOp(<<Op("wakeup"), Release(ptable)>> \o g, "wakeup")  BY Zenon, <1>0, <1>1, <1>7
<1> QED  BY Zenon, <1>1, <1>6, <1>7, <1>8


\* acquire() or release() of a lock, and then a place that is allowed again.
Acquires(kind, s, H, en) ==
    \E l \in Lock \ H : Head(s) = Acquire(l) /\ In(kind, Tail(s), H \cup {l}, en)
Releases(kind, s, H, en) ==
    \E l \in H : Head(s) = Release(l) /\ In(kind, Tail(s), H \ {l}, en)

\* The next instruction of a thread, and where it leads.
Leads(kind, s, H, en) ==
    \/ Acquires(kind, s, H, en)
    \/ Releases(kind, s, H, en)
    \/ /\ Head(s) = Op("SLEEPING") /\ kind = "process" /\ H = {ptable} /\ en
       /\ AfterSleep(Tail(s))
    \/ /\ Head(s) = Op("RUNNABLE") /\ kind = "process" /\ H = {ptable} /\ ~en
       /\ AfterYield(Tail(s))
    \/ Head(s) = Op("iret") /\ kind = "handler" /\ H = {} /\ Tail(s) = <<>>
    \/ Head(s) = Op("iret") /\ kind = "process" /\ H = {} /\ Tail(s) \in Cut
    \/ Head(s) = Op("sysret") /\ kind = "process" /\ H = {} /\ en /\ Tail(s) = <<>>
    \/ Head(s) = Op("pick") /\ kind = "scheduler" /\ H = {ptable} /\ s = <<Op("pick")>>
    \/ Head(s) = Op("getc") /\ kind = "handler" /\ H = {cons} /\ s \in Getting /\ ~en
    \/ /\ Head(s) = Op("wakeup") /\ kind = "handler" /\ H = {ptable, cons} /\ ~en
       /\ \E g \in Getting : Tail(s) = <<Release(ptable)>> \o g
    \/ Head(s).op = "read" /\ kind = "process" /\ H = {cons} /\ s \in Reading /\ en

\* A thread of any kind, with code left, goes on as Leads says.
LEMMA Instruction ==
    ASSUME NEW kind, NEW s, NEW H, NEW en \in BOOLEAN, In(kind, s, H, en), s # <<>>
    PROVE  /\ s \in Code /\ H \subseteq Lock
           /\ Leads(kind, s, H, en)
<1>0. H \subseteq Lock
  BY Zenon, Names DEF In, InCall, InYield, InHandler, InScheduler, Forked
<1> USE DEF Leads
<1>1. CASE kind = "handler"
  <2>1. InHandler(s, H) /\ ~en  BY <1>1 DEF In
  <2>2. \A t, G : InHandler(t, G) => In(kind, t, G, en)  BY Zenon, <1>1, <2>1 DEF In
  <2>3. CASE H = {} /\ s = <<Op("iret")>>  BY Zenon, <1>0, <1>1, <2>3, Codes DEF Is
  <2>4. CASE H = {cons} /\ s \in Getting  BY Zenon, <1>0, <1>1, <2>1, <2>4, GettingCodes
  <2>5. s \in Code  BY Zenon, <2>1, HandlerCode
  <2>6. CASE \E l \in Lock \ H : Head(s) = Acquire(l) /\ InHandler(Tail(s), H \cup {l})
    <3>1. Acquires(kind, s, H, en)  BY Zenon, <2>2, <2>6 DEF Acquires
    <3> QED  BY Zenon, <1>0, <2>5, <3>1
  <2>7. CASE \E l \in H : Head(s) = Release(l) /\ InHandler(Tail(s), H \ {l})
    <3>1. Releases(kind, s, H, en)  BY Zenon, <2>2, <2>7 DEF Releases
    <3> QED  BY Zenon, <1>0, <2>5, <3>1
  <2>8. CASE /\ H = {ptable, cons} /\ Head(s) = Op("wakeup")
             /\ \E g \in Getting : Tail(s) = <<Release(ptable)>> \o g
    BY Zenon, <1>0, <1>1, <2>1, <2>5, <2>8
  <2> HIDE DEF Leads
  <2>9. \/ \E l \in Lock \ H : Head(s) = Acquire(l) /\ InHandler(Tail(s), H \cup {l})
        \/ \E l \in H : Head(s) = Release(l) /\ InHandler(Tail(s), H \ {l})
        \/ H = {} /\ s = <<Op("iret")>>
        \/ H = {cons} /\ s \in Getting
        \/ /\ H = {ptable, cons} /\ Head(s) = Op("wakeup")
           /\ \E g \in Getting : Tail(s) = <<Release(ptable)>> \o g
    BY ONLY Zenon, <2>1, HandlerCode
  <2> QED  BY Zenon, <2>3, <2>4, <2>6, <2>7, <2>8, <2>9
<1>2. CASE kind = "scheduler"
  <2>1. InScheduler(s, H)  BY <1>2 DEF In
  <2>2. CASE H = {} /\ s = SchedLoop
    <3>1. H \cup {ptable} = {ptable} /\ ptable \in Lock \ H  BY <2>2, Names
    <3>2. Is(s, Acquire(ptable), <<Op("pick")>>)  BY Zenon, <2>2, Codes
    <3>3. In(kind, <<Op("pick")>>, H \cup {ptable}, en)
      BY Zenon, <1>2, <3>1 DEF In, InScheduler
    <3>4. Acquires(kind, s, H, en)  BY Zenon, <3>1, <3>2, <3>3 DEF Is, Acquires
    <3> QED  BY Zenon, <1>0, <3>2, <3>4 DEF Is
  <2>3. CASE H = {ptable} /\ s = <<Op("pick")>>  BY Zenon, <1>0, <1>2, <2>3, Codes DEF Is
  <2> QED  BY Zenon, <2>1, <2>2, <2>3 DEF InScheduler
<1>3. CASE kind = "process" /\ InCall(s, H) /\ en
  <2>1. \A t, G : InCall(t, G) => In(kind, t, G, en)  BY Zenon, <1>3 DEF In
  <2>2. CASE H = {cons} /\ s \in Reading
    <3>1. s \in Code /\ \E n, f : Head(s) = Read(n, f)  BY Zenon, <2>2, ReadingCodes DEF Is
    <3>2. Head(s).op = "read"  BY <3>1, Fields
    <3> QED  BY Zenon, <1>0, <1>3, <2>2, <3>1, <3>2
  <2>3. s \in Code  BY Zenon, <1>3, CallCode
  <2>4. CASE \E l \in Lock \ H : Head(s) = Acquire(l) /\ InCall(Tail(s), H \cup {l})
    <3>1. Acquires(kind, s, H, en)  BY Zenon, <2>1, <2>4 DEF Acquires
    <3> QED  BY Zenon, <1>0, <2>3, <3>1
  <2>5. CASE \E l \in H : Head(s) = Release(l) /\ InCall(Tail(s), H \ {l})
    <3>1. Releases(kind, s, H, en)  BY Zenon, <2>1, <2>5 DEF Releases
    <3> QED  BY Zenon, <1>0, <2>3, <3>1
  <2>6. CASE Head(s) = Op("SLEEPING") /\ H = {ptable} /\ AfterSleep(Tail(s))
    BY Zenon, <1>0, <1>3, <2>3, <2>6
  <2>7. CASE Head(s) = Op("sysret") /\ H = {} /\ Tail(s) = <<>>
    BY Zenon, <1>0, <1>3, <2>3, <2>7
  <2> QED  BY Zenon, <1>3, <2>2, <2>4, <2>5, <2>6, <2>7, CallCode
<1>4. CASE kind = "process" /\ InYield(s, H) /\ ~en
  <2>1. \A t, G : InYield(t, G) => In(kind, t, G, en)  BY Zenon, <1>4 DEF In
  <2>2. CASE H = {} /\ Head(s) = Acquire(ptable) /\ InYield(Tail(s), {ptable})
    <3>1. H \cup {ptable} = {ptable} /\ ptable \in Lock \ H  BY <2>2, Names
    <3>2. In(kind, Tail(s), H \cup {ptable}, en)  BY Zenon, <2>1, <2>2, <3>1
    <3>3. Acquires(kind, s, H, en)  BY Zenon, <2>2, <3>1, <3>2 DEF Acquires
    <3>4. s \in Code  BY Zenon, <1>4, YieldCode
    <3> QED  BY Zenon, <1>0, <3>3, <3>4
  <2>3. CASE H = {ptable} /\ Head(s) = Release(ptable) /\ InYield(Tail(s), {})
    <3>1. H \ {ptable} = {} /\ ptable \in H  BY <2>3
    <3>2. In(kind, Tail(s), H \ {ptable}, en)  BY Zenon, <2>1, <2>3, <3>1
    <3>3. Releases(kind, s, H, en)  BY Zenon, <2>3, <3>1, <3>2 DEF Releases
    <3>4. s \in Code  BY Zenon, <1>4, YieldCode
    <3> QED  BY Zenon, <1>0, <3>3, <3>4
  <2> QED  BY Zenon, <1>0, <1>4, <2>2, <2>3, YieldCode
<1>5. CASE kind = "process" /\ Forked(s, H)
  <2>1. CASE H = {ptable} /\ s = <<Release(ptable), Op("iret")>>
    <3>1. H \ {ptable} = {} /\ ptable \in H  BY <2>1
    <3>2. Is(s, Release(ptable), <<Op("iret")>>)  BY Zenon, <2>1, Codes
    <3>3. In(kind, <<Op("iret")>>, H \ {ptable}, en)
      BY Zenon, <1>5, <3>1 DEF In, Forked
    <3>4. Releases(kind, s, H, en)  BY Zenon, <3>1, <3>2, <3>3 DEF Is, Releases
    <3> QED  BY Zenon, <1>0, <3>2, <3>4 DEF Is
  <2>2. CASE H = {} /\ s = <<Op("iret")>>
    <3>1. Is(s, Op("iret"), <<>>)  BY Zenon, <2>2, Codes
    <3>2. <<>> \in Cut
      <4>1. <<>> \in Code  BY DEF Code
      <4> QED  BY Zenon, <4>1, InCalls DEF Cut
    <3> QED  BY Zenon, <1>0, <1>5, <2>2, <3>1, <3>2 DEF Is
  <2> QED  BY Zenon, <1>5, <2>1, <2>2 DEF Forked
<1> HIDE DEF Leads
<1> QED  BY Zenon, <1>1, <1>2, <1>3, <1>4, <1>5 DEF In

\* Outside sched() the next instruction is not the end of sched(), nor spinning.
LEMMA NotAfter ==
    ASSUME NEW kind, NEW s, NEW H, NEW en \in BOOLEAN, In(kind, s, H, en)
    PROVE  s # <<>> => Head(s).op # "restore" /\ Head(s).op # "spin"
<1>1. SUFFICES ASSUME s # <<>> PROVE Head(s).op # "restore" /\ Head(s).op # "spin"
  OBVIOUS
<1>2. \/ \E l : Head(s) = Acquire(l) \/ Head(s) = Release(l)
      \/ Head(s) = Op("SLEEPING") \/ Head(s) = Op("RUNNABLE") \/ Head(s) = Op("iret")
      \/ Head(s) = Op("sysret") \/ Head(s) = Op("pick") \/ Head(s) = Op("getc")
      \/ Head(s) = Op("wakeup") \/ Head(s).op = "read"
  <2>1. Leads(kind, s, H, en)  BY Zenon, <1>1, Instruction
  <2> QED  BY Zenon, <2>1 DEF Leads, Acquires, Releases
<1> QED  BY <1>2, Fields

\* What the next instruction tells of the thread that executes it.
LEMMA Executes ==
    ASSUME NEW kind, NEW s, NEW H, NEW en \in BOOLEAN, Leads(kind, s, H, en)
    PROVE  /\ Head(s).op = "acquire" => Acquires(kind, s, H, en)
           /\ Head(s).op = "release" => Releases(kind, s, H, en)
           /\ Head(s).op = "SLEEPING" =>
                 kind = "process" /\ H = {ptable} /\ en /\ AfterSleep(Tail(s))
           /\ Head(s).op = "RUNNABLE" =>
                 kind = "process" /\ H = {ptable} /\ ~en /\ AfterYield(Tail(s))
           /\ Head(s).op = "iret" =>
                 \/ kind = "handler" /\ H = {} /\ Tail(s) = <<>>
                 \/ kind = "process" /\ H = {} /\ Tail(s) \in Cut
           /\ Head(s).op = "sysret" => kind = "process" /\ H = {} /\ en /\ Tail(s) = <<>>
           /\ Head(s).op = "pick" => kind = "scheduler" /\ H = {ptable} /\ s = <<Op("pick")>>
           /\ Head(s).op = "getc" => kind = "handler" /\ H = {cons} /\ s \in Getting /\ ~en
           /\ Head(s).op = "wakeup" =>
                 /\ kind = "handler" /\ H = {ptable, cons} /\ ~en
                 /\ \E g \in Getting : Tail(s) = <<Release(ptable)>> \o g
           /\ Head(s).op = "read" => kind = "process" /\ H = {cons} /\ s \in Reading /\ en
<1>1. CASE Acquires(kind, s, H, en)
  <2>1. Head(s).op = "acquire"  BY <1>1, Fields DEF Acquires
  <2> QED  BY Zenon, <1>1, <2>1
<1>2. CASE Releases(kind, s, H, en)
  <2>1. Head(s).op = "release"  BY <1>2, Fields DEF Releases
  <2> QED  BY Zenon, <1>2, <2>1
<1>3. CASE Head(s) = Op("SLEEPING") /\ kind = "process" /\ H = {ptable} /\ en /\ AfterSleep(Tail(s))
  <2>1. Head(s).op = "SLEEPING"  BY <1>3, Fields
  <2> QED  BY Zenon, <1>3, <2>1
<1>4. CASE Head(s) = Op("RUNNABLE") /\ kind = "process" /\ H = {ptable} /\ ~en /\ AfterYield(Tail(s))
  <2>1. Head(s).op = "RUNNABLE"  BY <1>4, Fields
  <2> QED  BY Zenon, <1>4, <2>1
<1>5. CASE Head(s) = Op("iret") /\ kind = "handler" /\ H = {} /\ Tail(s) = <<>>
  <2>1. Head(s).op = "iret"  BY <1>5, Fields
  <2> QED  BY Zenon, <1>5, <2>1
<1>6. CASE Head(s) = Op("iret") /\ kind = "process" /\ H = {} /\ Tail(s) \in Cut
  <2>1. Head(s).op = "iret"  BY <1>6, Fields
  <2> QED  BY Zenon, <1>6, <2>1
<1>7. CASE Head(s) = Op("sysret") /\ kind = "process" /\ H = {} /\ en /\ Tail(s) = <<>>
  <2>1. Head(s).op = "sysret"  BY <1>7, Fields
  <2> QED  BY Zenon, <1>7, <2>1
<1>8. CASE Head(s) = Op("pick") /\ kind = "scheduler" /\ H = {ptable} /\ s = <<Op("pick")>>
  <2>1. Head(s).op = "pick"  BY <1>8, Fields
  <2> QED  BY Zenon, <1>8, <2>1
<1>9. CASE Head(s) = Op("getc") /\ kind = "handler" /\ H = {cons} /\ s \in Getting /\ ~en
  <2>1. Head(s).op = "getc"  BY <1>9, Fields
  <2> QED  BY Zenon, <1>9, <2>1
<1>10. CASE Head(s) = Op("wakeup") /\ kind = "handler" /\ H = {ptable, cons} /\ ~en
           /\ \E g \in Getting : Tail(s) = <<Release(ptable)>> \o g
  <2>1. Head(s).op = "wakeup"  BY <1>10, Fields
  <2> QED  BY Zenon, <1>10, <2>1
<1>11. CASE Head(s).op = "read" /\ kind = "process" /\ H = {cons} /\ s \in Reading /\ en
  BY Zenon, <1>11
<1> QED  BY Zenon, <1>1, <1>2, <1>3, <1>4, <1>5, <1>6, <1>7, <1>8, <1>9, <1>10, <1>11 DEF Leads

-----------------------------------------------------------------------------
(* One processor                                                           *)

\* spinning and not spinning.
LEMMA BeginsToSpin ==
    ASSUME NEW s \in Code, s # <<>>, NEW l \in Lock, Head(s) = Acquire(l)
    PROVE  /\ Is(<<Spin(l)>> \o Tail(s), Spin(l), Tail(s))
           /\ Unspun(<<Spin(l)>> \o Tail(s)) = s
<1>1. Tail(s) \in Code  BY DEF Code
<1>2. Is(<<Spin(l)>> \o Tail(s), Spin(l), Tail(s))  BY Zenon, <1>1, Instrs, Begin1
<1>3. s = <<Acquire(l)>> \o Tail(s)
  <2>1. s = <<Head(s)>> \o Tail(s)  BY DEF Code
  <2> QED  BY Zenon, <2>1
<1>4. Unspun(<<Spin(l)>> \o Tail(s)) = <<Acquire(l)>> \o Tail(s)
  <2> DEFINE t == <<Spin(l)>> \o Tail(s)
  <2>1. t # <<>> /\ Head(t).op = "spin" /\ Head(t).lock = l /\ Tail(t) = Tail(s)
    BY <1>2, Fields DEF Is
  <2> HIDE DEF t
  <2>2. Unspun(t) = <<Acquire(l)>> \o Tail(s)  BY Zenon, <2>1 DEF Unspun
  <2> QED  BY <2>2 DEF t
<1> QED  BY Zenon, <1>2, <1>3, <1>4

\* A thread that spins does so for a lock that its code acquires.
LEMMA Spinning ==
    ASSUME NEW s \in Code, s # <<>>, Head(s).op = "spin"
    PROVE  \E l \in Lock : Head(s) = Spin(l) /\ Is(Unspun(s), Acquire(l), Tail(s))
<1>1. Head(s) \in Instr /\ Tail(s) \in Code  BY DEF Code
<1>2. PICK l \in Lock : Head(s) = Spin(l)
  <2>1. \/ \E o \in OpNames : Head(s) = Op(o)
        \/ \E l \in Lock : Head(s) = Acquire(l) \/ Head(s) = Spin(l) \/ Head(s) = Release(l)
        \/ \E n \in Nat \ {0}, f \in BOOLEAN : Head(s) = Read(n, f)
    BY <1>1 DEF Instr
  <2>2. \A o \in OpNames : o # "spin"  BY DEF OpNames
  <2> QED  BY <2>1, <2>2, Fields
<1>3. Unspun(s) = <<Acquire(l)>> \o Tail(s)  BY <1>2, Fields DEF Unspun
<1>4. Is(<<Acquire(l)>> \o Tail(s), Acquire(l), Tail(s))  BY Zenon, <1>1, Instrs, Begin1
<1> QED  BY Zenon, <1>2, <1>3, <1>4

\* The types of what a processor executes.
LEMMA ThreadOK ==
    ASSUME CodeOK, NEW c \in Cpu
    PROVE  /\ Thread(c) \in Code /\ Enabled(c) \in BOOLEAN /\ ncli[c] \in Nat
           /\ Kind(c) = "process" => cur[c] \in Proc
           /\ holder \in [Lock -> Cpu \cup {NoCpu}]
           /\ Held(c) \subseteq Lock
  BY DEF CodeOK, ConsTypeOK, Thread, Enabled, Kind, Held, Handling

\* ncli counts the locks.
LEMMA Nests ==
    ASSUME NEW H, H \subseteq Lock
    PROVE  /\ Nest(H) \in Nat
           /\ Nest(H) = 0 <=> H = {}
           /\ \A l \in Lock \ H : Nest(H \cup {l}) = Nest(H) + 1
           /\ \A l \in H : Nest(H \ {l}) = Nest(H) - 1
           /\ Nest(H) = 1 <=> \E l \in Lock : H = {l}
<1>0. Nest({}) = 0 /\ Nest({ptable}) = 1 /\ Nest({cons}) = 1 /\ Nest({ptable, cons}) = 2
  BY Zenon, Sets DEF Nest
<1>1. CASE H = {}
  <2>1. \A l \in Lock \ H : Nest(H \cup {l}) = 1
    <3>1. \A l \in Lock : Nest({l}) = 1  BY Zenon, <1>0, Names
    <3>2. \A l : H \cup {l} = {l}  BY <1>1
    <3> QED  BY Zenon, <3>1, <3>2
  <2>2. \A l \in Lock : H # {l}  BY <1>1
  <2>3. Nest(H) = 0  BY Zenon, <1>0, <1>1
  <2> HIDE DEF Nest
  <2> QED  BY <1>1, <2>1, <2>2, <2>3
<1>2. CASE \E k \in Lock : H = {k}
  <2>1. PICK k \in Lock : H = {k}  BY <1>2
  <2>2. \A l \in Lock \ H : Nest(H \cup {l}) = 2
    <3>1. \A l \in Lock \ H : H \cup {l} = {ptable, cons}  BY <2>1, Names
    <3> QED  BY Zenon, <1>0, <3>1
  <2>3. \A l \in H : Nest(H \ {l}) = 0
    <3>1. \A l \in H : H \ {l} = {}  BY <2>1
    <3> QED  BY Zenon, <1>0, <3>1
  <2>4. H # {}  BY <2>1
  <2>5. Nest(H) = 1  BY Zenon, <1>0, <2>1, Names
  <2> QED  BY <2>1, <2>2, <2>3, <2>4, <2>5
<1>3. CASE H = {ptable, cons}
  <2>1. \A l \in H : Nest(H \ {l}) = 1
    BY Zenon, <1>0, <1>3, Sets
  <2>2. H # {} /\ Lock \ H = {}  BY <1>3, Names
  <2>3. \A l \in Lock : H # {l}  BY Zenon, <1>3, Names, Sets
  <2>4. Nest(H) = 2  BY Zenon, <1>0, <1>3
  <2> QED  BY <1>3, <2>1, <2>2, <2>3, <2>4
<1>4. H = {} \/ (\E k \in Lock : H = {k}) \/ H = {ptable, cons}
  BY Names
<1> QED  BY Zenon, <1>1, <1>2, <1>3, <1>4

\* Where processor c is when it is about to execute op.
LEMMA AtOp ==
    ASSUME CodeOK, NEW c \in Cpu, CpuInv(c), NEW op, op # "spin", At(c, op)
    PROVE  /\ Thread(c) # <<>> /\ Head(Thread(c)).op = op
           /\ op # "restore" => In(Kind(c), Thread(c), Held(c), Enabled(c))
           /\ op = "restore" => /\ Kind(c) = "process" /\ Held(c) = {ptable}
                                /\ AfterSleep(Thread(c)) \/ AfterYield(Thread(c))
           /\ ncli[c] = Nest(Held(c)) /\ (ncli[c] > 0 => ~IF_[c])
<1>1. Thread(c) # <<>> /\ Head(Thread(c)).op = op  BY DEF At
<1>2. Unspun(Thread(c)) = Thread(c) /\ ~At(c, "spin")  BY <1>1 DEF Unspun, At
<1>3. ncli[c] = Nest(Held(c)) /\ (ncli[c] > 0 => ~IF_[c])
  <2>1. Nest(Held(c)) \in Nat  BY Zenon, ThreadOK, Nests
  <2> QED  BY <1>2, <2>1 DEF CpuInv
<1>4. AfterSleep(Thread(c)) \/ AfterYield(Thread(c)) => op = "restore"
  BY <1>1, AfterCode, Fields
<1>5. In(Kind(c), Thread(c), Held(c), Enabled(c)) => op # "restore"
  BY <1>1, NotAfter, ThreadOK
<1>6. \/ In(Kind(c), Thread(c), Held(c), Enabled(c))
      \/ /\ Kind(c) = "process" /\ Held(c) = {ptable}
         /\ AfterSleep(Thread(c)) \/ AfterYield(Thread(c))
  BY Zenon, <1>2 DEF CpuInv
<1> QED  BY Zenon, <1>1, <1>3, <1>4, <1>5, <1>6

-----------------------------------------------------------------------------
(* All processors                                                          *)

\* What a step of another processor leaves alone.
LEMMA CpuFrame ==
    ASSUME NEW d \in Cpu, CpuInv(d),
           hcode'[d] = hcode[d], scode'[d] = scode[d], cur'[d] = cur[d],
           cur[d] # NoProc => code'[cur[d]] = code[cur[d]],
           IF_'[d] = IF_[d], ncli'[d] = ncli[d], intena'[d] = intena[d], Held(d)' = Held(d)
    PROVE  CpuInv(d)'
<1>1. Handling(d)' = Handling(d) /\ Thread(d)' = Thread(d)  BY DEF Handling, Thread
<1>2. Kind(d)' = Kind(d) /\ Enabled(d)' = Enabled(d)  BY <1>1 DEF Kind, Enabled
<1>3. At(d, "spin")' = At(d, "spin")  BY <1>1 DEF At
<1>4. cur[d] # NoProc => code'[cur'[d]] = code[cur[d]]  OBVIOUS
<1> QED  BY <1>1, <1>2, <1>3, <1>4 DEF CpuInv

\* What GoOn changes, and what it leaves alone.
LEMMA GoOnEffect ==
    ASSUME CodeOK, CurInv, NEW c \in Cpu, NEW s \in Code, GoOn(c, s)
    PROVE  /\ code' \in [Proc -> Code] /\ scode' \in [Cpu -> Code] /\ hcode' \in [Cpu -> Code]
           /\ \A d \in Cpu \ {c} :
                 /\ hcode'[d] = hcode[d] /\ scode'[d] = scode[d]
                 /\ cur[d] # NoProc => code'[cur[d]] = code[cur[d]]
           /\ \A p \in Proc : code'[p] # code[p] =>
                 Kind(c) = "process" /\ p = cur[c] /\ code'[p] = s
           /\ Kind(c) = "handler" => hcode'[c] = s /\ code' = code /\ scode' = scode
           /\ Kind(c) = "process" => hcode' = hcode /\ code'[cur[c]] = s /\ scode' = scode
           /\ Kind(c) = "scheduler" => hcode' = hcode /\ code' = code /\ scode'[c] = s
<1>1. /\ code \in [Proc -> Code] /\ scode \in [Cpu -> Code] /\ hcode \in [Cpu -> Code]
      /\ cur \in [Cpu -> Proc \cup {NoProc}]
  BY DEF CodeOK, ConsTypeOK
<1>2. \A d \in Cpu \ {c} : cur[d] = cur[c] => cur[d] = NoProc  BY DEF CurInv
<1>3. CASE Handling(c)
  <2>1. Kind(c) = "handler"  BY <1>3 DEF Kind
  <2>2. hcode' = [hcode EXCEPT ![c] = s] /\ code' = code /\ scode' = scode  BY <1>3 DEF GoOn
  <2> QED  BY <1>1, <2>1, <2>2
<1>4. CASE ~Handling(c) /\ cur[c] # NoProc
  <2>1. Kind(c) = "process" /\ cur[c] \in Proc  BY <1>1, <1>4 DEF Kind
  <2>2. code' = [code EXCEPT ![cur[c]] = s] /\ hcode' = hcode /\ scode' = scode
    BY <1>4 DEF GoOn
  <2> QED  BY <1>1, <1>2, <2>1, <2>2
<1>5. CASE ~Handling(c) /\ cur[c] = NoProc
  <2>1. Kind(c) = "scheduler"  BY <1>5 DEF Kind
  <2>2. scode' = [scode EXCEPT ![c] = s] /\ hcode' = hcode /\ code' = code
    BY <1>5 DEF GoOn
  <2> QED  BY <1>1, <2>1, <2>2
<1> QED  BY Zenon, <1>3, <1>4, <1>5

Spinner(s) == s # <<>> /\ Head(s).op = "spin"

\* The thread on processor c goes on with s, in a place that the invariant allows.
LEMMA Move ==
    ASSUME ConsInv, NEW c \in Cpu, NEW s \in Code, GoOn(c, s), cur' = cur,
           \A d \in Cpu \ {c} : /\ IF_'[d] = IF_[d] /\ ncli'[d] = ncli[d]
                                /\ intena'[d] = intena[d] /\ Held(d)' = Held(d),
           \A p \in Proc : state'[p] = "RUNNING" <=> state[p] = "RUNNING",
           \A p \in Proc : p # cur[c] => saved'[p] = saved[p],
           Kind(c) # "process" => saved' = saved,
           Kind(c) = "handler" => s # <<>>,
           In(Kind(c), Unspun(s), Held(c)', Enabled(c)'), Enabled(c)' \in BOOLEAN,
           ncli'[c] = Nest(Held(c)') + IF Spinner(s) THEN 1 ELSE 0,
           ncli'[c] > 0 => ~IF_'[c],
           CodeOK'
    PROVE  ConsInv'
<1>0. CodeOK /\ CurInv /\ (\A d \in Cpu : CpuInv(d)) /\ (\A p \in Proc : ProcInv(p))
  BY Zenon DEF ConsInv
<1>1. ASSUME NEW d \in Cpu, d # c PROVE CpuInv(d)'
  <2>1. /\ hcode'[d] = hcode[d] /\ scode'[d] = scode[d]
        /\ cur[d] # NoProc => code'[cur[d]] = code[cur[d]]
    BY <1>0, <1>1, GoOnEffect
  <2> QED  BY Zenon, <1>0, <1>1, <2>1, CpuFrame
<1>2. /\ Thread(c)' = s /\ Kind(c)' = Kind(c) /\ (cur[c] # NoProc => scode'[c] = scode[c])
      /\ Handling(c)' => /\ Handling(c) /\ scode'[c] = scode[c]
                         /\ cur[c] # NoProc => code'[cur[c]] = code[cur[c]]
  <2>1. CASE Handling(c)
    <3>1. Kind(c) = "handler"  BY <2>1 DEF Kind
    <3>2. hcode'[c] = s /\ code' = code /\ scode' = scode /\ s # <<>>
      BY Zenon, <1>0, <3>1, GoOnEffect
    <3> QED  BY <2>1, <3>2 DEF Thread, Kind, Handling
  <2>2. CASE ~Handling(c) /\ cur[c] # NoProc
    <3>1. Kind(c) = "process"  BY <2>2 DEF Kind
    <3>2. hcode' = hcode /\ code'[cur[c]] = s /\ scode' = scode
      BY Zenon, <1>0, <3>1, GoOnEffect
    <3> QED  BY <2>2, <3>2 DEF Thread, Kind, Handling
  <2>3. CASE ~Handling(c) /\ cur[c] = NoProc
    <3>1. Kind(c) = "scheduler"  BY <2>3 DEF Kind
    <3>2. hcode' = hcode /\ scode'[c] = s  BY Zenon, <1>0, <3>1, GoOnEffect
    <3> QED  BY <2>3, <3>2 DEF Thread, Kind, Handling
  <2> QED  BY Zenon, <2>1, <2>2, <2>3
<1>3. CpuInv(c)'
  <2>1. In(Kind(c)', Unspun(Thread(c)'), Held(c)', Enabled(c)')  BY Zenon, <1>2
  <2>2. At(c, "spin")' <=> Spinner(s)  BY Zenon, <1>2 DEF At, Spinner
  <2>3. ncli'[c] = Nest(Held(c)') + IF At(c, "spin")' THEN 1 ELSE 0  BY <2>2
  <2>4. /\ cur'[c] # NoProc => scode'[c] = <<Op("pick")>>
        /\ Handling(c)' => IF cur'[c] = NoProc THEN scode'[c] = SchedLoop
                                               ELSE code'[cur'[c]] \in Cut
    BY <1>0, <1>2 DEF CpuInv
  <2> QED  BY Zenon, <2>1, <2>3, <2>4 DEF CpuInv
<1>4. ASSUME NEW p \in Proc PROVE ProcInv(p)'
  <2>1. CASE Kind(c) = "process" /\ p = cur[c]
    <3>1. cur[c] # NoProc  BY <2>1 DEF Kind
    <3>2. state'[p] = "RUNNING"  BY Zenon, <1>0, <2>1, <3>1 DEF CurInv
    <3>3. code'[p] = s  BY Zenon, <1>0, <2>1, GoOnEffect
    <3>4. s # <<>> => Head(s).op # "restore"
      <4>1. CASE Spinner(s)  BY Zenon, <4>1 DEF Spinner
      <4>2. CASE ~Spinner(s)
        <5>1. Unspun(s) = s  BY Zenon, <4>2 DEF Unspun, Spinner
        <5> QED  BY Zenon, <5>1, NotAfter
      <4> QED  BY Zenon, <4>1, <4>2
    <3>5. ~AfterSleep(s) /\ ~AfterYield(s)
      <4>1. Op("restore").op = "restore"  BY Zenon, Fields
      <4> QED  BY Zenon, <3>4, <4>1, AfterCode
    <3> QED  BY Zenon, <3>2, <3>3, <3>5 DEF ProcInv
  <2>2. CASE Kind(c) # "process" \/ p # cur[c]
    <3>1. code'[p] = code[p]
      <4>1. \A q \in Proc : code'[q] # code[q] =>
                Kind(c) = "process" /\ q = cur[c] /\ code'[q] = s
        BY Zenon, <1>0, GoOnEffect
      <4> QED  BY Zenon, <2>2, <4>1
    <3>2. saved'[p] = saved[p]  BY Zenon, <2>2
    <3> QED  BY Zenon, <1>0, <3>1, <3>2 DEF ProcInv
  <2> QED  BY Zenon, <2>1, <2>2
<1>5. CurInv'
  BY <1>0, ThreadOK DEF CurInv, CodeOK, ConsTypeOK
<1> QED  BY Zenon, <1>1, <1>3, <1>4, <1>5 DEF ConsInv

\* A thread in its place does not spin.
LEMMA Plain ==
    ASSUME NEW kind, NEW s, NEW H, NEW en \in BOOLEAN, In(kind, s, H, en)
    PROVE  Unspun(s) = s /\ ~Spinner(s) /\ (kind = "handler" => s # <<>>)
<1>1. ~Spinner(s)  BY Zenon, NotAfter DEF Spinner
<1>2. Unspun(s) = s  BY Zenon, <1>1 DEF Spinner, Unspun
<1>3. kind = "handler" => InHandler(s, H)  BY DEF In
<1>4. kind = "handler" => s # <<>>  BY Zenon, <1>3, HandlerCode
<1> QED  BY Zenon, <1>1, <1>2, <1>4

\* The same as Move when the thread does not begin to spin.
LEMMA Go ==
    ASSUME ConsInv, NEW c \in Cpu, NEW s \in Code, GoOn(c, s), cur' = cur,
           \A d \in Cpu \ {c} : /\ IF_'[d] = IF_[d] /\ ncli'[d] = ncli[d]
                                /\ intena'[d] = intena[d] /\ Held(d)' = Held(d),
           \A p \in Proc : state'[p] = "RUNNING" <=> state[p] = "RUNNING",
           \A p \in Proc : p # cur[c] => saved'[p] = saved[p],
           Kind(c) # "process" => saved' = saved,
           In(Kind(c), s, Held(c)', Enabled(c)'), Enabled(c)' \in BOOLEAN,
           ncli'[c] = Nest(Held(c)'), ncli'[c] > 0 => ~IF_'[c], CodeOK'
    PROVE  ConsInv'
<1>1. Unspun(s) = s /\ ~Spinner(s) /\ (Kind(c) = "handler" => s # <<>>)  BY Zenon, Plain
<1>2. Held(c)' \subseteq Lock  BY DEF Held
<1>3. Nest(Held(c)') \in Nat  BY Zenon, <1>2, Nests
<1>4. ncli'[c] = Nest(Held(c)') + IF Spinner(s) THEN 1 ELSE 0  BY <1>1, <1>3
<1>5. In(Kind(c), Unspun(s), Held(c)', Enabled(c)')  BY Zenon, <1>1
<1> HIDE DEF GoOn
<1> QED  BY Zenon, <1>1, <1>4, <1>5, Move

\* The next instruction of a processor that does not spin and is not in sched().
LEMMA AtLeads ==
    ASSUME CodeOK, NEW c \in Cpu, CpuInv(c), NEW op, op # "spin", op # "restore", At(c, op)
    PROVE  /\ Thread(c) # <<>> /\ Thread(c) \in Code /\ Tail(Thread(c)) \in Code
           /\ Head(Thread(c)).op = op
           /\ In(Kind(c), Thread(c), Held(c), Enabled(c))
           /\ Leads(Kind(c), Thread(c), Held(c), Enabled(c))
           /\ ncli[c] = Nest(Held(c)) /\ (ncli[c] > 0 => ~IF_[c])
<1>1. /\ Thread(c) # <<>> /\ Head(Thread(c)).op = op
      /\ In(Kind(c), Thread(c), Held(c), Enabled(c))
      /\ ncli[c] = Nest(Held(c)) /\ (ncli[c] > 0 => ~IF_[c])
  BY Zenon, AtOp
<1>2. Thread(c) \in Code /\ Enabled(c) \in BOOLEAN  BY Zenon, ThreadOK
<1>3. Leads(Kind(c), Thread(c), Held(c), Enabled(c))  BY Zenon, <1>1, <1>2, Instruction
<1>4. \A s \in Code : s # <<>> => Tail(s) \in Code  BY DEF Code
<1> QED  BY Zenon, <1>1, <1>2, <1>3, <1>4

\* pushcli() keeps what interrupts will be when the last lock is released.
LEMMA Push ==
    ASSUME CodeOK, NEW c \in Cpu, pushcli(c)
    PROVE  /\ Enabled(c)' = Enabled(c) /\ ncli'[c] = ncli[c] + 1 /\ ~IF_'[c]
           /\ \A d \in Cpu \ {c} : /\ IF_'[d] = IF_[d] /\ ncli'[d] = ncli[d]
                                   /\ intena'[d] = intena[d]
           /\ IF_' \in [Cpu -> BOOLEAN] /\ intena' \in [Cpu -> BOOLEAN] /\ ncli' \in [Cpu -> Nat]
<1>1. IF_ \in [Cpu -> BOOLEAN] /\ intena \in [Cpu -> BOOLEAN] /\ ncli \in [Cpu -> Nat]
  BY DEF CodeOK, ConsTypeOK
<1>2. IF_' \in [Cpu -> BOOLEAN] /\ ~IF_'[c] /\ \A d \in Cpu \ {c} : IF_'[d] = IF_[d]
  BY <1>1 DEF pushcli
<1>3. ncli' \in [Cpu -> Nat] /\ ncli'[c] = ncli[c] + 1 /\ \A d \in Cpu \ {c} : ncli'[d] = ncli[d]
  BY <1>1 DEF pushcli
<1>4. /\ intena' \in [Cpu -> BOOLEAN] /\ \A d \in Cpu \ {c} : intena'[d] = intena[d]
      /\ intena'[c] = IF ncli[c] = 0 THEN IF_[c] ELSE intena[c]
  <2>1. CASE ncli[c] = 0
    <3>1. intena' = [intena EXCEPT ![c] = IF_[c]] /\ IF_[c] \in BOOLEAN  BY <1>1, <2>1 DEF pushcli
    <3> QED  BY <1>1, <2>1, <3>1
  <2>2. CASE ncli[c] # 0  BY <1>1, <2>2 DEF pushcli
  <2> QED  BY Zenon, <2>1, <2>2
<1>5. Enabled(c)' = Enabled(c)
  <2>1. ncli'[c] # 0  BY <1>1, <1>3
  <2> QED  BY <2>1, <1>4 DEF Enabled
<1> QED  BY Zenon, <1>2, <1>3, <1>4, <1>5

\* popcli() keeps it too.
LEMMA Pop ==
    ASSUME CodeOK, NEW c \in Cpu, popcli(c), ncli[c] > 0, ~IF_[c]
    PROVE  /\ Enabled(c)' = Enabled(c) /\ ncli'[c] = ncli[c] - 1
           /\ ncli'[c] > 0 => ~IF_'[c]
           /\ \A d \in Cpu \ {c} : /\ IF_'[d] = IF_[d] /\ ncli'[d] = ncli[d]
                                   /\ intena'[d] = intena[d]
           /\ IF_' \in [Cpu -> BOOLEAN] /\ intena' \in [Cpu -> BOOLEAN] /\ ncli' \in [Cpu -> Nat]
<1>1. IF_ \in [Cpu -> BOOLEAN] /\ intena \in [Cpu -> BOOLEAN] /\ ncli \in [Cpu -> Nat]
  BY DEF CodeOK, ConsTypeOK
<1>2. intena' = intena  BY DEF popcli
<1>3. ncli' \in [Cpu -> Nat] /\ ncli'[c] = ncli[c] - 1 /\ \A d \in Cpu \ {c} : ncli'[d] = ncli[d]
  BY <1>1 DEF popcli
<1>4. /\ IF_' \in [Cpu -> BOOLEAN] /\ \A d \in Cpu \ {c} : IF_'[d] = IF_[d]
      /\ IF_'[c] <=> ncli[c] = 1 /\ intena[c]
  <2>1. IF_' = [IF_ EXCEPT ![c] = IF_[c] \/ (ncli[c] = 1 /\ intena[c])]  BY DEF popcli
  <2>2. (IF_[c] \/ (ncli[c] = 1 /\ intena[c])) \in BOOLEAN  OBVIOUS
  <2> QED  BY <1>1, <2>1, <2>2
<1>5. ncli'[c] > 0 => ~IF_'[c]  BY <1>1, <1>3, <1>4
<1>6. Enabled(c)' = Enabled(c)
  <2>1. IF_'[c] \in BOOLEAN /\ intena[c] \in BOOLEAN  BY <1>1, <1>4
  <2>2. CASE ncli[c] = 1
    <3>1. ncli'[c] = 0 /\ IF_'[c] = intena[c]  BY <1>1, <1>3, <1>4, <2>1, <2>2
    <3> QED  BY <2>2, <3>1 DEF Enabled
  <2>3. CASE ncli[c] # 1
    <3>1. ncli'[c] # 0 /\ ncli[c] # 0  BY <1>1, <1>3, <2>3
    <3> QED  BY <1>2, <3>1 DEF Enabled
  <2> QED  BY Zenon, <2>2, <2>3
<1> QED  BY <1>1, <1>2, <1>3, <1>4, <1>5, <1>6

\* The lock is taken.
LEMMA Take ==
    ASSUME CodeOK, NEW c \in Cpu, NEW l \in Lock, holder[l] = NoCpu,
           holder' = [holder EXCEPT ![l] = c]
    PROVE  /\ Held(c)' = Held(c) \cup {l} /\ l \notin Held(c)
           /\ \A d \in Cpu \ {c} : Held(d)' = Held(d)
           /\ holder' \in [Lock -> Cpu \cup {NoCpu}]
<1>1. holder \in [Lock -> Cpu \cup {NoCpu}] /\ NoCpu \notin Cpu
  BY Names DEF CodeOK, ConsTypeOK
<1>2. holder' \in [Lock -> Cpu \cup {NoCpu}]  BY <1>1
<1>3. \A k \in Lock : holder'[k] = IF k = l THEN c ELSE holder[k]  BY <1>1
<1>4. Held(c)' = Held(c) \cup {l} /\ l \notin Held(c)  BY <1>1, <1>3 DEF Held
<1>5. ASSUME NEW d \in Cpu \ {c} PROVE Held(d)' = Held(d)  BY <1>1, <1>3 DEF Held
<1> QED  BY Zenon, <1>2, <1>4, <1>5

\* The lock is released.
LEMMA Drop ==
    ASSUME CodeOK, NEW c \in Cpu, NEW l \in Lock, holder[l] = c,
           holder' = [holder EXCEPT ![l] = NoCpu]
    PROVE  /\ Held(c)' = Held(c) \ {l} /\ l \in Held(c)
           /\ \A d \in Cpu \ {c} : Held(d)' = Held(d)
           /\ holder' \in [Lock -> Cpu \cup {NoCpu}]
<1>1. holder \in [Lock -> Cpu \cup {NoCpu}] /\ NoCpu \notin Cpu
  BY Names DEF CodeOK, ConsTypeOK
<1>2. holder' \in [Lock -> Cpu \cup {NoCpu}]  BY <1>1
<1>3. \A k \in Lock : holder'[k] = IF k = l THEN NoCpu ELSE holder[k]  BY <1>1
<1>4. Held(c)' = Held(c) \ {l} /\ l \in Held(c)  BY <1>1, <1>3 DEF Held
<1>5. ASSUME NEW d \in Cpu \ {c} PROVE Held(d)' = Held(d)  BY <1>1, <1>3 DEF Held
<1> QED  BY Zenon, <1>2, <1>4, <1>5

-----------------------------------------------------------------------------
(* The actions of Spinlock                                                 *)

\* The parts of the invariant.
LEMMA Parts == ASSUME ConsInv, NEW c \in Cpu PROVE CodeOK /\ CurInv /\ CpuInv(c)
  BY Zenon DEF ConsInv

\* The types after a step that moves a thread.
LEMMA CodeOKNext ==
    ASSUME ConsInv, NEW c \in Cpu, NEW s \in Code, GoOn(c, s), cur' = cur, UNCHANGED inVars,
           IF_' \in [Cpu -> BOOLEAN], intena' \in [Cpu -> BOOLEAN], ncli' \in [Cpu -> Nat],
           holder' \in [Lock -> Cpu \cup {NoCpu}],
           state' \in [Proc -> {"RUNNABLE", "RUNNING", "SLEEPING"}], saved' \in [Proc -> BOOLEAN]
    PROVE  CodeOK'
<1>1. code' \in [Proc -> Code] /\ scode' \in [Cpu -> Code] /\ hcode' \in [Cpu -> Code]
  BY Zenon, GoOnEffect, Parts
<1>2. CodeOK  BY Zenon, Parts
<1>3. ConsTypeOK'
  <2>1. ConsTypeOK  BY Zenon, <1>2 DEF CodeOK
  <2> QED  BY <2>1 DEF ConsTypeOK, inVars
<1> QED  BY Zenon, <1>1, <1>3 DEF CodeOK

\* The types of the variables.
LEMMA Types ==
    ASSUME ConsInv
    PROVE  /\ IF_ \in [Cpu -> BOOLEAN] /\ intena \in [Cpu -> BOOLEAN] /\ ncli \in [Cpu -> Nat]
           /\ holder \in [Lock -> Cpu \cup {NoCpu}]
           /\ state \in [Proc -> {"RUNNABLE", "RUNNING", "SLEEPING"}]
           /\ saved \in [Proc -> BOOLEAN] /\ cur \in [Cpu -> Proc \cup {NoProc}]
  BY Zenon DEF ConsInv, CodeOK, ConsTypeOK

\* acquire() keeps the invariant, whether it takes the lock or begins to spin.
LEMMA AcquireStep ==
    ASSUME ConsInv, NEW c \in Cpu, acquire(c), UNCHANGED inVars
    PROVE  ConsInv'
<1>0. CodeOK /\ CpuInv(c) /\ At(c, "acquire") /\ pushcli(c) /\ cur' = cur
      /\ state' = state /\ saved' = saved
  BY Zenon, Parts DEF acquire
<1> DEFINE s == Thread(c)
<1>1. /\ s # <<>> /\ s \in Code /\ Tail(s) \in Code /\ Head(s).op = "acquire"
      /\ In(Kind(c), s, Held(c), Enabled(c)) /\ Leads(Kind(c), s, Held(c), Enabled(c))
      /\ ncli[c] = Nest(Held(c))
  BY Zenon, <1>0, AtLeads
<1>2. Enabled(c) \in BOOLEAN /\ Held(c) \subseteq Lock  BY Zenon, <1>0, ThreadOK
<1>3. PICK l \in Lock \ Held(c) : Head(s) = Acquire(l) /\ In(Kind(c), Tail(s), Held(c) \cup {l}, Enabled(c))
  <2>1. Acquires(Kind(c), s, Held(c), Enabled(c))  BY Zenon, <1>1, <1>2, Executes
  <2> QED  BY Zenon, <2>1 DEF Acquires
<1>4. Head(s).lock = l  BY <1>3, Fields
<1>5. /\ Enabled(c)' = Enabled(c) /\ ncli'[c] = ncli[c] + 1 /\ ~IF_'[c]
      /\ \A d \in Cpu \ {c} : IF_'[d] = IF_[d] /\ ncli'[d] = ncli[d] /\ intena'[d] = intena[d]
      /\ IF_' \in [Cpu -> BOOLEAN] /\ intena' \in [Cpu -> BOOLEAN] /\ ncli' \in [Cpu -> Nat]
  BY Zenon, <1>0, Push
<1>6. CASE holder[l] = NoCpu
  <2>1. holder' = [holder EXCEPT ![l] = c] /\ GoOn(c, Tail(s))
    BY Zenon, <1>4, <1>6 DEF acquire
  <2>2. /\ Held(c)' = Held(c) \cup {l} /\ (\A d \in Cpu \ {c} : Held(d)' = Held(d))
        /\ holder' \in [Lock -> Cpu \cup {NoCpu}]
    BY Zenon, <1>0, <1>6, <2>1, Take
  <2>3. ncli'[c] = Nest(Held(c)')
    <3>1. Nest(Held(c) \cup {l}) = Nest(Held(c)) + 1  BY Zenon, <1>2, Nests
    <3> QED  BY Zenon, <1>1, <1>5, <2>2, <3>1
  <2>4. CodeOK'  BY Zenon, <1>0, <1>1, <1>5, <2>1, <2>2, CodeOKNext, Types
  <2>5. In(Kind(c), Tail(s), Held(c)', Enabled(c)')  BY Zenon, <1>3, <1>5, <2>2
  <2> HIDE DEF s
  <2> QED  BY Zenon, <1>0, <1>1, <1>2, <1>5, <2>1, <2>2, <2>3, <2>4, <2>5, Go
<1>7. CASE holder[l] # NoCpu
  <2> DEFINE t == <<Spin(l)>> \o Tail(s)
  <2>1. holder' = holder /\ GoOn(c, t)
    BY Zenon, <1>4, <1>7 DEF acquire
  <2>2. Is(t, Spin(l), Tail(s)) /\ Unspun(t) = s  BY Zenon, <1>1, <1>3, BeginsToSpin
  <2>3. t \in Code /\ t # <<>> /\ Spinner(t)  BY <2>2, Fields DEF Is, Spinner
  <2>4. \A d \in Cpu : Held(d)' = Held(d)  BY Zenon, <2>1 DEF Held
  <2> HIDE DEF s, t
  <2>5. ncli'[c] = Nest(Held(c)') + IF Spinner(t) THEN 1 ELSE 0
    BY Zenon, <1>1, <1>5, <2>3, <2>4
  <2>6. CodeOK'  BY Zenon, <1>0, <1>5, <2>1, <2>3, CodeOKNext, Types
  <2>7. In(Kind(c), Unspun(t), Held(c)', Enabled(c)')  BY Zenon, <1>1, <1>5, <2>2, <2>4
  <2> QED  BY Zenon, <1>0, <1>2, <1>5, <2>1, <2>3, <2>4, <2>5, <2>6, <2>7, Move
<1> QED  BY Zenon, <1>6, <1>7

\* release() keeps it.
LEMMA ReleaseStep ==
    ASSUME ConsInv, NEW c \in Cpu, release(c), UNCHANGED inVars
    PROVE  ConsInv'
<1>0. CodeOK /\ CpuInv(c) /\ At(c, "release") /\ popcli(c) /\ cur' = cur
      /\ state' = state /\ saved' = saved
  BY Zenon, Parts DEF release
<1> DEFINE s == Thread(c)
<1>1. /\ s # <<>> /\ s \in Code /\ Tail(s) \in Code /\ Head(s).op = "release"
      /\ Leads(Kind(c), s, Held(c), Enabled(c))
      /\ ncli[c] = Nest(Held(c)) /\ (ncli[c] > 0 => ~IF_[c])
  BY Zenon, <1>0, AtLeads
<1>2. Enabled(c) \in BOOLEAN /\ Held(c) \subseteq Lock /\ ncli[c] \in Nat  BY Zenon, <1>0, ThreadOK
<1>3. PICK l \in Held(c) : Head(s) = Release(l) /\ In(Kind(c), Tail(s), Held(c) \ {l}, Enabled(c))
  <2>1. Releases(Kind(c), s, Held(c), Enabled(c))  BY Zenon, <1>1, <1>2, Executes
  <2> QED  BY Zenon, <2>1 DEF Releases
<1>4. Head(s).lock = l /\ l \in Lock /\ holder[l] = c  BY <1>2, <1>3, Fields DEF Held
<1>5. holder' = [holder EXCEPT ![l] = NoCpu] /\ GoOn(c, Tail(s))
  BY Zenon, <1>4 DEF release
<1>6. /\ Held(c)' = Held(c) \ {l} /\ (\A d \in Cpu \ {c} : Held(d)' = Held(d))
      /\ holder' \in [Lock -> Cpu \cup {NoCpu}]
  BY Zenon, <1>0, <1>4, <1>5, Drop
<1>7. ncli[c] > 0
  <2>1. Nest(Held(c)) # 0  BY Zenon, <1>2, <1>3, Nests
  <2> QED  BY <1>1, <1>2, <2>1
<1>8. /\ Enabled(c)' = Enabled(c) /\ ncli'[c] = ncli[c] - 1 /\ (ncli'[c] > 0 => ~IF_'[c])
      /\ \A d \in Cpu \ {c} : IF_'[d] = IF_[d] /\ ncli'[d] = ncli[d] /\ intena'[d] = intena[d]
      /\ IF_' \in [Cpu -> BOOLEAN] /\ intena' \in [Cpu -> BOOLEAN] /\ ncli' \in [Cpu -> Nat]
  BY Zenon, <1>0, <1>1, <1>7, Pop
<1>9. ncli'[c] = Nest(Held(c)')
  <2>1. Nest(Held(c) \ {l}) = Nest(Held(c)) - 1  BY Zenon, <1>2, <1>3, Nests
  <2> QED  BY Zenon, <1>1, <1>6, <1>8, <2>1
<1>10. CodeOK'  BY Zenon, <1>0, <1>1, <1>5, <1>6, <1>8, CodeOKNext, Types
<1>11. In(Kind(c), Tail(s), Held(c)', Enabled(c)')  BY Zenon, <1>3, <1>6, <1>8
<1> HIDE DEF s
<1> QED  BY Zenon, <1>0, <1>1, <1>2, <1>5, <1>6, <1>8, <1>9, <1>10, <1>11, Go

\* A processor that spins waits for a lock it does not hold, and has counted
\* this lock in ncli already.
LEMMA AtSpin ==
    ASSUME CodeOK, NEW c \in Cpu, CpuInv(c), At(c, "spin")
    PROVE  /\ Thread(c) \in Code /\ Thread(c) # <<>>
           /\ In(Kind(c), Unspun(Thread(c)), Held(c), Enabled(c))
           /\ ncli[c] = Nest(Held(c)) + 1
           /\ \E l \in Lock \ Held(c) :
                 /\ Head(Thread(c)) = Spin(l) /\ Is(Unspun(Thread(c)), Acquire(l), Tail(Thread(c)))
                 /\ In(Kind(c), Tail(Thread(c)), Held(c) \cup {l}, Enabled(c))
<1> DEFINE s == Thread(c)
<1>1. s \in Code /\ s # <<>> /\ Head(s).op = "spin"  BY Zenon, ThreadOK DEF At
<1>2. PICK l \in Lock : Head(s) = Spin(l) /\ Is(Unspun(s), Acquire(l), Tail(s))
  BY Zenon, <1>1, Spinning
<1>3. Enabled(c) \in BOOLEAN /\ Held(c) \subseteq Lock  BY Zenon, ThreadOK
<1>4. In(Kind(c), Unspun(s), Held(c), Enabled(c))
  <2>1. ~AfterSleep(s) /\ ~AfterYield(s)  BY <1>1, AfterCode, Fields
  <2> QED  BY Zenon, <2>1 DEF CpuInv
<1>5. l \notin Held(c) /\ In(Kind(c), Tail(s), Held(c) \cup {l}, Enabled(c))
  <2>1. /\ Leads(Kind(c), Unspun(s), Held(c), Enabled(c)) /\ Head(Unspun(s)) = Acquire(l)
        /\ Tail(Unspun(s)) = Tail(s)
    BY Zenon, <1>2, <1>3, <1>4, Instruction DEF Is
  <2>2. Head(Unspun(s)).op = "acquire"  BY <2>1, Fields
  <2>3. PICK k \in Lock \ Held(c) : /\ Head(Unspun(s)) = Acquire(k)
                                    /\ In(Kind(c), Tail(s), Held(c) \cup {k}, Enabled(c))
    <3>1. Acquires(Kind(c), Unspun(s), Held(c), Enabled(c))  BY Zenon, <1>3, <2>1, <2>2, Executes
    <3> QED  BY Zenon, <2>1, <3>1 DEF Acquires
  <2>4. k = l  BY <2>1, <2>3, Fields
  <2> QED  BY Zenon, <2>3, <2>4
<1>6. ncli[c] = Nest(Held(c)) + 1  BY Zenon DEF CpuInv
<1> QED  BY Zenon, <1>1, <1>2, <1>4, <1>5, <1>6

\* The xchg that takes the lock keeps it.
LEMMA XchgStep ==
    ASSUME ConsInv, NEW c \in Cpu, xchg(c), UNCHANGED inVars
    PROVE  ConsInv'
<1>0. /\ CodeOK /\ CpuInv(c) /\ At(c, "spin") /\ UNCHANGED cliVars /\ cur' = cur
      /\ state' = state /\ saved' = saved
  BY Zenon, Parts DEF xchg
<1> DEFINE s == Thread(c)
<1>1. s \in Code /\ s # <<>> /\ ncli[c] = Nest(Held(c)) + 1  BY Zenon, <1>0, AtSpin
<1>2. PICK l \in Lock \ Held(c) : /\ Head(s) = Spin(l)
                                  /\ In(Kind(c), Tail(s), Held(c) \cup {l}, Enabled(c))
  BY Zenon, <1>0, AtSpin
<1>3. Enabled(c) \in BOOLEAN /\ Held(c) \subseteq Lock /\ ncli[c] \in Nat  BY Zenon, <1>0, ThreadOK
<1>5. l \notin Held(c) /\ In(Kind(c), Tail(s), Held(c) \cup {l}, Enabled(c))  BY Zenon, <1>2
<1>6. Head(s).lock = l /\ holder[l] = NoCpu  BY <1>2, Fields DEF xchg
<1>7. holder' = [holder EXCEPT ![l] = c] /\ GoOn(c, Tail(s))  BY Zenon, <1>6 DEF xchg
<1>8. /\ Held(c)' = Held(c) \cup {l} /\ (\A d \in Cpu \ {c} : Held(d)' = Held(d))
      /\ holder' \in [Lock -> Cpu \cup {NoCpu}]
  BY Zenon, <1>0, <1>6, <1>7, Take
<1>9. IF_' = IF_ /\ ncli' = ncli /\ intena' = intena /\ Enabled(c)' = Enabled(c)
  BY <1>0 DEF cliVars, Enabled
<1>10. ncli'[c] = Nest(Held(c)')
  <2>1. Nest(Held(c) \cup {l}) = Nest(Held(c)) + 1  BY Zenon, <1>3, <1>5, Nests
  <2> QED  BY Zenon, <1>1, <1>8, <1>9, <2>1
<1>11. ncli'[c] > 0 => ~IF_'[c]  BY <1>0, <1>9 DEF CpuInv
<1>12. Tail(s) \in Code  BY <1>1 DEF Code
<1>13. CodeOK'  BY Zenon, <1>0, <1>7, <1>8, <1>9, <1>12, CodeOKNext, Types
<1>14. In(Kind(c), Tail(s), Held(c)', Enabled(c)')  BY Zenon, <1>5, <1>8, <1>9
<1> HIDE DEF s
<1> QED  BY Zenon, <1>0, <1>3, <1>7, <1>8, <1>9, <1>10, <1>11, <1>12, <1>13, <1>14, Go

\* The code that each kind of thread executes.
LEMMA KindIs ==
    ASSUME NEW c \in Cpu
    PROVE  /\ Kind(c) = "handler" => Handling(c) /\ Thread(c) = hcode[c]
           /\ Kind(c) = "process" => ~Handling(c) /\ cur[c] # NoProc /\ Thread(c) = code[cur[c]]
           /\ Kind(c) = "scheduler" => ~Handling(c) /\ cur[c] = NoProc /\ Thread(c) = scode[c]
           /\ Kind(c) = "handler" \/ Kind(c) = "process" \/ Kind(c) = "scheduler"
  BY DEF Kind, Thread

\* What may be cut by the timer goes on with interrupts on.
LEMMA CutIn ==
    ASSUME NEW f \in Cut
    PROVE  In("process", f, {}, TRUE)
  BY Zenon DEF Cut, In, Forked

\* The end of sched() keeps it: intena becomes that of the thread.
LEMMA RestoreStep ==
    ASSUME ConsInv, NEW c \in Cpu, restore(c), UNCHANGED inVars
    PROVE  ConsInv'
<1>0. /\ CodeOK /\ CpuInv(c) /\ At(c, "restore") /\ GoOn(c, Tail(Thread(c)))
      /\ IF_' = IF_ /\ ncli' = ncli /\ holder' = holder /\ cur' = cur /\ state' = state
  BY Parts DEF restore
<1>1. /\ Thread(c) # <<>> /\ Kind(c) = "process" /\ Held(c) = {ptable}
      /\ AfterSleep(Thread(c)) \/ AfterYield(Thread(c))
      /\ ncli[c] = Nest(Held(c)) /\ (ncli[c] > 0 => ~IF_[c])
  BY <1>0, AtOp
<1>2. Thread(c) = code[cur[c]] /\ cur[c] \in Proc /\ Thread(c) \in Code
  BY Zenon, <1>0, <1>1, KindIs, ThreadOK
<1>3. /\ AfterSleep(Thread(c)) => saved[cur[c]] /\ InCall(Tail(Thread(c)), {ptable})
      /\ AfterYield(Thread(c)) => ~saved[cur[c]] /\ InYield(Tail(Thread(c)), {ptable})
  <2>1. ProcInv(cur[c])  BY Zenon, <1>2 DEF ConsInv
  <2> QED  BY Zenon, <1>2, <2>1, AfterCode DEF ProcInv
<1>4. /\ intena' \in [Cpu -> BOOLEAN] /\ intena'[c] = saved[cur[c]]
      /\ \A d \in Cpu \ {c} : intena'[d] = intena[d]
      /\ saved' \in [Proc -> BOOLEAN] /\ \A p \in Proc : p # cur[c] => saved'[p] = saved[p]
  BY <1>2, Types DEF restore
<1>5. ncli[c] # 0
  <2>1. {ptable} \subseteq Lock /\ {ptable} # {}  BY Names
  <2>2. Nest({ptable}) # 0  BY Zenon, <2>1, Nests
  <2> QED  BY Zenon, <1>1, <2>2
<1>6. Enabled(c)' = saved[cur[c]]  BY <1>0, <1>4, <1>5 DEF Enabled
<1>7. saved[cur[c]] \in BOOLEAN  BY <1>2, Types
<1>8. \A d \in Cpu : Held(d)' = Held(d)  BY Zenon, <1>0 DEF Held
<1>9. In(Kind(c), Tail(Thread(c)), Held(c)', Enabled(c)')
  <2>1. In("process", Tail(Thread(c)), {ptable}, saved[cur[c]])  BY Zenon, <1>1, <1>3 DEF In
  <2> QED  BY Zenon, <1>1, <1>6, <1>8, <2>1
<1>10. Tail(Thread(c)) \in Code  BY <1>1, <1>2 DEF Code
<1>11. CodeOK'  BY Zenon, <1>0, <1>4, <1>10, CodeOKNext, Types
<1>12. ncli'[c] = Nest(Held(c)') /\ (ncli'[c] > 0 => ~IF_'[c])  BY Zenon, <1>0, <1>1, <1>8
<1>13. Enabled(c)' \in BOOLEAN  BY Zenon, <1>6, <1>7
<1> QED  BY Zenon, <1>0, <1>1, <1>4, <1>8, <1>9, <1>10, <1>11, <1>12, <1>13, Go

\* The interrupts of c come on or go off, and the interrupt handler of c begins
\* or ends: no thread moves.
LEMMA Switch ==
    ASSUME ConsInv, NEW c \in Cpu, cur' = cur, state' = state, saved' = saved,
           ncli' = ncli, intena' = intena, holder' = holder, code' = code, scode' = scode,
           UNCHANGED inVars,
           IF_' \in [Cpu -> BOOLEAN], hcode' \in [Cpu -> Code],
           \A d \in Cpu \ {c} : IF_'[d] = IF_[d] /\ hcode'[d] = hcode[d],
           CpuInv(c)'
    PROVE  ConsInv'
<1>0. CodeOK /\ CurInv /\ (\A d \in Cpu : CpuInv(d)) /\ (\A p \in Proc : ProcInv(p))
  BY Zenon DEF ConsInv
<1>1. CodeOK'
  <2>1. ConsTypeOK'  BY <1>0 DEF CodeOK, ConsTypeOK, inVars
  <2> QED  BY Zenon, <1>0, <2>1 DEF CodeOK
<1>2. CurInv'  BY Zenon, <1>0 DEF CurInv
<1>3. \A p \in Proc : ProcInv(p)'  BY Zenon, <1>0 DEF ProcInv
<1>4. ASSUME NEW d \in Cpu PROVE CpuInv(d)'
  <2>1. CASE d = c  BY Zenon, <2>1
  <2>2. CASE d # c
    <3>1. Held(d)' = Held(d)  BY Zenon DEF Held
    <3>2. IF_'[d] = IF_[d] /\ hcode'[d] = hcode[d]  BY Zenon, <2>2
    <3> QED  BY Zenon, <1>0, <3>1, <3>2, CpuFrame
  <2> QED  BY Zenon, <2>1, <2>2
<1> QED  BY Zenon, <1>1, <1>2, <1>3, <1>4 DEF ConsInv

\* The return from a trap keeps it.
LEMMA IretStep ==
    ASSUME ConsInv, NEW c \in Cpu, iret(c), UNCHANGED inVars
    PROVE  ConsInv'
<1> DEFINE s == Thread(c)
<1>0. /\ CodeOK /\ CpuInv(c) /\ GoOn(c, Tail(s)) /\ IF_' = [IF_ EXCEPT ![c] = TRUE]
      /\ intena' = intena /\ ncli' = ncli /\ holder' = holder /\ cur' = cur /\ state' = state
      /\ saved' = saved
  BY Parts DEF iret
<1>1. PICK op \in {"iret", "sysret"} : At(c, op)  BY Zenon DEF iret
<1>2. /\ s # <<>> /\ s \in Code /\ Tail(s) \in Code /\ Head(s).op = op
      /\ Leads(Kind(c), s, Held(c), Enabled(c)) /\ ncli[c] = Nest(Held(c))
  BY Zenon, <1>0, <1>1, AtLeads
<1>3. Enabled(c) \in BOOLEAN  BY Zenon, <1>0, ThreadOK
<1>4. /\ Held(c) = {}
      /\ \/ Kind(c) = "handler" /\ Tail(s) = <<>>
         \/ Kind(c) = "process" /\ Tail(s) \in Cut
  <2>1. CASE op = "iret"
    <3>1. Head(s).op = "iret"  BY Zenon, <1>2, <2>1
    <3> HIDE DEF s
    <3> QED  BY <1>2, <1>3, <3>1, Executes
  <2>2. CASE op = "sysret"
    <3>1. Head(s).op = "sysret"  BY Zenon, <1>2, <2>2
    <3> HIDE DEF s
    <3>2. Kind(c) = "process" /\ Held(c) = {} /\ Tail(s) = <<>>
      BY <1>2, <1>3, <3>1, Executes
    <3>3. <<>> \in Cut
      <4>1. <<>> \in Code  BY DEF Code
      <4> QED  BY Zenon, <4>1, InCalls DEF Cut
    <3> QED  BY Zenon, <3>2, <3>3
  <2> QED  BY Zenon, <1>1, <2>1, <2>2
<1>5. ncli[c] = 0  BY Zenon, <1>2, <1>4, Nests
<1>6. /\ IF_' \in [Cpu -> BOOLEAN] /\ IF_'[c] = TRUE /\ \A d \in Cpu \ {c} : IF_'[d] = IF_[d]
  BY <1>0, Types
<1>7. Enabled(c)' = TRUE  BY <1>0, <1>5, <1>6 DEF Enabled
<1>8. \A d \in Cpu : Held(d)' = Held(d)  BY Zenon, <1>0 DEF Held
<1>9. CASE Kind(c) = "process" /\ Tail(s) \in Cut
  <2>1. In(Kind(c), Tail(s), Held(c)', Enabled(c)')
    <3>1. In("process", Tail(s), {}, TRUE)  BY Zenon, <1>9, CutIn
    <3> QED  BY Zenon, <1>4, <1>7, <1>8, <1>9, <3>1
  <2>2. CodeOK'  BY Zenon, <1>0, <1>2, <1>6, CodeOKNext, Types
  <2>3. ncli'[c] = Nest(Held(c)')  BY Zenon, <1>0, <1>2, <1>8
  <2>5. ~(ncli'[c] > 0)  BY <1>0, <1>5
  <2>4. Enabled(c)' \in BOOLEAN  BY <1>7
  <2> HIDE DEF s
  <2> QED  BY Zenon, <1>0, <1>2, <1>6, <1>8, <2>1, <2>2, <2>3, <2>4, <2>5, Go
<1>10. CASE Kind(c) = "handler" /\ Tail(s) = <<>>
  <2>1. /\ code' = code /\ scode' = scode /\ hcode'[c] = <<>> /\ hcode' \in [Cpu -> Code]
        /\ \A d \in Cpu \ {c} : hcode'[d] = hcode[d]
    <3>1. CurInv  BY Zenon, Parts
    <3>2. <<>> \in Code  BY DEF Code
    <3> HIDE DEF s
    <3>3. GoOn(c, <<>>)  BY Zenon, <1>0, <1>10
    <3> QED  BY <1>0, <1>10, <3>1, <3>2, <3>3, GoOnEffect
  <2>2. Handling(c)  BY Zenon, <1>10, KindIs
  <2>3. ~Handling(c)'  BY <2>1 DEF Handling
  <2>6. In(Kind(c)', Thread(c)', {}, TRUE)
    <3>1. CASE cur[c] = NoProc
      <4>1. Kind(c)' = "scheduler" /\ Thread(c)' = SchedLoop
        BY Zenon, <1>0, <2>1, <2>2, <2>3, <3>1 DEF Kind, Thread, CpuInv
      <4>2. In("scheduler", SchedLoop, {}, TRUE)  BY Zenon DEF In, InScheduler
      <4> QED  BY Zenon, <4>1, <4>2
    <3>2. CASE cur[c] # NoProc
      <4>1. Kind(c)' = "process" /\ Thread(c)' = code[cur[c]] /\ code[cur[c]] \in Cut
        BY Zenon, <1>0, <2>1, <2>2, <2>3, <3>2 DEF Kind, Thread, CpuInv
      <4> QED  BY Zenon, <4>1, CutIn
    <3> QED  BY Zenon, <3>1, <3>2
  <2>7. CpuInv(c)'
    <3>1. Unspun(Thread(c)') = Thread(c)' /\ ~Spinner(Thread(c)')  BY Zenon, <2>6, Plain
    <3>2. In(Kind(c)', Unspun(Thread(c)'), Held(c)', Enabled(c)')
      BY Zenon, <1>4, <1>7, <1>8, <2>6, <3>1
    <3>3. ~At(c, "spin")'  BY Zenon, <3>1 DEF At, Spinner
    <3>4. ncli'[c] = Nest(Held(c)') + IF At(c, "spin")' THEN 1 ELSE 0
      <4>1. Nest(Held(c)') = 0  BY Zenon, <1>2, <1>5, <1>8
      <4> QED  BY <1>0, <1>5, <3>3, <4>1
    <3>5. ~(ncli'[c] > 0)  BY <1>0, <1>5
    <3>6. cur'[c] # NoProc => scode'[c] = <<Op("pick")>>  BY Zenon, <1>0, <2>1 DEF CpuInv
    <3> QED  BY Zenon, <2>3, <3>2, <3>4, <3>5, <3>6 DEF CpuInv
  <2> QED  BY Zenon, <1>0, <1>6, <2>1, <2>7, Switch
<1> QED  BY Zenon, <1>4, <1>9, <1>10

\* The scheduler that finds no process keeps it.
LEMMA PickNoneStep ==
    ASSUME ConsInv, NEW c \in Cpu, pickNone(c), UNCHANGED inVars
    PROVE  ConsInv'
<1>0. /\ CodeOK /\ CpuInv(c) /\ At(c, "pick") /\ GoOn(c, SchedLoop)
      /\ holder' = [holder EXCEPT ![ptable] = NoCpu]
      /\ ncli' = [ncli EXCEPT ![c] = @ - 1] /\ IF_' = [IF_ EXCEPT ![c] = TRUE]
      /\ intena' = intena /\ cur' = cur /\ state' = state /\ saved' = saved
  BY Parts DEF pickNone
<1>1. /\ Head(Thread(c)).op = "pick" /\ Leads(Kind(c), Thread(c), Held(c), Enabled(c))
      /\ ncli[c] = Nest(Held(c)) /\ Enabled(c) \in BOOLEAN
  BY Zenon, <1>0, AtLeads, ThreadOK
<1>2. Kind(c) = "scheduler" /\ Held(c) = {ptable}  BY <1>1, Executes
<1>3. ptable \in Lock /\ holder[ptable] = c  BY <1>2, Names DEF Held
<1>4. /\ Held(c)' = Held(c) \ {ptable} /\ (\A d \in Cpu \ {c} : Held(d)' = Held(d))
      /\ holder' \in [Lock -> Cpu \cup {NoCpu}]
  BY Zenon, <1>0, <1>3, Drop
<1>5. Held(c)' = {}  BY Zenon, <1>2, <1>4, Sets
<1>6. Nest(Held(c)') = 0 /\ ncli[c] = 1
  <2>1. {} \subseteq Lock /\ Held(c) \subseteq Lock /\ ptable \in Held(c)
    BY <1>2, <1>3
  <2>2. Nest(Held(c)') = 0  BY Zenon, <1>5, <2>1, Nests
  <2>3. Nest(Held(c)) = 1  BY Zenon, <1>2, <1>3, <2>1, Nests
  <2> QED  BY Zenon, <1>1, <2>2, <2>3
<1>7. /\ ncli' \in [Cpu -> Nat] /\ ncli'[c] = 0 /\ \A d \in Cpu \ {c} : ncli'[d] = ncli[d]
  BY <1>0, <1>6, Types
<1>8. /\ IF_' \in [Cpu -> BOOLEAN] /\ IF_'[c] = TRUE /\ \A d \in Cpu \ {c} : IF_'[d] = IF_[d]
  BY <1>0, Types
<1>9. Enabled(c)' = TRUE  BY <1>7, <1>8 DEF Enabled
<1>10. SchedLoop \in Code  BY Zenon, Codes DEF Is
<1>11. In(Kind(c), SchedLoop, Held(c)', Enabled(c)')
  <2>1. In("scheduler", SchedLoop, {}, TRUE)  BY Zenon DEF In, InScheduler
  <2> QED  BY Zenon, <1>2, <1>5, <1>9, <2>1
<1>12. CodeOK'  BY Zenon, <1>0, <1>4, <1>7, <1>8, <1>10, CodeOKNext, Types
<1>13. Enabled(c)' \in BOOLEAN /\ ~(ncli'[c] > 0)  BY <1>7, <1>9
<1>14. ncli'[c] = Nest(Held(c)')  BY Zenon, <1>6, <1>7
<1> QED  BY Zenon, <1>0, <1>4, <1>7, <1>8, <1>10, <1>11, <1>12, <1>13, <1>14, Go

\* Where an interrupt finds the thread of c.
LEMMA Interruptible ==
    ASSUME CodeOK, NEW c \in Cpu, CpuInv(c), IF_[c], ~Handling(c)
    PROVE  /\ ncli[c] = 0 /\ Held(c) = {}
           /\ cur[c] # NoProc => Kind(c) = "process" /\ Thread(c) = code[cur[c]] /\ code[cur[c]] \in Cut
           /\ cur[c] = NoProc => scode[c] = SchedLoop
<1>1. ncli[c] \in Nat /\ Held(c) \subseteq Lock /\ Thread(c) \in Code  BY Zenon, ThreadOK
<1>2. ncli[c] = 0  BY <1>1 DEF CpuInv
<1>3. Nest(Held(c)) \in Nat  BY Zenon, <1>1, Nests
<1>4. Nest(Held(c)) = 0 /\ ~At(c, "spin")
  <2>1. ncli[c] = Nest(Held(c)) + IF At(c, "spin") THEN 1 ELSE 0  BY Zenon DEF CpuInv
  <2> QED  BY <1>2, <1>3, <2>1
<1>5. Held(c) = {}  BY Zenon, <1>1, <1>4, Nests
<1>6. Enabled(c)  BY <1>2 DEF Enabled
<1>7. In(Kind(c), Thread(c), {}, Enabled(c))
  <2>1. Unspun(Thread(c)) = Thread(c)  BY Zenon, <1>4 DEF Unspun, At
  <2>2. Held(c) # {ptable}  BY Zenon, <1>5, Sets
  <2> QED  BY Zenon, <1>5, <2>1, <2>2 DEF CpuInv
<1>8. ASSUME cur[c] # NoProc
      PROVE  Kind(c) = "process" /\ Thread(c) = code[cur[c]] /\ code[cur[c]] \in Cut
  <2>1. Kind(c) = "process" /\ Thread(c) = code[cur[c]]  BY Zenon, <1>8 DEF Kind, Thread
  <2>2. InCall(Thread(c), {}) \/ Forked(Thread(c), {})
    <3>1. In("process", Thread(c), {}, Enabled(c))  BY Zenon, <1>7, <2>1
    <3> QED  BY Zenon, <1>6, <3>1 DEF In
  <2>3. Forked(Thread(c), {}) => Thread(c) = <<Op("iret")>>  BY Zenon, Sets DEF Forked
  <2> QED  BY Zenon, <1>1, <2>1, <2>2, <2>3 DEF Cut
<1>9. ASSUME cur[c] = NoProc PROVE scode[c] = SchedLoop
  <2>1. Kind(c) = "scheduler" /\ Thread(c) = scode[c]  BY Zenon, <1>9 DEF Kind, Thread
  <2>2. InScheduler(Thread(c), {})  BY <1>7, <2>1 DEF In
  <2> QED  BY Zenon, <2>1, <2>2, Sets DEF InScheduler
<1> QED  BY Zenon, <1>2, <1>5, <1>8, <1>9

\* The timer keeps it: interrupts were on, so no lock was held.
LEMMA TimerStep ==
    ASSUME ConsInv, NEW c \in Cpu, timer(c), UNCHANGED inVars
    PROVE  ConsInv'
<1>0. /\ CodeOK /\ CpuInv(c) /\ IF_[c] /\ ~Handling(c) /\ cur[c] # NoProc
      /\ IF_' = [IF_ EXCEPT ![c] = FALSE]
      /\ code' = [code EXCEPT ![cur[c]] = (yield \o <<Op("iret")>>) \o code[cur[c]]]
      /\ ncli' = ncli /\ intena' = intena /\ holder' = holder /\ cur' = cur
      /\ state' = state /\ saved' = saved /\ scode' = scode /\ hcode' = hcode
  BY Parts DEF timer
<1>1. /\ ncli[c] = 0 /\ Held(c) = {} /\ Kind(c) = "process" /\ code[cur[c]] \in Cut
  BY Zenon, <1>0, Interruptible
<1> DEFINE s == (yield \o <<Op("iret")>>) \o code[cur[c]]
<1>2. s \in Code /\ InYield(s, {})
  <2>1. s \in Code  BY Zenon, <1>1, CutCodes DEF Is
  <2>2. InYield(s, {})  BY Zenon, <1>1 DEF InYield
  <2> QED  BY <2>1, <2>2
<1>3. GoOn(c, s)  BY Zenon, <1>0 DEF GoOn
<1> HIDE DEF s
<1>4. /\ IF_' \in [Cpu -> BOOLEAN] /\ IF_'[c] = FALSE /\ \A d \in Cpu \ {c} : IF_'[d] = IF_[d]
  BY <1>0, Types
<1>5. Enabled(c)' = FALSE  BY <1>0, <1>1, <1>4 DEF Enabled
<1>6. \A d \in Cpu : Held(d)' = Held(d)  BY Zenon, <1>0 DEF Held
<1>7. In(Kind(c), s, Held(c)', Enabled(c)')
  <2>1. In("process", s, {}, FALSE)  BY Zenon, <1>2 DEF In
  <2> QED  BY Zenon, <1>1, <1>5, <1>6, <2>1
<1>8. CodeOK'  BY Zenon, <1>0, <1>2, <1>3, <1>4, CodeOKNext, Types
<1>9. ncli'[c] = Nest(Held(c)')
  <2>1. Nest({}) = 0  BY Zenon DEF Nest
  <2> QED  BY Zenon, <1>0, <1>1, <1>6, <2>1
<1>10. Enabled(c)' \in BOOLEAN /\ ~IF_'[c]  BY Zenon, <1>4, <1>5
<1> QED  BY Zenon, <1>0, <1>2, <1>3, <1>4, <1>6, <1>7, <1>8, <1>9, <1>10, Go

\* So does the interrupt of the keyboard.
LEMMA InterruptStep ==
    ASSUME ConsInv, NEW c \in Cpu, interrupt(c)
    PROVE  ConsInv'
<1>0. /\ CodeOK /\ CpuInv(c) /\ IF_[c] /\ ~Handling(c)
      /\ IF_' = [IF_ EXCEPT ![c] = FALSE] /\ hcode' = [hcode EXCEPT ![c] = consoleintr]
      /\ ncli' = ncli /\ intena' = intena /\ holder' = holder /\ cur' = cur
      /\ state' = state /\ saved' = saved /\ scode' = scode /\ code' = code /\ UNCHANGED inVars
  BY Parts DEF interrupt
<1>1. /\ ncli[c] = 0 /\ Held(c) = {} /\ (cur[c] # NoProc => code[cur[c]] \in Cut)
      /\ cur[c] = NoProc => scode[c] = SchedLoop
  BY Zenon, <1>0, Interruptible
<1>2. consoleintr \in Code /\ consoleintr # <<>> /\ Head(consoleintr) = Acquire(cons)
  BY Zenon, Codes DEF Is
<1>3. /\ IF_' \in [Cpu -> BOOLEAN] /\ IF_'[c] = FALSE /\ \A d \in Cpu \ {c} : IF_'[d] = IF_[d]
  BY <1>0, Types
<1>4. /\ hcode' \in [Cpu -> Code] /\ hcode'[c] = consoleintr
      /\ \A d \in Cpu \ {c} : hcode'[d] = hcode[d]
  <2>1. hcode \in [Cpu -> Code]  BY Zenon, <1>0 DEF CodeOK
  <2> QED  BY <1>0, <1>2, <2>1
<1>5. Handling(c)' /\ Kind(c)' = "handler" /\ Thread(c)' = consoleintr
  BY <1>2, <1>4 DEF Handling, Kind, Thread
<1>6. Enabled(c)' = FALSE /\ Held(c)' = {}  BY <1>0, <1>1, <1>3 DEF Enabled, Held
<1>7. In("handler", consoleintr, {}, FALSE)  BY Zenon DEF In, InHandler
<1>8. CpuInv(c)'
  <2>1. Unspun(consoleintr) = consoleintr /\ ~Spinner(consoleintr)  BY Zenon, <1>7, Plain
  <2>2. In(Kind(c)', Unspun(Thread(c)'), Held(c)', Enabled(c)')
    BY Zenon, <1>5, <1>6, <1>7, <2>1
  <2>3. ~At(c, "spin")'  BY Zenon, <1>5, <2>1 DEF At, Spinner
  <2>4. ncli'[c] = Nest(Held(c)') + IF At(c, "spin")' THEN 1 ELSE 0
    <3>1. Nest(Held(c)') = 0  BY Zenon, <1>6 DEF Nest
    <3>2. ncli'[c] = 0  BY Zenon, <1>0, <1>1
    <3> QED  BY <2>3, <3>1, <3>2
  <2>5. ~IF_'[c]  BY <1>3
  <2>6. cur'[c] # NoProc => scode'[c] = <<Op("pick")>>
    <3>1. cur[c] # NoProc => scode[c] = <<Op("pick")>>  BY Zenon, <1>0 DEF CpuInv
    <3> QED  BY Zenon, <1>0, <3>1
  <2>7. IF cur'[c] = NoProc THEN scode'[c] = SchedLoop ELSE code'[cur'[c]] \in Cut
    BY Zenon, <1>0, <1>1
  <2> QED  BY Zenon, <2>2, <2>4, <2>5, <2>6, <2>7 DEF CpuInv
<1> QED  BY Zenon, <1>0, <1>3, <1>4, <1>8, Switch

\* sleep() and yield() go on differently after the switch.
LEMMA AfterApart ==
    ASSUME NEW s, AfterSleep(s), AfterYield(s)
    PROVE  FALSE
<1>1. PICK rd \in Reading : s = <<Op("restore"), Release(ptable), Acquire(cons)>> \o rd
  BY Zenon DEF AfterSleep
<1>2. PICK f \in Cut : s = <<Op("restore"), Release(ptable), Op("iret")>> \o f
  BY Zenon DEF AfterYield
<1>3. Head(Tail(Tail(s))) = Acquire(cons)
  BY Zenon, <1>1, ReadingCodes DEF Is
<1>4. Head(Tail(Tail(s))) = Op("iret")
  BY Zenon, <1>2, CutCodes DEF Is
<1>5. Acquire(cons) # Op("iret")
  <2>1. Acquire(cons).op = "acquire" /\ Op("iret").op = "iret"  BY Zenon, Fields
  <2> QED  BY <2>1
<1> QED  BY Zenon, <1>3, <1>4, <1>5

\* sched() keeps it: ptable.lock, with ncli 1, goes to the scheduler.
LEMMA SchedStep ==
    ASSUME ConsInv, NEW c \in Cpu, sched(c), UNCHANGED inVars
    PROVE  ConsInv'
<1> DEFINE p == cur[c]
           s == Thread(c)
<1>0. /\ CodeOK /\ CurInv /\ CpuInv(c) /\ p # NoProc /\ ~Handling(c)
      /\ state' = [state EXCEPT ![p] = Head(code[p]).op] /\ saved' = [saved EXCEPT ![p] = intena[c]]
      /\ cur' = [cur EXCEPT ![c] = NoProc] /\ GoOn(c, Tail(code[p])) /\ holder' = holder
      /\ IF_' = IF_ /\ ncli' = ncli /\ intena' = intena
  BY Parts DEF sched, cliVars
<1>1. PICK op \in {"RUNNABLE", "SLEEPING"} : At(c, op)  BY Zenon DEF sched
<1>2. /\ s # <<>> /\ s \in Code /\ Tail(s) \in Code /\ Head(s).op = op
      /\ Leads(Kind(c), s, Held(c), Enabled(c)) /\ ncli[c] = Nest(Held(c))
      /\ ncli[c] > 0 => ~IF_[c]
  BY Zenon, <1>0, <1>1, AtLeads
<1>3. Enabled(c) \in BOOLEAN /\ p \in Proc  BY <1>0, ThreadOK DEF Kind
<1>4. /\ Kind(c) = "process" /\ Held(c) = {ptable}
      /\ \/ op = "SLEEPING" /\ AfterSleep(Tail(s)) /\ Enabled(c)
         \/ op = "RUNNABLE" /\ AfterYield(Tail(s)) /\ ~Enabled(c)
  <2>1. CASE op = "SLEEPING"
    <3>1. Head(s).op = "SLEEPING"  BY Zenon, <1>2, <2>1
    <3>2. Kind(c) = "process" /\ Held(c) = {ptable} /\ Enabled(c) /\ AfterSleep(Tail(s))
      BY Zenon, <1>2, <1>3, <3>1, Executes
    <3> QED  BY Zenon, <2>1, <3>2
  <2>2. CASE op = "RUNNABLE"
    <3>1. Head(s).op = "RUNNABLE"  BY Zenon, <1>2, <2>2
    <3>2. Kind(c) = "process" /\ Held(c) = {ptable} /\ ~Enabled(c) /\ AfterYield(Tail(s))
      BY Zenon, <1>2, <1>3, <3>1, Executes
    <3> QED  BY Zenon, <2>2, <3>2
  <2> QED  BY Zenon, <1>1, <2>1, <2>2
<1>5. s = code[p]  BY Zenon, <1>4, KindIs
<1>6. ncli[c] = 1 /\ (Enabled(c) <=> intena[c])
  <2>1. Nest({ptable}) = 1  BY Names DEF Nest
  <2>2. ncli[c] = 1  BY Zenon, <1>2, <1>4, <2>1
  <2> QED  BY <2>2 DEF Enabled
<1> HIDE DEF s, p
<1>7. /\ code' \in [Proc -> Code] /\ scode' \in [Cpu -> Code] /\ hcode' \in [Cpu -> Code]
      /\ \A d \in Cpu \ {c} : /\ hcode'[d] = hcode[d] /\ scode'[d] = scode[d]
                              /\ cur[d] # NoProc => code'[cur[d]] = code[cur[d]]
      /\ \A q \in Proc : q # p => code'[q] = code[q]
      /\ hcode' = hcode /\ code'[p] = Tail(s) /\ scode' = scode
  <2>1. GoOn(c, Tail(s))  BY Zenon, <1>0, <1>5
  <2>2. /\ code' \in [Proc -> Code] /\ scode' \in [Cpu -> Code] /\ hcode' \in [Cpu -> Code]
        /\ \A d \in Cpu \ {c} : /\ hcode'[d] = hcode[d] /\ scode'[d] = scode[d]
                                /\ cur[d] # NoProc => code'[cur[d]] = code[cur[d]]
    BY Zenon, <1>0, <1>2, <2>1, GoOnEffect
  <2>3. \A q \in Proc : code'[q] # code[q] =>
            Kind(c) = "process" /\ q = cur[c] /\ code'[q] = Tail(s)
    BY Zenon, <1>0, <1>2, <2>1, GoOnEffect
  <2>4. hcode' = hcode /\ code'[cur[c]] = Tail(s) /\ scode' = scode
    BY Zenon, <1>0, <1>2, <1>4, <2>1, GoOnEffect
  <2> QED  BY Zenon, <2>2, <2>3, <2>4 DEF p
<1>8. /\ state' \in [Proc -> {"RUNNABLE", "RUNNING", "SLEEPING"}] /\ state'[p] = op
      /\ \A q \in Proc : q # p => state'[q] = state[q]
      /\ op # "RUNNING"
  <2>1. Head(code[p]).op = op /\ op \in {"RUNNABLE", "RUNNING", "SLEEPING"} /\ op # "RUNNING"
    BY <1>1, <1>2, <1>5
  <2> QED  BY <1>0, <1>3, <2>1, Types
<1>9. /\ saved' \in [Proc -> BOOLEAN] /\ saved'[p] = intena[c] /\ intena[c] \in BOOLEAN
      /\ \A q \in Proc : q # p => saved'[q] = saved[q]
  BY <1>0, <1>3, Types
<1>10. /\ cur' \in [Cpu -> Proc \cup {NoProc}] /\ cur'[c] = NoProc
       /\ \A d \in Cpu \ {c} : cur'[d] = cur[d]
  BY <1>0, Types
<1>11. CodeOK'
  <2>1. ConsTypeOK'  BY <1>0, <1>8, <1>9, <1>10 DEF CodeOK, ConsTypeOK, inVars
  <2> QED  BY Zenon, <1>7, <2>1 DEF CodeOK
<1>12. CurInv'
  <2>0. /\ \A d \in Cpu \ {c} : cur[d] # p
        /\ \A d \in Cpu : cur[d] # NoProc => cur[d] \in Proc
    BY <1>0, Types DEF CurInv, p
  <2>1. \A d \in Cpu : cur'[d] # NoProc => state'[cur'[d]] = "RUNNING"
    BY <1>0, <1>8, <1>10, <2>0 DEF CurInv
  <2>2. ASSUME NEW q \in Proc, state'[q] = "RUNNING" PROVE \E d \in Cpu : cur'[d] = q
    <3>1. q # p /\ state[q] = "RUNNING"  BY <1>8, <2>2
    <3>2. PICK d \in Cpu : cur[d] = q  BY Zenon, <1>0, <3>1 DEF CurInv
    <3>3. d # c  BY Zenon, <3>1, <3>2 DEF p
    <3> QED  BY Zenon, <1>10, <3>2, <3>3
  <2>3. \A d, f \in Cpu : cur'[d] = cur'[f] /\ cur'[d] # NoProc => d = f
    BY <1>0, <1>10 DEF CurInv
  <2> QED  BY Zenon, <2>1, <2>2, <2>3 DEF CurInv
<1>13. \A d \in Cpu : Held(d)' = Held(d)  BY Zenon, <1>0 DEF Held
<1>14. ASSUME NEW d \in Cpu \ {c} PROVE CpuInv(d)'
  <2>1. CpuInv(d)  BY Zenon DEF ConsInv
  <2> QED  BY Zenon, <1>0, <1>7, <1>10, <1>13, <2>1, CpuFrame
<1>15. CpuInv(c)'
  <2>1. Kind(c)' = "scheduler" /\ Thread(c)' = scode[c] /\ ~Handling(c)'
    <3>1. ~Handling(c)'  BY Zenon, <1>0, <1>7 DEF Handling
    <3>2. cur'[c] = NoProc /\ scode'[c] = scode[c]  BY Zenon, <1>7, <1>10
    <3> QED  BY Zenon, <3>1, <3>2 DEF Kind, Thread
  <2>2. scode[c] = <<Op("pick")>>  BY Zenon, <1>0 DEF CpuInv, p
  <2>3. In("scheduler", <<Op("pick")>>, {ptable}, Enabled(c)')  BY Zenon DEF In, InScheduler
  <2>4. Enabled(c)' \in BOOLEAN  BY <1>0, Types DEF Enabled
  <2>5. Unspun(<<Op("pick")>>) = <<Op("pick")>> /\ ~Spinner(<<Op("pick")>>)
    BY Zenon, <2>3, <2>4, Plain
  <2>6. In(Kind(c)', Unspun(Thread(c)'), Held(c)', Enabled(c)')
    BY <1>4, <1>13, <2>1, <2>2, <2>3, <2>5
  <2>7. ~At(c, "spin")'  BY Zenon, <2>1, <2>2, <2>5 DEF At, Spinner
  <2>8. ncli'[c] = Nest(Held(c)') + IF At(c, "spin")' THEN 1 ELSE 0
    <3>1. Nest(Held(c)') = 1  BY Zenon, <1>2, <1>6, <1>13
    <3> QED  BY <1>0, <1>6, <2>7, <3>1
  <2>9. ncli'[c] > 0 => ~IF_'[c]  BY Zenon, <1>0, <1>2
  <2> QED  BY Zenon, <1>10, <2>1, <2>6, <2>8, <2>9 DEF CpuInv
<1>16. ASSUME NEW q \in Proc PROVE ProcInv(q)'
  <2>1. CASE q # p
    <3>1. ProcInv(q)  BY Zenon DEF ConsInv
    <3>2. code'[q] = code[q] /\ state'[q] = state[q] /\ saved'[q] = saved[q]
      BY Zenon, <1>7, <1>8, <1>9, <2>1
    <3> QED  BY Zenon, <3>1, <3>2 DEF ProcInv
  <2>2. CASE q = p
    <3>1. code'[q] = Tail(s) /\ saved'[q] = intena[c]  BY Zenon, <1>7, <1>9, <2>2
    <3>2. AfterSleep(Tail(s)) \/ AfterYield(Tail(s))  BY Zenon, <1>4
    <3>3. /\ AfterSleep(Tail(s)) => intena[c]
          /\ AfterYield(Tail(s)) => ~intena[c]
      BY Zenon, <1>4, <1>6, AfterApart
    <3> QED  BY Zenon, <3>1, <3>2, <3>3 DEF ProcInv
  <2> QED  BY Zenon, <2>1, <2>2
<1>17. \A d \in Cpu : CpuInv(d)'  BY Zenon, <1>14, <1>15
<1> QED  BY Zenon, <1>11, <1>12, <1>16, <1>17 DEF ConsInv

\* The scheduler that resumes a process keeps it: ptable.lock goes to the process.
LEMMA PickStep ==
    ASSUME ConsInv, NEW c \in Cpu, NEW p \in Proc, pick(c, p), UNCHANGED inVars
    PROVE  ConsInv'
<1>0. /\ CodeOK /\ CurInv /\ CpuInv(c) /\ At(c, "pick") /\ state[p] = "RUNNABLE"
      /\ state' = [state EXCEPT ![p] = "RUNNING"] /\ cur' = [cur EXCEPT ![c] = p]
      /\ IF_' = IF_ /\ ncli' = ncli /\ intena' = intena /\ holder' = holder /\ saved' = saved
      /\ code' = code /\ scode' = scode /\ hcode' = hcode
  BY Parts DEF pick, cliVars
<1>1. /\ Head(Thread(c)).op = "pick" /\ Leads(Kind(c), Thread(c), Held(c), Enabled(c))
      /\ ncli[c] = Nest(Held(c)) /\ Enabled(c) \in BOOLEAN /\ (ncli[c] > 0 => ~IF_[c])
  BY Zenon, <1>0, AtLeads, ThreadOK
<1>2. Kind(c) = "scheduler" /\ Held(c) = {ptable} /\ Thread(c) = <<Op("pick")>>
  BY Zenon, <1>1, Executes
<1>3. ~Handling(c) /\ cur[c] = NoProc /\ scode[c] = <<Op("pick")>>
  BY Zenon, <1>2, KindIs
<1>4. /\ state' \in [Proc -> {"RUNNABLE", "RUNNING", "SLEEPING"}] /\ state'[p] = "RUNNING"
      /\ \A q \in Proc : q # p => state'[q] = state[q]
  BY <1>0, Types
<1>5. /\ cur' \in [Cpu -> Proc \cup {NoProc}] /\ cur'[c] = p /\ p # NoProc
      /\ \A d \in Cpu \ {c} : cur'[d] = cur[d]
  BY <1>0, Types, Names
<1>6. \A d \in Cpu : cur[d] # p  BY <1>0, <1>5 DEF CurInv
<1>7. CodeOK'
  <2>1. ConsTypeOK'  BY <1>0, <1>4, <1>5 DEF CodeOK, ConsTypeOK, inVars
  <2> QED  BY Zenon, <1>0, <2>1 DEF CodeOK
<1>8. CurInv'
  <2>1. ASSUME NEW d \in Cpu, cur'[d] # NoProc PROVE state'[cur'[d]] = "RUNNING"
    <3>1. CASE d = c  BY Zenon, <1>4, <1>5, <3>1
    <3>2. CASE d # c
      <4>1. cur'[d] = cur[d] /\ cur[d] \in Proc /\ cur[d] # p
        BY <1>5, <1>6, <2>1, <3>2, Types
      <4> QED  BY <1>0, <1>4, <2>1, <4>1 DEF CurInv
    <3> QED  BY Zenon, <3>1, <3>2
  <2>2. ASSUME NEW q \in Proc, state'[q] = "RUNNING" PROVE \E d \in Cpu : cur'[d] = q
    <3>1. CASE q = p  BY Zenon, <1>5, <3>1
    <3>2. CASE q # p
      <4>1. state[q] = "RUNNING"  BY Zenon, <1>4, <2>2, <3>2
      <4>2. PICK d \in Cpu : cur[d] = q  BY Zenon, <1>0, <4>1 DEF CurInv
      <4>3. d # c  BY <1>3, <4>2, Names
      <4> QED  BY Zenon, <1>5, <4>2, <4>3
    <3> QED  BY Zenon, <3>1, <3>2
  <2>3. ASSUME NEW d \in Cpu, NEW f \in Cpu, cur'[d] = cur'[f], cur'[d] # NoProc PROVE d = f
    <3>1. CASE d = c \/ f = c  BY <1>5, <1>6, <2>3, <3>1
    <3>2. CASE d # c /\ f # c  BY <1>0, <1>5, <2>3, <3>2 DEF CurInv
    <3> QED  BY Zenon, <3>1, <3>2
  <2> QED  BY Zenon, <2>1, <2>2, <2>3 DEF CurInv
<1>9. \A d \in Cpu : Held(d)' = Held(d)  BY Zenon, <1>0 DEF Held
<1>10. ASSUME NEW d \in Cpu \ {c} PROVE CpuInv(d)'
  <2>1. CpuInv(d)  BY Zenon DEF ConsInv
  <2> QED  BY <1>0, <1>5, <1>9, <2>1, CpuFrame
<1>11. CpuInv(c)'
  <2>1. Kind(c)' = "process" /\ Thread(c)' = code[p] /\ ~Handling(c)'
    <3>1. ~Handling(c)' /\ cur'[c] = p /\ code' = code  BY <1>0, <1>3, <1>5 DEF Handling
    <3>2. p # NoProc  BY Zenon, Names
    <3> QED  BY Zenon, <3>1, <3>2 DEF Kind, Thread
  <2>2. Forked(code[p], {ptable}) \/ AfterSleep(code[p]) \/ AfterYield(code[p])
    <3>1. ProcInv(p)  BY Zenon DEF ConsInv
    <3> QED  BY Zenon, <1>0, <3>1 DEF ProcInv
  <2>3. Enabled(c)' \in BOOLEAN  BY <1>0, Types DEF Enabled
  <2>4. ~Spinner(code[p]) /\ (Forked(code[p], {ptable}) => Unspun(code[p]) = code[p])
    <3>1. CASE Forked(code[p], {ptable})
      <4>1. In("process", code[p], {ptable}, Enabled(c)')  BY Zenon, <3>1 DEF In
      <4> QED  BY Zenon, <2>3, <4>1, Plain
    <3>2. CASE AfterSleep(code[p]) \/ AfterYield(code[p])
      <4>1. Head(code[p]) = Op("restore")  BY Zenon, <3>2, AfterCode
      <4>2. Op("restore").op = "restore"  BY Zenon, Fields
      <4>3. ~Spinner(code[p])  BY Zenon, <4>1, <4>2 DEF Spinner
      <4> QED  BY Zenon, <4>3 DEF Spinner, Unspun
    <3> QED  BY Zenon, <2>2, <3>1, <3>2
  <2>5. \/ In(Kind(c)', Unspun(Thread(c)'), Held(c)', Enabled(c)')
        \/ /\ Kind(c)' = "process" /\ Held(c)' = {ptable}
           /\ AfterSleep(Thread(c)') \/ AfterYield(Thread(c)')
    <3>1. CASE Forked(code[p], {ptable})
      <4>1. In("process", code[p], {ptable}, Enabled(c)')  BY Zenon, <3>1 DEF In
      <4> QED  BY <1>2, <1>9, <2>1, <2>4, <3>1, <4>1
    <3>2. CASE AfterSleep(code[p]) \/ AfterYield(code[p])
      BY Zenon, <1>2, <1>9, <2>1, <3>2
    <3> QED  BY Zenon, <2>2, <3>1, <3>2
  <2>7. ~At(c, "spin")'  BY Zenon, <2>1, <2>4 DEF At, Spinner
  <2>8. ncli'[c] = Nest(Held(c)') + IF At(c, "spin")' THEN 1 ELSE 0
    <3>1. Nest(Held(c)') = ncli[c] /\ ncli[c] \in Nat  BY <1>1, <1>9, Types
    <3> QED  BY <1>0, <2>7, <3>1
  <2>9. ncli'[c] > 0 => ~IF_'[c]  BY Zenon, <1>0, <1>1
  <2>10. scode'[c] = <<Op("pick")>>  BY Zenon, <1>0, <1>3
  <2> QED  BY Zenon, <2>1, <2>5, <2>8, <2>9, <2>10 DEF CpuInv
<1>12. ASSUME NEW q \in Proc PROVE ProcInv(q)'
  <2>1. ProcInv(q)  BY Zenon DEF ConsInv
  <2>2. state'[q] # "RUNNING" => state[q] # "RUNNING"  BY <1>4
  <2> QED  BY Zenon, <1>0, <2>1, <2>2 DEF ProcInv
<1>13. \A d \in Cpu : CpuInv(d)'  BY Zenon, <1>10, <1>11
<1> QED  BY Zenon, <1>7, <1>8, <1>12, <1>13 DEF ConsInv

-----------------------------------------------------------------------------
(* The actions of Console                                                  *)

\* A thread goes on to another place where the same locks are held.
LEMMA Stay ==
    ASSUME ConsInv, NEW c \in Cpu, NEW s \in Code, GoOn(c, s),
           UNCHANGED <<cliVars, holder, cur, saved>>,
           state' \in [Proc -> {"RUNNABLE", "RUNNING", "SLEEPING"}],
           \A p \in Proc : state'[p] = "RUNNING" <=> state[p] = "RUNNING",
           In(Kind(c), s, Held(c), Enabled(c)), ncli[c] = Nest(Held(c)), ncli[c] > 0 => ~IF_[c],
           InType'
    PROVE  ConsInv'
<1>0. /\ CodeOK /\ CurInv /\ IF_' = IF_ /\ ncli' = ncli /\ intena' = intena
      /\ holder' = holder /\ cur' = cur /\ saved' = saved
  BY Zenon, Parts DEF cliVars
<1>1. CodeOK'
  <2>1. code' \in [Proc -> Code] /\ scode' \in [Cpu -> Code] /\ hcode' \in [Cpu -> Code]
    BY Zenon, <1>0, GoOnEffect
  <2>2. ConsTypeOK'  BY Zenon, <1>0, Types DEF ConsTypeOK, InType
  <2> QED  BY Zenon, <2>1, <2>2 DEF CodeOK
<1>2. \A d \in Cpu : Held(d)' = Held(d)  BY Zenon, <1>0 DEF Held
<1>3. Enabled(c)' = Enabled(c)  BY Zenon, <1>0 DEF Enabled
<1>4. Enabled(c)' \in BOOLEAN  BY Zenon, <1>0, <1>3, ThreadOK
<1>5. In(Kind(c), s, Held(c)', Enabled(c)')  BY Zenon, <1>2, <1>3
<1>6. ncli'[c] = Nest(Held(c)') /\ (ncli'[c] > 0 => ~IF_'[c])  BY Zenon, <1>0, <1>2
<1> HIDE DEF GoOn
<1> QED  BY Zenon, <1>0, <1>1, <1>2, <1>4, <1>5, <1>6, Go

\* Where c is when it is about to execute an instruction of the console.
LEMMA AtCons ==
    ASSUME ConsInv, NEW c \in Cpu
    PROVE  /\ At(c, "getc") => /\ Kind(c) = "handler" /\ Held(c) = {cons} /\ ~Enabled(c)
                               /\ Thread(c) \in Getting
           /\ At(c, "wakeup") => /\ Kind(c) = "handler" /\ Held(c) = {ptable, cons} /\ ~Enabled(c)
                                 /\ \E g \in Getting : Tail(Thread(c)) = <<Release(ptable)>> \o g
           /\ At(c, "read") => /\ Kind(c) = "process" /\ Held(c) = {cons} /\ Enabled(c)
                               /\ Thread(c) \in Reading
<1>0. CodeOK /\ CpuInv(c)  BY Zenon, Parts
<1>1. Enabled(c) \in BOOLEAN  BY Zenon, <1>0, ThreadOK
<1>2. CASE At(c, "getc")
  <2>1. Head(Thread(c)).op = "getc" /\ Leads(Kind(c), Thread(c), Held(c), Enabled(c))
    BY Zenon, <1>0, <1>2, AtLeads
  <2>2. ~At(c, "wakeup") /\ ~At(c, "read")  BY <2>1 DEF At
  <2>3. /\ Kind(c) = "handler" /\ Held(c) = {cons} /\ ~Enabled(c) /\ Thread(c) \in Getting
    BY <1>1, <2>1, Executes
  <2> QED  BY Zenon, <2>2, <2>3
<1>3. CASE At(c, "wakeup")
  <2>1. Head(Thread(c)).op = "wakeup" /\ Leads(Kind(c), Thread(c), Held(c), Enabled(c))
    BY Zenon, <1>0, <1>3, AtLeads
  <2>2. ~At(c, "getc") /\ ~At(c, "read")  BY <2>1 DEF At
  <2>3. /\ Kind(c) = "handler" /\ Held(c) = {ptable, cons} /\ ~Enabled(c)
        /\ \E g \in Getting : Tail(Thread(c)) = <<Release(ptable)>> \o g
    BY <1>1, <2>1, Executes
  <2> QED  BY Zenon, <2>2, <2>3
<1>4. CASE At(c, "read")
  <2>1. Head(Thread(c)).op = "read" /\ Leads(Kind(c), Thread(c), Held(c), Enabled(c))
    BY Zenon, <1>0, <1>4, AtLeads
  <2>2. ~At(c, "getc") /\ ~At(c, "wakeup")  BY <2>1 DEF At
  <2>3. /\ Kind(c) = "process" /\ Held(c) = {cons} /\ Enabled(c) /\ Thread(c) \in Reading
    BY <1>1, <2>1, Executes
  <2> QED  BY Zenon, <2>2, <2>3
<1> QED  BY Zenon, <1>2, <1>3, <1>4

\* In the console code ncli counts the locks held.
LEMMA AtCount ==
    ASSUME ConsInv, NEW c \in Cpu, At(c, "getc") \/ At(c, "wakeup") \/ At(c, "read")
    PROVE  ncli[c] = Nest(Held(c)) /\ (ncli[c] > 0 => ~IF_[c])
<1>0. CodeOK /\ CpuInv(c)  BY Zenon, Parts
<1> QED  BY Zenon, <1>0, AtLeads

\* The same turn of the loop, after wakeup() or for the next key.
LEMMA GettingIn ==
    ASSUME NEW g \in Getting
    PROVE  /\ g \in Code /\ In("handler", g, {cons}, FALSE)
           /\ wakeup \o g \in Code /\ In("handler", wakeup \o g, {cons}, FALSE)
           /\ <<Release(ptable)>> \o g \in Code
           /\ In("handler", <<Release(ptable)>> \o g, {ptable, cons}, FALSE)
           /\ Tail(g) \in Code /\ In("handler", Tail(g), {cons}, FALSE)
           /\ <<Op("getc")>> \o procdump \in Getting
<1>1. g \in Code /\ wakeup \o g \in Code /\ <<Release(ptable)>> \o g \in Code
  BY Zenon, GettingCodes DEF Is
<1>2. InHandler(g, {cons}) /\ InHandler(wakeup \o g, {cons})  BY Zenon DEF InHandler
<1>3. InHandler(<<Release(ptable)>> \o g, {ptable, cons})  BY Zenon DEF InHandler
<1>4. Tail(g) = <<Release(cons), Op("iret")>> \/ Tail(g) = procdump  BY Zenon, GettingCodes
<1>5. InHandler(Tail(g), {cons})  BY Zenon, <1>4 DEF InHandler
<1>6. Tail(g) \in Code  BY Zenon, <1>4, Codes DEF Is
<1>7. <<Op("getc")>> \o procdump \in Getting  BY Zenon DEF Getting
<1> QED  BY Zenon, <1>1, <1>2, <1>3, <1>5, <1>6, <1>7 DEF In

\* A key keeps the invariant, whatever the key.
LEMMA GetcStep ==
    ASSUME ConsInv, NEW c \in Cpu, NEW k, getc(c, k), InType'
    PROVE  ConsInv'
<1>1. /\ At(c, "getc") /\ UNCHANGED <<cliVars, holder, cur, saved>> /\ state' = state
  BY DEF getc
<1>2. \E s \in {wakeup \o Thread(c), <<Op("getc")>> \o procdump, Thread(c)} : GoOn(c, s)
  BY DEF getc
<1>3. /\ Kind(c) = "handler" /\ Held(c) = {cons} /\ Enabled(c) = FALSE /\ Thread(c) \in Getting
  <2>1. Enabled(c) \in BOOLEAN  BY Zenon, Parts, ThreadOK
  <2> QED  BY <1>1, <2>1, AtCons
<1>4. PICK s \in {wakeup \o Thread(c), <<Op("getc")>> \o procdump, Thread(c)} : GoOn(c, s)
  BY Zenon, <1>2
<1> HIDE DEF GoOn
<1>5. s \in Code /\ In(Kind(c), s, Held(c), Enabled(c))  BY Zenon, <1>3, <1>4, GettingIn
<1>6. state' \in [Proc -> {"RUNNABLE", "RUNNING", "SLEEPING"}]  BY Zenon, <1>1, Types
<1> QED  BY Zenon, <1>1, <1>4, <1>5, <1>6, AtCount, Stay

\* So does the end of the keys.
LEMMA GetcNoneStep ==
    ASSUME ConsInv, NEW c \in Cpu, getcNone(c)
    PROVE  ConsInv'
<1>1. /\ At(c, "getc") /\ UNCHANGED <<cliVars, holder, cur, saved>> /\ state' = state
      /\ UNCHANGED inVars /\ GoOn(c, Tail(Thread(c)))
  BY DEF getcNone
<1>3. /\ Kind(c) = "handler" /\ Held(c) = {cons} /\ Enabled(c) = FALSE /\ Thread(c) \in Getting
  <2>1. Enabled(c) \in BOOLEAN  BY Zenon, Parts, ThreadOK
  <2> QED  BY <1>1, <2>1, AtCons
<1> HIDE DEF GoOn
<1>5. Tail(Thread(c)) \in Code /\ In(Kind(c), Tail(Thread(c)), Held(c), Enabled(c))
  BY Zenon, <1>3, GettingIn
<1>6. state' \in [Proc -> {"RUNNABLE", "RUNNING", "SLEEPING"}]  BY Zenon, <1>1, Types
<1>7. InType'  BY Zenon, <1>1, Parts DEF CodeOK, ConsTypeOK, InType, inVars
<1> QED  BY Zenon, <1>1, <1>5, <1>6, <1>7, AtCount, Stay

\* wakeup() keeps it.
LEMMA WakeStep ==
    ASSUME ConsInv, NEW c \in Cpu, wake(c)
    PROVE  ConsInv'
<1>1. /\ At(c, "wakeup") /\ UNCHANGED <<cliVars, holder, cur, saved>>
      /\ UNCHANGED inVars /\ GoOn(c, Tail(Thread(c)))
  BY DEF wake
<1>2. PICK g \in Getting : Tail(Thread(c)) = <<Release(ptable)>> \o g
  BY Zenon, <1>1, AtCons
<1>3. Kind(c) = "handler" /\ Held(c) = {ptable, cons} /\ Enabled(c) = FALSE
  <2>1. Enabled(c) \in BOOLEAN  BY Zenon, Parts, ThreadOK
  <2> QED  BY <1>1, <2>1, AtCons
<1>4. Tail(Thread(c)) \in Code /\ In(Kind(c), Tail(Thread(c)), Held(c), Enabled(c))
  BY Zenon, <1>2, <1>3, GettingIn
<1>5. /\ state' \in [Proc -> {"RUNNABLE", "RUNNING", "SLEEPING"}]
      /\ \A p \in Proc : state'[p] = "RUNNING" <=> state[p] = "RUNNING"
  BY Types DEF wake
<1>7. InType'  BY Zenon, <1>1, Parts DEF CodeOK, ConsTypeOK, InType, inVars
<1> HIDE DEF GoOn
<1> QED  BY Zenon, <1>1, <1>4, <1>5, <1>7, AtCount, Stay

\* One instruction before two.
LEMMA Join3 ==
    ASSUME NEW a \in Instr, NEW b \in Instr, NEW d \in Instr
    PROVE  <<a>> \o <<b, d>> = <<a, b, d>>
<1>1. /\ <<a>> \o <<b, d>> \in Seq(Instr) /\ <<a, b, d>> \in Seq(Instr)
      /\ Len(<<a>> \o <<b, d>>) = 3 /\ Len(<<a, b, d>>) = 3
  OBVIOUS
<1>2. \A i \in 1..3 : (<<a>> \o <<b, d>>)[i] = <<a, b, d>>[i]  OBVIOUS
<1> QED  BY Zenon, <1>1, <1>2, Pointwise

\* One before three.
LEMMA Join4 ==
    ASSUME NEW a \in Instr, NEW b \in Instr, NEW d \in Instr, NEW f \in Instr
    PROVE  <<a>> \o <<b, d, f>> = <<a, b, d, f>>
<1>1. /\ <<a>> \o <<b, d, f>> \in Seq(Instr) /\ <<a, b, d, f>> \in Seq(Instr)
      /\ Len(<<a>> \o <<b, d, f>>) = 4 /\ Len(<<a, b, d, f>>) = 4
  OBVIOUS
<1>2. \A i \in 1..4 : (<<a>> \o <<b, d, f>>)[i] = <<a, b, d, f>>[i]  OBVIOUS
<1> QED  BY Zenon, <1>1, <1>2, Pointwise

\* consoleread() may be left with any number of characters to read.
LEMMA ReadingHas ==
    \A n \in Nat \ {0}, f \in BOOLEAN : <<Read(n, f), Release(cons), Op("sysret")>> \in Reading
  BY DEF Reading

\* Where consoleread() may go on.
LEMMA ReadingIn ==
    ASSUME NEW rd \in Reading
    PROVE  /\ rd # <<>> /\ Tail(rd) \in Code /\ In("process", Tail(rd), {cons}, TRUE)
           /\ sleep \o rd \in Code /\ In("process", sleep \o rd, {cons}, TRUE)
           /\ Head(rd).n \in Nat \ {0}
           /\ \A n \in Nat \ {0} : /\ <<Read(n, FALSE)>> \o Tail(rd) \in Code
                                   /\ In("process", <<Read(n, FALSE)>> \o Tail(rd), {cons}, TRUE)
<1>1. PICK m \in Nat \ {0}, f \in BOOLEAN : Is(rd, Read(m, f), <<Release(cons), Op("sysret")>>)
  BY Zenon, ReadingCodes
<1>2. /\ rd # <<>> /\ Tail(rd) = <<Release(cons), Op("sysret")>> /\ Tail(rd) \in Code
  BY Zenon, <1>1, Codes DEF Is
<1>3. InCall(Tail(rd), {cons}) /\ InCall(sleep \o rd, {cons})  BY Zenon, <1>2, InCalls
<1>4. sleep \o rd \in Code  BY Zenon, ReadingCodes DEF Is
<1>5. Head(rd).n = m  BY <1>1, Fields DEF Is
<1>6. ASSUME NEW n \in Nat \ {0}
      PROVE  /\ <<Read(n, FALSE)>> \o Tail(rd) \in Code
             /\ InCall(<<Read(n, FALSE)>> \o Tail(rd), {cons})
  <2>1. <<Read(n, FALSE)>> \o Tail(rd) \in Code
    <3>1. Read(n, FALSE) \in Instr  BY Zenon, Instrs
    <3> QED  BY Zenon, <1>2, <3>1, Begin1 DEF Is
  <2>2. <<Read(n, FALSE)>> \o Tail(rd) = <<Read(n, FALSE), Release(cons), Op("sysret")>>
    <3>1. Read(n, FALSE) \in Instr /\ Release(cons) \in Instr /\ Op("sysret") \in Instr
      BY Zenon, Instrs, KeyInstrs
    <3> QED  BY Zenon, <1>2, <3>1, Join3
  <2>3. <<Read(n, FALSE), Release(cons), Op("sysret")>> \in Reading
    <3>1. FALSE \in BOOLEAN  OBVIOUS
    <3> QED  BY Zenon, <3>1, ReadingHas
  <2> QED  BY Zenon, <2>1, <2>2, <2>3, InCalls
<1>7. \A s : InCall(s, {cons}) => In("process", s, {cons}, TRUE)  BY Zenon DEF In
<1> QED  BY Zenon, <1>1, <1>2, <1>3, <1>4, <1>5, <1>6, <1>7

\* consoleread() that finds no line keeps the invariant.
LEMMA ReadEmptyStep ==
    ASSUME ConsInv, NEW c \in Cpu, readEmpty(c)
    PROVE  ConsInv'
<1>1. /\ At(c, "read") /\ UNCHANGED <<cliVars, holder, cur, saved>> /\ state' = state
      /\ UNCHANGED inVars
  BY DEF readEmpty
<1>2. PICK s \in {sleep \o Thread(c), Tail(Thread(c))} : GoOn(c, s)  BY Zenon DEF readEmpty
<1>3. Kind(c) = "process" /\ Held(c) = {cons} /\ Enabled(c) = TRUE /\ Thread(c) \in Reading
  <2>1. Enabled(c) \in BOOLEAN  BY Zenon, Parts, ThreadOK
  <2> QED  BY <1>1, <2>1, AtCons
<1>4. s \in Code /\ In(Kind(c), s, Held(c), Enabled(c))  BY Zenon, <1>2, <1>3, ReadingIn
<1>5. state' \in [Proc -> {"RUNNABLE", "RUNNING", "SLEEPING"}]  BY Zenon, <1>1, Types
<1>6. InType'  BY Zenon, <1>1, Parts DEF CodeOK, ConsTypeOK, InType, inVars
<1> HIDE DEF GoOn
<1> QED  BY Zenon, <1>1, <1>2, <1>4, <1>5, <1>6, AtCount, Stay

\* consoleread() that takes a character keeps it.
LEMMA ReadCharStep ==
    ASSUME ConsInv, NEW c \in Cpu, readChar(c), InType'
    PROVE  ConsInv'
<1> DEFINE n == Head(Thread(c)).n
<1>1. /\ At(c, "read") /\ UNCHANGED <<cliVars, holder, cur, saved>> /\ state' = state
  BY DEF readChar
<1>3. Kind(c) = "process" /\ Held(c) = {cons} /\ Enabled(c) = TRUE /\ Thread(c) \in Reading
  <2>1. Enabled(c) \in BOOLEAN  BY Zenon, Parts, ThreadOK
  <2> QED  BY <1>1, <2>1, AtCons
<1>4. n \in Nat \ {0}  BY Zenon, <1>3, ReadingIn
<1>5. PICK s : /\ GoOn(c, s)
               /\ \/ s = Tail(Thread(c))
                  \/ n # 1 /\ s = <<Read(n - 1, FALSE)>> \o Tail(Thread(c))
  <2> DEFINE done == n = 1 \/ inbuf[r % INPUT_BUF] # "x"
  <2>1. GoOn(c, IF done THEN Tail(Thread(c)) ELSE <<Read(n - 1, FALSE)>> \o Tail(Thread(c)))
    BY DEF readChar
  <2> HIDE DEF GoOn
  <2> QED  BY Zenon, <2>1
<1>6. n # 1 => n - 1 \in Nat \ {0}  BY <1>4
<1> HIDE DEF n
<1>7. s \in Code /\ In(Kind(c), s, Held(c), Enabled(c))  BY Zenon, <1>3, <1>5, <1>6, ReadingIn
<1>8. state' \in [Proc -> {"RUNNABLE", "RUNNING", "SLEEPING"}]  BY Zenon, <1>1, Types
<1> HIDE DEF GoOn
<1> QED  BY Zenon, <1>1, <1>5, <1>7, <1>8, AtCount, Stay

\* The calls begin without a lock.
LEMMA BodiesIn ==
    ASSUME NEW body \in Bodies
    PROVE  body \in Code /\ InCall(body, {})
<1>1. CASE body = consolewrite \/ body = getpinfo
  BY Zenon, <1>1, InCalls, Codes, CallCodes DEF Is
<1>2. CASE \E n \in ReadArgs : body = consoleread(n)
  <2>1. PICK n \in ReadArgs : body = consoleread(n)  BY Zenon, <1>2
  <2>2. n \in Nat \ {0}  BY Zenon, ConsoleAssumption
  <2> DEFINE rd == <<Read(n, TRUE), Release(cons), Op("sysret")>>
  <2>3. rd \in Reading
    <3>1. TRUE \in BOOLEAN  OBVIOUS
    <3> QED  BY Zenon, <2>2, <3>1, ReadingHas
  <2>4. <<Acquire(cons)>> \o rd = consoleread(n)
    <3>1. /\ Acquire(cons) \in Instr /\ Read(n, TRUE) \in Instr /\ Release(cons) \in Instr
          /\ Op("sysret") \in Instr
      BY Zenon, <2>2, Instrs, KeyInstrs
    <3> QED  BY Zenon, <3>1, Join4 DEF consoleread
  <2> HIDE DEF rd
  <2> QED  BY Zenon, <2>1, <2>3, <2>4, InCalls, ReadingCodes DEF Is
<1> QED  BY Zenon, <1>1, <1>2 DEF Bodies

\* A system call begins where the invariant allows it.
LEMMA SyscallStep ==
    ASSUME ConsInv, NEW c \in Cpu, NEW body \in Bodies, syscall(c, body)
    PROVE  ConsInv'
<1>1. /\ cur[c] # NoProc /\ ~Handling(c) /\ code[cur[c]] = <<>>
      /\ code' = [code EXCEPT ![cur[c]] = body]
      /\ UNCHANGED <<cliVars, holder, cur, saved>> /\ state' = state
      /\ UNCHANGED inVars /\ scode' = scode /\ hcode' = hcode
  BY DEF syscall
<1>2. GoOn(c, body)  BY Zenon, <1>1 DEF GoOn
<1>3. Kind(c) = "process" /\ Thread(c) = <<>>  BY <1>1 DEF Kind, Thread
<1>4. CodeOK /\ CpuInv(c)  BY Zenon, Parts
<1>5. Enabled(c) \in BOOLEAN /\ Held(c) \subseteq Lock  BY Zenon, <1>4, ThreadOK
<1>6. In("process", <<>>, Held(c), Enabled(c))
  <2>1. ~AfterSleep(Thread(c)) /\ ~AfterYield(Thread(c))  BY Zenon, <1>3, AfterCode
  <2>2. Unspun(Thread(c)) = <<>>  BY Zenon, <1>3 DEF Unspun
  <2> QED  BY Zenon, <1>3, <1>4, <2>1, <2>2 DEF CpuInv
<1>7. InCall(<<>>, Held(c)) /\ Enabled(c) = TRUE
  <2>1. ~InYield(<<>>, Held(c))  BY Zenon, YieldCode
  <2>2. ~Forked(<<>>, Held(c))  BY Zenon, Codes DEF Forked, Is
  <2>3. InCall(<<>>, Held(c)) /\ Enabled(c)  BY <1>6, <2>1, <2>2 DEF In
  <2> QED  BY <1>5, <2>3
<1>8. Held(c) = {}
  <2>1. ASSUME NEW rd \in Reading
        PROVE  /\ <<>> # rd /\ <<>> # sleep \o rd
               /\ <<>> # <<Op("SLEEPING"), Op("restore"), Release(ptable), Acquire(cons)>> \o rd
               /\ <<>> # <<Release(ptable), Acquire(cons)>> \o rd
               /\ <<>> # <<Release(cons), Op("SLEEPING"), Op("restore"), Release(ptable),
                           Acquire(cons)>> \o rd
    BY Zenon, ReadingCodes DEF Is
  <2>2. /\ <<>> # <<Release(cons), Op("sysret")>> /\ <<>> # getpinfoPrints
        /\ <<>> # <<Release(ptable), Acquire(ptable)>> \o getpinfoPrints
        /\ <<>> # <<Release(ptable), Op("sysret")>>
        /\ <<>> # <<Release(cons), Release(ptable), Op("sysret")>>
    BY Zenon, Codes, CallCodes DEF Is
  <2> QED  BY Zenon, <1>7, <2>1, <2>2 DEF InCall
<1>9. body \in Code /\ In(Kind(c), body, Held(c), Enabled(c))
  <2>1. In("process", body, {}, TRUE)  BY Zenon, BodiesIn DEF In
  <2> QED  BY Zenon, <1>3, <1>7, <1>8, <2>1, BodiesIn
<1>10. ncli[c] = Nest(Held(c)) /\ (ncli[c] > 0 => ~IF_[c])
  <2>1. ~At(c, "spin")  BY <1>3 DEF At
  <2>2. Nest(Held(c)) = 0  BY Zenon, <1>8 DEF Nest
  <2>3. ncli[c] = Nest(Held(c)) + 0 /\ (ncli[c] > 0 => ~IF_[c])  BY Zenon, <1>4, <2>1 DEF CpuInv
  <2> QED  BY <2>2, <2>3
<1>11. state' \in [Proc -> {"RUNNABLE", "RUNNING", "SLEEPING"}]  BY Zenon, <1>1, Types
<1>12. InType'  BY Zenon, <1>1, Parts DEF CodeOK, ConsTypeOK, InType, inVars
<1> HIDE DEF GoOn
<1> QED  BY Zenon, <1>1, <1>2, <1>9, <1>10, <1>11, <1>12, Stay

-----------------------------------------------------------------------------
(* Sleeping and waking up                                                  *)

Pending == \E c \in Cpu : HasOp(hcode[c], "wakeup")
Sleepy(p) == state[p] = "SLEEPING" \/ HasOp(code[p], "SLEEPING")

\* With a line in the buffer, wakeup() is going to be called or nobody sleeps
\* or is about to.
SleepInv == r # w => Pending \/ \A p \in Proc : ~Sleepy(p)

\* A step that makes nobody sleep and leaves wakeup() to be called keeps SleepInv.
LEMMA SleepGoOn ==
    ASSUME ConsInv, SleepInv, NEW c \in Cpu, NEW s \in Code, GoOn(c, s),
           \A p \in Proc : state'[p] = "SLEEPING" => Sleepy(p),
           Kind(c) = "process" => (HasOp(s, "SLEEPING") => HasOp(Thread(c), "SLEEPING")),
           Kind(c) = "handler" => (HasOp(Thread(c), "wakeup") => HasOp(s, "wakeup")),
           r' # w' => r # w
    PROVE  SleepInv'
<1>0. CodeOK /\ CurInv  BY Zenon, Parts
<1>1. /\ \A d \in Cpu \ {c} : hcode'[d] = hcode[d]
      /\ \A p \in Proc : code'[p] # code[p] => Kind(c) = "process" /\ p = cur[c] /\ code'[p] = s
      /\ Kind(c) = "handler" => hcode'[c] = s
      /\ Kind(c) # "handler" => hcode' = hcode
  BY Zenon, <1>0, GoOnEffect, KindIs
<1>2. Pending => Pending'
  <2>1. SUFFICES ASSUME NEW d \in Cpu, HasOp(hcode[d], "wakeup") PROVE HasOp(hcode'[d], "wakeup")
    BY Zenon DEF Pending
  <2>2. CASE hcode'[d] = hcode[d]  BY Zenon, <2>1, <2>2
  <2>3. CASE d = c /\ Kind(c) = "handler"
    <3>1. Thread(c) = hcode[c]  BY Zenon, <2>3, KindIs
    <3> QED  BY Zenon, <1>1, <2>1, <2>3, <3>1
  <2> QED  BY Zenon, <1>1, <2>2, <2>3
<1>3. ASSUME NEW p \in Proc, Sleepy(p)' PROVE Sleepy(p)
  <2>1. CASE state'[p] = "SLEEPING"  BY Zenon, <2>1
  <2>2. CASE HasOp(code'[p], "SLEEPING") /\ code'[p] = code[p]  BY Zenon, <2>2 DEF Sleepy
  <2>3. CASE HasOp(code'[p], "SLEEPING") /\ code'[p] # code[p]
    <3>1. Kind(c) = "process" /\ p = cur[c] /\ code'[p] = s  BY Zenon, <1>1, <2>3
    <3>2. Thread(c) = code[p]  BY Zenon, <3>1, KindIs
    <3> QED  BY Zenon, <2>3, <3>1, <3>2 DEF Sleepy
  <2> QED  BY Zenon, <1>3, <2>1, <2>2, <2>3 DEF Sleepy
<1> QED  BY Zenon, <1>2, <1>3 DEF SleepInv

\* The operations that are left after the next one.
LEMMA AtHas ==
    ASSUME ConsInv, NEW c \in Cpu, NEW op, At(c, op), op # "wakeup"
    PROVE  /\ Tail(Thread(c)) \in Code /\ Thread(c) # <<>> /\ Head(Thread(c)).op = op
           /\ HasOp(Tail(Thread(c)), "SLEEPING") => HasOp(Thread(c), "SLEEPING")
           /\ HasOp(Thread(c), "wakeup") => HasOp(Tail(Thread(c)), "wakeup")
           /\ op = "SLEEPING" => HasOp(Thread(c), "SLEEPING")
<1>1. Thread(c) \in Code /\ Thread(c) # <<>> /\ Head(Thread(c)).op = op
  BY Zenon, Parts, ThreadOK DEF At
<1>2. Is(Thread(c), Head(Thread(c)), Tail(Thread(c)))  BY Zenon, <1>1 DEF Is
<1>3. Tail(Thread(c)) \in Code  BY <1>1 DEF Code
<1> QED  BY Zenon, <1>1, <1>2, <1>3, Has

\* A thread that goes on to its next instruction, when this is not wakeup().
LEMMA SleepTail ==
    ASSUME ConsInv, SleepInv, NEW c \in Cpu, NEW op, At(c, op), op # "wakeup",
           GoOn(c, Tail(Thread(c))), \A p \in Proc : state'[p] = "SLEEPING" => Sleepy(p),
           UNCHANGED inVars
    PROVE  SleepInv'
<1>1. r' # w' => r # w  BY DEF inVars
<1> HIDE DEF GoOn
<1> QED  BY Zenon, <1>1, AtHas, SleepGoOn

\* The locks, the switches and the timer keep SleepInv.
LEMMA SleepSpin ==
    ASSUME ConsInv, SleepInv, NEW c \in Cpu, SpinStep(c), UNCHANGED inVars
    PROVE  SleepInv'
<1> USE DEF Sleepy
<1>1. CASE acquire(c)
  <2> DEFINE l == Head(Thread(c)).lock
  <2>1. At(c, "acquire") /\ state' = state  BY <1>1 DEF acquire
  <2>2. GoOn(c, Tail(Thread(c))) \/ GoOn(c, <<Spin(l)>> \o Tail(Thread(c)))
    BY Zenon, <1>1 DEF acquire
  <2>3. CASE GoOn(c, Tail(Thread(c)))  BY Zenon, <2>1, <2>3, SleepTail
  <2>4. CASE GoOn(c, <<Spin(l)>> \o Tail(Thread(c)))
    <3> DEFINE s == <<Spin(l)>> \o Tail(Thread(c))
    <3>1. Tail(Thread(c)) \in Code /\ Thread(c) # <<>> /\ Head(Thread(c)).op = "acquire"
      BY Zenon, <2>1, AtHas
    <3>2. l \in Lock
      <4>1. Leads(Kind(c), Thread(c), Held(c), Enabled(c)) /\ Enabled(c) \in BOOLEAN
        BY Zenon, <2>1, Parts, AtLeads, ThreadOK
      <4>2. Acquires(Kind(c), Thread(c), Held(c), Enabled(c))  BY Zenon, <3>1, <4>1, Executes
      <4> QED  BY <4>2, Fields DEF Acquires
    <3> HIDE DEF l
    <3>3. Is(s, Spin(l), Tail(Thread(c)))  BY Zenon, <3>1, <3>2, Instrs, Begin1
    <3>4. s \in Code  BY Zenon, <3>3 DEF Is
    <3>5. Spin(l).op # "SLEEPING" /\ Spin(l).op # "wakeup"  BY Fields
    <3>6. /\ HasOp(s, "SLEEPING") => HasOp(Tail(Thread(c)), "SLEEPING")
          /\ HasOp(Tail(Thread(c)), "wakeup") => HasOp(s, "wakeup")
      BY Zenon, <3>3, <3>5, Has
    <3> HIDE DEF s, GoOn
    <3>7. /\ HasOp(s, "SLEEPING") => HasOp(Thread(c), "SLEEPING")
          /\ HasOp(Thread(c), "wakeup") => HasOp(s, "wakeup")
      BY <2>1, <3>6, AtHas
    <3>8. r' = r /\ w' = w  BY DEF inVars
    <3> QED  BY Zenon, <2>1, <2>4, <3>4, <3>7, <3>8, SleepGoOn DEF s
  <2> QED  BY Zenon, <2>2, <2>3, <2>4
<1>2. CASE xchg(c)
  <2>1. At(c, "spin") /\ state' = state /\ GoOn(c, Tail(Thread(c)))  BY <1>2 DEF xchg
  <2> QED  BY Zenon, <2>1, SleepTail
<1>3. CASE release(c)
  <2>1. At(c, "release") /\ state' = state /\ GoOn(c, Tail(Thread(c)))  BY <1>3 DEF release
  <2> QED  BY Zenon, <2>1, SleepTail
<1>4. CASE sched(c)
  <2>1. /\ cur[c] # NoProc /\ ~Handling(c) /\ GoOn(c, Tail(code[cur[c]]))
        /\ state' = [state EXCEPT ![cur[c]] = Head(code[cur[c]]).op]
    BY <1>4 DEF sched
  <2>2. Thread(c) = code[cur[c]]  BY Zenon, <2>1 DEF Thread
  <2>3. PICK op \in {"RUNNABLE", "SLEEPING"} : At(c, op)  BY Zenon, <1>4 DEF sched
  <2>4. op # "wakeup"  BY <2>3
  <2>5. /\ Head(code[cur[c]]).op = op /\ (op = "SLEEPING" => HasOp(code[cur[c]], "SLEEPING"))
    BY Zenon, <2>2, <2>3, <2>4, AtHas
  <2>6. \A p \in Proc : state'[p] = "SLEEPING" => Sleepy(p)  BY Zenon, <2>1, <2>5, Types
  <2>7. GoOn(c, Tail(Thread(c)))  BY Zenon, <2>1, <2>2
  <2> HIDE DEF GoOn, Sleepy
  <2> QED  BY Zenon, <2>3, <2>4, <2>6, <2>7, SleepTail
<1>5. CASE restore(c)
  <2>1. At(c, "restore") /\ state' = state /\ GoOn(c, Tail(Thread(c)))  BY <1>5 DEF restore
  <2> QED  BY Zenon, <2>1, SleepTail
<1>6. CASE iret(c)
  <2>1. state' = state /\ GoOn(c, Tail(Thread(c)))  BY <1>6 DEF iret
  <2>2. PICK op \in {"iret", "sysret"} : At(c, op)  BY Zenon, <1>6 DEF iret
  <2>3. op # "wakeup"  BY <2>2
  <2> QED  BY Zenon, <2>1, <2>2, <2>3, SleepTail
<1>7. CASE pickNone(c)
  <2>1. At(c, "pick") /\ state' = state /\ GoOn(c, SchedLoop)  BY <1>7 DEF pickNone
  <2>2. Kind(c) = "scheduler"
    <3>1. /\ Head(Thread(c)).op = "pick" /\ Leads(Kind(c), Thread(c), Held(c), Enabled(c))
          /\ Enabled(c) \in BOOLEAN
      BY Zenon, <2>1, Parts, AtLeads, ThreadOK
    <3> QED  BY <3>1, Executes
  <2>3. SchedLoop \in Code  BY Zenon, Codes DEF Is
  <2>4. r' = r /\ w' = w  BY DEF inVars
  <2>5. Kind(c) # "process" /\ Kind(c) # "handler"  BY <2>2
  <2> HIDE DEF GoOn
  <2> QED  BY Zenon, <2>1, <2>3, <2>4, <2>5, SleepGoOn
<1>8. CASE timer(c)
  <2> DEFINE s == (yield \o <<Op("iret")>>) \o code[cur[c]]
  <2>1. /\ IF_[c] /\ ~Handling(c) /\ cur[c] # NoProc /\ state' = state
        /\ code' = [code EXCEPT ![cur[c]] = s] /\ scode' = scode /\ hcode' = hcode
    BY <1>8 DEF timer
  <2>2. GoOn(c, s)  BY Zenon, <2>1 DEF GoOn
  <2>3. code[cur[c]] \in Cut /\ Kind(c) = "process"  BY Zenon, <2>1, Parts, Interruptible
  <2>4. s \in Code  BY Zenon, <2>3, CutCodes DEF Is
  <2>5. ~HasOp(s, "SLEEPING")
    <3>1. InYield(s, {})  BY Zenon, <2>3 DEF InYield
    <3> QED  BY Zenon, <3>1, Awake DEF Lacks
  <2>6. r' = r /\ w' = w  BY DEF inVars
  <2>7. Kind(c) # "handler"  BY <2>3
  <2> HIDE DEF s, GoOn
  <2> QED  BY Zenon, <2>1, <2>2, <2>4, <2>5, <2>6, <2>7, SleepGoOn
<1>9. ASSUME NEW p \in Proc, pick(c, p) PROVE SleepInv'
  <2>1. code' = code /\ hcode' = hcode /\ state' = [state EXCEPT ![p] = "RUNNING"]  BY <1>9 DEF pick
  <2>2. \A q \in Proc : state'[q] = "SLEEPING" => state[q] = "SLEEPING"  BY <2>1, Types
  <2>3. r' = r /\ w' = w  BY DEF inVars
  <2>4. Pending => Pending'  BY Zenon, <2>1 DEF Pending
  <2>5. \A q \in Proc : Sleepy(q)' => Sleepy(q)  BY Zenon, <2>1, <2>2 DEF Sleepy
  <2> QED  BY Zenon, <2>3, <2>4, <2>5 DEF SleepInv
<1> QED  BY Zenon, <1>1, <1>2, <1>3, <1>4, <1>5, <1>6, <1>7, <1>8, <1>9 DEF SpinStep

\* The steps of the console.
LEMMA SleepGetc ==
    ASSUME ConsInv, SleepInv, NEW c \in Cpu, NEW k, getc(c, k)
    PROVE  SleepInv'
<1> DEFINE line == /\ k \in {"x", "newline", "eof"} /\ Minus(e, r) < INPUT_BUF
                   /\ k # "x" \/ Minus(e + 1, r) = INPUT_BUF
<1>1. /\ At(c, "getc") /\ state' = state /\ r' = r
      /\ w' = IF line THEN (e + 1) % WORD ELSE w
      /\ GoOn(c, CASE line -> wakeup \o Thread(c)
                   [] k = "listing" -> <<Op("getc")>> \o procdump
                   [] OTHER -> Thread(c))
  BY DEF getc
<1>2. line => k # "listing"  OBVIOUS
<1>3. Kind(c) = "handler" /\ Thread(c) \in Getting  BY <1>1, AtCons
<1> HIDE DEF line
<1>4. CASE line
  <2>1. GoOn(c, wakeup \o Thread(c))  BY <1>1, <1>2, <1>4
  <2>2. wakeup \o Thread(c) \in Code  BY Zenon, <1>3, GettingIn
  <2>3. hcode'[c] = wakeup \o Thread(c)
    <3> HIDE DEF GoOn
    <3> QED  BY Zenon, <1>3, <2>1, <2>2, GoOnEffect, Parts
  <2>4. Pending'  BY Zenon, <1>3, <2>3, Quiet DEF Pending
  <2> QED  BY Zenon, <2>4 DEF SleepInv
<1>5. CASE ~line
  <2>1. GoOn(c, <<Op("getc")>> \o procdump) \/ GoOn(c, Thread(c))  BY <1>1, <1>5
  <2>2. PICK s \in Getting : GoOn(c, s)  BY Zenon, <1>3, <2>1, GettingIn
  <2>3. s \in Code  BY Zenon, GettingIn
  <2>4. ~HasOp(Thread(c), "wakeup")  BY Zenon, <1>3, Quiet
  <2>5. r' = r /\ w' = w  BY Zenon, <1>1, <1>5
  <2>6. \A p \in Proc : state'[p] = "SLEEPING" => Sleepy(p)  BY Zenon, <1>1 DEF Sleepy
  <2>7. Kind(c) # "process"  BY <1>3
  <2> HIDE DEF GoOn
  <2> QED  BY Zenon, <2>2, <2>3, <2>4, <2>5, <2>6, <2>7, SleepGoOn
<1> QED  BY Zenon, <1>4, <1>5

\* wakeup() is called with both locks held, so nobody is about to sleep.
LEMMA SleepWake ==
    ASSUME ConsInv, NEW c \in Cpu, wake(c)
    PROVE  SleepInv'
<1>1. Kind(c) = "handler" /\ Held(c) = {ptable, cons} /\ At(c, "wakeup")
  BY Zenon, AtCons DEF wake
<1>2. GoOn(c, Tail(Thread(c)))  BY DEF wake
<1>3. code' = code
  <2>1. Handling(c)  BY Zenon, <1>1, KindIs
  <2> QED  BY <1>2, <2>1 DEF GoOn
<1>4. ASSUME NEW d \in Cpu, cur[d] # NoProc PROVE Lacks(code[cur[d]])
  <2>1. CpuInv(d) /\ CodeOK  BY Zenon, Parts
  <2>2. CASE Handling(d)
    <3>1. code[cur[d]] \in Cut  BY Zenon, <1>4, <2>1, <2>2 DEF CpuInv
    <3> QED  BY Zenon, <3>1, Awake
  <2>3. CASE ~Handling(d)
    <3>1. Kind(d) = "process" /\ Thread(d) = code[cur[d]]  BY <1>4, <2>3 DEF Kind, Thread
    <3>2. Held(d) = {}
      <4>1. d # c  BY <1>1, <3>1
      <4>2. \A l \in Lock : l \in Held(c)  BY Zenon, <1>1, Names
      <4> QED  BY <4>1, <4>2 DEF Held
    <3>3. In("process", Unspun(Thread(d)), {}, Enabled(d))
      <4>1. Held(d) # {ptable}  BY Zenon, <3>2, Sets
      <4> QED  BY Zenon, <2>1, <3>1, <3>2, <4>1 DEF CpuInv
    <3>4. Lacks(Unspun(Thread(d)))
      <4>1. \/ InCall(Unspun(Thread(d)), {}) \/ InYield(Unspun(Thread(d)), {})
            \/ Forked(Unspun(Thread(d)), {})
        BY <3>3 DEF In
      <4> QED  BY Zenon, <4>1, Awake
    <3>5. CASE Spinner(Thread(d))
      <4>1. Thread(d) \in Code  BY Zenon, <2>1, ThreadOK
      <4>2. PICK l \in Lock : Head(Thread(d)) = Spin(l) /\ Is(Unspun(Thread(d)), Acquire(l), Tail(Thread(d)))
        BY Zenon, <3>5, <4>1, Spinning DEF Spinner
      <4>3. Is(Thread(d), Spin(l), Tail(Thread(d)))  BY Zenon, <3>5, <4>1, <4>2 DEF Is, Spinner
      <4>4. Spin(l).op # "SLEEPING"  BY Fields
      <4> QED  BY Zenon, <3>1, <3>4, <4>2, <4>3, <4>4, Has DEF Lacks
    <3>6. CASE ~Spinner(Thread(d))
      <4>1. Unspun(Thread(d)) = Thread(d)  BY Zenon, <3>6 DEF Unspun, Spinner
      <4> QED  BY Zenon, <3>1, <3>4, <4>1
    <3> QED  BY Zenon, <3>5, <3>6
  <2> QED  BY Zenon, <2>2, <2>3
<1>5. ASSUME NEW p \in Proc PROVE ~Sleepy(p)'
  <2>1. state'[p] # "SLEEPING"  BY DEF wake
  <2>2. Lacks(code[p])
    <3>1. CASE state[p] = "RUNNING"
      <4>1. PICK d \in Cpu : cur[d] = p  BY Zenon, <3>1, Parts DEF CurInv
      <4>2. cur[d] # NoProc  BY <4>1, Names
      <4> QED  BY Zenon, <1>4, <4>1, <4>2
    <3>2. CASE state[p] # "RUNNING"
      <4>1. ProcInv(p)  BY Zenon DEF ConsInv
      <4> QED  BY Zenon, <3>2, <4>1, Awake DEF ProcInv
    <3> QED  BY Zenon, <3>1, <3>2
  <2> QED  BY Zenon, <1>3, <2>1, <2>2 DEF Sleepy, Lacks
<1> QED  BY Zenon, <1>5 DEF SleepInv

\* The rest of the console keeps it: a reader goes to sleep under cons.lock only on
\* an empty buffer.
LEMMA SleepCons ==
    ASSUME ConsInv, SleepInv, NEW c \in Cpu,
           \/ interrupt(c) \/ getcNone(c) \/ readEmpty(c) \/ readChar(c)
           \/ \E body \in Bodies : syscall(c, body)
    PROVE  SleepInv'
<1> USE DEF Sleepy
<1>1. CASE interrupt(c)
  <2>1. /\ ~Handling(c) /\ code' = code /\ state' = state /\ UNCHANGED inVars
        /\ hcode' = [hcode EXCEPT ![c] = consoleintr]
    BY <1>1 DEF interrupt
  <2>2. Pending => Pending'
    <3>1. SUFFICES ASSUME NEW d \in Cpu, HasOp(hcode[d], "wakeup") PROVE HasOp(hcode'[d], "wakeup")
      BY Zenon DEF Pending
    <3>2. d # c  BY Zenon, <2>1, <3>1, HasNothing DEF Handling
    <3>3. hcode'[d] = hcode[d]
      <4>1. hcode \in [Cpu -> Code]  BY Zenon, Parts DEF CodeOK
      <4> QED  BY <2>1, <3>2, <4>1
    <3> QED  BY Zenon, <3>1, <3>3
  <2>3. r' = r /\ w' = w  BY <2>1 DEF inVars
  <2> QED  BY Zenon, <2>1, <2>2, <2>3 DEF SleepInv
<1>2. CASE getcNone(c)
  <2>1. At(c, "getc") /\ state' = state /\ GoOn(c, Tail(Thread(c))) /\ UNCHANGED inVars
    BY <1>2 DEF getcNone
  <2> QED  BY Zenon, <2>1, SleepTail
<1>3. CASE readEmpty(c)
  <2>1. r' = w'  BY <1>3 DEF readEmpty, inVars
  <2> QED  BY Zenon, <2>1 DEF SleepInv
<1>4. CASE readChar(c)
  <2> DEFINE n == Head(Thread(c)).n
             t == Tail(Thread(c))
  <2>1. At(c, "read") /\ state' = state /\ r # w  BY <1>4 DEF readChar
  <2>2. PICK s : /\ GoOn(c, s)
                 /\ s = t \/ (n # 1 /\ s = <<Read(n - 1, FALSE)>> \o t)
    <3> DEFINE done == n = 1 \/ inbuf[r % INPUT_BUF] # "x"
    <3>1. GoOn(c, IF done THEN t ELSE <<Read(n - 1, FALSE)>> \o t)  BY <1>4 DEF readChar
    <3> HIDE DEF GoOn, t
    <3> QED  BY Zenon, <3>1
  <2>3. Kind(c) = "process" /\ Thread(c) \in Reading  BY <2>1, AtCons
  <2>4. n \in Nat \ {0}  BY Zenon, <2>3, ReadingIn
  <2>5. /\ t \in Code /\ (HasOp(t, "SLEEPING") => HasOp(Thread(c), "SLEEPING"))
    BY <2>1, AtHas
  <2> HIDE DEF GoOn, n, t
  <2>6. s \in Code /\ (HasOp(s, "SLEEPING") => HasOp(t, "SLEEPING"))
    <3>1. CASE s = t  BY Zenon, <2>5, <3>1
    <3>2. CASE n # 1 /\ s = <<Read(n - 1, FALSE)>> \o t
      <4>1. n - 1 \in Nat \ {0} /\ FALSE \in BOOLEAN  BY <2>4, <3>2
      <4>2. Is(s, Read(n - 1, FALSE), t)  BY Zenon, <2>5, <3>2, <4>1, Instrs, Begin1
      <4>3. Read(n - 1, FALSE).op # "SLEEPING"  BY Zenon, Fields
      <4> QED  BY Zenon, <4>2, <4>3, Has DEF Is
    <3> QED  BY Zenon, <2>2, <3>1, <3>2
  <2>7. Kind(c) # "handler"  BY <2>3
  <2> QED  BY Zenon, <2>1, <2>2, <2>5, <2>6, <2>7, SleepGoOn
<1>5. ASSUME NEW body \in Bodies, syscall(c, body) PROVE SleepInv'
  <2>1. /\ cur[c] # NoProc /\ ~Handling(c) /\ state' = state /\ UNCHANGED inVars
        /\ code' = [code EXCEPT ![cur[c]] = body] /\ scode' = scode /\ hcode' = hcode
    BY <1>5 DEF syscall
  <2>2. GoOn(c, body)  BY Zenon, <2>1 DEF GoOn
  <2>3. body \in Code /\ ~HasOp(body, "SLEEPING")  BY Zenon, BodiesIn, Awake DEF Lacks
  <2>4. Kind(c) # "handler"  BY <2>1 DEF Kind
  <2>5. r' = r /\ w' = w  BY <2>1 DEF inVars
  <2> HIDE DEF GoOn
  <2> QED  BY Zenon, <2>1, <2>2, <2>3, <2>4, <2>5, SleepGoOn
<1> QED  BY Zenon, <1>1, <1>2, <1>3, <1>4, <1>5

-----------------------------------------------------------------------------
(* The theorems                                                            *)

\* The invariant of the console: where every thread is and which locks it
\* holds there, the bounds of the buffer, and who sleeps.
ConsoleInv == ConsInv /\ InputInBounds /\ SleepInv

\* The invariant holds at the start.
LEMMA InitConsInv ==
    ASSUME ConsInit
    PROVE  ConsoleInv
<1>1. /\ IF_ = [c \in Cpu |-> TRUE] /\ ncli = [c \in Cpu |-> 0] /\ intena = [c \in Cpu |-> FALSE]
      /\ holder = [l \in Lock |-> NoCpu] /\ cur = [c \in Cpu |-> NoProc]
      /\ state = [p \in Proc |-> "RUNNABLE"] /\ saved = [p \in Proc |-> FALSE]
      /\ code = [p \in Proc |-> <<Release(ptable), Op("iret")>>]
      /\ scode = [c \in Cpu |-> SchedLoop] /\ hcode = [c \in Cpu |-> <<>>]
      /\ inbuf = [i \in 0..(INPUT_BUF - 1) |-> "x"] /\ r = 0 /\ w = 0 /\ e = 0
  BY DEF ConsInit, SpinInit
<1>2. ConsTypeOK
  <2>1. {r, w, e} \subseteq 0..(WORD - 1)  BY <1>1, Sizes
  <2>2. inbuf \in [0..(INPUT_BUF - 1) -> {"x", "newline", "eof"}]  BY <1>1
  <2>3. /\ IF_ \in [Cpu -> BOOLEAN] /\ intena \in [Cpu -> BOOLEAN] /\ ncli \in [Cpu -> Nat]
        /\ holder \in [Lock -> Cpu \cup {NoCpu}] /\ cur \in [Cpu -> Proc \cup {NoProc}]
        /\ state \in [Proc -> {"RUNNABLE", "RUNNING", "SLEEPING"}] /\ saved \in [Proc -> BOOLEAN]
    BY <1>1
  <2> QED  BY Zenon, <2>1, <2>2, <2>3 DEF ConsTypeOK
<1>3. CodeOK
  <2>1. <<Release(ptable), Op("iret")>> \in Code /\ SchedLoop \in Code  BY Zenon, Codes DEF Is
  <2>2. <<>> \in Code  BY DEF Code
  <2>3. code \in [Proc -> Code] /\ scode \in [Cpu -> Code] /\ hcode \in [Cpu -> Code]
    BY <1>1, <2>1, <2>2
  <2> QED  BY Zenon, <1>2, <2>3 DEF CodeOK
<1>4. CurInv  BY <1>1 DEF CurInv
<1>5. ASSUME NEW c \in Cpu PROVE CpuInv(c)
  <2>1. /\ ~Handling(c) /\ Kind(c) = "scheduler" /\ Thread(c) = SchedLoop /\ cur[c] = NoProc
    BY <1>1 DEF Handling, Kind, Thread
  <2>2. Held(c) = {}  BY <1>1, Names DEF Held
  <2>3. ncli[c] = 0 /\ Enabled(c) \in BOOLEAN  BY <1>1 DEF Enabled
  <2>4. In("scheduler", SchedLoop, {}, Enabled(c))  BY Zenon DEF In, InScheduler
  <2>5. Unspun(SchedLoop) = SchedLoop /\ ~Spinner(SchedLoop)  BY Zenon, <2>3, <2>4, Plain
  <2>6. ~At(c, "spin")  BY Zenon, <2>1, <2>5 DEF At, Spinner
  <2>7. ncli[c] = Nest(Held(c)) + IF At(c, "spin") THEN 1 ELSE 0
    <3>1. Nest(Held(c)) = 0  BY Zenon, <2>2 DEF Nest
    <3> QED  BY <2>3, <2>6, <3>1
  <2>8. In(Kind(c), Unspun(Thread(c)), Held(c), Enabled(c))  BY Zenon, <2>1, <2>2, <2>4, <2>5
  <2>9. ~(ncli[c] > 0)  BY <2>3
  <2> QED  BY Zenon, <2>1, <2>7, <2>8, <2>9 DEF CpuInv
<1>6. ASSUME NEW p \in Proc PROVE ProcInv(p)
  <2>1. code[p] = <<Release(ptable), Op("iret")>>  BY <1>1
  <2>2. Forked(code[p], {ptable})  BY Zenon, <2>1 DEF Forked
  <2>3. ~AfterSleep(code[p]) /\ ~AfterYield(code[p])
    <3>1. Head(code[p]) = Release(ptable)  BY Zenon, <2>1, Codes DEF Is
    <3> QED  BY <3>1, AfterCode, Fields
  <2> QED  BY Zenon, <2>2, <2>3 DEF ProcInv
<1>7. InputInBounds
  <2>1. Minus(0, 0) = 0
    <3>1. 0 \in 0..(WORD - 1)  BY Sizes
    <3> QED  BY <3>1, MinusIs
  <2> QED  BY <1>1, <1>2, <2>1, Sizes DEF InputInBounds
<1>8. SleepInv  BY <1>1 DEF SleepInv
<1> QED  BY Zenon, <1>3, <1>4, <1>5, <1>6, <1>7, <1>8 DEF ConsoleInv, ConsInv

\* The bounds of the buffer stay when the indices do.
LEMMA InputNext ==
    ASSUME InputInBounds, ConsInv', UNCHANGED <<r, w, e>>
    PROVE  InputInBounds'
  BY Zenon DEF InputInBounds, ConsInv, CodeOK

\* Every step keeps the invariant.
LEMMA StepConsInv ==
    ASSUME ConsoleInv, [ConsNext]_consVars
    PROVE  ConsoleInv'
<1>0. ConsInv /\ InputInBounds /\ SleepInv  BY Zenon DEF ConsoleInv
<1>1. ASSUME NEW c \in Cpu, SpinStep(c), UNCHANGED inVars PROVE ConsoleInv'
  <2>1. ConsInv'
    BY Zenon, <1>0, <1>1, AcquireStep, XchgStep, ReleaseStep, SchedStep, RestoreStep, IretStep,
       PickNoneStep, TimerStep, PickStep DEF SpinStep
  <2>2. SleepInv'  BY Zenon, <1>0, <1>1, SleepSpin
  <2>3. InputInBounds'  BY Zenon, <1>0, <1>1, <2>1, InputNext DEF inVars
  <2> QED  BY Zenon, <2>1, <2>2, <2>3 DEF ConsoleInv
<1>2. ASSUME NEW c \in Cpu,
             \/ interrupt(c) \/ getcNone(c) \/ wake(c) \/ readEmpty(c)
             \/ \E body \in Bodies : syscall(c, body)
      PROVE  ConsoleInv'
  <2>1. ConsInv'
    BY Zenon, <1>0, <1>2, InterruptStep, GetcNoneStep, WakeStep, ReadEmptyStep, SyscallStep
  <2>2. SleepInv'  BY Zenon, <1>0, <1>2, SleepCons, SleepWake
  <2>3. UNCHANGED inVars
    BY <1>2 DEF interrupt, getcNone, wake, readEmpty, syscall
  <2>4. InputInBounds'  BY Zenon, <1>0, <2>1, <2>3, InputNext DEF inVars
  <2> QED  BY Zenon, <2>1, <2>2, <2>4 DEF ConsoleInv
<1>3. ASSUME NEW c \in Cpu, NEW k \in Keys, getc(c, k) PROVE ConsoleInv'
  <2>1. InType' /\ Minus(w', r') <= Minus(e', r') /\ Minus(e', r') <= INPUT_BUF
    BY Zenon, <1>0, <1>3, InputStep
  <2>2. ConsInv'  BY Zenon, <1>0, <1>3, <2>1, GetcStep
  <2>3. SleepInv'  BY Zenon, <1>0, <1>3, SleepGetc
  <2>4. InputInBounds'  BY Zenon, <2>1, <2>2 DEF InputInBounds, ConsInv, CodeOK
  <2> QED  BY Zenon, <2>2, <2>3, <2>4 DEF ConsoleInv
<1>4. ASSUME NEW c \in Cpu, readChar(c) PROVE ConsoleInv'
  <2>1. InType' /\ Minus(w', r') <= Minus(e', r') /\ Minus(e', r') <= INPUT_BUF
    BY Zenon, <1>0, <1>4, InputStep
  <2>2. ConsInv'  BY Zenon, <1>0, <1>4, <2>1, ReadCharStep
  <2>3. SleepInv'  BY Zenon, <1>0, <1>4, SleepCons
  <2>4. InputInBounds'  BY Zenon, <2>1, <2>2 DEF InputInBounds, ConsInv, CodeOK
  <2> QED  BY Zenon, <2>2, <2>3, <2>4 DEF ConsoleInv
<1>5. CASE UNCHANGED consVars
  <2>1. /\ IF_' = IF_ /\ ncli' = ncli /\ intena' = intena /\ holder' = holder /\ cur' = cur
        /\ state' = state /\ saved' = saved /\ code' = code /\ scode' = scode /\ hcode' = hcode
        /\ inbuf' = inbuf /\ r' = r /\ w' = w /\ e' = e
    BY <1>5 DEF consVars, spinVars, inVars
  <2>2. \A c \in Cpu : CpuInv(c)'
    <3>1. \A d \in Cpu : Held(d)' = Held(d)  BY Zenon, <2>1 DEF Held
    <3> QED  BY Zenon, <1>0, <2>1, <3>1, CpuFrame, Parts
  <2>3. ConsTypeOK'  BY Zenon, <1>0, <2>1 DEF InputInBounds, ConsTypeOK
  <2>4. CodeOK' /\ CurInv' /\ \A p \in Proc : ProcInv(p)'
    BY Zenon, <1>0, <2>1, <2>3 DEF ConsInv, CodeOK, CurInv, ProcInv
  <2>5. SleepInv'  BY Zenon, <1>0, <2>1 DEF SleepInv, Pending, Sleepy
  <2>6. ConsInv'  BY Zenon, <2>2, <2>4 DEF ConsInv
  <2>7. InputInBounds'  BY Zenon, <1>0, <2>1, <2>6, InputNext
  <2> QED  BY Zenon, <2>5, <2>6, <2>7 DEF ConsoleInv
<1> QED  BY Zenon, <1>1, <1>2, <1>3, <1>4, <1>5 DEF ConsNext, ConsStep

\* Interrupts, ncli and the locks held and waited for.
LEMMA LocksMask == ASSUME ConsInv PROVE LocksMaskInterrupts
<1>1. SUFFICES ASSUME NEW c \in Cpu
               PROVE  LET held == {l \in Lock : holder[l] = c}
                          waits == {l \in Lock : Spins(c, l)}
                      IN  /\ held \cap waits = {}
                          /\ ncli[c] > 0 => ~IF_[c]
                          /\ \A l \in Lock : At(c, "release") /\ Head(Thread(c)).lock = l => l \in held
                          /\ (ncli[c] = 0) = (held \cup waits = {})
                          /\ (ncli[c] = 1) = (\E l \in Lock : held \cup waits = {l})
                          /\ At(c, "RUNNABLE") \/ At(c, "SLEEPING") => held = {ptable}
  BY Zenon DEF LocksMaskInterrupts
<1> DEFINE held == {l \in Lock : holder[l] = c}
           waits == {l \in Lock : Spins(c, l)}
<1>2. held = Held(c) /\ waits = {l \in Lock : Spins(c, l)}  BY DEF Held
<1> HIDE DEF held, waits
<1>3. SUFFICES /\ held \cap waits = {}
               /\ ncli[c] > 0 => ~IF_[c]
               /\ \A l \in Lock : At(c, "release") /\ Head(Thread(c)).lock = l => l \in held
               /\ (ncli[c] = 0) = (held \cup waits = {})
               /\ (ncli[c] = 1) = (\E l \in Lock : held \cup waits = {l})
               /\ At(c, "RUNNABLE") \/ At(c, "SLEEPING") => held = {ptable}
  BY Zenon DEF held, waits
<1>4. CodeOK /\ CpuInv(c)  BY Zenon, Parts
<1>5. held \subseteq Lock /\ Enabled(c) \in BOOLEAN  BY Zenon, <1>2, <1>4, ThreadOK
<1>6. ncli[c] > 0 => ~IF_[c]  BY Zenon, <1>4 DEF CpuInv
<1>7. /\ held \cap waits = {} /\ held \cup waits \subseteq Lock
      /\ ncli[c] = Nest(held \cup waits)
  <2>1. CASE At(c, "spin")
    <3>1. PICK l \in Lock \ held : Head(Thread(c)) = Spin(l)  BY Zenon, <1>2, <1>4, <2>1, AtSpin
    <3>2. Head(Thread(c)).lock = l  BY Zenon, <3>1, Fields
    <3>3. waits = {l}  BY <1>2, <2>1, <3>1, <3>2 DEF Spins
    <3>4. ncli[c] = Nest(held \cup {l})
      <4>1. Nest(held \cup {l}) = Nest(held) + 1  BY Zenon, <1>5, <3>1, Nests
      <4>2. ncli[c] = Nest(held) + 1  BY Zenon, <1>2, <1>4, <2>1, AtSpin
      <4> QED  BY <4>1, <4>2
    <3> QED  BY <1>5, <3>1, <3>3, <3>4
  <2>2. CASE ~At(c, "spin")
    <3>1. waits = {}  BY <1>2, <2>2 DEF Spins
    <3>2. ncli[c] = Nest(held) + 0  BY Zenon, <1>2, <1>4, <2>2 DEF CpuInv
    <3>3. ncli[c] = Nest(held)  BY <1>5, <3>2, Nests
    <3>4. held \cup {} = held /\ held \cap {} = {}  OBVIOUS
    <3> QED  BY Zenon, <1>5, <3>1, <3>3, <3>4
  <2> QED  BY Zenon, <2>1, <2>2
<1>8. /\ (ncli[c] = 0) = (held \cup waits = {})
      /\ (ncli[c] = 1) = (\E l \in Lock : held \cup waits = {l})
  <2>1. /\ Nest(held \cup waits) = 0 <=> held \cup waits = {}
        /\ Nest(held \cup waits) = 1 <=> \E l \in Lock : held \cup waits = {l}
    BY Zenon, <1>7, Nests
  <2> QED  BY Zenon, <1>7, <2>1
<1>9. ASSUME NEW l \in Lock, At(c, "release"), Head(Thread(c)).lock = l PROVE l \in held
  <2>1. Releases(Kind(c), Thread(c), held, Enabled(c))
    <3>1. Leads(Kind(c), Thread(c), held, Enabled(c)) /\ Head(Thread(c)).op = "release"
      BY Zenon, <1>2, <1>4, <1>9, AtLeads
    <3> QED  BY Zenon, <1>5, <3>1, Executes
  <2>2. PICK k \in held : Head(Thread(c)) = Release(k)  BY Zenon, <2>1 DEF Releases
  <2>3. k = l  BY Zenon, <1>9, <2>2, Fields
  <2> QED  BY Zenon, <2>3
<1>10. ASSUME At(c, "RUNNABLE") PROVE held = {ptable}
  <2>1. Leads(Kind(c), Thread(c), held, Enabled(c)) /\ Head(Thread(c)).op = "RUNNABLE"
    BY Zenon, <1>2, <1>4, <1>10, AtLeads
  <2> QED  BY <1>5, <2>1, Executes
<1>11. ASSUME At(c, "SLEEPING") PROVE held = {ptable}
  <2>1. Leads(Kind(c), Thread(c), held, Enabled(c)) /\ Head(Thread(c)).op = "SLEEPING"
    BY Zenon, <1>2, <1>4, <1>11, AtLeads
  <2> QED  BY <1>5, <2>1, Executes
<1> QED  BY Zenon, <1>6, <1>7, <1>8, <1>9, <1>10, <1>11

\* The end of a system call.
LEMMA IntenaFollows == ASSUME ConsInv PROVE IntenaFollowsThread
<1>1. SUFFICES ASSUME NEW c \in Cpu, At(c, "sysret") PROVE IF_[c]  BY Zenon DEF IntenaFollowsThread
<1>2. CodeOK /\ CpuInv(c)  BY Zenon, Parts
<1>3. /\ Leads(Kind(c), Thread(c), Held(c), Enabled(c)) /\ Head(Thread(c)).op = "sysret"
      /\ ncli[c] = Nest(Held(c))
  BY Zenon, <1>1, <1>2, AtLeads
<1>4. Held(c) = {} /\ Enabled(c)  
  <2>1. Enabled(c) \in BOOLEAN  BY Zenon, <1>2, ThreadOK
  <2> QED  BY <1>3, <2>1, Executes
<1>5. ncli[c] = 0  BY Zenon, <1>3, <1>4 DEF Nest
<1> QED  BY Zenon, <1>4, <1>5 DEF Enabled

\* Only getpinfo() takes cons.lock while it holds ptable.lock.
LEMMA TakesCons ==
    ASSUME NEW kind, NEW s, NEW en, NEW t, In(kind, s, {ptable}, en), Is(s, Acquire(cons), t)
    PROVE  s = getpinfoPrints
<1>1. s # <<>> /\ Head(s) = Acquire(cons)  BY Zenon DEF Is
<1>2. Head(s).op = "acquire"  BY Zenon, <1>1, Fields
<1>3. ~InHandler(s, {ptable})  BY Zenon, Sets DEF InHandler
<1>4. ~InScheduler(s, {ptable})
  <2>1. Head(<<Op("pick")>>).op = "pick"  BY Zenon, Codes, Fields DEF Is
  <2> QED  BY <1>2, <2>1, Sets DEF InScheduler
<1>5. ~InYield(s, {ptable})
  <2>1. SUFFICES ASSUME InYield(s, {ptable}) PROVE FALSE  OBVIOUS
  <2>2. Head(s) = Op("RUNNABLE") \/ Head(s) = Release(ptable)  BY Zenon, <2>1, YieldCode, Sets
  <2> QED  BY <1>2, <2>2, Fields
<1>6. ~Forked(s, {ptable})
  <2>1. SUFFICES ASSUME s = <<Release(ptable), Op("iret")>> PROVE FALSE  BY Zenon, Sets DEF Forked
  <2>2. Head(s) = Release(ptable)  BY <2>1
  <2> QED  BY <1>2, <2>2, Fields
<1>7. ASSUME InCall(s, {ptable}), s # getpinfoPrints PROVE FALSE
  <2>1. CASE s = <<Release(ptable), Acquire(ptable)>> \o getpinfoPrints
    <3>1. Head(s) = Release(ptable)  BY Zenon, <2>1, CallCodes DEF Is
    <3> QED  BY <1>2, <3>1, Fields
  <2>2. CASE s = <<Release(ptable), Op("sysret")>>
    <3>1. Head(s) = Release(ptable)  BY <2>2
    <3> QED  BY <1>2, <3>1, Fields
  <2>3. ASSUME NEW rd \in Reading,
               s = <<Op("SLEEPING"), Op("restore"), Release(ptable), Acquire(cons)>> \o rd
        PROVE  FALSE
    <3>1. Head(s) = Op("SLEEPING")  BY Zenon, <2>3, ReadingCodes DEF Is
    <3> QED  BY <1>2, <3>1, Fields
  <2>4. ASSUME NEW rd \in Reading, s = <<Release(ptable), Acquire(cons)>> \o rd PROVE FALSE
    <3>1. Head(s) = Release(ptable)  BY Zenon, <2>4, ReadingCodes DEF Is
    <3> QED  BY <1>2, <3>1, Fields
  <2> QED  BY Zenon, <1>7, <2>1, <2>2, <2>3, <2>4, Sets DEF InCall
<1> QED  BY Zenon, <1>3, <1>4, <1>5, <1>6, <1>7 DEF In

\* Two processors that wait for each other.
LEMMA Deadlocks == ASSUME ConsInv PROVE OnlyGetpinfoDeadlocks
<1>1. SUFFICES ASSUME NEW c \in Cpu, holder[ptable] = c, Spins(c, cons)
               PROVE  Thread(c) = <<Spin(cons)>> \o Tail(getpinfoPrints)
  BY Zenon DEF OnlyGetpinfoDeadlocks
<1>2. CodeOK /\ CpuInv(c) /\ At(c, "spin") /\ Head(Thread(c)).lock = cons
  BY Zenon, <1>1, Parts DEF Spins
<1>3. PICK l \in Lock \ Held(c) :
         Head(Thread(c)) = Spin(l) /\ Is(Unspun(Thread(c)), Acquire(l), Tail(Thread(c)))
  BY Zenon, <1>2, AtSpin
<1>4. l = cons  BY Zenon, <1>2, <1>3, Fields
<1>5. Held(c) = {ptable}  BY <1>1, <1>3, <1>4, Names DEF Held
<1>6. In(Kind(c), Unspun(Thread(c)), {ptable}, Enabled(c)) /\ Thread(c) \in Code /\ Thread(c) # <<>>
  BY Zenon, <1>2, <1>5, AtSpin
<1>7. Unspun(Thread(c)) = getpinfoPrints  BY Zenon, <1>3, <1>4, <1>6, TakesCons
<1>8. Head(Thread(c)) = Spin(cons) /\ Tail(Thread(c)) = Tail(getpinfoPrints)
  BY Zenon, <1>3, <1>4, <1>7 DEF Is
<1>9. \A s \in Seq(Instr) : s # <<>> => s = <<Head(s)>> \o Tail(s)  OBVIOUS
<1> QED  BY Zenon, <1>6, <1>8, <1>9 DEF Code

\* What SleepInv says of a reader that sleeps.
LEMMA NotMissed == ASSUME SleepInv PROVE NoMissedInput
  BY Zenon DEF SleepInv, Sleepy, Pending, HasOp, NoMissedInput

-----------------------------------------------------------------------------
\* Every reachable state, with any number of processors and processes, any size
\* of the buffer and any keys and calls, satisfies the invariant.
THEOREM ConsoleInvariant == ConsSpec => []ConsoleInv
<1>1. ConsInit => ConsoleInv  BY Zenon, InitConsInv
<1>2. ConsoleInv /\ [ConsNext]_consVars => ConsoleInv'  BY Zenon, StepConsInv
<1> QED  BY <1>1, <1>2, PTL DEF ConsSpec

\* Interrupts are off while a processor holds or waits for a spin lock, ncli
\* counts these locks also across swtch(), no processor waits for a lock it
\* holds, and sched() is entered with ptable.lock alone: the panics of acquire(),
\* release(), popcli() and sched() are out of reach.
THEOREM SpinlockMasks == ConsSpec => []LocksMaskInterrupts
<1>1. ConsoleInv => LocksMaskInterrupts  BY Zenon, LocksMask DEF ConsoleInv
<1> QED  BY <1>1, ConsoleInvariant, PTL

\* A system call ends with interrupts on, wherever it was resumed: the comment of
\* sched() on intena holds.
THEOREM SchedIntena == ConsSpec => []IntenaFollowsThread
<1>1. ConsoleInv => IntenaFollowsThread  BY Zenon, IntenaFollows DEF ConsoleInv
<1> QED  BY <1>1, ConsoleInvariant, PTL

\* The input buffer never overruns, for any INPUT_BUF below the range of the
\* unsigned indices: r, w and e stay within INPUT_BUF of each other.
THEOREM ConsoleInput == ConsSpec => []InputInBounds
<1>1. ConsoleInv => InputInBounds  BY Zenon DEF ConsoleInv
<1> QED  BY <1>1, ConsoleInvariant, PTL

\* No reader sleeps in consoleread() on a line that is in the buffer, but for the
\* time until the wakeup() that consoleintr() is about to call.
THEOREM ConsoleWakeup == ConsSpec => []NoMissedInput
<1>1. ConsoleInv => NoMissedInput  BY Zenon, NotMissed DEF ConsoleInv
<1> QED  BY <1>1, ConsoleInvariant, PTL

\* Two processors that wait for each other's lock are always one in getpinfo()
\* printing under ptable.lock and one that holds cons.lock.
THEOREM ConsoleDeadlock == ConsSpec => []OnlyGetpinfoDeadlocks
<1>1. ConsoleInv => OnlyGetpinfoDeadlocks  BY Zenon, Deadlocks DEF ConsoleInv
<1> QED  BY <1>1, ConsoleInvariant, PTL
=============================================================================
