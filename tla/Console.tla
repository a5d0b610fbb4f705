------------------------------- MODULE Console -------------------------------
(***************************************************************************)
(* The console of lab2 over module Spinlock: consoleintr, consoleread and  *)
(* consolewrite of console.c, and the printing of getpinfo() in proc.c.    *)
(* The indices of the input buffer are unsigned words, kept mod WORD.      *)
(*                                                                         *)
(* iunlock(ip) before and ilock(ip) after a read or write are left out:    *)
(* they take their locks with no other one held, so they add no order in   *)
(* which a lock waits for another.  A loop of cprintf() calls is one call: *)
(* each of them takes and releases cons.lock in the same place.            *)
(***************************************************************************)
EXTENDS Spinlock

CONSTANTS
    INPUT_BUF, WORD,
    Keys,       \* what is typed: "x" is an ordinary character
    ReadArgs    \* the arguments n of read()

cons == "cons"  \* cons.lock

ASSUME ConsoleAssumption ==
    /\ INPUT_BUF \in Nat \ {0} /\ WORD \in Nat
    /\ INPUT_BUF < WORD /\ WORD % INPUT_BUF = 0
    /\ Keys \subseteq {"x", "newline", "eof", "killline", "backspace", "listing"}
    /\ ReadArgs \subseteq Nat \ {0}
    /\ Lock = {ptable, cons}

VARIABLES inbuf, r, w, e    \* struct input

inVars == <<inbuf, r, w, e>>
consVars == <<spinVars, inVars>>

Minus(a, b) == (a - b) % WORD

\* The characters with the indices from .. to - 1 will never be looked at: they
\* are set to "x" to keep the model small.
Forget(buf, from, to) ==
    [i \in DOMAIN buf |->
        IF \E n \in 0..(INPUT_BUF - 1) : n < Minus(to, from) /\ (from + n) % INPUT_BUF = i
        THEN "x" ELSE buf[i]]

ConsInit ==
    /\ SpinInit
    /\ inbuf = [i \in 0..(INPUT_BUF - 1) |-> "x"]
    /\ r = 0 /\ w = 0 /\ e = 0

-----------------------------------------------------------------------------
(* The interrupt of keyboard or serial line, routed to processor 0         *)

consoleintr == <<Acquire(cons), Op("getc"), Release(cons), Op("iret")>>
wakeup == <<Acquire(ptable), Op("wakeup"), Release(ptable)>>

\* procdump(), after cons.lock was released, prints with cprintf().
procdump == <<Release(cons), Acquire(cons), Release(cons), Op("iret")>>

interrupt(c) ==
    /\ c = 0 /\ IF_[c] /\ ~Handling(c)
    /\ IF_' = [IF_ EXCEPT ![c] = FALSE]
    /\ hcode' = [hcode EXCEPT ![c] = consoleintr]
    /\ UNCHANGED <<ncli, intena, holder, cur, state, saved, code, scode, inVars>>

\* Mutant: characters are stored in a full buffer too.
getcUnbounded(c, k) ==
    /\ At(c, "getc") /\ k \in {"x", "newline", "eof"}
    /\ inbuf' = [inbuf EXCEPT ![e % INPUT_BUF] = k]
    /\ e' = (e + 1) % WORD
    /\ w' = IF k # "x" THEN e' ELSE w
    /\ GoOn(c, (IF k # "x" THEN wakeup ELSE <<>>) \o Thread(c))
    /\ UNCHANGED <<cliVars, holder, cur, state, saved, r>>

\* One turn of the loop of consoleintr() for key k.
getc(c, k) ==
    LET rest == Thread(c)
        before == Minus(e, 1)
        stored == k \in {"x", "newline", "eof"} /\ Minus(e, r) < INPUT_BUF
        full == Minus(e + 1, r) = INPUT_BUF
        line == stored /\ (k # "x" \/ full)
        \* how far "kill line" goes back
        kept == {n \in 0..Minus(e, w) :
                    \/ n = 0
                    \/ inbuf[Minus(w + n, 1) % INPUT_BUF] = "newline"}
    IN  /\ At(c, "getc")
        /\ \E keep \in kept :
              /\ \A n \in kept : n <= keep
              /\ e' = CASE stored -> (e + 1) % WORD
                        [] k = "backspace" /\ e # w -> before
                        [] k = "killline" -> (w + keep) % WORD
                        [] OTHER -> e
        /\ inbuf' = IF stored THEN [inbuf EXCEPT ![e % INPUT_BUF] = k]
                             ELSE Forget(inbuf, e', e)
        /\ w' = IF line THEN (e + 1) % WORD ELSE w
        /\ GoOn(c, CASE line -> wakeup \o rest
                     [] k = "listing" -> <<Op("getc")>> \o procdump
                     [] OTHER -> rest)
        /\ UNCHANGED <<cliVars, holder, cur, state, saved, r>>

getcNone(c) ==
    /\ At(c, "getc")
    /\ GoOn(c, Tail(Thread(c)))
    /\ UNCHANGED <<cliVars, holder, cur, state, saved, inVars>>

\* wakeup(&input.r): nobody sleeps on anything else here.
wake(c) ==
    /\ At(c, "wakeup")
    /\ state' = [p \in Proc |-> IF state[p] = "SLEEPING" THEN "RUNNABLE" ELSE state[p]]
    /\ GoOn(c, Tail(Thread(c)))
    /\ UNCHANGED <<cliVars, holder, cur, saved, inVars>>

-----------------------------------------------------------------------------
(* System calls                                                            *)

Read(n, first) == [op |-> "read", n |-> n, first |-> first]

\* Mutant: lk is released before ptable.lock is taken.
sleepLate == <<Release(cons), Acquire(ptable), Op("SLEEPING"), Op("restore"),
               Release(ptable), Acquire(cons)>>

\* Mutant: lk is taken again before ptable.lock is released.
sleepNested == <<Acquire(ptable), Release(cons), Op("SLEEPING"), Op("restore"),
                 Acquire(cons), Release(ptable)>>

\* sleep(&input.r, &cons.lock)
sleep == <<Acquire(ptable), Release(cons), Op("SLEEPING"), Op("restore"),
           Release(ptable), Acquire(cons)>>

consoleread(n) == <<Acquire(cons), Read(n, TRUE), Release(cons), Op("sysret")>>
consolewrite == <<Acquire(cons), Release(cons), Op("sysret")>>
\* getpinfo() fills the table, and then prints it with ptable.lock held.
getpinfoPrints == <<Acquire(cons), Release(cons), Release(ptable), Op("sysret")>>
getpinfo == <<Acquire(ptable), Release(ptable), Acquire(ptable)>> \o getpinfoPrints

Bodies == {consoleread(n) : n \in ReadArgs} \cup {consolewrite, getpinfo}

syscall(c, body) ==
    /\ cur[c] # NoProc /\ ~Handling(c) /\ code[cur[c]] = <<>>
    /\ code' = [code EXCEPT ![cur[c]] = body]
    /\ UNCHANGED <<cliVars, holder, cur, state, saved, scode, hcode, inVars>>

\* The loop of consoleread(): a line is not there yet, or the process was
\* killed and leaves,
readEmpty(c) ==
    /\ At(c, "read") /\ r = w
    /\ GoOn(c, sleep \o Thread(c)) \/ GoOn(c, Tail(Thread(c)))
    /\ UNCHANGED <<cliVars, holder, cur, state, saved, inVars>>

\* or a character is read.  ^D is kept for the next call unless it came first.
readChar(c) ==
    LET i == Head(Thread(c))
        ch == inbuf[r % INPUT_BUF]
        done == i.n = 1 \/ ch # "x"
    IN  /\ At(c, "read") /\ r # w
        /\ r' = IF ch = "eof" /\ ~i.first THEN r ELSE (r + 1) % WORD
        /\ inbuf' = Forget(inbuf, r, r')
        /\ GoOn(c, IF done THEN Tail(Thread(c))
                   ELSE <<Read(i.n - 1, FALSE)>> \o Tail(Thread(c)))
        /\ UNCHANGED <<cliVars, holder, cur, state, saved, w, e>>

-----------------------------------------------------------------------------
ConsStep(c) ==
    \/ SpinStep(c) /\ UNCHANGED inVars
    \/ interrupt(c)
    \/ \E k \in Keys : getc(c, k)
    \/ getcNone(c) \/ wake(c) \/ readEmpty(c) \/ readChar(c)
    \/ \E body \in Bodies : syscall(c, body)

ConsNext == \E c \in Cpu : ConsStep(c)

ConsSpec == ConsInit /\ [][ConsNext]_consVars

-----------------------------------------------------------------------------
(* Properties                                                              *)

ConsTypeOK ==
    /\ IF_ \in [Cpu -> BOOLEAN] /\ intena \in [Cpu -> BOOLEAN]
    /\ ncli \in [Cpu -> Nat]
    /\ holder \in [Lock -> Cpu \cup {NoCpu}]
    /\ cur \in [Cpu -> Proc \cup {NoProc}]
    /\ state \in [Proc -> {"RUNNABLE", "RUNNING", "SLEEPING"}]
    /\ saved \in [Proc -> BOOLEAN]
    /\ inbuf \in [0..(INPUT_BUF - 1) -> {"x", "newline", "eof"}]
    /\ {r, w, e} \subseteq 0..(WORD - 1)

\* The input buffer never overruns: what is edited lies behind what may be
\* read, both within INPUT_BUF characters, whatever the indices wrap to.
InputInBounds ==
    ConsTypeOK /\ Minus(w, r) <= Minus(e, r) /\ Minus(e, r) <= INPUT_BUF

\* Nobody sleeps in consoleread() on a line that is there, except while the
\* interrupt that has completed it is about to call wakeup().
NoMissedInput ==
    r # w => \/ \A p \in Proc : state[p] # "SLEEPING"
             \/ \E c \in Cpu : \E i \in DOMAIN hcode[c] : hcode[c][i].op = "wakeup"

\* Everybody takes cons.lock before ptable.lock, but for getpinfo(), which prints
\* while it holds ptable.lock: two processors that wait for each other's lock,
\* for ever, are always one in getpinfo() and one in consoleintr() or sleep().
OnlyGetpinfoDeadlocks ==
    \A c, d \in Cpu :
        /\ holder[ptable] = c /\ Spins(c, cons)
        /\ holder[cons] = d /\ Spins(d, ptable)
        => Thread(c) = <<Spin(cons)>> \o Tail(getpinfoPrints)
=============================================================================
