----------------------------- MODULE MCConsole -----------------------------
EXTENDS Console, TLC

Symmetry == Permutations(Proc)

\* States that differ only in the following count as one.  The indices are used
\* as differences and, modulo INPUT_BUF, to access the buffer, so that a shift
\* of all three and a rotation of the buffer change nothing; and intena of a
\* processor is always written before it is read again once ncli is 0.
LiveState ==
    LET liveIntena == [c \in Cpu |-> ncli[c] > 0 /\ intena[c]]
        ring == [i \in DOMAIN inbuf |-> inbuf[(r + i) % INPUT_BUF]]
    IN  <<IF_, ncli, liveIntena, holder, cur, state, saved, code, scode, hcode,
          ring, Minus(w, r), Minus(e, r)>>
=============================================================================
