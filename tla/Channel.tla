------------------------------ MODULE Channel ------------------------------
(***************************************************************************)
(* What a pipe promises: a bounded first-in first-out stream of bytes with *)
(* two ends that are closed once.                                          *)
(***************************************************************************)
EXTENDS Integers, Sequences

CONSTANTS Byte, Capacity, Reader

VARIABLES
    queue,          \* bytes written and not yet read
    out,            \* what a read() that has just returned got
    ropen, wopen    \* the two ends

chanVars == <<queue, out, ropen, wopen>>

ChanInit == queue = <<>> /\ out = [r \in Reader |-> <<>>] /\ ~ropen /\ ~wopen

Open ==
    /\ ~ropen /\ ~wopen
    /\ ropen' = TRUE /\ wopen' = TRUE
    /\ UNCHANGED <<queue, out>>

Send ==
    /\ wopen
    /\ \E n \in 1..Capacity : \E s \in [1..n -> Byte] :
           Len(queue) + n <= Capacity /\ queue' = queue \o s
    /\ UNCHANGED <<out, ropen, wopen>>

Receive(r) ==
    /\ ropen /\ out[r] = <<>>
    /\ \E n \in 1..Len(queue) :
           /\ out' = [out EXCEPT ![r] = SubSeq(queue, 1, n)]
           /\ queue' = SubSeq(queue, n + 1, Len(queue))
    /\ UNCHANGED <<ropen, wopen>>

Return(r) ==
    /\ out' = [out EXCEPT ![r] = <<>>]
    /\ UNCHANGED <<queue, ropen, wopen>>

\* The bytes are lost with the last end.
Close ==
    /\ \/ ropen /\ ropen' = FALSE /\ wopen' = wopen
       \/ wopen /\ wopen' = FALSE /\ ropen' = ropen
    /\ queue' = IF ropen' \/ wopen' THEN queue ELSE <<>>
    /\ UNCHANGED out

ChanNext == Open \/ Send \/ Close \/ \E r \in Reader : Receive(r) \/ Return(r)

ChanSpec == ChanInit /\ [][ChanNext]_chanVars
=============================================================================
