----------------------------- MODULE BlockStore -----------------------------
(***************************************************************************)
(* What the buffer cache promises (the interface comment of bio.c): every  *)
(* block has one content, "only one process at a time can use a buffer",   *)
(* and which blocks are cached, read or written back is not to be seen.    *)
(***************************************************************************)
CONSTANTS Proc, Block, Data, NoProc

VARIABLES
    content,    \* the block as bread() returns it
    user        \* the process between bread() and brelse() of the block

storeVars == <<content, user>>

StoreInit ==
    /\ content \in [Block -> Data]
    /\ user = [k \in Block |-> NoProc]

Take(p, k) ==
    /\ user[k] = NoProc
    /\ user' = [user EXCEPT ![k] = p]
    /\ UNCHANGED content

Change(p, k, v) ==
    /\ user[k] = p
    /\ content' = [content EXCEPT ![k] = v]
    /\ UNCHANGED user

Give(p, k) ==
    /\ user[k] = p
    /\ user' = [user EXCEPT ![k] = NoProc]
    /\ UNCHANGED content

StoreNext ==
    \E p \in Proc, k \in Block :
        Take(p, k) \/ Give(p, k) \/ \E v \in Data : Change(p, k, v)

StoreSpec == StoreInit /\ [][StoreNext]_storeVars
=============================================================================
