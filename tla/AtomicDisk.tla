----------------------------- MODULE AtomicDisk -----------------------------
(***************************************************************************)
(* What the logging layer promises to the file system (the comment at the  *)
(* head of log.c): the blocks written by the system calls of a group reach *)
(* the disk together or not at all, no system call is ever cut in two by a *)
(* crash, and the last end_op() of a group returns when the group is safe. *)
(***************************************************************************)
CONSTANTS Proc, Block, Data

VARIABLES
    stable,     \* what a reboot would find
    current,    \* what the running system reads
    active,     \* the processes between begin_op() and end_op()
    closing     \* the last of a group has ended and waits for the commit

absVars == <<stable, current, active, closing>>

AbsInit ==
    /\ stable \in [Block -> Data]
    /\ current = stable
    /\ active = {}
    /\ closing = FALSE

Begin(p) ==
    /\ p \notin active /\ ~closing
    /\ active' = active \cup {p}
    /\ UNCHANGED <<stable, current, closing>>

Write(p, b, v) ==
    /\ p \in active
    /\ current' = [current EXCEPT ![b] = v]
    /\ UNCHANGED <<stable, active, closing>>

End(p) ==
    /\ p \in active
    /\ active' = active \ {p}
    /\ closing' = (active' = {})
    /\ UNCHANGED <<stable, current>>

\* Everything written by the group becomes stable in one step.
Commit ==
    /\ closing
    /\ stable' = current
    /\ closing' = FALSE
    /\ UNCHANGED <<current, active>>

\* The power fails: what was not committed is gone.
Fail ==
    /\ current' = stable
    /\ active' = {}
    /\ closing' = FALSE
    /\ UNCHANGED stable

AbsNext ==
    \/ \E p \in Proc : Begin(p) \/ End(p)
    \/ \E p \in Proc, b \in Block, v \in Data : Write(p, b, v)
    \/ Commit
    \/ Fail

AbsSpec == AbsInit /\ [][AbsNext]_absVars

\* The promise end_op() makes to its caller: when no system call is in
\* progress and none waits for the commit, a crash loses nothing.
Durable == active = {} /\ ~closing => stable = current
=============================================================================
