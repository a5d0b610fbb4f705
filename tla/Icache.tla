------------------------------- MODULE Icache -------------------------------
(***************************************************************************)
(* Inodes of lab2: the inode cache of fs.c (iget, ilock, iunlock, iput,    *)
(* ialloc, iupdate), one directory of files (dirlookup, dirlink), and the  *)
(* system calls of sysfile.c that use them: open, create, link, unlink,    *)
(* read and close.                                                         *)
(*                                                                         *)
(* What a process has still to do of its system call is a sequence of      *)
(* steps.  A step is what the code does under icache.lock, or on one disk  *)
(* block, or between two operations on a sleep lock.                       *)
(***************************************************************************)
EXTENDS Integers, Sequences, FiniteSets, SequencesExt

CONSTANTS
    Proc, NoProc,
    Name,           \* names that can be in the directory, besides "."
    NINODES,        \* sb.ninodes: inodes 1..NINODES can be allocated
    NINODE,         \* entries of the cache, besides the directory's
    LinkTo          \* the second arguments of link()

Dot == "."
Inum == 1..NINODES
Slot == 1..NINODE
Root == 0           \* the entry of the directory; its inode is never freed
NoFile == -1

ASSUME IcacheAssumption ==
    NINODES \in Nat /\ NINODE \in Nat /\ LinkTo \subseteq Name \cup {Dot}

VARIABLES
    dir,            \* the inode number each name has, 0 for none
    dinode,         \* on disk: allocated (type # 0) and nlink
    inum, ref, valid, nlink,    \* of the cache entries
    lock,           \* who holds ip->lock
    todo,           \* what each process has to do
    file            \* the entry of its open file

icVars == <<dir, dinode, inum, ref, valid, nlink, lock, todo, file>>
cacheVars == <<inum, ref, valid, nlink>>

Free == [alloc |-> FALSE, nlink |-> 0]

IcInit ==
    /\ dir = [n \in Name |-> 0]
    /\ dinode = [i \in Inum |-> Free]
    /\ inum = [s \in Slot |-> 0] /\ ref = [s \in Slot |-> 0]
    /\ valid = [s \in Slot |-> FALSE] /\ nlink = [s \in Slot |-> 0]
    /\ lock = [s \in Slot \cup {Root} |-> NoProc]
    /\ todo = [p \in Proc |-> <<>>]
    /\ file = [p \in Proc |-> NoFile]

-----------------------------------------------------------------------------
(* Steps                                                                   *)

Do(op, s) == [op |-> op, slot |-> s]
DoName(op, s, n) == [op |-> op, slot |-> s, name |-> n]
Add(s, k) == [op |-> "nlink", slot |-> s, k |-> k]

\* iput() takes the lock whatever the counts; iput(dp) of the directory too.
iput(s) ==
    IF s = Root THEN <<Do("acquire", Root), Do("release", Root)>>
    ELSE <<Do("acquire", s), Do("test", s), Do("release", s), Do("drop", s)>>
iunlockput(s) == <<Do("release", s)>> \o iput(s)
ilock(s) == <<Do("ilock", s)>>

\* nameiparent() locks and unlocks the directory that the caller then locks.
sys_open(n) == ilock(Root) \o <<DoName("open", Root, n)>>
sys_create(n) == ilock(Root) \o <<DoName("create", Root, n)>>
sys_unlink(n) == ilock(Root) \o <<DoName("unlink", Root, n)>>
sys_link(n, m) == ilock(Root) \o <<[op |-> "link", slot |-> Root, name |-> n, new |-> m]>>
sys_read(s) == ilock(s) \o <<Do("release", s)>>

At(p, op) == todo[p] # <<>> /\ Head(todo[p]).op = op
Arg(p) == Head(todo[p])
GoOn(p, steps) == todo' = [todo EXCEPT ![p] = steps]
Advance(p) == GoOn(p, Tail(todo[p]))

-----------------------------------------------------------------------------
(* The inode cache                                                         *)

\* The entry that iget(i) returns: the one of i, or the first free one.
Cached(i) == {s \in Slot : ref[s] > 0 /\ inum[s] = i}
Entries(i) == IF Cached(i) # {} THEN Cached(i) ELSE {s \in Slot : ref[s] = 0}
EntryOf(i) == CHOOSE s \in Entries(i) : \A t \in Entries(i) : s <= t

iget(i) ==
    LET s == EntryOf(i)
    IN  /\ Entries(i) # {}
        /\ inum' = [inum EXCEPT ![s] = i]
        /\ ref' = [ref EXCEPT ![s] = @ + 1]
        /\ valid' = [valid EXCEPT ![s] = @ /\ Cached(i) # {}]
        /\ UNCHANGED nlink

\* acquiresleep() and, in ilock(), the reading of an inode not yet valid.
acquiresleep(p) ==
    LET s == Arg(p).slot
        reads == At(p, "ilock") /\ s # Root /\ ~valid[s]
    IN  /\ At(p, "acquire") \/ At(p, "ilock")
        /\ lock[s] = NoProc
        /\ lock' = [lock EXCEPT ![s] = p]
        /\ valid' = IF reads THEN [valid EXCEPT ![s] = TRUE] ELSE valid
        /\ nlink' = IF reads THEN [nlink EXCEPT ![s] = dinode[inum[s]].nlink] ELSE nlink
        /\ Advance(p)
        /\ UNCHANGED <<dir, dinode, inum, ref, file>>

releasesleep(p) ==
    /\ At(p, "release")
    /\ lock' = [lock EXCEPT ![Arg(p).slot] = NoProc]
    /\ Advance(p)
    /\ UNCHANGED <<dir, dinode, cacheVars, file>>

\* Mutant: the other references are not looked at.
testNoRef(p) ==
    LET s == Arg(p).slot
        last == valid[s] /\ nlink[s] = 0
    IN  /\ At(p, "test")
        /\ GoOn(p, (IF last THEN <<Do("free", s), Do("invalidate", s)>> ELSE <<>>)
                        \o Tail(todo[p]))
        /\ UNCHANGED <<dir, dinode, cacheVars, lock, file>>

\* iput(): is this the last reference to a file without a name?
test(p) ==
    LET s == Arg(p).slot
        last == valid[s] /\ nlink[s] = 0 /\ ref[s] = 1
    IN  /\ At(p, "test")
        /\ GoOn(p, (IF last THEN <<Do("free", s), Do("invalidate", s)>> ELSE <<>>)
                        \o Tail(todo[p]))
        /\ UNCHANGED <<dir, dinode, cacheVars, lock, file>>

\* itrunc() and iupdate() with type 0.
free(p) ==
    /\ At(p, "free")
    /\ dinode' = [dinode EXCEPT ![inum[Arg(p).slot]] = Free]
    /\ Advance(p)
    /\ UNCHANGED <<dir, cacheVars, lock, file>>

invalidate(p) ==
    /\ At(p, "invalidate")
    /\ valid' = [valid EXCEPT ![Arg(p).slot] = FALSE]
    /\ Advance(p)
    /\ UNCHANGED <<dir, dinode, inum, ref, nlink, lock, file>>

\* What a free entry has in its other fields is never read: they are cleared.
drop(p) ==
    LET s == Arg(p).slot
        clear0(f, v) == [f EXCEPT ![s] = IF ref[s] = 1 THEN v ELSE @]
    IN  /\ At(p, "drop")
        /\ ref' = [ref EXCEPT ![s] = @ - 1]
        /\ inum' = clear0(inum, 0)
        /\ valid' = clear0(valid, FALSE)
        /\ nlink' = clear0(nlink, 0)
        /\ Advance(p)
        /\ UNCHANGED <<dir, dinode, lock, file>>

\* ip->nlink changes and iupdate() writes it through.
iupdate(p) ==
    LET s == Arg(p).slot
        k == nlink[s] + Arg(p).k
    IN  /\ At(p, "nlink")
        /\ nlink' = [nlink EXCEPT ![s] = k]
        /\ dinode' = [dinode EXCEPT ![inum[s]] = [alloc |-> TRUE, nlink |-> k]]
        /\ Advance(p)
        /\ UNCHANGED <<dir, inum, ref, valid, lock, file>>

-----------------------------------------------------------------------------
(* The system calls, from their dirlookup() on, with the directory locked  *)

\* dirlookup() does not find the name.
NotFound(p, op) ==
    /\ At(p, op) /\ dir[Arg(p).name] = 0
    /\ GoOn(p, iunlockput(Root))
    /\ UNCHANGED <<dir, dinode, cacheVars, lock, file>>

\* It does, and the call goes on with rest.
Found(p, op, rest) ==
    /\ At(p, op) /\ dir[Arg(p).name] # 0
    /\ iget(dir[Arg(p).name])
    /\ GoOn(p, rest)
    /\ UNCHANGED <<dir, dinode, lock, file>>

FoundEntry(p) == EntryOf(dir[Arg(p).name])

\* sys_open() and an existing file of create().
open(p) ==
    \/ NotFound(p, "open")
    \/ LET s == FoundEntry(p)
           rest == iunlockput(Root) \o ilock(s) \o <<Do("fdalloc", s)>>
       IN  Found(p, "open", rest) \/ Found(p, "create", rest)

\* ialloc() of create(); the new name, and the lock of the file is kept.
create(p) ==
    /\ At(p, "create") /\ dir[Arg(p).name] = 0
    /\ \E i \in Inum :
        /\ ~dinode[i].alloc /\ \A j \in 1..(i - 1) : dinode[j].alloc
        /\ dinode' = [dinode EXCEPT ![i] = [alloc |-> TRUE, nlink |-> 0]]
        /\ GoOn(p, <<[op |-> "ialloc", slot |-> Root, name |-> Arg(p).name, inum |-> i]>>)
    /\ UNCHANGED <<dir, cacheVars, lock, file>>

ialloc(p) ==
    LET i == Arg(p).inum
        s == EntryOf(i)
    IN  /\ At(p, "ialloc")
        /\ iget(i)
        /\ GoOn(p, ilock(s) \o <<Add(s, 1), DoName("dirlink", s, Arg(p).name)>>
                      \o iunlockput(Root) \o <<Do("fdalloc", s)>>)
        /\ UNCHANGED <<dir, dinode, lock, file>>

\* Mutant: iunlock() in place of iunlockput().
fdallocLeak(p) ==
    LET s == Arg(p).slot
    IN  /\ At(p, "fdalloc")
        /\ GoOn(p, <<Do("release", s)>>)
        /\ file' = [file EXCEPT ![p] = IF @ = NoFile THEN s ELSE @]
        /\ UNCHANGED <<dir, dinode, cacheVars, lock>>

\* The end of sys_open(): no descriptor is left if a file is open already.
fdalloc(p) ==
    LET s == Arg(p).slot
    IN  /\ At(p, "fdalloc")
        /\ IF file[p] = NoFile
           THEN file' = [file EXCEPT ![p] = s] /\ GoOn(p, <<Do("release", s)>>)
           ELSE UNCHANGED file /\ GoOn(p, iunlockput(s))
        /\ UNCHANGED <<dir, dinode, cacheVars, lock>>

unlink(p) ==
    \/ NotFound(p, "unlink")
    \/ LET s == FoundEntry(p)
       IN  Found(p, "unlink", ilock(s) \o <<DoName("clear", s, Arg(p).name)>>
                                \o iunlockput(Root) \o <<Add(s, -1)>> \o iunlockput(s))

\* writei() of an empty entry over the one of the name.
clear(p) ==
    /\ At(p, "clear")
    /\ dir' = [dir EXCEPT ![Arg(p).name] = 0]
    /\ Advance(p)
    /\ UNCHANGED <<dinode, cacheVars, lock, file>>

\* Mutant: the file stays locked while the new name is looked up.
linkLocked(p) ==
    \/ NotFound(p, "link")
    \/ LET s == FoundEntry(p)
       IN  Found(p, "link", iunlockput(Root) \o ilock(s) \o <<Add(s, 1)>>
                              \o ilock(Root) \o <<DoName("newlink", s, Arg(p).new)>>)

link(p) ==
    \/ NotFound(p, "link")
    \/ LET s == FoundEntry(p)
       IN  Found(p, "link", iunlockput(Root) \o ilock(s) \o <<Add(s, 1), Do("release", s)>>
                              \o ilock(Root) \o <<DoName("newlink", s, Arg(p).new)>>)

\* Mutant: the link count stays as it is.
linkBadCounted(p) ==
    LET s == Arg(p).slot
        bad(t) == iput(t) \o iunlockput(Root) \o ilock(s) \o iunlockput(s)
    IN  At(p, "newlink") /\ Arg(p).name # Dot /\ Found(p, "newlink", bad(FoundEntry(p)))

\* dirlink() of link() finds the name: iput() of what it has found, and "bad".
linkBad(p) ==
    LET s == Arg(p).slot
        bad(t) == iput(t) \o iunlockput(Root) \o ilock(s) \o <<Add(s, -1)>> \o iunlockput(s)
    IN  \/ At(p, "newlink") /\ Arg(p).name # Dot /\ Found(p, "newlink", bad(FoundEntry(p)))
        \/ /\ At(p, "newlink") /\ Arg(p).name = Dot
           /\ GoOn(p, bad(Root))
           /\ UNCHANGED <<dir, dinode, cacheVars, lock, file>>

\* dirlink() writes the entry.
dirlink(p) ==
    LET n == Arg(p).name
        s == Arg(p).slot
    IN  /\ At(p, "dirlink") \/ At(p, "newlink")
        /\ n # Dot /\ dir[n] = 0
        /\ dir' = [dir EXCEPT ![n] = inum[s]]
        /\ GoOn(p, IF At(p, "newlink") THEN iunlockput(Root) \o iput(s) ELSE Tail(todo[p]))
        /\ UNCHANGED <<dinode, cacheVars, lock, file>>

-----------------------------------------------------------------------------
\* close() of the open file: the last filedup() is gone.
close(p) ==
    /\ todo[p] = <<>> /\ file[p] # NoFile
    /\ GoOn(p, iput(file[p]))
    /\ file' = [file EXCEPT ![p] = NoFile]
    /\ UNCHANGED <<dir, dinode, cacheVars, lock>>

syscall(p) ==
    /\ todo[p] = <<>>
    /\ \/ \E n \in Name : GoOn(p, sys_open(n)) \/ GoOn(p, sys_create(n))
       \/ \E n \in Name : GoOn(p, sys_unlink(n))
       \/ \E n \in Name, m \in LinkTo : GoOn(p, sys_link(n, m))
       \/ file[p] # NoFile /\ GoOn(p, sys_read(file[p]))
    /\ UNCHANGED <<dir, dinode, cacheVars, lock, file>>

IcStep(p) ==
    \/ acquiresleep(p) \/ releasesleep(p) \/ test(p) \/ free(p)
    \/ invalidate(p) \/ drop(p) \/ iupdate(p)
    \/ open(p) \/ create(p) \/ ialloc(p) \/ fdalloc(p) \/ unlink(p) \/ clear(p)
    \/ link(p) \/ linkBad(p) \/ dirlink(p) \/ close(p) \/ syscall(p)

IcNext == \E p \in Proc : IcStep(p)

IcSpec == IcInit /\ [][IcNext]_icVars

-----------------------------------------------------------------------------
(* Properties                                                              *)

Uses(ops, s) == UNION {{<<p, k>> : k \in {k \in DOMAIN todo[p] :
                     todo[p][k].op \in ops /\ todo[p][k].slot = s}} : p \in Proc}
Has(p, ops, s) == \E u \in Uses(ops, s) : u[1] = p
Adds(p, s, d) == \E k \in DOMAIN todo[p] : todo[p][k] = Add(s, d)

IcTypeOK ==
    /\ dir \in [Name -> Inum \cup {0}]
    /\ dinode \in [Inum -> [alloc : BOOLEAN, nlink : Nat]]
    /\ inum \in [Slot -> Inum \cup {0}] /\ ref \in [Slot -> Nat]
    /\ valid \in [Slot -> BOOLEAN] /\ nlink \in [Slot -> Nat]
    /\ lock \in [Slot \cup {Root} -> Proc \cup {NoProc}]
    /\ file \in [Proc -> Slot \cup {NoFile}]

\* ip->ref counts the open files and the pointers of running system calls.
InodeRefs ==
    IcTypeOK /\ \A s \in Slot :
        ref[s] = Cardinality({p \in Proc : file[p] = s})
                 + Cardinality(Uses({"drop", "fdalloc", "newlink"}, s))

\* The link count of an allocated inode is the number of its names and of the
\* system calls between the change of the count and that of the directory;
\* the cached copy is the one on disk.
LinkCounts ==
    \A i \in Inum :
        LET names == {n \in Name : dir[n] = i}
            adding == {p \in Proc : \E s \in Cached(i) :
                          Has(p, {"dirlink", "newlink"}, s) /\ ~Adds(p, s, 1)}
            removing == {p \in Proc : \E s \in Cached(i) :
                            Adds(p, s, -1) /\ ~Has(p, {"clear"}, s)}
        IN  /\ dinode[i].nlink = Cardinality(names) + Cardinality(adding) + Cardinality(removing)
            /\ \A s \in Cached(i) : valid[s] => nlink[s] = dinode[i].nlink

\* No file is freed while it has a name or a user, and no entry appears twice:
\* a locked entry is one of an allocated inode ("ilock: no type" and
\* "unlink: nlink < 1" are never reached).
InUseIsAllocated ==
    /\ \A n \in Name : dir[n] # 0 => dinode[dir[n]].alloc
    /\ \A p \in Proc, s \in Slot : file[p] = s => dinode[inum[s]].alloc
    /\ \A s, t \in Slot : ref[s] > 0 /\ ref[t] > 0 /\ inum[s] = inum[t] => s = t
    /\ \A p \in Proc : At(p, "ilock") /\ Arg(p).slot # Root => dinode[inum[Arg(p).slot]].alloc
    /\ \A p \in Proc : At(p, "clear") => nlink[Arg(p).slot] > 0

\* No inode is lost: one without a name is in use or about to be.
NoInodeLeak ==
    \A i \in Inum :
        dinode[i].alloc /\ dinode[i].nlink = 0 =>
            \/ Cached(i) # {}
            \/ \E p \in Proc : At(p, "ialloc") /\ Arg(p).inum = i

Waits(p, q) == (At(p, "acquire") \/ At(p, "ilock")) /\ lock[Arg(p).slot] = q

\* The calls lock the directory before a file in it, so that no two wait for each
\* other and none for itself, except through the lock that iput() of the
\* directory takes: iunlockput(dp) by a call that holds a file in dp, or the
\* iput() of a name that dirlink() found to be dp itself.
OnlyDirPutDeadlocks ==
    \A p, q \in Proc :
        Waits(p, q) /\ Waits(q, p) =>
            \E r \in {p, q} : At(r, "acquire") /\ Arg(r).slot = Root
=============================================================================
