---------------------------------- MODULE Fs ----------------------------------
(***************************************************************************)
(* Inodes, directories, paths, open files and the system calls on them     *)
(* (homeworks/xv6-public: fs.c, file.c, sysfile.c and the file side of     *)
(* fork(), exit() and exec()).                                             *)
(*                                                                         *)
(* A process runs a system call step by step: pc is the next step of the   *)
(* call, todo the iput() and iunlock() calls it makes before that one.  A  *)
(* step is a section of code that takes at most one inode lock, then       *)
(* touches shared state at most once outside the inodes it has locked:     *)
(* sections under icache.lock, ftable.lock or a buffer's lock are part of  *)
(* a step.  A process waits in front of a step whose inode lock somebody   *)
(* holds.                                                                  *)
(*                                                                         *)
(* The inode cache is indexed by inode number: iget() never makes a second *)
(* entry for a number that has one.  File contents and block numbers are   *)
(* left out; a directory is a function from names to inode numbers, 0 for  *)
(* no entry.  begin_op() always admits (module Log has its waiting).       *)
(***************************************************************************)
EXTENDS Integers, Sequences, FiniteSets

CONSTANTS
    Process,        \* slots of the process table
    InitProc,       \* the process that runs first
    None,           \* nobody holds the lock
    NINODES,        \* inodes on the disk: numbers 1 .. NINODES
    Name,           \* names other than "." and ".."
    NFILE, NOFILE,  \* entries of ftable, and of a process's ofile[]
    Call            \* the path calls a process makes: records [op, path, new]

ROOTINO == 1
Inum  == 1 .. NINODES
Dots  == {".", ".."}
Entry == Name \union Dots
File  == 1 .. NFILE
Fd    == 1 .. NOFILE

Creates == {"create", "mkdir", "mknod"}
PathOp  == {"open", "openw", "link", "unlink", "chdir", "exec"} \union Creates
\* A path is a sequence of elements; "/" in front makes it an absolute one.
Path    == {p \in Seq(Entry \union {"/"}) : \A k \in 2 .. Len(p) : p[k] \in Entry}

ASSUME FsAssumption ==
    /\ NINODES \in Nat \ {0} /\ NFILE \in Nat /\ NOFILE \in Nat
    /\ IsFiniteSet(Process) /\ InitProc \in Process /\ None \notin Process
    /\ IsFiniteSet(Name) /\ Name \intersect (Dots \union {"/"}) = {}
    /\ \A t \in Process : \A c \in Call[t] : c.op \in PathOp /\ c.path \in Path /\ c.new \in Path

VARIABLES
    disk,       \* type and nlink of every dinode
    dir,        \* the entries of every directory
    cache,      \* icache: ref, valid, and the copies of type and nlink
    lock,       \* who holds an inode's sleep-lock
    file,       \* ftable: ref, and the inode
    ofile, cwd, \* of a process; cwd = 0: the slot has no process
    pc,         \* the next step of a process's system call
    todo,       \* the iput() and iunlock() before it: <<step, inode>>
    local,      \* the variables of the system call
    panicked,   \* the message of the panic that stopped the machine, or "no"
    lost, stranded, \* history: see OrphanByRaceOrCrash and LinksMatchNames
    strayed         \* history: a lookup has reached an inode that is Gone

diskVars == <<disk, dir>>
fileVars == <<file, ofile>>
ghosts   == <<lost, stranded, strayed>>
control  == <<pc, todo>>
vars == <<diskVars, cache, lock, fileVars, cwd, control, local, panicked, ghosts>>

Type == {"free", "dir", "file", "dev"}
Step == {"user", "namei", "nameiparent", "openfd", "chdir", "exec", "close",
         "link1", "link2", "linkbad", "unlink1", "unlink2", "unlink3",
         "create1", "create2", "exists"}
PutStep == {"put", "free", "drop"}

NoDir    == [n \in Entry |-> 0]
NoEntry  == [ref |-> 0, valid |-> FALSE, type |-> "free", nlink |-> 0]
Idle     == [call |-> None, path |-> <<>>, ip |-> 0, dp |-> 0]

\* The sets the variables range over; the number 0 is no inode, no file.
OptInum  == Inum \union {0}
OptFile  == File \union {0}
OptHolder == Process \union {None}
Dinode   == [type : Type, nlink : Int]
Inode    == [ref : Nat, valid : BOOLEAN, type : Type, nlink : Int]
FileRec  == [ref : Nat, ip : OptInum]
Contents == [Entry -> OptInum]
Ofile    == [Fd -> OptFile]
Todo     == Seq((PutStep \union {"unlock"}) \X Inum)
AllCalls == UNION {Call[t] : t \in Process}
Local    == [call : AllCalls \union {None}, path : Seq(Entry),
             ip : OptInum, dp : OptInum]
Message  == {"no", "ilock: no type", "unlink: nlink < 1", "ialloc: no inodes"}

TypeOK ==
    /\ disk \in [Inum -> Dinode]
    /\ dir \in [Inum -> Contents]
    /\ cache \in [Inum -> Inode]
    /\ lock \in [Inum -> OptHolder]
    /\ file \in [File -> FileRec]
    /\ ofile \in [Process -> Ofile]
    /\ cwd \in [Process -> OptInum]
    /\ pc \in [Process -> Step]
    /\ todo \in [Process -> Todo]
    /\ local \in [Process -> Local]
    /\ panicked \in Message
    /\ lost \subseteq Inum /\ stranded \subseteq Inum /\ strayed \in BOOLEAN

\* A disk made by mkfs without files, and the first process in "/".
Init ==
    /\ disk = [i \in Inum |-> IF i = ROOTINO THEN [type |-> "dir", nlink |-> 1]
                                             ELSE [type |-> "free", nlink |-> 0]]
    /\ dir = [i \in Inum |-> IF i = ROOTINO
                               THEN [n \in Entry |-> IF n \in Dots THEN ROOTINO ELSE 0]
                               ELSE NoDir]
    /\ cache = [i \in Inum |-> IF i = ROOTINO THEN [NoEntry EXCEPT !.ref = 1] ELSE NoEntry]
    /\ lock = [i \in Inum |-> None]
    /\ file = [f \in File |-> [ref |-> 0, ip |-> 0]]
    /\ ofile = [t \in Process |-> [d \in Fd |-> 0]]
    /\ cwd = [t \in Process |-> IF t = InitProc THEN ROOTINO ELSE 0]
    /\ pc = [t \in Process |-> "user"]
    /\ todo = [t \in Process |-> <<>>]
    /\ local = [t \in Process |-> Idle]
    /\ panicked = "no"
    /\ lost = {} /\ stranded = {} /\ strayed = FALSE

-----------------------------------------------------------------------------
(* The step a process is at, and the lock it needs.                        *)

Put(i)  == <<"put", i>>
At(t)   == IF todo[t] = <<>> THEN pc[t] ELSE Head(todo[t])[1]
Arg(t)  == Head(todo[t])[2]
Rest(t) == Tail(todo[t])
Do(t, s) == todo' = [todo EXCEPT ![t] = s]
Goto(t, s, step) == Do(t, s) /\ pc' = [pc EXCEPT ![t] = step]
\* Only iput() calls are left: the variables of the system call are dead.
Finish(t, s) == Goto(t, s, "user") /\ local' = [local EXCEPT ![t] = Idle]

\* fileclose() of exit() starts its transaction after the reference is gone.
InOp(t) == At(t) \notin {"user", "close"}

\* The inode a lookup has reached: ip of namei(), dp of nameiparent().
Walked(t) == IF At(t) = "namei" THEN local[t].ip ELSE local[t].dp
Walk(l, step, path, i) == IF step = "namei" THEN [l EXCEPT !.path = path, !.ip = i]
                                            ELSE [l EXCEPT !.path = path, !.dp = i]

\* The inode whose lock the next step takes, 0 if it takes none.
LockTarget(t) ==
    LET a == At(t) IN
    CASE a = "put"                       -> Arg(t)
      [] a \in {"namei", "nameiparent"}  -> IF local[t].path = <<>> THEN 0
                                            ELSE Walked(t)
      [] a = "openfd"                    -> IF lock[local[t].ip] = t THEN 0 ELSE local[t].ip
      [] a \in {"chdir", "exec", "link1", "linkbad", "unlink2", "create2", "exists"}
                                         -> local[t].ip
      [] a \in {"link2", "unlink1", "create1"} -> local[t].dp
      [] OTHER                           -> 0

\* ilock() of an inode that is not in memory reads the dinode.
Loaded(i) ==
    IF cache[i].valid THEN cache[i]
    ELSE [cache[i] EXCEPT !.valid = TRUE, !.type = disk[i].type, !.nlink = disk[i].nlink]

NoType(i) == ~cache[i].valid /\ disk[i].type = "free"

\* The process runs the step: the lock it takes is free, and ilock() does not panic.
Runs(t, step) ==
    /\ panicked = "no"
    /\ At(t) = step
    /\ LockTarget(t) # 0 => /\ lock[LockTarget(t)] = None
                            /\ step # "put" => ~NoType(LockTarget(t))

\* iget() and idup(), on the contents c of the cache.  Mutant: a second
\* reference to an entry is not counted.
Iget_Once(c, i) == IF c[i].ref > 0 THEN c ELSE [c EXCEPT ![i] = [NoEntry EXCEPT !.ref = 1]]
Iget(c, i) == IF c[i].ref > 0 THEN [c EXCEPT ![i].ref = @ + 1]
                              ELSE [c EXCEPT ![i] = [NoEntry EXCEPT !.ref = 1]]

\* Directories: the number under a name, and the contents e with an entry
\* added or with the file truncated.
Dirlookup(d, name)     == dir[d][name]
Dirlink(e, d, name, i) == [e EXCEPT ![d][name] = i]
Itrunc(e, i)           == [e EXCEPT ![i] = NoDir]

\* nlink is changed in memory and written through by iupdate(); the caller holds ip->lock.
SetLinks(c, i, n) == [c EXCEPT ![i].nlink = n]

IlockPanic(t) ==
    /\ panicked = "no"
    /\ LockTarget(t) # 0 /\ At(t) # "put"
    /\ lock[LockTarget(t)] = None /\ NoType(LockTarget(t))
    /\ panicked' = "ilock: no type"
    /\ UNCHANGED <<diskVars, cache, lock, fileVars, cwd, control, local, ghosts>>

-----------------------------------------------------------------------------
(* iput(): the check under the inode's lock, the freeing, the decrement.   *)

\* Mutants: the reference count is not looked at; it is compared after a decrement.
LastRef_NoCount(i) == cache[i].valid /\ cache[i].nlink = 0
LastRef_Late(i)    == cache[i].valid /\ cache[i].nlink = 0 /\ cache[i].ref = 0
LastRef(i) == cache[i].valid /\ cache[i].nlink = 0 /\ cache[i].ref = 1

\* The lock stays with the process while it frees the inode.
PutLast(t) ==
    /\ Runs(t, "put") /\ LastRef(Arg(t))
    /\ lock' = [lock EXCEPT ![Arg(t)] = t]
    /\ Do(t, <<<<"free", Arg(t)>>>> \o Rest(t))
    /\ UNCHANGED <<diskVars, cache, fileVars, cwd, pc, local, panicked, ghosts>>

\* Mutant: valid stays set.
Freed_Valid(c, i) == [c EXCEPT ![i].type = "free"]
Freed(c, i) == [c EXCEPT ![i].type = "free", ![i].valid = FALSE]

\* itrunc(), type = 0, iupdate(), valid = 0.
PutFree(t) ==
    LET i == Arg(t) IN
    /\ Runs(t, "free")
    /\ disk' = [disk EXCEPT ![i] = [type |-> "free", nlink |-> 0]]
    /\ dir' = Itrunc(dir, i)
    /\ cache' = Freed(cache, i)
    /\ lock' = [lock EXCEPT ![i] = None]
    /\ Do(t, <<<<"drop", i>>>> \o Rest(t))
    /\ lost' = lost \ {i}
    /\ stranded' = stranded \union ({dir[i][n] : n \in Name} \ {0})
    /\ UNCHANGED <<fileVars, cwd, pc, local, panicked, strayed>>

\* lost: the inode has no links and the check counts a reference that
\* another iput() has passed the check with and is about to drop.
PutKeep(t) ==
    LET i == Arg(t) IN
    /\ Runs(t, "put") /\ ~LastRef(i)
    /\ Do(t, <<<<"drop", i>>>> \o Rest(t))
    /\ lost' = IF /\ cache[i].valid /\ cache[i].nlink = 0
                  /\ \E u \in Process : At(u) = "drop" /\ Arg(u) = i
               THEN lost \union {i} ELSE lost
    /\ UNCHANGED <<diskVars, cache, lock, fileVars, cwd, pc, local, panicked, stranded, strayed>>

PutDrop(t) ==
    LET i == Arg(t) IN
    /\ Runs(t, "drop")
    /\ cache' = IF cache[i].ref = 1 THEN [cache EXCEPT ![i] = NoEntry]
                                     ELSE [cache EXCEPT ![i].ref = @ - 1]
    /\ Do(t, Rest(t))
    /\ UNCHANGED <<diskVars, lock, fileVars, cwd, pc, local, panicked, ghosts>>

Unlock(t) ==
    /\ Runs(t, "unlock")
    /\ lock' = [lock EXCEPT ![Arg(t)] = None]
    /\ Do(t, Rest(t))
    /\ UNCHANGED <<diskVars, cache, fileVars, cwd, pc, local, panicked, ghosts>>

-----------------------------------------------------------------------------
(* namex(): one element of the path per step.                              *)

\* Which of the two lookups a call starts with, and what it does next.
\* link() calls namei() for its first path, nameiparent() for its second.
LookupOf(op) == IF op \in Creates \union {"unlink"} THEN "nameiparent" ELSE "namei"
AfterNamei(op) == CASE op \in {"open", "openw"} -> "openfd"
                    [] op = "link"              -> "link1"
                    [] OTHER                    -> op
AfterNameiparent(op) == CASE op = "link"   -> "link2"
                          [] op = "unlink" -> "unlink1"
                          [] OTHER         -> "create1"
Found(t) == IF pc[t] = "namei" THEN AfterNamei(local[t].call.op)
                               ELSE AfterNameiparent(local[t].call.op)

Start(t, p)  == IF p # <<>> /\ Head(p) = "/" THEN ROOTINO ELSE cwd[t]
Elements(p)  == IF p # <<>> /\ Head(p) = "/" THEN Tail(p) ELSE p

SysPath(t, c) ==
    /\ panicked = "no" /\ At(t) = "user" /\ cwd[t] # 0
    /\ cache' = Iget(cache, Start(t, c.path))
    /\ local' = [local EXCEPT ![t] = Walk([@ EXCEPT !.call = c], LookupOf(c.op),
                                          Elements(c.path), Start(t, c.path))]
    /\ Goto(t, <<>>, LookupOf(c.op))
    /\ UNCHANGED <<diskVars, lock, fileVars, cwd, panicked, ghosts>>

\* ".." of a removed directory keeps the number of the parent, which may be
\* free by now, be on its way there, or be taken again and not yet set up.
Gone(i) ==
    \/ disk[i].type = "free"
    \/ \E u \in Process : \/ At(u) = "free" /\ Arg(u) = i
                          \/ At(u) = "create2" /\ local[u].ip = i
Strays(name, i) == name = ".." /\ Gone(i)

\* bad: of sys_link(), after the iput() calls s.  Mutant: the count is not taken back.
LinkFails_Keep(t, s) == Finish(t, s \o <<Put(local[t].ip)>>)
LinkFails(t, s) == Goto(t, s, "linkbad") /\ UNCHANGED local

\* namex() returns 0: only link() has more to do than to give up.
\* Mutant: the inode is not put.
NotFound_NoPut(t, i) == Finish(t, <<>>)
NotFound(t, i) ==
    IF At(t) = "nameiparent" /\ local[t].call.op = "link"
    THEN LinkFails(t, <<Put(i)>>)
    ELSE Finish(t, <<Put(i)>>)

\* The path is used up: namei() returns, nameiparent() fails.
NamexEnd(t) ==
    /\ At(t) \in {"namei", "nameiparent"} /\ Runs(t, At(t))
    /\ local[t].path = <<>>
    /\ \/ At(t) = "namei" /\ Goto(t, <<>>, Found(t)) /\ UNCHANGED local
       \/ At(t) = "nameiparent" /\ NotFound(t, local[t].dp)
    /\ UNCHANGED <<diskVars, cache, lock, fileVars, cwd, panicked, ghosts>>

Namex(t) ==
    LET i    == Walked(t)
        name == Head(local[t].path)
        last == At(t) = "nameiparent" /\ Len(local[t].path) = 1
        next == Dirlookup(i, name)
        c    == [cache EXCEPT ![i] = Loaded(i)]
    IN
    /\ At(t) \in {"namei", "nameiparent"} /\ Runs(t, At(t))
    /\ local[t].path # <<>>
    /\ \/ /\ c[i].type # "dir" \/ (~last /\ next = 0)
          /\ cache' = c
          /\ NotFound(t, i)
          /\ UNCHANGED strayed
       \/ /\ c[i].type = "dir" /\ last        \* stop one level early
          /\ cache' = c
          /\ Goto(t, <<>>, Found(t))
          /\ UNCHANGED <<local, strayed>>
       \/ /\ c[i].type = "dir" /\ ~last /\ next # 0
          /\ cache' = Iget(c, next)
          /\ Goto(t, <<Put(i)>>, pc[t])
          /\ local' = [local EXCEPT ![t] = Walk(@, pc[t], Tail(@.path), next)]
          /\ strayed' = (strayed \/ Strays(name, next))
    /\ UNCHANGED <<diskVars, lock, fileVars, cwd, panicked, lost, stranded>>

-----------------------------------------------------------------------------
(* link(): the count first, then the entry; bad: takes the count back.     *)

\* nlink++.  Mutant: link() forgets it.
Linked_Not(n) == n
Linked(n) == n + 1

Link1(t) ==
    LET i == local[t].ip
        c == [cache EXCEPT ![i] = Loaded(i)]
        p == local[t].call.new
    IN
    /\ Runs(t, "link1")
    /\ \/ /\ c[i].type = "dir"
          /\ cache' = c
          /\ Finish(t, <<Put(i)>>)
          /\ UNCHANGED disk
       \/ /\ c[i].type # "dir"
          /\ cache' = Iget(SetLinks(c, i, Linked(c[i].nlink)), Start(t, p))
          /\ disk' = [disk EXCEPT ![i].nlink = Linked(c[i].nlink)]
          /\ local' = [local EXCEPT ![t] = Walk(@, "nameiparent", Elements(p), Start(t, p))]
          /\ Goto(t, <<>>, "nameiparent")
    /\ UNCHANGED <<dir, lock, fileVars, cwd, panicked, ghosts>>

\* dirlink() calls iput() on an inode it finds under the name, with dp locked.
Link2(t) ==
    LET d     == local[t].dp
        i     == local[t].ip
        name  == local[t].path[1]
        found == Dirlookup(d, name)
        c     == [cache EXCEPT ![d] = Loaded(d)]
    IN
    /\ Runs(t, "link2")
    /\ \/ /\ found # 0
          /\ cache' = Iget(c, found)
          /\ lock' = [lock EXCEPT ![d] = t]
          /\ LinkFails(t, <<Put(found), <<"unlock", d>>, Put(d)>>)
          /\ strayed' = (strayed \/ Strays(name, found))
          /\ UNCHANGED dir
       \/ /\ found = 0
          /\ cache' = c
          /\ dir' = Dirlink(dir, d, name, i)
          /\ Finish(t, <<Put(d), Put(i)>>)
          /\ UNCHANGED <<lock, strayed>>
    /\ UNCHANGED <<disk, fileVars, cwd, panicked, lost, stranded>>

LinkBad(t) ==
    LET i == local[t].ip
        c == [cache EXCEPT ![i] = Loaded(i)]
    IN
    /\ Runs(t, "linkbad")
    /\ cache' = SetLinks(c, i, c[i].nlink - 1)
    /\ disk' = [disk EXCEPT ![i].nlink = c[i].nlink - 1]
    /\ Finish(t, <<Put(i)>>)
    /\ UNCHANGED <<dir, lock, fileVars, cwd, panicked, ghosts>>

-----------------------------------------------------------------------------
(* unlink()                                                                *)

\* Mutant: the test for ".." is missing.
CannotUnlink_DotOnly == {"."}
CannotUnlink == Dots

Unlink1(t) ==
    LET d    == local[t].dp
        name == local[t].path[1]
        ip   == Dirlookup(d, name)
        c    == [cache EXCEPT ![d] = Loaded(d)]
    IN
    /\ Runs(t, "unlink1")
    /\ \/ /\ name \in CannotUnlink \/ ip = 0
          /\ cache' = c
          /\ Finish(t, <<Put(d)>>)
          /\ UNCHANGED lock
       \/ /\ name \notin CannotUnlink /\ ip # 0
          /\ cache' = Iget(c, ip)
          /\ lock' = [lock EXCEPT ![d] = t]
          /\ local' = [local EXCEPT ![t].ip = ip]
          /\ Goto(t, <<>>, "unlink2")
    /\ UNCHANGED <<diskVars, fileVars, cwd, panicked, ghosts>>

IsDirEmpty(i) == \A n \in Name : dir[i][n] = 0

\* dp is unlocked and put while ip stays locked.
Unlink2(t) ==
    LET d == local[t].dp
        i == local[t].ip
        c == [cache EXCEPT ![i] = Loaded(i)]
        sub == c[i].type = "dir"
        n == IF sub THEN c[d].nlink - 1 ELSE c[d].nlink
    IN
    /\ Runs(t, "unlink2")
    /\ \/ /\ c[i].nlink < 1
          /\ panicked' = "unlink: nlink < 1"
          /\ UNCHANGED <<diskVars, cache, lock, control, local>>
       \/ /\ c[i].nlink >= 1 /\ sub /\ ~IsDirEmpty(i)
          /\ cache' = c
          /\ Finish(t, <<Put(i), <<"unlock", d>>, Put(d)>>)
          /\ UNCHANGED <<diskVars, lock, panicked>>
       \/ /\ c[i].nlink >= 1 /\ (sub => IsDirEmpty(i))
          /\ dir' = [dir EXCEPT ![d][local[t].path[1]] = 0]
          /\ cache' = SetLinks(c, d, n)
          /\ disk' = [disk EXCEPT ![d].nlink = n]
          /\ lock' = [lock EXCEPT ![d] = None, ![i] = t]
          /\ Goto(t, <<Put(d)>>, "unlink3")
          /\ UNCHANGED <<local, panicked>>
    /\ UNCHANGED <<fileVars, cwd, ghosts>>

Unlink3(t) ==
    LET i == local[t].ip IN
    /\ Runs(t, "unlink3")
    /\ cache' = SetLinks(cache, i, cache[i].nlink - 1)
    /\ disk' = [disk EXCEPT ![i].nlink = cache[i].nlink - 1]
    /\ lock' = [lock EXCEPT ![i] = None]
    /\ Finish(t, <<Put(i)>>)
    /\ UNCHANGED <<dir, fileVars, cwd, panicked, ghosts>>

-----------------------------------------------------------------------------
(* create(), for open(O_CREATE), mkdir() and mknod()                       *)

TypeOf(op) == CASE op = "create" -> "file" [] op = "mkdir" -> "dir" [] OTHER -> "dev"
First(x, s) == x \in s /\ \A y \in s : x <= y
FreeInodes == {i \in Inum : disk[i].type = "free"}

\* ialloc() marks the first free dinode.  (Its scan is one step: an inode that
\* is freed behind the scan would only be missed.)
Ialloc(i, type) ==
    /\ First(i, FreeInodes)
    /\ disk' = [disk EXCEPT ![i] = [type |-> type, nlink |-> 0]]

\* The name exists, or the new inode is locked next, with dp still locked.
Create1(t) ==
    LET d     == local[t].dp
        name  == local[t].path[1]
        found == Dirlookup(d, name)
        c     == [cache EXCEPT ![d] = Loaded(d)]
    IN
    /\ Runs(t, "create1")
    /\ \/ /\ found # 0
          /\ cache' = Iget(c, found)
          /\ local' = [local EXCEPT ![t].ip = found]
          /\ Goto(t, <<Put(d)>>, "exists")
          /\ strayed' = (strayed \/ Strays(name, found))
          /\ UNCHANGED <<disk, lock, panicked>>
       \/ /\ found = 0 /\ FreeInodes = {}
          /\ panicked' = "ialloc: no inodes"
          /\ UNCHANGED <<disk, cache, lock, control, local, strayed>>
       \/ /\ found = 0
          /\ \E i \in Inum :
               /\ Ialloc(i, TypeOf(local[t].call.op))
               /\ cache' = Iget(c, i)
               /\ local' = [local EXCEPT ![t].ip = i]
          /\ lock' = [lock EXCEPT ![d] = t]
          /\ Goto(t, <<>>, "create2")
          /\ UNCHANGED <<panicked, strayed>>
    /\ UNCHANGED <<dir, fileVars, cwd, lost, stranded>>

\* The new inode gets its link, "." and "..", and the entry in dp; then
\* dp is unlocked and put while ip stays locked.  mkdir() and mknod() unlock
\* and put ip, open() goes on with it.  Left out: panic("create dots"), which a
\* stray lookup alone can prepare, by linking "." in ip before create() gets to it.
Create2(t) ==
    LET d == local[t].dp
        i == local[t].ip
        c == [cache EXCEPT ![i] = Loaded(i)]
        isdir == TypeOf(local[t].call.op) = "dir"
        n == IF isdir THEN c[d].nlink + 1 ELSE c[d].nlink
        dots == Dirlink(Dirlink(dir, i, ".", i), i, "..", d)
    IN
    /\ Runs(t, "create2")
    /\ cache' = SetLinks(SetLinks(c, i, 1), d, n)
    /\ disk' = [disk EXCEPT ![i].nlink = 1, ![d].nlink = n]
    /\ dir' = Dirlink(IF isdir THEN dots ELSE dir, d, local[t].path[1], i)
    /\ lock' = [lock EXCEPT ![d] = None, ![i] = t]
    /\ IF local[t].call.op = "create"
       THEN Goto(t, <<Put(d)>>, "openfd") /\ UNCHANGED local
       ELSE Finish(t, <<Put(d), <<"unlock", i>>, Put(i)>>)
    /\ UNCHANGED <<fileVars, cwd, panicked, ghosts>>

\* Only open(O_CREATE) takes an inode that exists, and only a file.
Exists(t) ==
    LET i == local[t].ip
        c == [cache EXCEPT ![i] = Loaded(i)]
        ok == local[t].call.op = "create" /\ c[i].type = "file"
    IN
    /\ Runs(t, "exists")
    /\ cache' = c
    /\ \/ ok /\ lock' = [lock EXCEPT ![i] = t] /\ Goto(t, <<>>, "openfd") /\ UNCHANGED local
       \/ ~ok /\ Finish(t, <<Put(i)>>) /\ UNCHANGED lock
    /\ UNCHANGED <<diskVars, fileVars, cwd, panicked, ghosts>>

-----------------------------------------------------------------------------
(* open(), close(), chdir() and exec()                                     *)

FreeFiles  == {f \in File : file[f].ref = 0}
FreeFds(t) == {d \in Fd : ofile[t][d] = 0}

\* create() has left ip locked, namei() has not.
\* filealloc() and fdalloc(); without a file or a descriptor the inode is put back.
OpenFd(t) ==
    LET i == local[t].ip
        c == IF lock[i] = t THEN cache ELSE [cache EXCEPT ![i] = Loaded(i)]
        isdir == local[t].call.op = "openw" /\ c[i].type = "dir"
    IN
    /\ Runs(t, "openfd")
    /\ cache' = c
    /\ lock' = IF lock[i] = t THEN [lock EXCEPT ![i] = None] ELSE lock
    /\ \/ /\ ~isdir
          /\ \E f \in File, d \in Fd :
               /\ First(f, FreeFiles) /\ First(d, FreeFds(t))
               /\ file' = [file EXCEPT ![f] = [ref |-> 1, ip |-> i]]
               /\ ofile' = [ofile EXCEPT ![t][d] = f]
          /\ Finish(t, <<>>)
       \/ /\ isdir \/ FreeFiles = {} \/ FreeFds(t) = {}
          /\ Finish(t, <<Put(i)>>)
          /\ UNCHANGED fileVars
    /\ UNCHANGED <<diskVars, cwd, panicked, ghosts>>

\* fileclose(): the last reference to the file puts its inode, in a transaction.
CloseFd(t, d) ==
    LET f == ofile[t][d] IN
    /\ ofile' = [ofile EXCEPT ![t][d] = 0]
    /\ file' = IF file[f].ref > 1 THEN [file EXCEPT ![f].ref = @ - 1]
                                   ELSE [file EXCEPT ![f] = [ref |-> 0, ip |-> 0]]
    /\ Do(t, IF file[f].ref > 1 THEN <<>> ELSE <<Put(file[f].ip)>>)

SysClose(t) ==
    /\ panicked = "no" /\ At(t) = "user"
    /\ \E d \in Fd : ofile[t][d] # 0 /\ CloseFd(t, d)
    /\ UNCHANGED <<diskVars, cache, lock, cwd, pc, local, panicked, ghosts>>

\* Nobody else reads cwd, so it changes here and not after the iput().
Chdir(t) ==
    LET i == local[t].ip
        c == [cache EXCEPT ![i] = Loaded(i)]
    IN
    /\ Runs(t, "chdir")
    /\ cache' = c
    /\ \/ c[i].type # "dir" /\ Finish(t, <<Put(i)>>) /\ UNCHANGED cwd
       \/ c[i].type = "dir" /\ Finish(t, <<Put(cwd[t])>>) /\ cwd' = [cwd EXCEPT ![t] = i]
    /\ UNCHANGED <<diskVars, lock, fileVars, panicked, ghosts>>

\* exec() reads the program under the inode's lock and puts the inode.
Exec(t) ==
    LET i == local[t].ip IN
    /\ Runs(t, "exec")
    /\ cache' = [cache EXCEPT ![i] = Loaded(i)]
    /\ Finish(t, <<Put(i)>>)
    /\ UNCHANGED <<diskVars, lock, fileVars, cwd, panicked, ghosts>>

-----------------------------------------------------------------------------
(* fork() and exit() share and give up files and the current directory.    *)

Fork(t, u) ==
    /\ panicked = "no" /\ At(t) = "user" /\ cwd[t] # 0
    /\ cwd[u] = 0 /\ At(u) = "user"
    /\ file' = [f \in File |-> [file[f] EXCEPT !.ref = @ + Cardinality({d \in Fd : ofile[t][d] = f})]]
    /\ ofile' = [ofile EXCEPT ![u] = ofile[t]]
    /\ cache' = Iget(cache, cwd[t])
    /\ cwd' = [cwd EXCEPT ![u] = cwd[t]]
    /\ UNCHANGED <<diskVars, lock, control, local, panicked, ghosts>>

Exit(t) ==
    /\ panicked = "no" /\ At(t) = "user" /\ cwd[t] # 0 /\ t # InitProc
    /\ Goto(t, <<>>, "close")
    /\ UNCHANGED <<diskVars, cache, lock, fileVars, cwd, local, panicked, ghosts>>

OpenFds(t) == {d \in Fd : ofile[t][d] # 0}

\* exit() closes the open descriptors in order, each before the next,
ExitClose(t) ==
    /\ Runs(t, "close") /\ OpenFds(t) # {}
    /\ \E d \in Fd : First(d, OpenFds(t)) /\ CloseFd(t, d)
    /\ UNCHANGED <<diskVars, cache, lock, cwd, pc, local, panicked, ghosts>>

\* then it puts cwd.
ExitCwd(t) ==
    /\ Runs(t, "close") /\ OpenFds(t) = {}
    /\ Goto(t, <<Put(cwd[t])>>, "user")
    /\ cwd' = [cwd EXCEPT ![t] = 0]
    /\ UNCHANGED <<diskVars, cache, lock, fileVars, local, panicked, ghosts>>

\* The log brings back the disk of the last moment without a transaction
\* (module Log), so a crash at such a moment stands for all crashes.
Crash ==
    /\ panicked = "no"
    /\ \A t \in Process : ~InOp(t)
    /\ cache' = [i \in Inum |-> IF i = ROOTINO THEN [NoEntry EXCEPT !.ref = 1] ELSE NoEntry]
    /\ lock' = [i \in Inum |-> None]
    /\ file' = [f \in File |-> [ref |-> 0, ip |-> 0]]
    /\ ofile' = [t \in Process |-> [d \in Fd |-> 0]]
    /\ cwd' = [t \in Process |-> IF t = InitProc THEN ROOTINO ELSE 0]
    /\ pc' = [t \in Process |-> "user"]
    /\ todo' = [t \in Process |-> <<>>]
    /\ local' = [t \in Process |-> Idle]
    /\ lost' = {i \in Inum : disk[i].type # "free" /\ disk[i].nlink = 0}
    /\ UNCHANGED <<diskVars, panicked, stranded, strayed>>

Iput(t)    == PutLast(t) \/ PutFree(t) \/ PutKeep(t) \/ PutDrop(t)
Lookup(t)  == NamexEnd(t) \/ Namex(t)
SysLink(t) == Link1(t) \/ Link2(t) \/ LinkBad(t)
SysUnlink(t) == Unlink1(t) \/ Unlink2(t) \/ Unlink3(t)
Create(t)  == Create1(t) \/ Create2(t) \/ Exists(t)

ProcessStep(t) ==
    \/ \E c \in Call[t] : SysPath(t, c)
    \/ SysClose(t) \/ Exit(t) \/ ExitClose(t) \/ ExitCwd(t) \/ \E u \in Process : Fork(t, u)
    \/ Iput(t) \/ Unlock(t) \/ IlockPanic(t) \/ Lookup(t)
    \/ SysLink(t) \/ SysUnlink(t) \/ Create(t)
    \/ OpenFd(t) \/ Chdir(t) \/ Exec(t)

Next == Crash \/ \E t \in Process : ProcessStep(t)

Spec == Init /\ [][Next]_vars

-----------------------------------------------------------------------------
(* Properties                                                              *)

Quiescent == \A t \in Process : At(t) = "user"

\* With no call under way the reference count of an inode is the number of
\* open files and current directories that hold it: no return path of
\* namex() or of a system call forgets an iput() or does one too many.
RefsMatchHolders ==
    Quiescent => \A i \in Inum :
        cache[i].ref = Cardinality({f \in File : file[f].ip = i})
                       + Cardinality({t \in Process : cwd[t] = i})

Names(i)   == {e \in Inum \X Name : disk[e[1]].type = "dir" /\ dir[e[1]][e[2]] = i}
Subdirs(i) == {n \in Name : dir[i][n] # 0 /\ disk[dir[i][n]].type = "dir"}

\* On a disk that a crash may leave, the link count of an inode is the number
\* of its names, plus one for the ".." of every directory named in it.  The
\* exception is stranded: create() and link() do not look at dp->nlink, so a
\* name can be made in a directory that was removed while a process sits in
\* it, and disappears with it; that inode keeps a count nobody can take back.
\* Nothing is said once a lookup has strayed: a name made in a directory that
\* mkdir() is still setting up is forgotten when mkdir() sets nlink to 1.
LinksMatchNames ==
    ~strayed /\ (\A t \in Process : ~InOp(t)) => \A i \in Inum \ {ROOTINO} :
        LET n == Cardinality(Names(i)) + Cardinality(Subdirs(i)) IN
        disk[i].type # "free" => IF i \in stranded THEN disk[i].nlink > n
                                                   ELSE disk[i].nlink = n

\* A name, an open file and a current directory always refer to an inode that
\* is allocated, a name to one with a link count: the last iput() frees no
\* inode that anybody can still reach by them (fs.c:336-345), as long as no
\* lookup has strayed.
NotFreedInUse ==
    ~strayed =>
    /\ \A d \in Inum, n \in Name :
         dir[d][n] # 0 => disk[dir[d][n]].type # "free" /\ disk[dir[d][n]].nlink > 0
    /\ \A f \in File : file[f].ip # 0 => disk[file[f].ip].type # "free"
    /\ \A t \in Process : cwd[t] # 0 => disk[cwd[t]].type # "free"

\* An inode without links and without references is free (fs.c:327-328),
\* unless a crash took its last reference, or two iput() calls passed the
\* check before either of them dropped its reference: each counts the other's.
OrphanByRaceOrCrash ==
    \A i \in Inum : /\ disk[i].type # "free" /\ disk[i].nlink = 0
                    /\ cache[i].ref = 0
                    => i \in lost

\* What fs.c:327-328 says of iput(): whoever drops the last reference to an
\* inode without links has freed it.
LastPutFrees ==
    \A t \in Process :
        At(t) = "drop" /\ cache[Arg(t)].ref = 1 /\ disk[Arg(t)].nlink = 0
        => disk[Arg(t)].type = "free"

\* The cached copy of an inode nobody has locked is the dinode on the disk,
\* although ialloc() writes the dinode without the inode's lock and can
\* choose the number between the freeing iput() and its last decrement.
CacheCoherent ==
    \A i \in Inum : cache[i].valid /\ lock[i] = None =>
        cache[i].type = disk[i].type /\ cache[i].nlink = disk[i].nlink

\* Every process of w waits for an inode lock held by a process of w.
WaitCycle(w) ==
    /\ w # {}
    /\ \A t \in w : LockTarget(t) # 0 /\ lock[LockTarget(t)] \in w

\* Processes that wait for each other's inode locks: one of them waits in
\* iput(), which takes the lock of the inode it puts (fs.c:334) while its
\* caller holds another one.  ilock() itself never closes a cycle: a caller
\* that holds a directory locks only an inode named in it, never "." or "..".
WaitCycleOnlyInIput ==
    \A w \in SUBSET Process : WaitCycle(w) => \E t \in w : At(t) = "put"

\* The absence of deadlocks that usertests.c:855-856 tests for: no processes
\* wait for each other's inode locks.
NoWaitCycle == \A w \in SUBSET Process : ~WaitCycle(w)

\* Of the panics modelled, only that of a disk without a free inode is met,
\* unless a lookup has followed ".." of a removed directory to an inode that
\* is gone.
PanicIsKnown == strayed \/ panicked \in {"no", "ialloc: no inodes"}

-----------------------------------------------------------------------------
(* The inductive invariant: every reference to an inode has a holder.      *)

\* The steps that are going to use ip, and dp, of the call.
IpSteps == {"namei", "openfd", "chdir", "exec", "link1", "link2", "linkbad",
            "unlink2", "unlink3", "create2", "exists"}
DpSteps == {"nameiparent", "link2", "unlink1", "unlink2", "create1", "create2"}

\* What a process holds at step p of a call with the variables l, 0 for nothing.
UsesIp(p, l) == p \in IpSteps \/ (p = "nameiparent" /\ l.call.op = "link")
IpIn(p, l)   == IF UsesIp(p, l) THEN l.ip ELSE 0
DpIn(p, l)   == IF p \in DpSteps THEN l.dp ELSE 0

\* The iput() calls on i still to do, by their distance from the end of the list.
Pending(s, i) == {k \in 0 .. Len(s) - 1 : s[Len(s) - k] \in PutStep \X {i}}

FileRefs(i) == {f \in File : file[f].ip = i}
CwdRefs(i)  == {t \in Process : cwd[t] = i}
IpRefs(i)   == {t \in Process : IpIn(pc[t], local[t]) = i}
DpRefs(i)   == {t \in Process : DpIn(pc[t], local[t]) = i}
PutRefs(i)  == UNION {{t} \X Pending(todo[t], i) : t \in Process}

Held(i)    == Cardinality(CwdRefs(i)) + Cardinality(IpRefs(i)) + Cardinality(DpRefs(i))
              + Cardinality(PutRefs(i))
Holders(i) == Cardinality(FileRefs(i)) + Held(i)

\* The reference count of an inode, at every moment.
Counted == \A i \in Inum : IsFiniteSet(PutRefs(i)) /\ cache[i].ref = Holders(i)

\* The reference count of an open file; a process without a directory has none.
FdRefs(f) == {e \in Process \X Fd : ofile[e[1]][e[2]] = f}
FilesCounted ==
    /\ \A f \in File : /\ file[f].ref = Cardinality(FdRefs(f))
                       /\ file[f].ref = 0 <=> file[f].ip = 0
    /\ \A t \in Process : cwd[t] = 0 => OpenFds(t) = {}

\* What the variables l of a call hold at its step p; w is the current directory.
Shape(w, p, l) ==
    /\ p # "user" => w # 0
    /\ p \notin {"user", "close"} => l.call \in AllCalls
    /\ UsesIp(p, l) => l.ip # 0
    /\ p \in DpSteps => l.dp # 0
    /\ p \in DpSteps \ {"nameiparent"} => l.path # <<>>
    /\ p = "namei" => LookupOf(l.call.op) = "namei"
    /\ p = "nameiparent" => l.call.op = "link" \/ LookupOf(l.call.op) = "nameiparent"
    /\ p = "link1" => l.call.op = "link"
Shapes == \A t \in Process : Shape(cwd[t], pc[t], local[t])

\* A cached copy is the dinode, and never that of a free inode.
Coherent == \A i \in Inum : cache[i].valid => /\ cache[i].type = disk[i].type
                                              /\ cache[i].nlink = disk[i].nlink
                                              /\ cache[i].type # "free"

IInv == TypeOK /\ Counted /\ FilesCounted /\ Shapes /\ Coherent

=============================================================================
