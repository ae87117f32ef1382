---------------------------- MODULE Directories -----------------------------
(***************************************************************************)
(* gluster_create_path (glfs-util.c) and the utilities that make and       *)
(* remove directories: gfmkdir, gfrmdir, gfrm, and gfput -r up to its      *)
(* glfs_creat, each in a process of its own on one volume.                 *)
(***************************************************************************)
EXTENDS Tree

CONSTANTS
    Client,     \* the processes
    StartTree,  \* what the volume may hold at first
    Command,    \* the command lines they may run
    Fault       \* the calls that may fail

CommandType ==
    [op : {"mkdir", "rmdir", "rm", "put"},
     path : Path,
     form : {"url", "shell", "shell/"},     \* in the shell, with a slash at the end
     r : BOOLEAN,                           \* -r: --parents, or --recursive of gfrm
     force : BOOLEAN]                       \* -f, or -a of gfput

FaultPoint == {"mkdir", "stat", "rmdir", "unlink", "creat", "write"}

ASSUME DirectoriesAssumption ==
    /\ StartTree \subseteq Trees
    /\ Command \subseteq CommandType /\ None \notin Command
    /\ Fault \subseteq FaultPoint

VARIABLES
    tree,       \* what is at each path
    cmd,        \* each process's command
    proc,       \* its locals and the statement it is at
    disturbed,  \* history: something on its path has been removed since it began
    failed      \* history: one of its calls has failed for a reason outside

vars == <<tree, cmd, proc, disturbed, failed>>

Init ==
    /\ tree \in StartTree
    /\ cmd = [c \in Client |-> None]
    /\ proc = [c \in Client |-> [pc |-> "idle", next |-> 1, ret |-> -1]]
    /\ disturbed = [c \in Client |-> FALSE]
    /\ failed = [c \in Client |-> FALSE]

-----------------------------------------------------------------------------
At(c, pc) == proc[c].pc = pc

CreatesPath(c) == cmd[c] # None /\ cmd[c].op # "rm" /\ cmd[c].r

Goto(c, pc) == proc' = [proc EXCEPT ![c].pc = pc]
Ends(c, pc, ret) == proc' = [proc EXCEPT ![c] = [pc |-> pc, next |-> 1, ret |-> ret]]
Return(c, ret) == Ends(c, "done", ret)

Keeps == UNCHANGED <<tree, cmd, disturbed>>
Fails(c, f) ==
    /\ f \in Fault
    /\ failed' = [failed EXCEPT ![c] = TRUE]
    /\ Return(c, -1)
Refused(c) == Return(c, -1) /\ UNCHANGED failed

SetEntry(p, k) == tree' = [tree EXCEPT ![p] = k]
OnPathOf(c, p) == cmd[c] # None /\ \E k \in 1..Len(cmd[c].path) : Prefix(cmd[c].path, k) = p
RemoveEntry(p) ==
    /\ SetEntry(p, None)
    /\ disturbed' = [c \in Client |-> disturbed[c] \/ OnPathOf(c, p)]

Start(c) ==
    /\ At(c, "idle")
    /\ \E x \in Command :
         /\ cmd' = [cmd EXCEPT ![c] = x]
         /\ Goto(c, IF x.op = "put" THEN "lstat"
                    ELSE IF x.op # "rm" /\ x.r THEN "create_path" ELSE x.op)
    /\ UNCHANGED <<tree, disturbed, failed>>

-----------------------------------------------------------------------------
(* The components that get a '\0' after them: the last one has a slash in  *)
(* a URL of gfmkdir and gfrmdir, which add it, and in the shell if typed.  *)
DirsOf(x) == IF x.op = "put" \/ x.form = "shell" THEN Len(x.path) - 1 ELSE Len(x.path)

(* What follows gluster_create_path that has returned 0. *)
CreatePathReturns0(c) == IF cmd[c].op = "put" THEN Goto(c, "creat") ELSE Return(c, 0)

CreatePath(c) ==
    /\ At(c, "create_path")
    /\ IF DirsOf(cmd[c]) = 0 THEN CreatePathReturns0(c) ELSE Goto(c, "make")
    /\ UNCHANGED failed /\ Keeps

Component(c) == Prefix(cmd[c].path, proc[c].next)

NextComponentEarly(c) ==        \* mutant: the last component is left out
    IF proc[c].next + 1 >= DirsOf(cmd[c]) THEN CreatePathReturns0(c)
    ELSE proc' = [proc EXCEPT ![c].next = @ + 1, ![c].pc = "make"]

NextComponent(c) ==
    IF proc[c].next = DirsOf(cmd[c]) THEN CreatePathReturns0(c)
    ELSE proc' = [proc EXCEPT ![c].next = @ + 1, ![c].pc = "make"]

MakeIgnores(c) ==               \* mutant: only the last error counts
    /\ At(c, "make")
    /\ LET p == Component(c) IN
       \/ /\ "mkdir" \in Fault \/ (tree[p] = None /\ ~IsDir(tree, Parent(p)))
          /\ IF proc[c].next = DirsOf(cmd[c]) THEN Return(c, -1) ELSE NextComponent(c)
          /\ UNCHANGED <<tree, failed>>
       \/ /\ CanMakeDir(tree, p)
          /\ SetEntry(p, "dir")
          /\ NextComponent(c) /\ UNCHANGED failed
       \/ /\ tree[p] # None
          /\ Goto(c, "stat") /\ UNCHANGED <<tree, failed>>
    /\ UNCHANGED <<cmd, disturbed>>

MakeIntolerant(c) ==            \* mutant: EEXIST is an error as any other
    /\ At(c, "make")
    /\ \/ Fails(c, "mkdir") /\ UNCHANGED tree
       \/ ~CanMakeDir(tree, Component(c)) /\ Refused(c) /\ UNCHANGED tree
       \/ /\ CanMakeDir(tree, Component(c))
          /\ SetEntry(Component(c), "dir")
          /\ NextComponent(c) /\ UNCHANGED failed
    /\ UNCHANGED <<cmd, disturbed>>

Make(c) ==
    /\ At(c, "make")
    /\ LET p == Component(c) IN
       \/ Fails(c, "mkdir") /\ UNCHANGED tree
       \/ /\ tree[p] = None /\ ~IsDir(tree, Parent(p))      \* ENOENT, ENOTDIR
          /\ Refused(c) /\ UNCHANGED tree
       \/ /\ CanMakeDir(tree, p)
          /\ SetEntry(p, "dir")
          /\ NextComponent(c) /\ UNCHANGED failed
       \/ /\ tree[p] # None                                 \* EEXIST
          /\ Goto(c, "stat") /\ UNCHANGED <<tree, failed>>
    /\ UNCHANGED <<cmd, disturbed>>

(* A component that is there: errno is set for one that is no directory,   *)
(* but ret is still the 0 of glfs_stat.                                    *)
Stat(c) ==
    /\ At(c, "stat")
    /\ LET p == Component(c) IN
       \/ Fails(c, "stat")
       \/ tree[p] = None /\ Refused(c)
       \/ tree[p] = "file" /\ CreatePathReturns0(c) /\ UNCHANGED failed
       \/ tree[p] = "dir" /\ NextComponent(c) /\ UNCHANGED failed
    /\ Keeps

-----------------------------------------------------------------------------
Mkdir(c) ==
    /\ At(c, "mkdir")
    /\ LET p == cmd[c].path IN
       \/ Fails(c, "mkdir") /\ UNCHANGED tree
       \/ ~CanMakeDir(tree, p) /\ Refused(c) /\ UNCHANGED tree
       \/ CanMakeDir(tree, p) /\ SetEntry(p, "dir") /\ Return(c, 0) /\ UNCHANGED failed
    /\ UNCHANGED <<cmd, disturbed>>

RemoveDir(c) ==
    LET p == cmd[c].path IN
    \/ Fails(c, "rmdir") /\ UNCHANGED <<tree, disturbed>>
    \/ tree[p] # None /\ ~CanRemoveDir(tree, p) /\ Refused(c) /\ UNCHANGED <<tree, disturbed>>
    \/ CanRemoveDir(tree, p) /\ RemoveEntry(p) /\ Return(c, 0) /\ UNCHANGED failed

RemoveFile(c) ==
    LET p == cmd[c].path IN
    \/ Fails(c, "unlink") /\ UNCHANGED <<tree, disturbed>>
    \/ tree[p] = "dir" /\ Refused(c) /\ UNCHANGED <<tree, disturbed>>
    \/ CanUnlink(tree, p) /\ RemoveEntry(p) /\ Return(c, 0) /\ UNCHANGED failed

Rmdir(c) ==
    /\ At(c, "rmdir")
    /\ \/ RemoveDir(c)
       \/ tree[cmd[c].path] = None /\ Refused(c) /\ UNCHANGED <<tree, disturbed>>
    /\ UNCHANGED cmd

(* With -f a missing file or directory is a success; ENOTDIR is not ENOENT. *)
Rm(c) ==
    /\ At(c, "rm")
    /\ \/ cmd[c].r /\ RemoveDir(c)
       \/ ~cmd[c].r /\ RemoveFile(c)
       \/ /\ tree[cmd[c].path] = None
          /\ IF cmd[c].force /\ ~FileInTheWay(tree, cmd[c].path, Len(cmd[c].path))
             THEN Return(c, 0) /\ UNCHANGED failed
             ELSE Refused(c)
          /\ UNCHANGED <<tree, disturbed>>
    /\ UNCHANGED cmd

-----------------------------------------------------------------------------
(* gfput: any failure of glfs_lstat is taken for a missing file. *)
Lstat(c) ==
    /\ At(c, "lstat")
    /\ \/ tree[cmd[c].path] # None /\ ~cmd[c].force /\ Refused(c)
       \/ /\ tree[cmd[c].path] = None \/ cmd[c].force \/ "stat" \in Fault
          /\ Goto(c, IF cmd[c].r THEN "create_path" ELSE "creat")
          /\ UNCHANGED failed
    /\ Keeps

(* glfs_creat and the rest of put, which may fail with the file made. *)
Creat(c) ==
    /\ At(c, "creat")
    /\ LET p == cmd[c].path IN
       \/ Fails(c, "creat") /\ UNCHANGED tree
       \/ ~CanCreate(tree, p) /\ Refused(c) /\ UNCHANGED tree
       \/ /\ CanCreate(tree, p) /\ SetEntry(p, "file")
          /\ \/ Return(c, 0) /\ UNCHANGED failed
             \/ Fails(c, "write")
    /\ UNCHANGED <<cmd, disturbed>>

(* The process is interrupted: nothing of what it has made is undone. *)
Kill(c) ==
    /\ proc[c].pc \notin {"idle", "done", "killed"}
    /\ Ends(c, "killed", -1) /\ UNCHANGED failed /\ Keeps

Step(c) ==
    \/ CreatePath(c) \/ Make(c) \/ Stat(c)
    \/ Mkdir(c) \/ Rmdir(c) \/ Rm(c) \/ Lstat(c) \/ Creat(c)

Finished == \A c \in Client : proc[c].pc \in {"done", "killed"}
Rest == Finished /\ UNCHANGED vars

Next == Rest \/ \E c \in Client : Start(c) \/ Step(c) \/ Kill(c)

(* Each process is scheduled and its calls return. *)
Spec == Init /\ [][Next]_vars /\ \A c \in Client : WF_vars(Step(c))

-----------------------------------------------------------------------------
TypeOK ==
    /\ tree \in Trees
    /\ cmd \in [Client -> Command \cup {None}]
    /\ proc \in [Client -> [pc : {"idle", "create_path", "make", "stat", "mkdir", "rmdir",
                                  "rm", "lstat", "creat", "done", "killed"},
                            next : Nat, ret : {0, -1}]]
    /\ disturbed \in [Client -> BOOLEAN] /\ failed \in [Client -> BOOLEAN]

(* Processes that make directories on the same paths, or are interrupted   *)
(* at it and run again, do not make each other fail: -r fails only if      *)
(* something on the path was removed or a call failed, and gfput also if   *)
(* there is a file in the way or something at its path.                    *)
InTheWay(c) ==
    LET p == cmd[c].path IN tree[p] # None \/ FileInTheWay(tree, p, Len(p))
MakersDoNotCollide ==
    \A c \in Client :
        At(c, "done") /\ proc[c].ret = -1 /\ CreatesPath(c)
            => disturbed[c] \/ failed[c] \/ (cmd[c].op = "put" /\ InTheWay(c))

(* The inductive invariant behind MakersDoNotCollide: what is behind next  *)
(* are directories and what EEXIST was about is there, unless it has been  *)
(* removed; and the statements a process gets to fit its command.          *)
InLoop(c) == proc[c].pc \in {"make", "stat"}
PathStands ==
    \A c \in Client :
        CreatesPath(c) /\ ~disturbed[c] =>
            LET p == cmd[c].path IN
            /\ InLoop(c) => Stands(tree, p, proc[c].next - 1)
            /\ At(c, "stat") => tree[Component(c)] # None
            /\ At(c, "creat") => \/ Stands(tree, p, DirsOf(cmd[c]))
                                \/ FileInTheWay(tree, p, DirsOf(cmd[c]))

StepsMatch ==
    \A c \in Client :
        /\ IF At(c, "idle") THEN cmd[c] = None ELSE cmd[c] \in Command
        /\ At(c, "create_path") => CreatesPath(c)
        /\ proc[c].pc \in {"idle", "create_path", "lstat"} => proc[c].next = 1
        /\ InLoop(c) => CreatesPath(c) /\ proc[c].next \in 1..DirsOf(cmd[c])
        /\ proc[c].pc \in {"mkdir", "rmdir", "rm"} => ~CreatesPath(c) /\ cmd[c].op = proc[c].pc
        /\ proc[c].pc \in {"lstat", "creat"} => cmd[c].op = "put"

DirectoriesInvariant ==
    TypeOK /\ StepsMatch /\ PathStands /\ MakersDoNotCollide

(* No process holds another up: each step of a process takes it to a later *)
(* statement of gluster_create_path and its caller, or to a later component*)
(* or from mkdir to stat of the same one - whatever is made and removed on *)
(* its path in between.  So a maker is done after two steps for each of    *)
(* its components and a few more.                                          *)
Order == [idle |-> 5, lstat |-> 4, create_path |-> 3, make |-> 2, stat |-> 2, creat |-> 1,
          mkdir |-> 1, rmdir |-> 1, rm |-> 1, done |-> 0, killed |-> 0]
Forward(x, p, q) ==
    \/ Order[q.pc] < Order[p.pc]
    \/ /\ p.pc \in {"make", "stat"} /\ q.pc \in {"make", "stat"}
       /\ 1 <= p.next /\ q.next <= DirsOf(x)
       /\ \/ p.next < q.next
          \/ p.next = q.next /\ p.pc = "make" /\ q.pc = "stat"
StepsGoForward ==
    [][\A c \in Client :
         Step(c) => cmd'[c] = cmd[c] /\ Forward(cmd[c], proc[c], proc'[c])]_vars

(* A command answers once, with a success that is true at that moment, and *)
(* until then has only made directories on its path: PathService.          *)
Answer(c) ==
    IF At(c, "killed") THEN "failed"
    ELSE IF ~At(c, "done") THEN None
    ELSE IF proc[c].ret = 0 THEN "ok" ELSE "failed"
Promise == INSTANCE PathService WITH task <- cmd, answer <- [c \in Client |-> Answer(c)]
KeepsPromise == Promise!PSpec

(* "Recursively create the directory /directory/subdirectory" (glfs-mkdir.c, *)
(* usage): a successful gfmkdir -r leaves a directory at its path.  Refuted  *)
(* by a run of its own.                                                      *)
MkdirMakesTheDirectory ==
    [][\A c \in Client :
         (/\ cmd[c] # None /\ cmd[c].op = "mkdir" /\ cmd[c].r
          /\ ~At(c, "done") /\ proc'[c].pc = "done" /\ proc'[c].ret = 0)
            => tree'[cmd[c].path] = "dir"]_vars
=============================================================================
