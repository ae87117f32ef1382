---------------------------- MODULE PathService -----------------------------
(***************************************************************************)
(* What the commands that work on paths promise each other.  A command is  *)
(* answered once, and its answer is about one moment: "ok" is given in a   *)
(* step in which what was asked for is the case or is done.  Until then a  *)
(* command may only have made directories on its own path.                 *)
(***************************************************************************)
EXTENDS Tree

CONSTANTS Client, Command

VARIABLES
    tree,       \* what is at each path
    task,       \* the command each client has been given
    answer      \* the clients' answers: None, "ok" or "failed"

pvars == <<tree, task, answer>>

(* How many components a command makes as directories: its path may be     *)
(* one of a file, and the shell takes the path without adding a slash.     *)
DirsOf(cmd) ==
    IF cmd.op = "put" \/ cmd.form = "shell" THEN Len(cmd.path) - 1 ELSE Len(cmd.path)

MakesPath(cmd) == cmd.op \in {"mkdir", "rmdir", "put"} /\ cmd.r
RemovesDir(cmd) == (cmd.op = "rmdir" /\ ~cmd.r) \/ (cmd.op = "rm" /\ cmd.r)

With(t, p, k) == [t EXCEPT ![p] = k]

PInit ==
    /\ tree \in Trees
    /\ task = [c \in Client |-> None]
    /\ answer = [c \in Client |-> None]

Accept(c) ==
    /\ task[c] = None
    /\ \E cmd \in Command : task' = [task EXCEPT ![c] = cmd]
    /\ UNCHANGED <<tree, answer>>

Waits(c) == task[c] # None /\ answer[c] = None

DirMade(cmd) ==
    \E k \in 1..DirsOf(cmd) :
        LET p == Prefix(cmd.path, k) IN CanMakeDir(tree, p) /\ tree' = With(tree, p, "dir")

MakeOne(c) ==
    /\ Waits(c) /\ MakesPath(task[c])
    /\ DirMade(task[c])
    /\ UNCHANGED <<task, answer>>

(* A file in the way of a path that is made counts as an answer, too. *)
PathMade(cmd) ==
    /\ UNCHANGED tree \/ DirMade(cmd)
    /\ \/ DirsOf(cmd) = 0 \/ tree'[Prefix(cmd.path, DirsOf(cmd))] = "dir"
       \/ FileInTheWay(tree', cmd.path, DirsOf(cmd))

FileMade(cmd) == CanCreate(tree, cmd.path) /\ tree' = With(tree, cmd.path, "file")

Done(cmd) ==
    LET p == cmd.path IN
    \/ cmd.op = "mkdir" /\ ~cmd.r /\ CanMakeDir(tree, p) /\ tree' = With(tree, p, "dir")
    \/ cmd.op \in {"mkdir", "rmdir"} /\ cmd.r /\ PathMade(cmd)
    \/ RemovesDir(cmd) /\ CanRemoveDir(tree, p) /\ tree' = With(tree, p, None)
    \/ cmd.op = "rm" /\ ~cmd.r /\ CanUnlink(tree, p) /\ tree' = With(tree, p, None)
    \/ cmd.op = "rm" /\ cmd.force /\ tree[p] = None /\ UNCHANGED tree
    \/ cmd.op = "put" /\ FileMade(cmd)

Succeed(c) ==
    /\ Waits(c)
    /\ Done(task[c])
    /\ answer' = [answer EXCEPT ![c] = "ok"]
    /\ UNCHANGED task

Fail(c) ==
    /\ Waits(c)
    /\ UNCHANGED tree \/ (task[c].op = "put" /\ FileMade(task[c]))
    /\ answer' = [answer EXCEPT ![c] = "failed"]
    /\ UNCHANGED task

PNext == \E c \in Client : Accept(c) \/ MakeOne(c) \/ Succeed(c) \/ Fail(c)

(* Every command is answered. *)
PSpec ==
    /\ PInit /\ [][PNext]_pvars
    /\ \A c \in Client : WF_pvars(Succeed(c) \/ Fail(c))
=============================================================================
