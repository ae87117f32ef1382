-------------------------- MODULE DirectoriesProofs --------------------------
(***************************************************************************)
(* Processes that make and remove directories, for any number of them, any *)
(* paths and any failing calls: DirectoriesInvariant is inductive, the     *)
(* steps are those of PathService, and each of them goes forward.          *)
(***************************************************************************)
EXTENDS Directories, SequenceTheorems, TLAPS

-----------------------------------------------------------------------------
(* Paths and trees. *)

LEMMA PathFacts ==
    ASSUME NEW p \in Path
    PROVE  /\ p \in Seq(Name) /\ p # << >> /\ Len(p) \in Nat \ {0}
           /\ Prefix(p, Len(p)) = p
           /\ \A k \in 1..Len(p) : Prefix(p, k) \in Path
<1>1. p \in Seq(Name) /\ p # << >>
  BY TreeAssumption
<1>2. Len(p) \in Nat \ {0}
  BY <1>1, EmptySeq, LenProperties
<1>3. Prefix(p, Len(p)) = p
  BY <1>1, SubSeqFull DEF Prefix
<1> QED
  BY <1>1, <1>2, <1>3, TreeAssumption

LEMMA ParentFacts ==
    ASSUME NEW p \in Path, NEW k \in 1..Len(p)
    PROVE  /\ Parent(Prefix(p, k)) = Prefix(p, k - 1)
           /\ k = 1 => Prefix(p, k - 1) = << >>
           /\ k > 1 => Prefix(p, k - 1) \in Path /\ Prefix(p, k - 1) # << >>
<1>1. p \in Seq(Name) /\ Len(p) \in Nat \ {0}
  BY PathFacts
<1>2. Len(SubSeq(p, 1, k)) = k /\ SubSeq(p, 1, k) \in Seq(Name)
  BY <1>1, SubSeqProperties
<1>3. Parent(Prefix(p, k)) = SubSeq(SubSeq(p, 1, k), 1, k - 1)
  BY <1>2 DEF Parent, Prefix
<1>4. CASE k = 1
  <2>1. SubSeq(p, 1, 0) = << >>
    BY <1>1, SubSeqEmpty
  <2>2. SubSeq(SubSeq(p, 1, k), 1, 0) = << >>
    BY <1>2, SubSeqEmpty
  <2> QED
    BY <1>3, <1>4, <2>1, <2>2 DEF Prefix
<1>5. CASE k > 1
  <2>1. k - 1 \in 1..Len(p)
    BY <1>1, <1>5
  <2>2. Prefix(p, k - 1) \in Path /\ Prefix(p, k - 1) # << >>
    BY <2>1, PathFacts, TreeAssumption
  <2>3. SubSeq(SubSeq(p, 1, k), 1, k - 1) = SubSeq(p, 1, k - 1)
    BY <1>1, <1>2, <1>5, <2>1, SubSeqOfSubSeq
  <2> QED
    BY <1>3, <1>5, <2>2, <2>3 DEF Prefix
<1>6. k = 1 \/ k > 1
  BY <1>1
<1> QED
  BY <1>4, <1>5, <1>6

(* The calls leave a tree a tree. *)
LEMMA CallsKeepTrees ==
    ASSUME NEW t \in Trees, NEW p \in Path
    PROVE  /\ CanMakeDir(t, p) => [t EXCEPT ![p] = "dir"] \in Trees
           /\ CanCreate(t, p) => [t EXCEPT ![p] = "file"] \in Trees
           /\ CanRemoveDir(t, p) => [t EXCEPT ![p] = None] \in Trees
           /\ CanUnlink(t, p) => [t EXCEPT ![p] = None] \in Trees
<1>0. t \in [Path -> {"dir", "file", None}]
  BY DEF Trees
<1>1. \A q \in Path : t[q] # None => IsDir(t, Parent(q))
  BY DEF Trees
<1>2. p # << >> /\ None # "dir" /\ None # "file" /\ "dir" # "file"
  BY PathFacts, TreeAssumption
<1>3. ASSUME NEW k \in {"dir", "file", None},
             k # None => IsDir([t EXCEPT ![p] = k], Parent(p)),
             k # "dir" => \A q \in Path : Parent(q) = p => t[q] = None \/ q = p
      PROVE  [t EXCEPT ![p] = k] \in Trees
  <2>1. [t EXCEPT ![p] = k] \in [Path -> {"dir", "file", None}]
    BY <1>0
  <2>2. ASSUME NEW q \in Path, [t EXCEPT ![p] = k][q] # None
        PROVE  IsDir([t EXCEPT ![p] = k], Parent(q))
    <3>1. CASE q = p
      BY <1>0, <1>3, <2>2, <3>1
    <3>2. CASE q # p
      <4>1. t[q] # None /\ IsDir(t, Parent(q))
        BY <1>0, <1>1, <2>2, <3>2
      <4>2. CASE Parent(q) = p
        BY <1>0, <1>2, <1>3, <3>2, <4>1, <4>2 DEF IsDir
      <4>3. CASE Parent(q) # p
        BY <1>0, <4>1, <4>3 DEF IsDir
      <4> QED
        BY <4>2, <4>3
    <3> QED
      BY <3>1, <3>2
  <2> QED
    BY <2>1, <2>2 DEF Trees
<1>4. Parent(p) # p
  <2>1. Len(p) \in 1..Len(p) /\ p \in Seq(Name) /\ Parent(p) = Prefix(p, Len(p) - 1)
    BY PathFacts DEF Parent
  <2>2. CASE Len(p) = 1
    BY <2>1, <2>2, PathFacts, ParentFacts
  <2>3. CASE Len(p) > 1
    <3>1. Len(p) - 1 \in 1..Len(p) /\ 1 \in 1..Len(p)
      BY <2>3, PathFacts
    <3>2. \A i \in 1..(Len(p) - 1) : p[i] \in Name
      BY <2>1
    <3>3. Len(SubSeq(p, 1, Len(p) - 1)) = Len(p) - 1
      BY <2>1, <3>1, <3>2, SubSeqProperties
    <3> QED
      BY <2>1, <2>3, <3>3, PathFacts DEF Prefix
  <2>4. \A n \in Nat \ {0} : n = 1 \/ n > 1
    OBVIOUS
  <2>5. Len(p) = 1 \/ Len(p) > 1
    BY <2>4, PathFacts
  <2> QED
    BY <2>2, <2>3, <2>5
<1>5. ASSUME t[p] # "dir" PROVE \A q \in Path : Parent(q) = p => t[q] = None
  BY <1>1, <1>2, <1>5 DEF IsDir
<1>6. ASSUME NEW k \in {"dir", "file"}, IsDir(t, Parent(p))
      PROVE  IsDir([t EXCEPT ![p] = k], Parent(p))
  BY <1>0, <1>4, <1>6 DEF IsDir
<1>7. CanMakeDir(t, p) => [t EXCEPT ![p] = "dir"] \in Trees
  BY <1>3, <1>6 DEF CanMakeDir
<1>8. CanCreate(t, p) => [t EXCEPT ![p] = "file"] \in Trees
  BY <1>2, <1>3, <1>5, <1>6 DEF CanCreate
<1>9. CanRemoveDir(t, p) => [t EXCEPT ![p] = None] \in Trees
  BY <1>2, <1>3 DEF CanRemoveDir, IsEmpty
<1>10. CanUnlink(t, p) => [t EXCEPT ![p] = None] \in Trees
  BY <1>2, <1>3, <1>5 DEF CanUnlink
<1> QED
  BY <1>7, <1>8, <1>9, <1>10

-----------------------------------------------------------------------------
(* What a step does to the paths of the processes. *)

(* What is there stays, for a process that is not disturbed. *)
Calm(d) ==
    ~disturbed'[d] =>
        /\ ~disturbed[d]
        /\ \A k \in 1..Len(cmd[d].path) :
             tree[Prefix(cmd[d].path, k)] # None =>
                 tree'[Prefix(cmd[d].path, k)] = tree[Prefix(cmd[d].path, k)]

LEMMA CommandFacts ==
    ASSUME NEW x \in Command
    PROVE  /\ x.path \in Path /\ Len(x.path) \in Nat \ {0} /\ x # None
           /\ DirsOf(x) \in 0..Len(x.path)
           /\ x.op \in {"mkdir", "rmdir", "rm", "put"} /\ x.r \in BOOLEAN
           /\ x.force \in BOOLEAN
<1>1. x \in CommandType /\ x # None
  BY DirectoriesAssumption
<1>2. /\ x.path \in Path /\ x.op \in {"mkdir", "rmdir", "rm", "put"}
      /\ x.r \in BOOLEAN /\ x.force \in BOOLEAN
  BY <1>1 DEF CommandType
<1>3. Len(x.path) \in Nat \ {0}
  BY <1>2, PathFacts
<1> QED
  BY <1>1, <1>2, <1>3 DEF DirsOf

(* A step that removes nothing and turns no entry into another kind. *)
LEMMA CalmSet ==
    ASSUME DirectoriesInvariant, NEW d \in Client, cmd[d] \in Command,
           NEW p \in Path, NEW k \in {"dir", "file"},
           tree[p] = None \/ tree[p] = k, SetEntry(p, k), UNCHANGED disturbed
    PROVE  Calm(d)
<1>1. tree \in [Path -> {"dir", "file", None}]
  BY DEF DirectoriesInvariant, TypeOK, Trees
<1>2. ASSUME NEW q \in Path, tree[q] # None PROVE tree'[q] = tree[q]
  BY <1>1, <1>2 DEF SetEntry
<1>3. \A j \in 1..Len(cmd[d].path) : Prefix(cmd[d].path, j) \in Path
  BY CommandFacts, PathFacts
<1> QED
  BY <1>2, <1>3 DEF Calm

LEMMA CalmRemove ==
    ASSUME DirectoriesInvariant, NEW d \in Client, cmd[d] \in Command,
           NEW p \in Path, RemoveEntry(p)
    PROVE  Calm(d)
<1>1. tree \in [Path -> {"dir", "file", None}]
  BY DEF DirectoriesInvariant, TypeOK, Trees
<1>2. cmd[d] # None /\ \A j \in 1..Len(cmd[d].path) : Prefix(cmd[d].path, j) \in Path
  BY CommandFacts, PathFacts
<1>3. disturbed'[d] = (disturbed[d] \/ OnPathOf(d, p))
  BY DEF RemoveEntry
<1>4. \A j \in 1..Len(cmd[d].path) : ~OnPathOf(d, p) => Prefix(cmd[d].path, j) # p
  BY <1>2 DEF OnPathOf
<1>5. \A q \in Path : q # p => tree'[q] = tree[q]
  BY <1>1 DEF RemoveEntry, SetEntry
<1> QED
  BY <1>2, <1>3, <1>4, <1>5 DEF Calm

LEMMA CalmNothing ==
    ASSUME NEW d \in Client, UNCHANGED <<tree, disturbed>>
    PROVE  Calm(d)
BY DEF Calm

(* The invariant for a process that does not move. *)
Good(d) ==
    /\ IF At(d, "idle") THEN cmd[d] = None ELSE cmd[d] \in Command
    /\ At(d, "create_path") => CreatesPath(d)
    /\ proc[d].pc \in {"idle", "create_path", "lstat"} => proc[d].next = 1
    /\ InLoop(d) => CreatesPath(d) /\ proc[d].next \in 1..DirsOf(cmd[d])
    /\ proc[d].pc \in {"mkdir", "rmdir", "rm"} => ~CreatesPath(d) /\ cmd[d].op = proc[d].pc
    /\ proc[d].pc \in {"lstat", "creat"} => cmd[d].op = "put"
    /\ CreatesPath(d) /\ ~disturbed[d] =>
         LET p == cmd[d].path IN
         /\ InLoop(d) => Stands(tree, p, proc[d].next - 1)
         /\ At(d, "stat") => tree[Component(d)] # None
         /\ At(d, "creat") => \/ Stands(tree, p, DirsOf(cmd[d]))
                             \/ FileInTheWay(tree, p, DirsOf(cmd[d]))
    /\ At(d, "done") /\ proc[d].ret = -1 /\ CreatesPath(d)
         => disturbed[d] \/ failed[d] \/ (cmd[d].op = "put" /\ InTheWay(d))

LEMMA GoodMeans ==
    DirectoriesInvariant <=> TypeOK /\ \A d \in Client : Good(d)
BY DEF DirectoriesInvariant, StepsMatch, PathStands, MakersDoNotCollide, Good

LEMMA StandsStays ==
    ASSUME NEW d \in Client, cmd[d] \in Command, Calm(d), ~disturbed'[d],
           NEW n \in 0..Len(cmd[d].path)
    PROVE  /\ Stands(tree, cmd[d].path, n) => Stands(tree', cmd[d].path, n)
           /\ FileInTheWay(tree, cmd[d].path, n) => FileInTheWay(tree', cmd[d].path, n)
<1>1. Len(cmd[d].path) \in Nat
  BY CommandFacts
<1>2. \A k \in 1..n : k \in 1..Len(cmd[d].path)
  BY <1>1
<1>3. \A k \in 1..n : tree[Prefix(cmd[d].path, k)] # None =>
                        tree'[Prefix(cmd[d].path, k)] = tree[Prefix(cmd[d].path, k)]
  BY <1>2 DEF Calm
<1>4. None # "dir" /\ None # "file"
  BY TreeAssumption
<1>5. Stands(tree, cmd[d].path, n) => Stands(tree', cmd[d].path, n)
  BY <1>3, <1>4 DEF Stands
<1>6. FileInTheWay(tree, cmd[d].path, n) => FileInTheWay(tree', cmd[d].path, n)
  BY <1>3, <1>4 DEF FileInTheWay
<1> QED
  BY <1>5, <1>6

LEMMA GoodStays ==
    ASSUME DirectoriesInvariant, NEW d \in Client, UNCHANGED <<cmd[d], proc[d], failed[d]>>,
           cmd[d] \in Command => Calm(d)
    PROVE  Good(d)'
<1>0. Good(d)
  BY GoodMeans
<1>1. CASE At(d, "idle")
  BY <1>0, <1>1 DEF Good, At, InLoop, CreatesPath
<1>2. CASE ~At(d, "idle")
  <2>1. cmd[d] \in Command /\ Calm(d)
    BY <1>0, <1>2 DEF Good
  <2>2. /\ Len(cmd[d].path) \in 0..Len(cmd[d].path) /\ cmd[d].path \in Path
        /\ DirsOf(cmd[d]) \in 0..Len(cmd[d].path) /\ Len(cmd[d].path) \in Nat \ {0}
    BY <2>1, CommandFacts
  <2>3. CASE disturbed'[d]
    BY <1>0, <2>3 DEF Good, At, InLoop, CreatesPath
  <2>4. CASE ~disturbed'[d]
    <3>0. ~disturbed[d]
      BY <2>1, <2>4 DEF Calm
    <3>1. InLoop(d) => proc[d].next - 1 \in 0..Len(cmd[d].path) /\ proc[d].next \in 1..Len(cmd[d].path)
      BY <1>0, <2>2 DEF Good
    <3>2. CreatesPath(d) /\ InLoop(d) => Stands(tree', cmd[d].path, proc[d].next - 1)
      BY <1>0, <2>1, <2>4, <3>0, <3>1, StandsStays DEF Good
    <3>3. CreatesPath(d) /\ At(d, "stat") => tree'[Component(d)] # None
      BY <1>0, <2>1, <2>4, <3>0, <3>1 DEF Good, Calm, Component, InLoop, At
    <3>4. CreatesPath(d) /\ At(d, "creat") =>
            Stands(tree', cmd[d].path, DirsOf(cmd[d]))
              \/ FileInTheWay(tree', cmd[d].path, DirsOf(cmd[d]))
      BY <1>0, <2>1, <2>2, <2>4, <3>0, StandsStays DEF Good
    <3>5. InTheWay(d) => InTheWay(d)'
      <4>1. FileInTheWay(tree, cmd[d].path, Len(cmd[d].path)) =>
              FileInTheWay(tree', cmd[d].path, Len(cmd[d].path))
        BY <2>1, <2>2, <2>4, StandsStays
      <4>2. tree[cmd[d].path] # None => tree'[cmd[d].path] # None
        <5>1. Prefix(cmd[d].path, Len(cmd[d].path)) = cmd[d].path
          BY <2>2, PathFacts
        <5>2. Len(cmd[d].path) \in 1..Len(cmd[d].path)
          BY <2>2
        <5> QED
          BY <2>1, <2>4, <5>1, <5>2 DEF Calm
      <4> QED
        BY <4>1, <4>2 DEF InTheWay
    <3> QED
      BY <1>0, <1>2, <2>1, <2>4, <3>0, <3>2, <3>3, <3>4, <3>5
         DEF Good, At, InLoop, CreatesPath, Component
  <2> QED
    BY <2>3, <2>4
<1> QED
  BY <1>1, <1>2

-----------------------------------------------------------------------------
(* The steps of a process. *)

Stage == {"idle", "create_path", "make", "stat", "mkdir", "rmdir", "rm", "lstat",
          "creat", "done", "killed"}
ProcType == [pc : Stage, next : Nat, ret : {0, -1}]

(* What a step leaves of the others. *)
LEMMA StepKeeps ==
    ASSUME DirectoriesInvariant, NEW c \in Client,
           tree' \in Trees, disturbed' \in [Client -> BOOLEAN],
           NEW x \in Command \cup {None}, cmd' = [cmd EXCEPT ![c] = x],
           NEW q \in ProcType, proc' = [proc EXCEPT ![c] = q],
           NEW f \in BOOLEAN, failed' = [failed EXCEPT ![c] = f],
           \A d \in Client : cmd[d] \in Command => Calm(d),
           Good(c)'
    PROVE  DirectoriesInvariant'
<1>0. TypeOK
  BY DEF DirectoriesInvariant
<1>1. TypeOK'
  BY <1>0 DEF TypeOK, ProcType, Stage
<1>2. ASSUME NEW d \in Client, d # c PROVE Good(d)'
  <2>1. UNCHANGED <<cmd[d], proc[d], failed[d]>>
    BY <1>0, <1>2 DEF TypeOK
  <2> QED
    BY <2>1, GoodStays
<1>3. \A d \in Client : Good(d)'
  BY <1>2
<1> QED
  BY <1>1, <1>3 DEF DirectoriesInvariant, StepsMatch, PathStands, MakersDoNotCollide, Good

(* A process that ends: it has succeeded, is killed, or fails for a reason *)
(* MakersDoNotCollide names.                                               *)
LEMMA EndKeeps ==
    ASSUME DirectoriesInvariant, NEW c \in Client, cmd[c] \in Command,
           tree' \in Trees, disturbed' \in [Client -> BOOLEAN], UNCHANGED cmd,
           NEW pc \in {"done", "killed"}, NEW ret \in {0, -1}, Ends(c, pc, ret),
           NEW f \in BOOLEAN, failed' = [failed EXCEPT ![c] = f],
           \A d \in Client : cmd[d] \in Command => Calm(d),
           pc = "done" /\ ret = -1 /\ CreatesPath(c) =>
             \/ disturbed'[c] \/ f
             \/ cmd[c].op = "put" /\ InTheWay(c)'
    PROVE  DirectoriesInvariant'
<1> DEFINE q == [pc |-> pc, next |-> 1, ret |-> ret]
<1>0. TypeOK
  BY DEF DirectoriesInvariant
<1>1. q \in ProcType
  BY DEF ProcType, Stage
<1>2. proc' = [proc EXCEPT ![c] = q] /\ proc'[c] = q /\ failed'[c] = f
  BY <1>0 DEF Ends, TypeOK
<1>3. cmd' = [cmd EXCEPT ![c] = cmd[c]] /\ cmd[c] \in Command \cup {None}
  BY <1>0 DEF TypeOK
<1>4. Good(c)'
  BY <1>2 DEF Good, At, InLoop, CreatesPath
<1> QED
  BY <1>1, <1>2, <1>3, <1>4, StepKeeps

LEMMA StartKeeps ==
    ASSUME DirectoriesInvariant, NEW c \in Client, Start(c)
    PROVE  DirectoriesInvariant'
<1>0. TypeOK /\ Good(c) /\ At(c, "idle")
  BY GoodMeans DEF DirectoriesInvariant, Start
<1>1. PICK x \in Command :
         /\ cmd' = [cmd EXCEPT ![c] = x]
         /\ Goto(c, IF x.op = "put" THEN "lstat"
                    ELSE IF x.op # "rm" /\ x.r THEN "create_path" ELSE x.op)
  BY DEF Start
<1>2. UNCHANGED <<tree, disturbed, failed>>
  BY DEF Start
<1> DEFINE pc == IF x.op = "put" THEN "lstat"
                 ELSE IF x.op # "rm" /\ x.r THEN "create_path" ELSE x.op
           q == [pc |-> pc, next |-> proc[c].next, ret |-> proc[c].ret]
<1>3. x.op \in {"mkdir", "rmdir", "rm", "put"} /\ x.r \in BOOLEAN /\ x # None
  BY CommandFacts
<1>4. proc' = [proc EXCEPT ![c] = q] /\ q \in ProcType /\ proc'[c] = q
  <2>1. proc[c] \in ProcType
    BY <1>0 DEF TypeOK, ProcType, Stage
  <2>2. pc \in Stage
    BY <1>3 DEF Stage
  <2>3. proc' = [proc EXCEPT ![c].pc = pc]
    BY <1>1 DEF Goto
  <2> HIDE DEF pc
  <2>4. [proc[c] EXCEPT !.pc = pc] = q
    BY <2>1 DEF ProcType
  <2>6. proc' = [proc EXCEPT ![c] = q]
    BY <2>3, <2>4
  <2>5. q \in ProcType
    BY <2>1, <2>2 DEF ProcType
  <2> QED
    BY <2>6, <2>5, <1>0 DEF TypeOK
<1>5. failed' = [failed EXCEPT ![c] = failed[c]] /\ failed[c] \in BOOLEAN
  BY <1>0, <1>2 DEF TypeOK
<1>6. tree' \in Trees /\ disturbed' \in [Client -> BOOLEAN]
  BY <1>0, <1>2 DEF TypeOK
<1>7. \A d \in Client : cmd[d] \in Command => Calm(d)
  BY <1>2, CalmNothing
<1>8. cmd'[c] = x
  BY <1>0, <1>1 DEF TypeOK
<1>9. Good(c)'
  <2>1. q.pc = pc /\ q.next = proc[c].next
    OBVIOUS
  <2>2. proc[c].next = 1
    BY <1>0 DEF Good, At
  <2> QED
    BY <1>3, <1>4, <1>8, <2>1, <2>2 DEF Good, At, InLoop, CreatesPath
<1> QED
  BY <1>1, <1>4, <1>5, <1>6, <1>7, <1>9, StepKeeps

(* gluster_create_path goes on, or to what follows it. *)
LEMMA GotoKeeps ==
    ASSUME DirectoriesInvariant, NEW c \in Client, cmd[c] \in Command, ~At(c, "idle"),
           tree' \in Trees, UNCHANGED <<cmd, disturbed, failed>>,
           \A d \in Client : cmd[d] \in Command => Calm(d),
           NEW pc \in {"create_path", "make", "stat", "creat"}, NEW n \in Nat,
           proc' = [proc EXCEPT ![c].pc = pc, ![c].next = n],
           pc # "creat" => CreatesPath(c),
           pc = "create_path" => n = 1,
           pc = "creat" => cmd[c].op = "put",
           pc \in {"make", "stat"} => n \in 1..DirsOf(cmd[c]),
           CreatesPath(c) /\ ~disturbed[c] =>
             LET p == cmd[c].path IN
             /\ pc \in {"make", "stat"} => Stands(tree', p, n - 1)
             /\ pc = "stat" => tree'[Prefix(p, n)] # None
             /\ pc = "creat" => \/ Stands(tree', p, DirsOf(cmd[c]))
                                \/ FileInTheWay(tree', p, DirsOf(cmd[c]))
    PROVE  DirectoriesInvariant'
<1> DEFINE q == [pc |-> pc, next |-> n, ret |-> proc[c].ret]
<1>0. TypeOK
  BY DEF DirectoriesInvariant
<1>1. q \in ProcType /\ proc[c] \in ProcType
  BY <1>0 DEF TypeOK, ProcType, Stage
<1>2. [[proc[c] EXCEPT !.pc = pc] EXCEPT !.next = n] = q
  <2> DEFINE r == [pc |-> pc, next |-> proc[c].next, ret |-> proc[c].ret]
  <2>1. [proc[c] EXCEPT !.pc = pc] = r
    BY <1>1 DEF ProcType
  <2>2. [r EXCEPT !.next = n] = q
    OBVIOUS
  <2> HIDE DEF q, r
  <2> QED
    BY <2>1, <2>2
<1>3. proc' = [proc EXCEPT ![c] = q] /\ proc'[c] = q
  BY <1>0, <1>1, <1>2 DEF TypeOK
<1>4. cmd' = [cmd EXCEPT ![c] = cmd[c]] /\ failed' = [failed EXCEPT ![c] = failed[c]]
  BY <1>0 DEF TypeOK
<1>5. failed[c] \in BOOLEAN /\ disturbed' \in [Client -> BOOLEAN]
  BY <1>0 DEF TypeOK
<1>6. Good(c)'
  <2>1. q.pc = pc /\ q.next = n
    OBVIOUS
  <2> QED
    BY <1>3, <2>1 DEF Good, At, InLoop, CreatesPath, Component
<1> QED
  BY <1>1, <1>3, <1>4, <1>5, <1>6, StepKeeps

LEMMA ReturnsKeeps ==
    ASSUME DirectoriesInvariant, NEW c \in Client, cmd[c] \in Command, ~At(c, "idle"),
           CreatesPath(c), tree' \in Trees, UNCHANGED <<cmd, disturbed, failed>>,
           \A d \in Client : cmd[d] \in Command => Calm(d),
           CreatePathReturns0(c),
           ~disturbed[c] => \/ Stands(tree', cmd[c].path, DirsOf(cmd[c]))
                            \/ FileInTheWay(tree', cmd[c].path, DirsOf(cmd[c]))
    PROVE  DirectoriesInvariant'
<1>0. TypeOK
  BY DEF DirectoriesInvariant
<1>1. proc[c].next \in Nat /\ failed[c] \in BOOLEAN /\ disturbed' \in [Client -> BOOLEAN]
  BY <1>0 DEF TypeOK
<1>2. CASE cmd[c].op = "put"
  <2>1. proc' = [proc EXCEPT ![c].pc = "creat"]
    BY <1>2 DEF CreatePathReturns0, Goto
  <2>2. proc' = [proc EXCEPT ![c].pc = "creat", ![c].next = proc[c].next]
    BY <1>0, <2>1 DEF TypeOK
  <2>3. "creat" \in {"create_path", "make", "stat", "creat"}
        /\ "creat" # "create_path" /\ "creat" \notin {"make", "stat"} /\ "creat" # "stat"
    OBVIOUS
  <2> QED
    BY <1>1, <1>2, <2>2, <2>3, GotoKeeps
<1>3. CASE cmd[c].op # "put"
  <2>1. Ends(c, "done", 0)
    BY <1>3 DEF CreatePathReturns0, Return
  <2>2. failed' = [failed EXCEPT ![c] = failed[c]]
    BY <1>0 DEF TypeOK
  <2>3. "done" \in {"done", "killed"} /\ 0 \in {0, -1} /\ 0 # -1
    OBVIOUS
  <2> QED
    BY <1>1, <2>1, <2>2, <2>3, EndKeeps
<1> QED
  BY <1>2, <1>3

(* The component at next is a directory: on to the next one. *)
LEMMA NextComponentKeeps ==
    ASSUME DirectoriesInvariant, NEW c \in Client, InLoop(c), tree' \in Trees,
           UNCHANGED <<cmd, disturbed, failed>>,
           \A d \in Client : cmd[d] \in Command => Calm(d),
           NextComponent(c), tree'[Component(c)] = "dir"
    PROVE  DirectoriesInvariant'
<1>0. TypeOK /\ Good(c)
  BY GoodMeans DEF DirectoriesInvariant
<1>1. /\ cmd[c] \in Command /\ ~At(c, "idle") /\ CreatesPath(c)
      /\ proc[c].next \in 1..DirsOf(cmd[c])
  BY <1>0 DEF Good, InLoop, At
<1>2. /\ DirsOf(cmd[c]) \in 0..Len(cmd[c].path) /\ Len(cmd[c].path) \in Nat
  BY <1>1, CommandFacts
<1>a. DirsOf(cmd[c]) \in Nat /\ proc[c].next \in Nat /\ proc[c].next <= DirsOf(cmd[c])
  BY <1>1, <1>2
<1>3. ~disturbed[c] => Stands(tree', cmd[c].path, proc[c].next)
  <2> SUFFICES ASSUME ~disturbed[c] PROVE Stands(tree', cmd[c].path, proc[c].next)
    OBVIOUS
  <2>1. Stands(tree, cmd[c].path, proc[c].next - 1)
    BY <1>0, <1>1 DEF Good
  <2>2. proc[c].next - 1 \in 0..Len(cmd[c].path) /\ ~disturbed'[c] /\ Calm(c)
    BY <1>1, <1>2, <1>a
  <2>3. Stands(tree', cmd[c].path, proc[c].next - 1)
    BY <1>1, <2>1, <2>2, StandsStays
  <2>4. \A k \in 1..proc[c].next : k \in 1..(proc[c].next - 1) \/ k = proc[c].next
    BY <1>a
  <2> QED
    BY <2>3, <2>4 DEF Stands, Component
<1>4. CASE proc[c].next = DirsOf(cmd[c])
  <2>1. CreatePathReturns0(c)
    BY <1>4 DEF NextComponent
  <2> QED
    BY <1>1, <1>3, <1>4, <2>1, ReturnsKeeps
<1>5. CASE proc[c].next # DirsOf(cmd[c])
  <2> DEFINE n == proc[c].next + 1
  <2>1. n \in Nat /\ n \in 1..DirsOf(cmd[c]) /\ n - 1 = proc[c].next
    BY <1>1, <1>a, <1>5
  <2>2. proc' = [proc EXCEPT ![c].next = n, ![c].pc = "make"]
    BY <1>0, <1>5 DEF NextComponent, TypeOK
  <2>3. proc[c] \in ProcType
    BY <1>0 DEF TypeOK, ProcType, Stage
  <2>4. [[proc[c] EXCEPT !.next = n] EXCEPT !.pc = "make"]
        = [[proc[c] EXCEPT !.pc = "make"] EXCEPT !.next = n]
    <3> HIDE DEF n
    <3> QED
      BY <2>3 DEF ProcType
  <2>5. proc' = [proc EXCEPT ![c].pc = "make", ![c].next = n]
    <3> HIDE DEF n
    <3> QED
      BY <1>0, <2>2, <2>4 DEF TypeOK
  <2>6. CreatesPath(c) /\ ~disturbed[c] => Stands(tree', cmd[c].path, n - 1)
    BY <1>3, <2>1
  <2> HIDE DEF n
  <2> QED
    BY <1>1, <2>1, <2>5, <2>6, GotoKeeps
<1> QED
  BY <1>4, <1>5

(* The ways a process ends. *)
LEMMA FailsKeeps ==
    ASSUME DirectoriesInvariant, NEW c \in Client, cmd[c] \in Command,
           tree' \in Trees, UNCHANGED <<cmd, disturbed>>,
           \A d \in Client : cmd[d] \in Command => Calm(d),
           NEW f, Fails(c, f)
    PROVE  DirectoriesInvariant'
<1>1. Ends(c, "done", -1) /\ failed' = [failed EXCEPT ![c] = TRUE]
  BY DEF Fails, Return
<1>2. "done" \in {"done", "killed"} /\ -1 \in {0, -1} /\ TRUE \in BOOLEAN
  OBVIOUS
<1>3. disturbed' \in [Client -> BOOLEAN]
  BY DEF DirectoriesInvariant, TypeOK
<1> QED
  BY <1>1, <1>2, <1>3, EndKeeps

LEMMA RefusedKeeps ==
    ASSUME DirectoriesInvariant, NEW c \in Client, cmd[c] \in Command,
           UNCHANGED <<tree, cmd, disturbed>>, Refused(c),
           CreatesPath(c) => \/ disturbed[c]
                             \/ cmd[c].op = "put" /\ InTheWay(c)
    PROVE  DirectoriesInvariant'
<1>0. TypeOK
  BY DEF DirectoriesInvariant
<1>1. Ends(c, "done", -1) /\ failed' = [failed EXCEPT ![c] = failed[c]]
  BY <1>0 DEF Refused, Return, TypeOK
<1>2. "done" \in {"done", "killed"} /\ -1 \in {0, -1} /\ failed[c] \in BOOLEAN
  BY <1>0 DEF TypeOK
<1>3. disturbed' \in [Client -> BOOLEAN] /\ tree' \in Trees
  BY <1>0 DEF TypeOK
<1>4. \A d \in Client : cmd[d] \in Command => Calm(d)
  BY CalmNothing
<1>5. InTheWay(c)' <=> InTheWay(c)
  BY DEF InTheWay
<1> QED
  BY <1>1, <1>2, <1>3, <1>4, <1>5, EndKeeps

LEMMA SuccessKeeps ==
    ASSUME DirectoriesInvariant, NEW c \in Client, cmd[c] \in Command,
           tree' \in Trees, disturbed' \in [Client -> BOOLEAN], UNCHANGED <<cmd, failed>>,
           \A d \in Client : cmd[d] \in Command => Calm(d),
           NEW pc \in {"done", "killed"}, NEW ret \in {0, -1}, Ends(c, pc, ret),
           ret = 0 \/ pc = "killed"
    PROVE  DirectoriesInvariant'
<1>1. failed' = [failed EXCEPT ![c] = failed[c]] /\ failed[c] \in BOOLEAN
  BY DEF DirectoriesInvariant, TypeOK
<1>2. ~(pc = "done" /\ ret = -1)
  BY TreeAssumption
<1> QED
  BY <1>1, <1>2, EndKeeps

(* The entry p becomes a directory or a file. *)
LEMMA EntrySet ==
    ASSUME DirectoriesInvariant, NEW p \in Path, NEW k \in {"dir", "file"},
           SetEntry(p, k), UNCHANGED <<cmd, disturbed>>,
           \/ k = "dir" /\ CanMakeDir(tree, p)
           \/ k = "file" /\ CanCreate(tree, p)
    PROVE  /\ tree' \in Trees /\ tree'[p] = k
           /\ disturbed' \in [Client -> BOOLEAN]
           /\ \A d \in Client : cmd[d] \in Command => Calm(d)
<1>1. tree \in Trees /\ tree \in [Path -> {"dir", "file", None}]
  BY DEF DirectoriesInvariant, TypeOK, Trees
<1>2. tree' = [tree EXCEPT ![p] = k]
  BY DEF SetEntry
<1>3. tree' \in Trees
  BY <1>1, <1>2, CallsKeepTrees
<1>4. tree[p] = None \/ tree[p] = k
  BY <1>1 DEF CanMakeDir, CanCreate
<1>5. disturbed' \in [Client -> BOOLEAN]
  BY DEF DirectoriesInvariant, TypeOK
<1> QED
  BY <1>1, <1>2, <1>3, <1>4, <1>5, CalmSet

LEMMA EntryRemoved ==
    ASSUME DirectoriesInvariant, NEW p \in Path, RemoveEntry(p), UNCHANGED cmd,
           CanRemoveDir(tree, p) \/ CanUnlink(tree, p)
    PROVE  /\ tree' \in Trees /\ disturbed' \in [Client -> BOOLEAN]
           /\ \A d \in Client : cmd[d] \in Command => Calm(d)
<1>1. tree \in Trees
  BY DEF DirectoriesInvariant, TypeOK
<1>2. tree' \in Trees
  BY <1>1, CallsKeepTrees DEF RemoveEntry, SetEntry
<1>3. disturbed' \in [Client -> BOOLEAN]
  <2>1. disturbed \in [Client -> BOOLEAN]
    BY DEF DirectoriesInvariant, TypeOK
  <2>2. \A c \in Client : (disturbed[c] \/ OnPathOf(c, p)) \in BOOLEAN
    OBVIOUS
  <2> HIDE DEF OnPathOf
  <2> QED
    BY <2>1, <2>2 DEF RemoveEntry
<1>4. \A d \in Client : cmd[d] \in Command => Calm(d)
  BY CalmRemove
<1> QED
  BY <1>2, <1>3, <1>4

-----------------------------------------------------------------------------
LEMMA CreatePathKeeps ==
    ASSUME DirectoriesInvariant, NEW c \in Client, CreatePath(c)
    PROVE  DirectoriesInvariant'
<1>0. TypeOK /\ Good(c) /\ At(c, "create_path")
  BY GoodMeans DEF DirectoriesInvariant, CreatePath
<1>1. /\ cmd[c] \in Command /\ ~At(c, "idle") /\ CreatesPath(c) /\ proc[c].next = 1
      /\ DirsOf(cmd[c]) \in 0..Len(cmd[c].path) /\ Len(cmd[c].path) \in Nat
  BY <1>0, CommandFacts DEF Good, At
<1>2. UNCHANGED <<tree, cmd, disturbed, failed>> /\ tree' \in Trees
  BY <1>0 DEF CreatePath, Keeps, TypeOK
<1>3. \A d \in Client : cmd[d] \in Command => Calm(d)
  BY <1>2, CalmNothing
<1>4. Stands(tree', cmd[c].path, 0)
  BY DEF Stands
<1>5. CASE DirsOf(cmd[c]) = 0
  <2>1. CreatePathReturns0(c)
    BY <1>5 DEF CreatePath
  <2> QED
    BY <1>1, <1>2, <1>3, <1>4, <1>5, <2>1, ReturnsKeeps
<1>6. CASE DirsOf(cmd[c]) # 0
  <2>1. proc' = [proc EXCEPT ![c].pc = "make"]
    BY <1>6 DEF CreatePath, Goto
  <2>2. proc' = [proc EXCEPT ![c].pc = "make", ![c].next = 1]
    BY <1>0, <1>1, <2>1 DEF TypeOK
  <2>3. 1 \in 1..DirsOf(cmd[c]) /\ 1 \in Nat /\ 1 - 1 = 0
    BY <1>1, <1>6
  <2>4. "make" \in {"create_path", "make", "stat", "creat"}
        /\ "make" # "create_path" /\ "make" # "creat" /\ "make" # "stat"
    OBVIOUS
  <2>5. Stands(tree', cmd[c].path, 1 - 1)
    BY <1>4, <2>3
  <2> QED
    BY <1>1, <1>2, <1>3, <2>2, <2>3, <2>4, <2>5, GotoKeeps
<1> QED
  BY <1>5, <1>6

LEMMA MakeKeeps ==
    ASSUME DirectoriesInvariant, NEW c \in Client, Make(c)
    PROVE  DirectoriesInvariant'
<1> DEFINE p == Component(c)
<1>0. TypeOK /\ Good(c) /\ At(c, "make") /\ InLoop(c)
  BY GoodMeans DEF DirectoriesInvariant, Make, InLoop, At
<1>1. /\ cmd[c] \in Command /\ ~At(c, "idle") /\ CreatesPath(c)
      /\ proc[c].next \in 1..DirsOf(cmd[c])
  BY <1>0 DEF Good, At
<1>2. /\ DirsOf(cmd[c]) \in 0..Len(cmd[c].path) /\ Len(cmd[c].path) \in Nat
      /\ cmd[c].path \in Path
  BY <1>1, CommandFacts
<1>3. /\ proc[c].next \in 1..Len(cmd[c].path) /\ proc[c].next \in Nat
      /\ p \in Path /\ p = Prefix(cmd[c].path, proc[c].next)
  <2>1. proc[c].next \in 1..Len(cmd[c].path) /\ proc[c].next \in Nat
    BY <1>1, <1>2
  <2> QED
    BY <1>2, <2>1, PathFacts DEF Component
<1>4. UNCHANGED <<cmd, disturbed>>
  BY DEF Make
<1>5. CASE Fails(c, "mkdir") /\ UNCHANGED tree
  <2>1. tree' \in Trees /\ \A d \in Client : cmd[d] \in Command => Calm(d)
    BY <1>0, <1>4, <1>5, CalmNothing DEF TypeOK
  <2> QED
    BY <1>1, <1>4, <1>5, <2>1, FailsKeeps
<1>6. CASE tree[p] = None /\ ~IsDir(tree, Parent(p)) /\ Refused(c) /\ UNCHANGED tree
  <2>1. disturbed[c]
    <3> SUFFICES ASSUME ~disturbed[c] PROVE IsDir(tree, Parent(p))
      BY <1>6
    <3>1. Stands(tree, cmd[c].path, proc[c].next - 1)
      BY <1>0, <1>1 DEF Good
    <3>2. Parent(p) = Prefix(cmd[c].path, proc[c].next - 1)
      BY <1>2, <1>3, ParentFacts
    <3>3. CASE proc[c].next = 1
      BY <1>2, <1>3, <3>2, <3>3, ParentFacts DEF IsDir
    <3>4. CASE proc[c].next > 1
      <4>1. proc[c].next - 1 \in 1..(proc[c].next - 1)
        BY <1>3, <3>4
      <4> QED
        BY <3>1, <3>2, <4>1 DEF Stands, IsDir
    <3>5. proc[c].next = 1 \/ proc[c].next > 1
      BY <1>3
    <3> QED
      BY <3>3, <3>4, <3>5
  <2> QED
    BY <1>1, <1>4, <1>6, <2>1, RefusedKeeps
<1>7. CASE CanMakeDir(tree, p) /\ SetEntry(p, "dir") /\ NextComponent(c) /\ UNCHANGED failed
  <2>1. /\ tree' \in Trees /\ tree'[p] = "dir"
        /\ \A d \in Client : cmd[d] \in Command => Calm(d)
    BY <1>3, <1>4, <1>7, EntrySet
  <2> QED
    BY <1>0, <1>4, <1>7, <2>1, NextComponentKeeps
<1>8. CASE tree[p] # None /\ Goto(c, "stat") /\ UNCHANGED <<tree, failed>>
  <2>1. tree' \in Trees /\ \A d \in Client : cmd[d] \in Command => Calm(d)
    BY <1>0, <1>4, <1>8, CalmNothing DEF TypeOK
  <2>2. proc' = [proc EXCEPT ![c].pc = "stat", ![c].next = proc[c].next]
    BY <1>0, <1>8 DEF TypeOK, Goto
  <2>3. ~disturbed[c] => /\ Stands(tree', cmd[c].path, proc[c].next - 1)
                         /\ tree'[Prefix(cmd[c].path, proc[c].next)] # None
    BY <1>0, <1>1, <1>3, <1>8 DEF Good
  <2>4. "stat" \in {"create_path", "make", "stat", "creat"}
        /\ "stat" # "create_path" /\ "stat" # "creat"
    OBVIOUS
  <2> QED
    BY <1>1, <1>3, <1>4, <1>8, <2>1, <2>2, <2>3, <2>4, GotoKeeps
<1> QED
  BY <1>5, <1>6, <1>7, <1>8 DEF Make

LEMMA StatKeeps ==
    ASSUME DirectoriesInvariant, NEW c \in Client, Stat(c)
    PROVE  DirectoriesInvariant'
<1> DEFINE p == Component(c)
<1>0. TypeOK /\ Good(c) /\ At(c, "stat") /\ InLoop(c)
  BY GoodMeans DEF DirectoriesInvariant, Stat, InLoop, At
<1>1. /\ cmd[c] \in Command /\ ~At(c, "idle") /\ CreatesPath(c)
      /\ proc[c].next \in 1..DirsOf(cmd[c])
  BY <1>0 DEF Good, At
<1>2. UNCHANGED <<tree, cmd, disturbed>> /\ tree' \in Trees
  BY <1>0 DEF Stat, Keeps, TypeOK
<1>3. \A d \in Client : cmd[d] \in Command => Calm(d)
  BY <1>2, CalmNothing
<1>4. CASE Fails(c, "stat")
  BY <1>1, <1>2, <1>3, <1>4, FailsKeeps
<1>5. CASE tree[p] = None /\ Refused(c)
  <2>1. disturbed[c]
    BY <1>0, <1>1, <1>5 DEF Good
  <2> QED
    BY <1>1, <1>2, <1>5, <2>1, RefusedKeeps
<1>6. CASE tree[p] = "file" /\ CreatePathReturns0(c) /\ UNCHANGED failed
  <2>1. FileInTheWay(tree', cmd[c].path, DirsOf(cmd[c]))
    BY <1>1, <1>2, <1>6 DEF FileInTheWay, Component
  <2> QED
    BY <1>1, <1>2, <1>3, <1>6, <2>1, ReturnsKeeps
<1>7. CASE tree[p] = "dir" /\ NextComponent(c) /\ UNCHANGED failed
  <2>1. tree'[Component(c)] = "dir"
    BY <1>2, <1>7
  <2> QED
    BY <1>0, <1>2, <1>3, <1>7, <2>1, NextComponentKeeps
<1> QED
  BY <1>4, <1>5, <1>6, <1>7 DEF Stat

LEMMA MkdirKeeps ==
    ASSUME DirectoriesInvariant, NEW c \in Client, Mkdir(c)
    PROVE  DirectoriesInvariant'
<1> DEFINE p == cmd[c].path
<1>0. TypeOK /\ Good(c) /\ At(c, "mkdir") /\ UNCHANGED <<cmd, disturbed>>
  BY GoodMeans DEF DirectoriesInvariant, Mkdir
<1>1. cmd[c] \in Command /\ ~CreatesPath(c) /\ p \in Path
  BY <1>0, CommandFacts DEF Good, At
<1>2. UNCHANGED tree => tree' \in Trees /\ \A d \in Client : cmd[d] \in Command => Calm(d)
  BY <1>0, CalmNothing DEF TypeOK
<1>3. CASE Fails(c, "mkdir") /\ UNCHANGED tree
  BY <1>0, <1>1, <1>2, <1>3, FailsKeeps
<1>4. CASE Refused(c) /\ UNCHANGED tree
  BY <1>0, <1>1, <1>4, RefusedKeeps
<1>5. CASE CanMakeDir(tree, p) /\ SetEntry(p, "dir") /\ Return(c, 0) /\ UNCHANGED failed
  <2>1. /\ tree' \in Trees /\ disturbed' \in [Client -> BOOLEAN]
        /\ \A d \in Client : cmd[d] \in Command => Calm(d)
    BY <1>0, <1>1, <1>5, EntrySet
  <2>2. Ends(c, "done", 0) /\ "done" \in {"done", "killed"} /\ 0 \in {0, -1}
    BY <1>5 DEF Return
  <2> QED
    BY <1>0, <1>1, <1>5, <2>1, <2>2, SuccessKeeps
<1> QED
  BY <1>3, <1>4, <1>5 DEF Mkdir

(* glfs_rmdir and glfs_unlink, of gfrmdir and of gfrm. *)
LEMMA RemoveKeeps ==
    ASSUME DirectoriesInvariant, NEW c \in Client, cmd[c] \in Command, ~CreatesPath(c),
           UNCHANGED cmd, RemoveDir(c) \/ RemoveFile(c)
    PROVE  DirectoriesInvariant'
<1> DEFINE p == cmd[c].path
<1>0. TypeOK /\ p \in Path
  BY CommandFacts DEF DirectoriesInvariant
<1>1. UNCHANGED tree /\ UNCHANGED disturbed =>
        tree' \in Trees /\ \A d \in Client : cmd[d] \in Command => Calm(d)
  BY <1>0, CalmNothing DEF TypeOK
<1>2. CASE (Fails(c, "rmdir") \/ Fails(c, "unlink")) /\ UNCHANGED <<tree, disturbed>>
  BY <1>1, <1>2, FailsKeeps
<1>3. CASE Refused(c) /\ UNCHANGED <<tree, disturbed>>
  BY <1>3, RefusedKeeps
<1>4. CASE /\ CanRemoveDir(tree, p) \/ CanUnlink(tree, p)
           /\ RemoveEntry(p) /\ Return(c, 0) /\ UNCHANGED failed
  <2>1. /\ tree' \in Trees /\ disturbed' \in [Client -> BOOLEAN]
        /\ \A d \in Client : cmd[d] \in Command => Calm(d)
    BY <1>0, <1>4, EntryRemoved
  <2>2. Ends(c, "done", 0) /\ "done" \in {"done", "killed"} /\ 0 \in {0, -1}
    BY <1>4 DEF Return
  <2> QED
    BY <1>4, <2>1, <2>2, SuccessKeeps
<1>5. CASE RemoveDir(c)
  BY <1>2, <1>3, <1>4, <1>5 DEF RemoveDir
<1>6. CASE RemoveFile(c)
  BY <1>2, <1>3, <1>4, <1>6 DEF RemoveFile
<1> QED
  BY <1>5, <1>6

LEMMA RmdirKeeps ==
    ASSUME DirectoriesInvariant, NEW c \in Client, Rmdir(c)
    PROVE  DirectoriesInvariant'
<1>0. Good(c) /\ At(c, "rmdir") /\ UNCHANGED cmd
  BY GoodMeans DEF Rmdir
<1>1. cmd[c] \in Command /\ ~CreatesPath(c)
  BY <1>0 DEF Good, At
<1>2. CASE RemoveDir(c)
  BY <1>0, <1>1, <1>2, RemoveKeeps
<1>3. CASE Refused(c) /\ UNCHANGED <<tree, disturbed>>
  BY <1>0, <1>1, <1>3, RefusedKeeps
<1> QED
  BY <1>2, <1>3 DEF Rmdir

LEMMA RmKeeps ==
    ASSUME DirectoriesInvariant, NEW c \in Client, Rm(c)
    PROVE  DirectoriesInvariant'
<1>0. TypeOK /\ Good(c) /\ At(c, "rm") /\ UNCHANGED cmd
  BY GoodMeans DEF Rm, DirectoriesInvariant
<1>1. cmd[c] \in Command /\ ~CreatesPath(c)
  BY <1>0 DEF Good, At
<1>2. CASE RemoveDir(c) \/ RemoveFile(c)
  BY <1>0, <1>1, <1>2, RemoveKeeps
<1>3. CASE Refused(c) /\ UNCHANGED <<tree, disturbed>>
  BY <1>0, <1>1, <1>3, RefusedKeeps
<1>4. CASE Return(c, 0) /\ UNCHANGED <<tree, disturbed, failed>>
  <2>1. /\ tree' \in Trees /\ disturbed' \in [Client -> BOOLEAN]
        /\ \A d \in Client : cmd[d] \in Command => Calm(d)
    BY <1>0, <1>4, CalmNothing DEF TypeOK
  <2>2. Ends(c, "done", 0) /\ "done" \in {"done", "killed"} /\ 0 \in {0, -1}
    BY <1>4 DEF Return
  <2> QED
    BY <1>0, <1>1, <1>4, <2>1, <2>2, SuccessKeeps
<1> QED
  BY <1>2, <1>3, <1>4 DEF Rm

LEMMA LstatKeeps ==
    ASSUME DirectoriesInvariant, NEW c \in Client, Lstat(c)
    PROVE  DirectoriesInvariant'
<1>0. TypeOK /\ Good(c) /\ At(c, "lstat") /\ UNCHANGED <<tree, cmd, disturbed>>
  BY GoodMeans DEF DirectoriesInvariant, Lstat, Keeps
<1>1. /\ cmd[c] \in Command /\ ~At(c, "idle") /\ cmd[c].op = "put" /\ proc[c].next = 1
      /\ cmd[c] # None
  BY <1>0, CommandFacts DEF Good, At
<1>2. CASE tree[cmd[c].path] # None /\ Refused(c)
  BY <1>0, <1>1, <1>2, RefusedKeeps DEF InTheWay
<1>3. CASE /\ Goto(c, IF cmd[c].r THEN "create_path" ELSE "creat")
           /\ UNCHANGED failed
  <2> DEFINE pc == IF cmd[c].r THEN "create_path" ELSE "creat"
  <2>1. tree' \in Trees /\ \A d \in Client : cmd[d] \in Command => Calm(d)
    BY <1>0, CalmNothing DEF TypeOK
  <2>2. proc' = [proc EXCEPT ![c].pc = pc, ![c].next = 1]
    BY <1>0, <1>1, <1>3 DEF Goto, TypeOK
  <2>3. /\ pc \in {"create_path", "make", "stat", "creat"} /\ pc \notin {"make", "stat"}
        /\ 1 \in Nat
    OBVIOUS
  <2>4. (pc # "creat" => CreatesPath(c)) /\ (pc = "creat" => ~CreatesPath(c))
    BY <1>1 DEF CreatesPath
  <2> HIDE DEF pc
  <2> QED
    BY <1>0, <1>1, <1>3, <2>1, <2>2, <2>3, <2>4, GotoKeeps
<1> QED
  BY <1>2, <1>3 DEF Lstat

LEMMA CreatKeeps ==
    ASSUME DirectoriesInvariant, NEW c \in Client, Creat(c)
    PROVE  DirectoriesInvariant'
<1> DEFINE p == cmd[c].path
<1>0. TypeOK /\ Good(c) /\ At(c, "creat") /\ UNCHANGED <<cmd, disturbed>>
  BY GoodMeans DEF DirectoriesInvariant, Creat
<1>1. cmd[c] \in Command /\ cmd[c].op = "put"
  BY <1>0 DEF Good, At
<1>2. p \in Path /\ Len(p) \in Nat \ {0}
  BY <1>1, CommandFacts
<1>3. CASE Fails(c, "creat") /\ UNCHANGED tree
  <2>1. tree' \in Trees /\ \A d \in Client : cmd[d] \in Command => Calm(d)
    BY <1>0, <1>3, CalmNothing DEF TypeOK
  <2> QED
    BY <1>0, <1>1, <1>3, <2>1, FailsKeeps
<1>4. CASE ~CanCreate(tree, p) /\ Refused(c) /\ UNCHANGED tree
  <2>1. CreatesPath(c) /\ ~disturbed[c] => InTheWay(c)
    <3> SUFFICES ASSUME CreatesPath(c), ~disturbed[c], tree[p] = None PROVE InTheWay(c)
      BY DEF InTheWay
    <3>0. DirsOf(cmd[c]) = Len(p) - 1
      BY <1>1 DEF DirsOf
    <3>1. Stands(tree, p, Len(p) - 1) \/ FileInTheWay(tree, p, Len(p) - 1)
      BY <1>0, <3>0 DEF Good
    <3>2. CASE FileInTheWay(tree, p, Len(p) - 1)
      <4>1. \A k \in 1..(Len(p) - 1) : k \in 1..Len(p)
        BY <1>2
      <4> QED
        BY <3>2, <4>1 DEF FileInTheWay, InTheWay
    <3>3. CASE Stands(tree, p, Len(p) - 1)
      <4>1. Parent(p) = Prefix(p, Len(p) - 1)
        BY DEF Parent
      <4>2. CASE Len(p) = 1
        <5>1. 1 \in 1..Len(p)
          BY <4>2
        <5>2. Prefix(p, 1 - 1) = << >>
          BY <1>2, <5>1, ParentFacts
        <5> QED
          BY <1>4, <4>1, <4>2, <5>2, TreeAssumption DEF CanCreate, IsDir
      <4>3. CASE Len(p) # 1
        <5>1. \A n \in Nat \ {0} : n # 1 => n - 1 \in 1..(n - 1)
          OBVIOUS
        <5>2. Len(p) - 1 \in 1..(Len(p) - 1)
          BY <1>2, <4>3, <5>1
        <5> QED
          BY <1>4, <3>3, <4>1, <5>2, TreeAssumption DEF CanCreate, IsDir, Stands
      <4> QED
        BY <4>2, <4>3
    <3> QED
      BY <3>1, <3>2, <3>3
  <2> QED
    BY <1>0, <1>1, <1>4, <2>1, RefusedKeeps
<1>5. CASE /\ CanCreate(tree, p) /\ SetEntry(p, "file")
           /\ (Return(c, 0) /\ UNCHANGED failed) \/ Fails(c, "write")
  <2>1. /\ tree' \in Trees /\ disturbed' \in [Client -> BOOLEAN]
        /\ \A d \in Client : cmd[d] \in Command => Calm(d)
    BY <1>0, <1>2, <1>5, EntrySet
  <2>2. CASE Return(c, 0) /\ UNCHANGED failed
    <3>1. Ends(c, "done", 0) /\ "done" \in {"done", "killed"} /\ 0 \in {0, -1}
      BY <2>2 DEF Return
    <3> QED
      BY <1>0, <1>1, <2>1, <2>2, <3>1, SuccessKeeps
  <2>3. CASE Fails(c, "write")
    BY <1>0, <1>1, <2>1, <2>3, FailsKeeps
  <2> QED
    BY <1>5, <2>2, <2>3
<1> QED
  BY <1>3, <1>4, <1>5 DEF Creat

LEMMA KillKeeps ==
    ASSUME DirectoriesInvariant, NEW c \in Client, Kill(c)
    PROVE  DirectoriesInvariant'
<1>0. /\ TypeOK /\ Good(c) /\ UNCHANGED <<tree, cmd, disturbed, failed>>
      /\ ~At(c, "idle") /\ Ends(c, "killed", -1)
  BY GoodMeans DEF DirectoriesInvariant, Kill, Keeps, At
<1>1. cmd[c] \in Command
  BY <1>0 DEF Good
<1>2. /\ tree' \in Trees /\ disturbed' \in [Client -> BOOLEAN]
      /\ \A d \in Client : cmd[d] \in Command => Calm(d)
  BY <1>0, CalmNothing DEF TypeOK
<1>3. "killed" \in {"done", "killed"} /\ -1 \in {0, -1}
  OBVIOUS
<1> QED
  BY <1>0, <1>1, <1>2, <1>3, SuccessKeeps

-----------------------------------------------------------------------------
LEMMA DirectoriesInit == Init => DirectoriesInvariant
<1> SUFFICES ASSUME Init PROVE DirectoriesInvariant
  OBVIOUS
<1>1. -1 \in {0, -1} /\ 1 \in Nat
  OBVIOUS
<1>2. TypeOK
  BY <1>1, DirectoriesAssumption DEF Init, TypeOK
<1>3. \A c \in Client : cmd[c] = None /\ proc[c].pc = "idle" /\ proc[c].next = 1
  BY DEF Init
<1>4. \A c \in Client : Good(c)
  BY <1>3 DEF Good, At, InLoop, CreatesPath
<1> QED
  BY <1>2, <1>4, GoodMeans

LEMMA DirectoriesKeep == DirectoriesInvariant /\ [Next]_vars => DirectoriesInvariant'
<1> SUFFICES ASSUME DirectoriesInvariant, [Next]_vars PROVE DirectoriesInvariant'
  OBVIOUS
<1>1. CASE UNCHANGED vars
  <2>1. UNCHANGED <<tree, cmd, proc, disturbed, failed>>
    BY <1>1 DEF vars
  <2>2. TypeOK /\ TypeOK'
    BY <2>1 DEF DirectoriesInvariant, TypeOK
  <2>3. \A d \in Client : Good(d)'
    BY <2>1, CalmNothing, GoodStays
  <2> QED
    BY <2>2, <2>3 DEF DirectoriesInvariant, StepsMatch, PathStands, MakersDoNotCollide, Good
<1>2. ASSUME NEW c \in Client, Start(c) \/ Step(c) \/ Kill(c)
      PROVE  DirectoriesInvariant'
  BY <1>2, StartKeeps, CreatePathKeeps, MakeKeeps, StatKeeps, MkdirKeeps, RmdirKeeps,
     RmKeeps, LstatKeeps, CreatKeeps, KillKeeps
     DEF Step
<1> QED
  BY <1>1, <1>2 DEF Next, Rest

(* The processes' types, statements and paths match.                       *)
THEOREM DirectoriesSafe == Spec => []DirectoriesInvariant
<1> QED
  BY DirectoriesInit, DirectoriesKeep, PTL DEF Spec

(* Processes that make directories on the same paths do not make each      *)
(* other fail, for any number of processes and any paths.                  *)
THEOREM NoCollision == Spec => []MakersDoNotCollide
<1>1. DirectoriesInvariant => MakersDoNotCollide
  BY DEF DirectoriesInvariant
<1> QED
  BY <1>1, DirectoriesSafe, PTL

-----------------------------------------------------------------------------
(* The refinement of PathService. *)

Answers == [c \in Client |-> Answer(c)]

LEMMA AnswersSame ==
    ASSUME TypeOK, NEW c \in Client, NEW q, proc' = [proc EXCEPT ![c] = q],
           proc[c].pc \notin {"done", "killed"}, q.pc \notin {"done", "killed"}
    PROVE  Answers' = Answers
<1>1. \A d \in Client : Answer(d)' = Answer(d)
  BY DEF TypeOK, Answer, At
<1> QED
  BY <1>1 DEF Answers

LEMMA AnswerGiven ==
    ASSUME TypeOK, NEW c \in Client, NEW pc \in {"done", "killed"}, NEW ret,
           Ends(c, pc, ret)
    PROVE  Answers' = [Answers EXCEPT ![c] =
                         IF pc = "done" /\ ret = 0 THEN "ok" ELSE "failed"]
<1>1. \A d \in Client \ {c} : Answer(d)' = Answer(d)
  BY DEF TypeOK, Answer, At, Ends
<1>2. Answer(c)' = IF pc = "done" /\ ret = 0 THEN "ok" ELSE "failed"
  BY DEF TypeOK, Answer, At, Ends
<1> QED
  BY <1>1, <1>2 DEF Answers

LEMMA WaitsFor ==
    ASSUME DirectoriesInvariant, NEW c \in Client,
           proc[c].pc \notin {"idle", "done", "killed"}
    PROVE  Promise!Waits(c) /\ cmd[c] \in Command
<1>1. cmd[c] \in Command /\ cmd[c] # None
  BY GoodMeans, CommandFacts DEF Good, At
<1>2. Answer(c) = None
  BY DEF Answer, At
<1> QED
  BY <1>1, <1>2 DEF Promise!Waits

(* PathService's operators are those of Tree. *)
LEMMA SameTree ==
    /\ \A x : Promise!DirsOf(x) = DirsOf(x)
    /\ \A p, k : Promise!Prefix(p, k) = Prefix(p, k)
    /\ \A t, p, k : Promise!FileInTheWay(t, p, k) <=> FileInTheWay(t, p, k)
    /\ \A t, p : Promise!CanMakeDir(t, p) <=> CanMakeDir(t, p)
    /\ \A t, p : Promise!CanRemoveDir(t, p) <=> CanRemoveDir(t, p)
    /\ \A t, p : Promise!CanUnlink(t, p) <=> CanUnlink(t, p)
    /\ \A t, p : Promise!CanCreate(t, p) <=> CanCreate(t, p)
<1>1. \A x : Promise!DirsOf(x) = DirsOf(x)
  BY DEF Promise!DirsOf, DirsOf
<1>2. \A p, k : Promise!Prefix(p, k) = Prefix(p, k)
  BY DEF Promise!Prefix, Prefix
<1>3. \A p : Promise!Parent(p) = Parent(p)
  BY <1>2 DEF Promise!Parent, Parent
<1>4. \A t, p : Promise!IsDir(t, p) <=> IsDir(t, p)
  BY DEF Promise!IsDir, IsDir
<1>5. \A t, p, k : Promise!FileInTheWay(t, p, k) <=> FileInTheWay(t, p, k)
  BY <1>2 DEF Promise!FileInTheWay, FileInTheWay
<1>6. \A t, p : Promise!IsEmpty(t, p) <=> IsEmpty(t, p)
  BY <1>3 DEF Promise!IsEmpty, IsEmpty
<1>7. \A t, p : Promise!IsDir(t, Promise!Parent(p)) <=> IsDir(t, Parent(p))
  BY <1>3, <1>4
<1>8. \A t, p : Promise!CanMakeDir(t, p) <=> CanMakeDir(t, p)
  BY <1>7 DEF Promise!CanMakeDir, CanMakeDir
<1>9. \A t, p : Promise!CanRemoveDir(t, p) <=> CanRemoveDir(t, p)
  BY <1>6 DEF Promise!CanRemoveDir, CanRemoveDir
<1>10. \A t, p : Promise!CanUnlink(t, p) <=> CanUnlink(t, p)
  BY DEF Promise!CanUnlink, CanUnlink
<1>11. \A t, p : Promise!CanCreate(t, p) <=> CanCreate(t, p)
  BY <1>7 DEF Promise!CanCreate, CanCreate
<1> QED
  BY <1>1, <1>2, <1>5, <1>8, <1>9, <1>10, <1>11

(* A process that fails, or is killed: only gfput may leave what it made. *)
LEMMA FailStep ==
    ASSUME DirectoriesInvariant, NEW c \in Client,
           proc[c].pc \notin {"idle", "done", "killed"}, UNCHANGED cmd,
           UNCHANGED tree \/ (cmd[c].op = "put" /\ Promise!FileMade(cmd[c])),
           NEW pc \in {"done", "killed"}, Ends(c, pc, -1)
    PROVE  Promise!Fail(c)
<1>1. Answers' = [Answers EXCEPT ![c] = "failed"]
  <2>1. -1 # 0 /\ TypeOK
    BY DEF DirectoriesInvariant
  <2> QED
    BY <2>1, AnswerGiven
<1> QED
  BY <1>1, WaitsFor DEF Promise!Fail, Answers

LEMMA SucceedStep ==
    ASSUME DirectoriesInvariant, NEW c \in Client,
           proc[c].pc \notin {"idle", "done", "killed"}, UNCHANGED cmd,
           Return(c, 0), Promise!Done(cmd[c])
    PROVE  Promise!Succeed(c)
<1>1. Answers' = [Answers EXCEPT ![c] = "ok"]
  <2>1. TypeOK /\ Ends(c, "done", 0) /\ "done" \in {"done", "killed"}
    BY DEF DirectoriesInvariant, Return
  <2> QED
    BY <2>1, AnswerGiven
<1> QED
  BY <1>1, WaitsFor DEF Promise!Succeed, Answers

PStep == Promise!PNext \/ UNCHANGED Promise!pvars

(* A process goes on and has at most made a directory on its path. *)
LEMMA GoesOnStep ==
    ASSUME DirectoriesInvariant, NEW c \in Client,
           proc[c].pc \notin {"idle", "done", "killed"}, UNCHANGED cmd,
           NEW q, proc' = [proc EXCEPT ![c] = q], q.pc \notin {"done", "killed"},
           UNCHANGED tree \/ (CreatesPath(c) /\ Promise!DirMade(cmd[c]))
    PROVE  PStep
<1>1. Answers' = Answers
  BY AnswersSame DEF DirectoriesInvariant
<1>2. CASE UNCHANGED tree
  BY <1>1, <1>2 DEF PStep, Promise!pvars, Answers
<1>3. CASE CreatesPath(c) /\ Promise!DirMade(cmd[c])
  <2>1. Promise!MakesPath(cmd[c])
    BY <1>3, WaitsFor, CommandFacts DEF Promise!MakesPath, CreatesPath
  <2>2. Promise!MakeOne(c)
    BY <1>1, <1>3, <2>1, WaitsFor DEF Promise!MakeOne, Answers
  <2> QED
    BY <2>2 DEF PStep, Promise!PNext
<1> QED
  BY <1>2, <1>3

LEMMA GotoStep ==
    ASSUME DirectoriesInvariant, NEW c \in Client,
           proc[c].pc \notin {"idle", "done", "killed"}, UNCHANGED cmd,
           NEW pc \in Stage \ {"done", "killed"}, Goto(c, pc),
           UNCHANGED tree \/ (CreatesPath(c) /\ Promise!DirMade(cmd[c]))
    PROVE  PStep
<1> DEFINE q == [proc[c] EXCEPT !.pc = pc]
<1>1. proc' = [proc EXCEPT ![c] = q]
  BY DEF Goto
<1>2. q.pc = pc
  BY DEF DirectoriesInvariant, TypeOK
<1> QED
  BY <1>1, <1>2, GoesOnStep

LEMMA ReturnsStep ==
    ASSUME DirectoriesInvariant, NEW c \in Client,
           proc[c].pc \notin {"idle", "done", "killed"}, UNCHANGED cmd,
           CreatesPath(c), CreatePathReturns0(c),
           UNCHANGED tree \/ Promise!DirMade(cmd[c]),
           \/ DirsOf(cmd[c]) = 0
           \/ tree'[Prefix(cmd[c].path, DirsOf(cmd[c]))] = "dir"
           \/ FileInTheWay(tree', cmd[c].path, DirsOf(cmd[c]))
    PROVE  PStep
<1>1. CASE cmd[c].op = "put"
  <2>1. Goto(c, "creat") /\ "creat" \in Stage \ {"done", "killed"}
    BY <1>1 DEF CreatePathReturns0, Stage
  <2> QED
    BY <2>1, GotoStep
<1>2. CASE cmd[c].op # "put"
  <2>1. Return(c, 0)
    BY <1>2 DEF CreatePathReturns0
  <2>2. cmd[c].op \in {"mkdir", "rmdir"} /\ cmd[c].r
    BY <1>2, WaitsFor, CommandFacts DEF CreatesPath
  <2>3. Promise!PathMade(cmd[c])
    BY SameTree DEF Promise!PathMade
  <2>4. Promise!Done(cmd[c])
    BY <2>2, <2>3 DEF Promise!Done
  <2> QED
    BY <2>1, <2>4, SucceedStep DEF PStep, Promise!PNext
<1> QED
  BY <1>1, <1>2

LEMMA NextComponentStep ==
    ASSUME DirectoriesInvariant, NEW c \in Client, InLoop(c), UNCHANGED cmd,
           NextComponent(c), tree'[Component(c)] = "dir",
           UNCHANGED tree \/ Promise!DirMade(cmd[c])
    PROVE  PStep
<1>1. /\ proc[c].pc \notin {"idle", "done", "killed"} /\ CreatesPath(c)
      /\ Component(c) = Prefix(cmd[c].path, proc[c].next)
  BY GoodMeans DEF InLoop, Good, Component
<1>2. CASE proc[c].next = DirsOf(cmd[c])
  <2>1. CreatePathReturns0(c)
    BY <1>2 DEF NextComponent
  <2> QED
    BY <1>1, <1>2, <2>1, ReturnsStep
<1>3. CASE proc[c].next # DirsOf(cmd[c])
  <2> DEFINE q == [[proc[c] EXCEPT !.next = @ + 1] EXCEPT !.pc = "make"]
  <2>1. proc' = [proc EXCEPT ![c] = q]
    BY <1>3 DEF NextComponent, DirectoriesInvariant, TypeOK
  <2>2. q.pc = "make"
    BY DEF DirectoriesInvariant, TypeOK
  <2> HIDE DEF q
  <2> QED
    BY <1>1, <2>1, <2>2, GoesOnStep
<1> QED
  BY <1>2, <1>3

LEMMA StartStep ==
    ASSUME DirectoriesInvariant, NEW c \in Client, Start(c)
    PROVE  PStep
<1>0. At(c, "idle") /\ cmd[c] = None /\ TypeOK
  BY GoodMeans DEF Start, Good, DirectoriesInvariant
<1>1. PICK x \in Command :
         /\ cmd' = [cmd EXCEPT ![c] = x]
         /\ Goto(c, IF x.op = "put" THEN "lstat"
                    ELSE IF x.op # "rm" /\ x.r THEN "create_path" ELSE x.op)
  BY DEF Start
<1> DEFINE pc == IF x.op = "put" THEN "lstat"
                 ELSE IF x.op # "rm" /\ x.r THEN "create_path" ELSE x.op
           q == [proc[c] EXCEPT !.pc = pc]
<1>2. proc' = [proc EXCEPT ![c] = q] /\ q.pc = pc
  BY <1>0, <1>1 DEF Goto, TypeOK
<1>3. pc \notin {"done", "killed"}
  BY CommandFacts
<1>4. Answers' = Answers
  <2> HIDE DEF pc, q
  <2> QED
    BY <1>0, <1>2, <1>3, AnswersSame DEF At
<1>5. Promise!Accept(c)
  BY <1>0, <1>1, <1>4 DEF Promise!Accept, Start, Answers
<1> QED
  BY <1>5 DEF PStep, Promise!PNext

LEMMA EndsBadly ==
    ASSUME DirectoriesInvariant, NEW c \in Client,
           proc[c].pc \notin {"idle", "done", "killed"}, UNCHANGED <<tree, cmd>>,
           (\E f \in FaultPoint : Fails(c, f)) \/ Refused(c)
    PROVE  PStep
<1>1. Ends(c, "done", -1) /\ "done" \in {"done", "killed"}
  BY DEF Fails, Refused, Return
<1> QED
  BY <1>1, FailStep DEF PStep, Promise!PNext

LEMMA CreatePathStep ==
    ASSUME DirectoriesInvariant, NEW c \in Client, CreatePath(c)
    PROVE  PStep
<1>1. /\ proc[c].pc \notin {"idle", "done", "killed"} /\ CreatesPath(c)
      /\ UNCHANGED <<tree, cmd>>
  BY GoodMeans DEF CreatePath, At, Good, Keeps
<1>2. CASE DirsOf(cmd[c]) = 0
  <2>1. CreatePathReturns0(c)
    BY <1>2 DEF CreatePath
  <2> QED
    BY <1>1, <1>2, <2>1, ReturnsStep
<1>3. CASE DirsOf(cmd[c]) # 0
  <2>1. Goto(c, "make") /\ "make" \in Stage \ {"done", "killed"}
    BY <1>3 DEF CreatePath, Stage
  <2> QED
    BY <1>1, <2>1, GotoStep
<1> QED
  BY <1>2, <1>3

LEMMA MakeStep ==
    ASSUME DirectoriesInvariant, NEW c \in Client, Make(c)
    PROVE  PStep
<1> DEFINE p == Component(c)
<1>1. /\ proc[c].pc \notin {"idle", "done", "killed"} /\ InLoop(c) /\ UNCHANGED cmd
      /\ proc[c].next \in 1..DirsOf(cmd[c])
  BY GoodMeans DEF Make, At, InLoop, Good
<1>2. CASE Fails(c, "mkdir") /\ UNCHANGED tree
  BY <1>1, <1>2, EndsBadly DEF FaultPoint
<1>3. CASE Refused(c) /\ UNCHANGED tree
  BY <1>1, <1>3, EndsBadly
<1>4. CASE CanMakeDir(tree, p) /\ SetEntry(p, "dir") /\ NextComponent(c)
  <2>1. Promise!DirMade(cmd[c])
    BY <1>1, <1>4, SameTree DEF Promise!DirMade, Promise!With, SetEntry, Component
  <2>2. cmd[c].path \in Path /\ DirsOf(cmd[c]) \in 0..Len(cmd[c].path)
        /\ Len(cmd[c].path) \in Nat
    BY <1>1, WaitsFor, CommandFacts
  <2>3. proc[c].next \in 1..Len(cmd[c].path)
    BY <1>1, <2>2
  <2>4. p \in Path
    BY <2>2, <2>3, PathFacts DEF Component
  <2>5. tree'[p] = "dir"
    BY <1>4, <2>4 DEF SetEntry, DirectoriesInvariant, TypeOK, Trees
  <2> QED
    BY <1>1, <1>4, <2>1, <2>5, NextComponentStep
<1>5. CASE Goto(c, "stat") /\ UNCHANGED tree
  <2>1. "stat" \in Stage \ {"done", "killed"}
    BY DEF Stage
  <2> QED
    BY <1>1, <1>5, <2>1, GotoStep
<1> QED
  BY <1>2, <1>3, <1>4, <1>5 DEF Make

LEMMA StatStep ==
    ASSUME DirectoriesInvariant, NEW c \in Client, Stat(c)
    PROVE  PStep
<1> DEFINE p == Component(c)
<1>1. /\ proc[c].pc \notin {"idle", "done", "killed"} /\ InLoop(c)
      /\ UNCHANGED <<tree, cmd>> /\ CreatesPath(c)
      /\ proc[c].next \in 1..DirsOf(cmd[c])
  BY GoodMeans DEF Stat, At, InLoop, Keeps, Good
<1>2. CASE Fails(c, "stat")
  BY <1>1, <1>2, EndsBadly DEF FaultPoint
<1>3. CASE Refused(c)
  BY <1>1, <1>3, EndsBadly
<1>4. CASE tree[p] = "file" /\ CreatePathReturns0(c)
  <2>1. FileInTheWay(tree', cmd[c].path, DirsOf(cmd[c]))
    BY <1>1, <1>4 DEF FileInTheWay, Component
  <2> QED
    BY <1>1, <1>4, <2>1, ReturnsStep
<1>5. CASE tree[p] = "dir" /\ NextComponent(c)
  BY <1>1, <1>5, NextComponentStep
<1> QED
  BY <1>2, <1>3, <1>4, <1>5 DEF Stat

LEMMA RemoveStep ==
    ASSUME DirectoriesInvariant, NEW c \in Client,
           proc[c].pc \notin {"idle", "done", "killed"}, UNCHANGED cmd,
           \/ RemoveDir(c) /\ Promise!RemovesDir(cmd[c])
           \/ RemoveFile(c) /\ cmd[c].op = "rm" /\ ~cmd[c].r
    PROVE  PStep
<1> DEFINE p == cmd[c].path
<1>1. CASE (\E f \in FaultPoint : Fails(c, f)) /\ UNCHANGED tree
  BY <1>1, EndsBadly
<1>2. CASE Refused(c) /\ UNCHANGED tree
  BY <1>2, EndsBadly
<1>3. CASE CanRemoveDir(tree, p) /\ RemoveEntry(p) /\ Return(c, 0)
           /\ Promise!RemovesDir(cmd[c])
  <2>1. Promise!Done(cmd[c])
    BY <1>3, SameTree DEF Promise!Done, Promise!With, RemoveEntry, SetEntry
  <2> QED
    BY <1>3, <2>1, SucceedStep DEF PStep, Promise!PNext
<1>4. CASE CanUnlink(tree, p) /\ RemoveEntry(p) /\ Return(c, 0)
           /\ cmd[c].op = "rm" /\ ~cmd[c].r
  <2>1. Promise!Done(cmd[c])
    BY <1>4, SameTree DEF Promise!Done, Promise!With, RemoveEntry, SetEntry
  <2> QED
    BY <1>4, <2>1, SucceedStep DEF PStep, Promise!PNext
<1> QED
  BY <1>1, <1>2, <1>3, <1>4 DEF RemoveDir, RemoveFile, FaultPoint

LEMMA MkdirStep ==
    ASSUME DirectoriesInvariant, NEW c \in Client, Mkdir(c)
    PROVE  PStep
<1> DEFINE p == cmd[c].path
<1>1. /\ proc[c].pc \notin {"idle", "done", "killed"} /\ UNCHANGED cmd
      /\ cmd[c].op = "mkdir" /\ ~CreatesPath(c) /\ cmd[c] \in Command
  BY GoodMeans DEF Mkdir, At, Good
<1>1a. ~cmd[c].r
  BY <1>1, CommandFacts DEF CreatesPath
<1>2. CASE Fails(c, "mkdir") /\ UNCHANGED tree
  BY <1>1, <1>2, EndsBadly DEF FaultPoint
<1>3. CASE Refused(c) /\ UNCHANGED tree
  BY <1>1, <1>3, EndsBadly
<1>4. CASE CanMakeDir(tree, p) /\ SetEntry(p, "dir") /\ Return(c, 0)
  <2>1. Promise!Done(cmd[c])
    BY <1>1, <1>1a, <1>4, SameTree DEF Promise!Done, Promise!With, SetEntry
  <2> QED
    BY <1>1, <1>4, <2>1, SucceedStep DEF PStep, Promise!PNext
<1> QED
  BY <1>2, <1>3, <1>4 DEF Mkdir

LEMMA RmdirStep ==
    ASSUME DirectoriesInvariant, NEW c \in Client, Rmdir(c)
    PROVE  PStep
<1>1. /\ proc[c].pc \notin {"idle", "done", "killed"} /\ UNCHANGED cmd
      /\ cmd[c].op = "rmdir" /\ ~CreatesPath(c) /\ cmd[c] \in Command
  BY GoodMeans DEF Rmdir, At, Good
<1>2. Promise!RemovesDir(cmd[c])
  BY <1>1, CommandFacts DEF CreatesPath, Promise!RemovesDir
<1>3. CASE RemoveDir(c)
  BY <1>1, <1>2, <1>3, RemoveStep
<1>4. CASE Refused(c) /\ UNCHANGED tree
  BY <1>1, <1>4, EndsBadly
<1> QED
  BY <1>3, <1>4 DEF Rmdir

LEMMA RmStep ==
    ASSUME DirectoriesInvariant, NEW c \in Client, Rm(c)
    PROVE  PStep
<1>1. /\ proc[c].pc \notin {"idle", "done", "killed"} /\ UNCHANGED cmd
      /\ cmd[c].op = "rm" /\ cmd[c] \in Command
  BY GoodMeans DEF Rm, At, Good
<1>2. CASE cmd[c].r /\ RemoveDir(c)
  <2>1. Promise!RemovesDir(cmd[c])
    BY <1>1, <1>2 DEF Promise!RemovesDir
  <2> QED
    BY <1>1, <1>2, <2>1, RemoveStep
<1>3. CASE ~cmd[c].r /\ RemoveFile(c)
  BY <1>1, <1>3, RemoveStep
<1>4. CASE Refused(c) /\ UNCHANGED tree
  BY <1>1, <1>4, EndsBadly
<1>5. CASE Return(c, 0) /\ cmd[c].force /\ tree[cmd[c].path] = None /\ UNCHANGED tree
  <2>1. Promise!Done(cmd[c])
    BY <1>1, <1>5 DEF Promise!Done
  <2> QED
    BY <1>1, <1>5, <2>1, SucceedStep DEF PStep, Promise!PNext
<1> QED
  BY <1>2, <1>3, <1>4, <1>5 DEF Rm

LEMMA LstatStep ==
    ASSUME DirectoriesInvariant, NEW c \in Client, Lstat(c)
    PROVE  PStep
<1>1. proc[c].pc \notin {"idle", "done", "killed"} /\ UNCHANGED <<tree, cmd>>
  BY DEF Lstat, At, Keeps
<1>2. CASE Refused(c)
  BY <1>1, <1>2, EndsBadly
<1>3. CASE Goto(c, IF cmd[c].r THEN "create_path" ELSE "creat")
  <2>1. "create_path" \in Stage \ {"done", "killed"} /\ "creat" \in Stage \ {"done", "killed"}
    BY DEF Stage
  <2> QED
    BY <1>1, <1>3, <2>1, GotoStep
<1> QED
  BY <1>2, <1>3 DEF Lstat

LEMMA CreatStep ==
    ASSUME DirectoriesInvariant, NEW c \in Client, Creat(c)
    PROVE  PStep
<1> DEFINE p == cmd[c].path
<1>1. /\ proc[c].pc \notin {"idle", "done", "killed"} /\ UNCHANGED cmd
      /\ cmd[c].op = "put" /\ cmd[c] \in Command
  BY GoodMeans DEF Creat, At, Good
<1>2. CASE Fails(c, "creat") /\ UNCHANGED tree
  BY <1>1, <1>2, EndsBadly DEF FaultPoint
<1>3. CASE Refused(c) /\ UNCHANGED tree
  BY <1>1, <1>3, EndsBadly
<1>4. CASE CanCreate(tree, p) /\ SetEntry(p, "file")
           /\ (Return(c, 0) \/ Fails(c, "write"))
  <2>1. Promise!FileMade(cmd[c])
    BY <1>4, SameTree DEF Promise!FileMade, Promise!With, SetEntry
  <2>2. CASE Return(c, 0)
    <3>1. Promise!Done(cmd[c])
      BY <1>1, <2>1 DEF Promise!Done
    <3> QED
      BY <1>1, <2>2, <3>1, SucceedStep DEF PStep, Promise!PNext
  <2>3. CASE Fails(c, "write")
    <3>1. Ends(c, "done", -1) /\ "done" \in {"done", "killed"}
      BY <2>3 DEF Fails, Return
    <3> QED
      BY <1>1, <2>1, <3>1, FailStep DEF PStep, Promise!PNext
  <2> QED
    BY <1>4, <2>2, <2>3
<1> QED
  BY <1>2, <1>3, <1>4 DEF Creat

LEMMA KillStep ==
    ASSUME DirectoriesInvariant, NEW c \in Client, Kill(c)
    PROVE  PStep
<1>1. /\ proc[c].pc \notin {"idle", "done", "killed"} /\ UNCHANGED <<tree, cmd>>
      /\ Ends(c, "killed", -1) /\ "killed" \in {"done", "killed"}
  BY DEF Kill, Keeps
<1> QED
  BY <1>1, FailStep DEF PStep, Promise!PNext

LEMMA StartsAsPromised == Init => Promise!PInit
<1> SUFFICES ASSUME Init PROVE Promise!PInit
  OBVIOUS
<1>1. Promise!Trees = Trees
  <2>1. \A t, p : Promise!IsDir(t, Promise!Parent(p)) <=> IsDir(t, Parent(p))
    BY DEF Promise!IsDir, IsDir, Promise!Parent, Parent, Promise!Prefix, Prefix
  <2> QED
    BY <2>1 DEF Promise!Trees, Trees
<1>2. Answers = [c \in Client |-> None]
  BY DEF Init, Answers, Answer, At
<1> QED
  BY <1>1, <1>2, DirectoriesAssumption DEF Init, Promise!PInit, Answers

LEMMA StepsAsPromised ==
    DirectoriesInvariant /\ [Next]_vars => [Promise!PNext]_(Promise!pvars)
<1> SUFFICES ASSUME DirectoriesInvariant, [Next]_vars PROVE PStep
  BY DEF PStep
<1>1. CASE UNCHANGED vars
  <2>1. Answers' = Answers
    BY <1>1 DEF Answers, Answer, At, vars
  <2> QED
    BY <1>1, <2>1 DEF PStep, Promise!pvars, Answers, vars
<1>2. CASE \E c \in Client : Start(c) \/ Step(c) \/ Kill(c)
  <2>1. PICK c \in Client : Start(c) \/ Step(c) \/ Kill(c)
    BY <1>2
  <2> QED
    BY <2>1, StartStep, KillStep, CreatePathStep, MakeStep, StatStep, MkdirStep,
       RmdirStep, RmStep, LstatStep, CreatStep DEF Step
<1> QED
  BY <1>1, <1>2 DEF Next, Rest

(* Directories implements the steps of PathService: whatever processes and *)
(* paths there are, a command has an effect at one moment, the one its     *)
(* answer is about, and before it only makes directories on its path.      *)
THEOREM Implements == Spec => Promise!PInit /\ [][Promise!PNext]_(Promise!pvars)
<1> QED
  BY StartsAsPromised, StepsAsPromised, DirectoriesSafe, PTL DEF Spec

-----------------------------------------------------------------------------
(* Each step of a process goes forward. *)
Onward(c) == Forward(cmd[c], proc[c], proc'[c])

LEMMA LaterStatement ==
    ASSUME NEW c \in Client, TypeOK, NEW q, proc' = [proc EXCEPT ![c] = q],
           Order[q.pc] < Order[proc[c].pc]
    PROVE  Onward(c)
<1>1. proc'[c] = q
  BY DEF TypeOK
<1> QED
  BY <1>1 DEF Onward, Forward

LEMMA GotoForward ==
    ASSUME NEW c \in Client, TypeOK, NEW pc, Goto(c, pc),
           Order[pc] < Order[proc[c].pc]
    PROVE  Onward(c)
<1> DEFINE q == [proc[c] EXCEPT !.pc = pc]
<1>1. proc' = [proc EXCEPT ![c] = q] /\ q.pc = pc
  BY DEF Goto, TypeOK
<1> HIDE DEF q
<1> QED
  BY <1>1, LaterStatement

LEMMA EndForward ==
    ASSUME NEW c \in Client, TypeOK, NEW ret, Return(c, ret),
           proc[c].pc \notin {"idle", "done", "killed"}
    PROVE  Onward(c)
<1> DEFINE q == [pc |-> "done", next |-> 1, ret |-> ret]
<1>1. proc' = [proc EXCEPT ![c] = q] /\ q.pc = "done"
  BY DEF Return, Ends
<1>2. Order["done"] < Order[proc[c].pc]
  BY DEF TypeOK, Order
<1> HIDE DEF q
<1> QED
  BY <1>1, <1>2, LaterStatement

LEMMA EndsForward ==
    ASSUME NEW c \in Client, TypeOK, proc[c].pc \notin {"idle", "done", "killed"},
           (\E f : Fails(c, f)) \/ (\E ret : Return(c, ret)) \/ Refused(c)
    PROVE  Onward(c)
<1>1. PICK ret : Return(c, ret)
  BY DEF Fails, Refused
<1> QED
  BY <1>1, EndForward

LEMMA ReturnsForward ==
    ASSUME NEW c \in Client, TypeOK, CreatePathReturns0(c),
           proc[c].pc \in {"create_path", "make", "stat"}
    PROVE  Onward(c)
<1>1. CASE Goto(c, "creat")
  <2>1. Order["creat"] < Order[proc[c].pc]
    BY DEF Order
  <2> QED
    BY <1>1, <2>1, GotoForward
<1>2. CASE Return(c, 0)
  BY <1>2, EndsForward
<1> QED
  BY <1>1, <1>2 DEF CreatePathReturns0

LEMMA LoopFacts ==
    ASSUME DirectoriesInvariant, NEW c \in Client, InLoop(c)
    PROVE  /\ TypeOK /\ proc[c].pc \notin {"idle", "done", "killed"}
           /\ DirsOf(cmd[c]) \in Nat /\ proc[c].next \in Nat
           /\ 1 <= proc[c].next /\ proc[c].next <= DirsOf(cmd[c])
<1>1. TypeOK /\ proc[c].next \in 1..DirsOf(cmd[c]) /\ cmd[c] \in Command
  BY GoodMeans DEF DirectoriesInvariant, Good, InLoop, At
<1>2. DirsOf(cmd[c]) \in 0..Len(cmd[c].path) /\ Len(cmd[c].path) \in Nat
  BY <1>1, CommandFacts
<1> QED
  BY <1>1, <1>2 DEF InLoop

LEMMA NextComponentForward ==
    ASSUME DirectoriesInvariant, NEW c \in Client, InLoop(c), NextComponent(c)
    PROVE  Onward(c)
<1>1. /\ TypeOK /\ DirsOf(cmd[c]) \in Nat /\ proc[c].next \in Nat
      /\ 1 <= proc[c].next /\ proc[c].next <= DirsOf(cmd[c])
  BY LoopFacts
<1>2. CASE proc[c].next = DirsOf(cmd[c])
  BY <1>1, <1>2, ReturnsForward DEF NextComponent, InLoop
<1>3. CASE proc[c].next # DirsOf(cmd[c])
  <2>1. proc'[c].pc = "make" /\ proc'[c].next = proc[c].next + 1
    BY <1>1, <1>3 DEF NextComponent, TypeOK
  <2>2. proc[c].next + 1 <= DirsOf(cmd[c]) /\ proc[c].next < proc[c].next + 1
    BY <1>1, <1>3
  <2> QED
    BY <1>1, <2>1, <2>2 DEF Onward, Forward, InLoop
<1> QED
  BY <1>2, <1>3

LEMMA MakeForward ==
    ASSUME DirectoriesInvariant, NEW c \in Client, Make(c)
    PROVE  Onward(c)
<1>1. InLoop(c) /\ proc[c].pc = "make"
  BY DEF Make, InLoop, At
<1>2. /\ TypeOK /\ proc[c].pc \notin {"idle", "done", "killed"}
      /\ 1 <= proc[c].next /\ proc[c].next <= DirsOf(cmd[c])
  BY <1>1, LoopFacts
<1>3. CASE Fails(c, "mkdir") \/ Refused(c)
  BY <1>2, <1>3, EndsForward
<1>4. CASE NextComponent(c)
  BY <1>1, <1>4, NextComponentForward
<1>5. CASE Goto(c, "stat")
  <2>1. proc'[c].pc = "stat" /\ proc'[c].next = proc[c].next
    BY <1>2, <1>5 DEF Goto, TypeOK
  <2> QED
    BY <1>1, <1>2, <2>1 DEF Onward, Forward
<1> QED
  BY <1>3, <1>4, <1>5 DEF Make

LEMMA StatForward ==
    ASSUME DirectoriesInvariant, NEW c \in Client, Stat(c)
    PROVE  Onward(c)
<1>1. InLoop(c) /\ proc[c].pc = "stat"
  BY DEF Stat, InLoop, At
<1>2. TypeOK /\ proc[c].pc \notin {"idle", "done", "killed"}
  BY <1>1, LoopFacts
<1>3. CASE Fails(c, "stat") \/ Refused(c)
  BY <1>2, <1>3, EndsForward
<1>4. CASE CreatePathReturns0(c)
  BY <1>1, <1>2, <1>4, ReturnsForward
<1>5. CASE NextComponent(c)
  BY <1>1, <1>5, NextComponentForward
<1> QED
  BY <1>3, <1>4, <1>5 DEF Stat

LEMMA StepForward ==
    ASSUME DirectoriesInvariant, NEW c \in Client, Step(c)
    PROVE  cmd'[c] = cmd[c] /\ Onward(c)
<1>0. TypeOK
  BY DEF DirectoriesInvariant
<1>1. cmd'[c] = cmd[c]
  BY DEF Step, CreatePath, Make, Stat, Mkdir, Rmdir, Rm, Lstat, Creat, Keeps
<1> SUFFICES Onward(c)
  BY <1>1
<1>2. CASE CreatePath(c)
  <2>1. proc[c].pc = "create_path"
    BY <1>2 DEF CreatePath, At
  <2>2. CASE CreatePathReturns0(c)
    BY <1>0, <2>1, <2>2, ReturnsForward
  <2>3. CASE Goto(c, "make")
    <3>1. Order["make"] < Order["create_path"]
      BY DEF Order
    <3> QED
      BY <1>0, <2>1, <2>3, <3>1, GotoForward
  <2> QED
    BY <1>2, <2>2, <2>3 DEF CreatePath
<1>3. CASE Lstat(c)
  <2>1. proc[c].pc = "lstat"
    BY <1>3 DEF Lstat, At
  <2>2. CASE Refused(c)
    BY <1>0, <2>1, <2>2, EndsForward
  <2>3. CASE Goto(c, IF cmd[c].r THEN "create_path" ELSE "creat")
    <3>1. Order[IF cmd[c].r THEN "create_path" ELSE "creat"] < Order["lstat"]
      BY DEF Order
    <3> QED
      BY <1>0, <2>1, <2>3, <3>1, GotoForward
  <2> QED
    BY <1>3, <2>2, <2>3 DEF Lstat
<1>4. CASE Mkdir(c) \/ Rmdir(c) \/ Rm(c) \/ Creat(c)
  <2>1. proc[c].pc \notin {"idle", "done", "killed"}
    BY <1>4 DEF Mkdir, Rmdir, Rm, Creat, At
  <2>2. (\E f : Fails(c, f)) \/ (\E ret : Return(c, ret)) \/ Refused(c)
    BY <1>4 DEF Mkdir, Rmdir, Rm, Creat, RemoveDir, RemoveFile
  <2> QED
    BY <1>0, <2>1, <2>2, EndsForward
<1> QED
  BY <1>1, <1>2, <1>3, <1>4, MakeForward, StatForward DEF Step

LEMMA OnlyOneSteps ==
    DirectoriesInvariant /\ [Next]_vars =>
        \A c \in Client : Step(c) => cmd'[c] = cmd[c] /\ Onward(c)
BY StepForward

(* No process holds another up: whatever others make and remove, each step *)
(* of a process is to a later statement, a later component of its path, or *)
(* from mkdir to stat of the same one (StepsGoForward).                    *)
THEOREM AlwaysForward == Spec => StepsGoForward
<1>1. DirectoriesInvariant /\ [Next]_vars =>
        [\A c \in Client :
           Step(c) => cmd'[c] = cmd[c] /\ Forward(cmd[c], proc[c], proc'[c])]_vars
  BY OnlyOneSteps DEF Onward
<1> QED
  BY <1>1, DirectoriesSafe, PTL DEF Spec, StepsGoForward
=============================================================================
