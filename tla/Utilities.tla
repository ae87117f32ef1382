----------------------------- MODULE Utilities -----------------------------
(***************************************************************************)
(* Any number of utilities, running at the same time on one path.          *)
(***************************************************************************)
EXTENDS Put, Mv, Cat, Truncate, Rm

WriteOp == {"put", "put_f", "put_a", "cp_in", "mv_in"}  \* gluster_write users
ReadOp == {"cat", "cp_out", "mv_out"}                   \* gluster_read users

FirstStep(o) ==
    CASE o \in {"put", "put_f", "put_a", "rr_in", "rr_out"} -> "lstat"
      [] o \in {"cp_in", "mv_in"} -> "local"
      [] o \in {"cp_out", "mv_out", "trunc", "trunc_sh"} -> "stat"
      [] o = "cat" -> "open"
      [] o = "rm" -> "rm"

(* The far end of a transfer when it starts: n blocks, or no file (-1).    *)
(* Standard input and output always exist; gftruncate and gfrm have none.  *)
FarLength(o) ==
    CASE o \in {"put", "put_f", "put_a"} -> SourceLen
      [] o \in {"cp_in", "mv_in", "rr_in"} -> SourceLen \cup {-1}
      [] o \in {"cp_out", "mv_out", "rr_out"} -> OldLen \cup {-1}
      [] o = "cat" -> {0}
      [] o \in {"trunc", "trunc_sh", "rm"} -> {-1}

FarAtStart(c, o, n) ==
    [exists |-> n # -1,
     data |-> IF o \in {"cp_out", "mv_out", "rr_out"} THEN Stale(c, n)
                                                     ELSE Fresh(c, n)]

Start(c, o, n) ==
    [op |-> o, pc |-> FirstStep(o), fd |-> None, off |-> 0,
     far |-> FarAtStart(c, o, n), pos |-> 0, buf |-> << >>,
     io |-> 0, ret |-> -1]

Init ==
    /\ dir \in {None, Orig}
    /\ \E n \in SourceLen :
         data = [i \in Inode |->
                    IF i = Orig /\ dir = Orig THEN Fresh(Orig, n) ELSE << >>]
    /\ lock = [i \in Inode |-> None]
    /\ \E job \in [Client -> Job], n \in [Client -> SourceLen \cup OldLen \cup {-1, 0}] :
         /\ \A c \in Client : n[c] \in FarLength(job[c])
         /\ proc = [c \in Client |-> Start(c, job[c], n[c])]

UtilityStep(c) ==
    PutNext(c) \/ CpNext(c) \/ MvNext(c) \/ CatNext(c) \/ TruncateNext(c)
    \/ RmUnlink(c)

AllEnded == (\A c \in Client : Ended(c)) /\ UNCHANGED vars

Next == (\E c \in Client : UtilityStep(c) \/ Kill(c)) \/ AllEnded

(* No utility waits for another: the operating system keeps running a      *)
(* process whose calls return.                                             *)
Spec == Init /\ [][Next]_vars /\ \A c \in Client : WF_vars(UtilityStep(c))

-----------------------------------------------------------------------------
(* A process between the lock and the close of a utility that locks the    *)
(* path, where it reads or writes the data.                                *)
Locker == WriteOp \cup ReadOp
InDataPhase(p) ==
    p.op \in Locker /\ p.pc \in {"truncate", "seek", "copy", "report"}

(* A process that may own a lock: a descriptor is open and will be closed. *)
(* gftruncate owns one between its lock and its close.                     *)
MayOwnLock(p) ==
    \/ InDataPhase(p)
    \/ p.op \in Locker \cup {"trunc"} /\ p.pc = "close"

(* A process at a step that uses its descriptor of the path. *)
NeedsDescriptor(p) ==
    \/ p.pc \in {"lock", "truncate", "seek", "copy", "report"}
    \/ p.op \in {"cp_out", "mv_out"} /\ p.pc = "local"
    \/ p.op = "rr_out" /\ p.pc = "creat"

(* At every step where a locking utility touches the data of an inode it   *)
(* owns the lock of that inode: gluster_lock comes before the truncation,  *)
(* the seek and both copy loops, on the descriptor they use, and nothing   *)
(* gives the lock back before they end.                                    *)
DataPhaseLocked == \A c \in Client : InDataPhase(proc[c]) => lock[proc[c].fd] = c

(* Every lock has a live owner that has the inode open and is going to     *)
(* close it: no error path, and no signal, leaves a lock behind that would *)
(* make every later utility fail.                                          *)
LocksAreReleased ==
    \A i \in Inode : lock[i] # None =>
        MayOwnLock(proc[lock[i]]) /\ proc[lock[i]].fd = i

(* Two locking utilities never work on the data of one inode together. *)
DataPhaseExclusive ==
    \A c, d \in Client :
        c # d /\ InDataPhase(proc[c]) /\ InDataPhase(proc[d]) =>
            proc[c].fd # proc[d].fd

(* The inductive invariant behind the three properties above: the types,   *)
(* an open descriptor wherever one is used, and locks that match the steps *)
(* of their owners.                                                        *)
DescriptorsOpen == \A c \in Client : NeedsDescriptor(proc[c]) => proc[c].fd \in Inode

LockInvariant ==
    TypeOK /\ DescriptorsOpen /\ DataPhaseLocked /\ LocksAreReleased

(* What Termination rests on.  A step of a utility leads to a statement    *)
(* further down, or is a turn of its copy loop: a read takes more of what  *)
(* it reads from, and no more than is there, a write leaves less of the    *)
(* buffer.  Nothing is read before the buffer is empty.                    *)
Order ==
    [lstat |-> 10, stat |-> 10, open |-> 8, local |-> 7, creat |-> 6, lock |-> 5,
     truncate |-> 4, seek |-> 4, copy |-> 3, report |-> 2, close |-> 1, rm |-> 0,
     resize |-> 0, done |-> -1, killed |-> -1]
StatementsLeft(p) ==
    IF p.pc = "creat" /\ p.op \in TruncOp THEN 9 ELSE Order[p.pc]

FromFar(p) == p.op \in WriteOp \cup {"rr_in"}
Taken(p) == IF FromFar(p) THEN p.pos ELSE p.off
Available(p) == IF FromFar(p) THEN Len(p.far.data) ELSE Len(data[p.fd])

Forward(p, q) ==
    \/ StatementsLeft(q) < StatementsLeft(p)
    \/ /\ p.pc = "copy" /\ q.pc = "copy" /\ q.op = p.op /\ q.fd = p.fd
       /\ \/ p.buf = << >> /\ Taken(p) < Taken(q) /\ Taken(q) <= Available(p)
          \/ p.buf # << >> /\ Len(q.buf) < Len(p.buf) /\ Taken(q) = Taken(p)
StepsGoForward ==
    [][\A c \in Client : UtilityStep(c) => Forward(proc[c], proc'[c])]_vars

(* Between two steps of a utility that holds the lock nothing is added to  *)
(* what it has to copy: where all utilities lock the path, a file that is  *)
(* being read does not grow, and each copy loop has an end from its start. *)
NobodyAddsWork ==
    [][\A c \in Client : InDataPhase(proc[c]) =>
          \/ UtilityStep(c) \/ Kill(c)
          \/ UNCHANGED <<proc[c], Available(proc[c])>>]_vars

(* Every utility ends, so there comes a time when all have: the lock is    *)
(* never waited for, a short read or write makes progress - the inner loop *)
(* of gluster_write goes on behind what was written - and the copy loops   *)
(* reach the end of what they read.                                        *)
Termination == <>\A c \in Client : Ended(c)
=============================================================================
