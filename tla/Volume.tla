------------------------------- MODULE Volume -------------------------------
(***************************************************************************)
(* One path of a Gluster volume and the command-line processes that work   *)
(* on it.  Each process (Client) runs one utility once, over a connection  *)
(* of its own; the volume is what libgfapi shows of it: a directory entry, *)
(* the data of the inodes, an advisory whole-file lock per inode.  The     *)
(* operators of this module are the libgfapi calls the utilities make.     *)
(***************************************************************************)
EXTENDS Integers, Sequences

CONSTANTS
    Client,     \* processes, one utility each
    Orig,       \* the inode the path may name before any of them starts
    None,       \* no inode, no lock owner
    Job,        \* the utilities a process may be running
    SourceLen,  \* lengths, in blocks, of the files transfers read from
    OldLen,     \* lengths of what a transfer's own destination already holds
    Chunk,      \* blocks moved by one buffer of BUFSIZE bytes
    NewSize,    \* the --size of gftruncate
    Fault       \* the calls that may fail

(* put: gfput; put_f, put_a: with -f, -a.  cp_in, cp_out: gfcp between a   *)
(* local file and the path.  rr_in, rr_out: gfcp between another remote    *)
(* file and the path.  mv_in, mv_out: gfmv of and to a local file.         *)
Op == {"put", "put_f", "put_a", "cat", "cp_in", "cp_out", "rr_in", "rr_out",
       "mv_in", "mv_out", "trunc", "trunc_sh", "rm"}

FaultPoint == {"lstat", "open", "creat", "lock", "seek", "ftruncate", "read",
               "write", "srcread", "dstwrite", "local", "unlink", "truncate",
               "close", "kill"}

ASSUME VolumeAssumption ==
    /\ Orig \notin Client
    /\ None \notin Client \cup {Orig}
    /\ Job \subseteq Op
    /\ SourceLen \subseteq Nat
    /\ OldLen \subseteq Nat
    /\ Chunk \in Nat \ {0}
    /\ NewSize \in Nat
    /\ Fault \subseteq FaultPoint

-----------------------------------------------------------------------------
(* Data.  An inode is named after the process that created it.  A block is *)
(* tagged with where it comes from, so that mixtures can be told apart.    *)

Inode == Client \cup {Orig}
Block == Inode \X Int
Hole == <<Orig, 0>>                             \* bytes nobody wrote
Fresh(i, n) == [k \in 1..n |-> <<i, k>>]        \* n blocks of i's own data
Stale(c, n) == [k \in 1..n |-> <<c, -k>>]       \* what c's destination held

(* The data after write(2) or glfs_write puts b at offset o of s. *)
WriteAt(s, o, b) ==
    [k \in 1..(IF Len(s) > o + Len(b) THEN Len(s) ELSE o + Len(b)) |->
        IF o < k /\ k <= o + Len(b) THEN b[k - o]
        ELSE IF k <= Len(s) THEN s[k] ELSE Hole]

(* The data after glfs_truncate or glfs_ftruncate to n blocks. *)
Resize(s, n) == [k \in 1..n |-> IF k <= Len(s) THEN s[k] ELSE Hole]

-----------------------------------------------------------------------------
VARIABLES
    dir,    \* the inode the path names, or None
    data,   \* the contents of every inode, unlinked ones included
    lock,   \* the owner of the F_WRLCK on each inode, or None
    proc    \* the state of every process

volume == <<dir, data, lock>>
vars == <<dir, data, lock, proc>>

Step == {"lstat", "stat", "open", "local", "creat", "lock", "truncate",
         "seek", "copy", "report", "close", "rm", "resize", "done", "killed"}

(* What a process holds: fd and off are its descriptor of the path, far is *)
(* the other end of the transfer (standard input or output, a local file,  *)
(* or another remote file), pos its offset there, buf the blocks read and  *)
(* not yet written, io the ret of gluster_write or gluster_read, and ret   *)
(* the ret of the utility: -1 failed, 0, or 1 for a positive byte count.   *)
Process ==
    [op : Op, pc : Step, fd : Inode \cup {None}, off : Nat,
     far : [exists : BOOLEAN, data : Seq(Block)], pos : Nat,
     buf : Seq(Block), io : {-1, 0, 1}, ret : {-1, 0, 1}]

(* Type invariant: every variable holds values the program can hold. *)
TypeOK ==
    /\ dir \in Inode \cup {None}
    /\ data \in [Inode -> Seq(Block)]
    /\ lock \in [Inode -> Client \cup {None}]
    /\ proc \in [Client -> Process]

-----------------------------------------------------------------------------
(* libgfapi calls, as the utilities use them. *)

Smaller(m, n) == IF m < n THEN m ELSE n

(* c moves on to step l; its other fields keep their values. *)
Goto(c, l) == proc' = [proc EXCEPT ![c].pc = l]

(* c's call failed: ret is -1 and c moves on to step l. *)
FailTo(c, l) == proc' = [proc EXCEPT ![c].pc = l, ![c].ret = -1]

(* c has a descriptor of inode i, at offset 0, and moves on to step l. *)
Opened(c, i, l) ==
    proc' = [proc EXCEPT ![c].pc = l, ![c].fd = i, ![c].off = 0]

(* glfs_creat without O_EXCL or O_TRUNC: opens the file the path names, or *)
(* makes an empty one.                                                     *)
Created(c) == IF dir = None THEN c ELSE dir

(* glfs_open fails when there is no file. *)
CanOpen == dir # None

(* glfs_unlink of the path; descriptors and locks of the inode survive. *)
Unlink == dir' = None

(* glfs_close: the descriptor goes, and every lock of its owner with it. *)
Released(c) == [i \in Inode |-> IF lock[i] = c THEN None ELSE lock[i]]

(* A process that ends, by returning or by a signal. *)
Ended(c) == proc[c].pc \in {"done", "killed"}

(* The process is killed: no handler is installed outside the shell, so    *)
(* the connection drops and the bricks release what the process held.      *)
Kill(c) ==
    /\ "kill" \in Fault
    /\ ~Ended(c)
    /\ proc' = [proc EXCEPT ![c].pc = "killed", ![c].fd = None]
    /\ lock' = Released(c)
    /\ UNCHANGED <<dir, data>>
=============================================================================
