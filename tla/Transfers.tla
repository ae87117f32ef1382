----------------------------- MODULE Transfers -----------------------------
(***************************************************************************)
(* What the transfers of Utilities promise about data.                     *)
(***************************************************************************)
EXTENDS Utilities, SequencesExt

VARIABLE stable     \* history: each inode's data when it was last unlocked

hvars == <<vars, stable>>

HInit == Init /\ stable = data

HNext ==
    /\ Next
    /\ stable' = [i \in Inode |-> IF lock'[i] = None THEN data'[i] ELSE stable[i]]

HSpec == HInit /\ [][HNext]_hvars

-----------------------------------------------------------------------------
(* Refinement.  A transfer acts when it closes the path or is killed. *)
Kind(c) ==
    CASE proc[c].op = "put_a" -> "append"
      [] proc[c].op \in WriteOp \ {"put_a"} -> "write"
      [] OTHER -> "read"

Acted == {c \in Client : proc[c].pc \in {"rm", "done", "killed"}}

Atomic == INSTANCE AtomicFile WITH
    Torn <- Fault \cap {"read", "write", "srcread", "dstwrite", "kill"} # {},
    entry <- dir,
    val <- stable,
    kind <- [c \in Client |-> Kind(c)],
    src <- [c \in Client |->
              IF proc[c].op \in WriteOp THEN proc[c].far.data ELSE << >>],
    got <- [c \in Client |->
              IF proc[c].op \in ReadOp /\ c \in Acted THEN proc[c].far.data ELSE << >>],
    acted <- Acted

(* The utilities that lock the path are atomic to each other: whatever the *)
(* interleaving, a reader gets one committed content, a truncating writer  *)
(* leaves exactly its source, an appender adds exactly its source at the   *)
(* end of a committed content, and a refused or failed one leaves nothing. *)
TransfersAreAtomic == Atomic!ASpec

-----------------------------------------------------------------------------
(* A writer that is about to return success has its whole source in the    *)
(* file, at the end of the file if it appends.                             *)
SuccessMeansStored ==
    \A c \in Client :
        LET p == proc[c] IN
        p.op \in WriteOp /\ p.pc = "close" /\ p.ret # -1 =>
            IF p.op = "put_a" THEN IsSuffix(p.far.data, data[p.fd])
                              ELSE data[p.fd] = p.far.data

(* A reader that is about to return success has output the file's data and *)
(* nothing else.                                                           *)
SuccessMeansFetched ==
    \A c \in Client :
        LET p == proc[c] IN
        p.op \in ReadOp /\ p.pc = "close" /\ p.ret # -1 =>
            p.far.data = data[p.fd]

(* No write lands beyond the end of the file: descriptors keep no offset   *)
(* across a truncation by somebody else.                                   *)
NoHoles == \A i \in Inode : \A k \in 1..Len(data[i]) : data[i][k] # Hole

(* While gfput -a owns the lock the file only grows, from what it was. *)
AppendKeepsData ==
    [][\A i \in Inode :
          lock[i] # None =>
             (proc[lock[i]].op = "put_a" => IsPrefix(data[i], data'[i]))]_hvars

(* A writer that fails by being refused, or before its copy loop, leaves   *)
(* no block of its own in any file.                                        *)
RefusedLeavesNoTrace ==
    \A c \in Client :
        proc[c].op \in WriteOp /\ proc[c].pc \in {"rm", "done"} /\ proc[c].ret = -1
            => \A i \in Inode : \A k \in 1..Len(data[i]) : data[i][k][1] # c

(* Locks are tried and not waited for, so rivals could all be refused by   *)
(* each other; of those that have something to write, one succeeds.        *)
SomeoneSucceeds ==
    (\A c \in Client : proc[c].op \in WriteOp \ {"put", "mv_in"}
                           /\ proc[c].pc = "done" /\ proc[c].far.data # << >>)
    => \E c \in Client : proc[c].ret # -1

(* gfput without -a and -f leaves alone the file that was there at first:  *)
(* among plain and appending gfputs and readers it is only ever extended.  *)
OriginalKept ==
    [][dir = Orig /\ (\A c \in Client : proc[c].op \in {"put", "put_a"} \cup ReadOp)
          => IsPrefix(data[Orig], data'[Orig])]_hvars

-----------------------------------------------------------------------------
(* The inductive invariant behind the refinement and the properties above, *)
(* for locking utilities whose own destinations do not exist at first.     *)

Before == {"lstat", "stat", "open", "local", "creat", "lock", "truncate", "seek"}
Written(p) == p.pos - Len(p.buf)    \* what a writer has put in the file
Base(c) == IF proc[c].op = "put_a" THEN stable[proc[c].fd] ELSE << >>
Owns(c) == \E i \in Inode : lock[i] = c

(* Before its copy loop a transfer has moved nothing. *)
Untouched(c) ==
    LET p == proc[c] IN
    /\ p.pos = 0 /\ p.off = 0 /\ p.buf = << >> /\ p.io = 0
    /\ \A i \in Inode : lock[i] = c => data[i] = stable[i]
    /\ ~p.far.exists => p.far.data = << >>
    /\ p.op \in ReadOp => p.far.data = << >> /\ p.ret = -1
    /\ p.op \in ReadOp /\ p.pc = "stat" => ~p.far.exists

(* In the loop of a writer the file is what it was, or empty, and the      *)
(* first blocks of the source; the next ones are in the buffer.            *)
Writing(c) ==
    LET p == proc[c] IN
    /\ p.pos \in Len(p.buf)..Len(p.far.data)
    /\ p.buf = SubSeq(p.far.data, Written(p) + 1, p.pos)
    /\ data[p.fd] = Base(c) \o SubSeq(p.far.data, 1, Written(p))
    /\ p.off = Len(data[p.fd])
    /\ p.ret = 0
    /\ p.io = 0 => Written(p) = 0

(* In the loop of a reader nobody changes the file, and what is read of it *)
(* is in the destination and in the buffer.                                *)
Reading(c) ==
    LET p == proc[c] IN
    /\ data[p.fd] = stable[p.fd]
    /\ p.off \in p.pos..Len(data[p.fd])
    /\ p.far.data = SubSeq(data[p.fd], 1, p.pos)
    /\ p.buf = SubSeq(data[p.fd], p.pos + 1, p.off)

(* After its loop a writer has put a part of its source, all of it if no   *)
(* call of the loop fails, and a reader has a part of the file; r is -1 if *)
(* it knows that this is not all.                                          *)
Stored(c) ==
    LET p == proc[c] IN
    \E n \in 0..Len(p.far.data) :
        /\ data[p.fd] = Base(c) \o SubSeq(p.far.data, 1, n)
        /\ n = Len(p.far.data) \/ Fault \cap {"srcread", "write"} # {}

Fetched(c, r) ==
    LET p == proc[c] IN
    /\ data[p.fd] = stable[p.fd]
    /\ \E n \in 0..Len(data[p.fd]) :
        /\ p.far.data = SubSeq(data[p.fd], 1, n)
        /\ n = Len(data[p.fd]) \/ "read" \in Fault \/ ("dstwrite" \in Fault /\ r = -1)

Progress(c) ==
    LET p == proc[c] IN
    /\ p.op \in Job /\ p.pc # "resize"
    /\ p.pc \in Before => Untouched(c)
    /\ p.pc = "copy" /\ p.op \in WriteOp => Writing(c)
    /\ p.pc = "copy" /\ p.op \in ReadOp => Reading(c)
    /\ p.pc = "report" /\ p.op \in WriteOp =>
          Stored(c) /\ p.ret = 0 /\ (p.io = 0 => p.far.data = << >>)
    /\ p.pc = "report" /\ p.op \in ReadOp => Fetched(c, p.io)
    /\ p.pc = "close" /\ Owns(c) /\ p.op \in WriteOp =>
          Stored(c) \/ (p.ret = -1 /\ data[p.fd] = stable[p.fd])
    /\ p.pc = "close" /\ Owns(c) /\ p.op \in ReadOp => Fetched(c, p.ret)
    /\ p.pc = "close" /\ ~Owns(c) =>
          p.ret = -1 /\ (p.op \in ReadOp => p.far.data = << >>)

(* The blocks in the files tell who wrote them, and who did not. *)
Traceless(c) == \A i \in Inode : \A k \in 1..Len(data[i]) : data[i][k][1] # c

Traced(c) ==
    LET p == proc[c] IN
    p.op \in WriteOp =>
        /\ \A k \in 1..Len(p.far.data) : p.far.data[k] = <<c, k>>
        /\ \/ p.pc \in Before
           \/ p.pc \in {"copy", "report"} /\ p.io = 0
           \/ p.pc \in {"close", "rm"} /\ p.ret = -1
           \/ p.pc = "done" /\ p.ret = -1 /\ p.op # "mv_in"
           => Traceless(c)

DataInvariant ==
    /\ \A i \in Inode : lock[i] = None => data[i] = stable[i]
    /\ NoHoles
    /\ \A c \in Client : Progress(c) /\ Traced(c)

-----------------------------------------------------------------------------
(* gfmv removes its source only if the transfer before it did not fail,    *)
(* which is what "Move SOURCE to DEST" promises.  The code does not see to *)
(* it, and a run of its own refutes this.  A step removes a source if it   *)
(* is the unlink of gfmv, of the local file or of the path, and there was  *)
(* something to remove.                                                    *)
RemovesSource(c) ==
    \/ MvRmLocal(c) /\ proc[c].far.exists /\ ~proc'[c].far.exists
    \/ MvRmRemote(c) /\ dir # None /\ dir' = None

FailedMoveKeepsSource ==
    [][\A c \in Client : RemovesSource(c) => proc[c].ret # -1]_hvars
=============================================================================
