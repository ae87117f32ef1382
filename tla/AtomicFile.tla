----------------------------- MODULE AtomicFile -----------------------------
(***************************************************************************)
(* What the whole-file lock is for: to each other, the utilities that take *)
(* it read and write the path in one step each.  A process is a reader or  *)
(* a writer and acts once; it may also give up.  The one thing that is not *)
(* atomic is the creation of the file, which shows it empty.               *)
(***************************************************************************)
EXTENDS Integers, Sequences

CONSTANTS
    Client, Inode, None,
    Torn        \* TRUE when an operation may be cut short, at any block

VARIABLES
    entry,      \* the inode the path names, or None
    val,        \* the contents of every inode
    kind,       \* what every process does: "write", "append" or "read"
    src,        \* what every writer writes
    got,        \* what every reader has read
    acted       \* the processes that are through

avars == <<entry, val, kind, src, got, acted>>

(* What may be left of s: all of it, or a prefix if operations are torn. *)
Part(s) == {SubSeq(s, 1, n) : n \in IF Torn THEN 0..Len(s) ELSE {Len(s)}}

AInit ==
    /\ entry \in Inode \cup {None}
    /\ got = [c \in Client |-> << >>]
    /\ acted = {}

Create(c) ==
    /\ entry = None
    /\ entry' = c
    /\ UNCHANGED <<val, kind, src, got, acted>>

Write(c) ==
    /\ c \notin acted /\ kind[c] \in {"write", "append"}
    /\ \E i \in Inode, s \in Part(src[c]) :
         val' = [val EXCEPT ![i] = IF kind[c] = "append" THEN @ \o s ELSE s]
    /\ acted' = acted \cup {c}
    /\ UNCHANGED <<entry, kind, src, got>>

Read(c) ==
    /\ c \notin acted /\ kind[c] = "read"
    /\ \E i \in Inode : \E s \in Part(val[i]) : got' = [got EXCEPT ![c] = s]
    /\ acted' = acted \cup {c}
    /\ UNCHANGED <<entry, val, kind, src>>

GiveUp(c) ==
    /\ c \notin acted
    /\ acted' = acted \cup {c}
    /\ UNCHANGED <<entry, val, kind, src, got>>

Remove ==
    /\ entry' = None
    /\ UNCHANGED <<val, kind, src, got, acted>>

ANext ==
    Remove \/ \E c \in Client : Create(c) \/ Write(c) \/ Read(c) \/ GiveUp(c)

ASpec == AInit /\ [][ANext]_avars
=============================================================================
