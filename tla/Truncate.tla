------------------------------ MODULE Truncate ------------------------------
(***************************************************************************)
(* gftruncate (trunc) and the truncate command of a connected shell        *)
(* (trunc_sh): the path gets NewSize blocks.                               *)
(***************************************************************************)
EXTENDS GlfsUtil

TruncOp == {"trunc", "trunc_sh"}

(* glfs_stat decides whether the file is created first. *)
TruncateStat(c) ==
    /\ proc[c].op \in TruncOp /\ proc[c].pc = "stat"
    /\ \/ /\ dir # None
          /\ proc' = [proc EXCEPT ![c].ret = 0,
                ![c].pc = IF proc[c].op = "trunc" THEN "open" ELSE "resize"]
       \/ (dir = None \/ "lstat" \in Fault) /\ FailTo(c, "creat")
    /\ UNCHANGED volume

(* The descriptor of glfs_creat is dropped; it never owns a lock. *)
TruncateCreat(c) ==
    /\ proc[c].op \in TruncOp /\ proc[c].pc = "creat"
    /\ \/ /\ dir' = Created(c)
          /\ Goto(c, IF proc[c].op = "trunc" THEN "open" ELSE "resize")
       \/ "creat" \in Fault /\ Goto(c, "done") /\ UNCHANGED dir
    /\ UNCHANGED <<data, lock>>

(* gluster_get: open, lock and close, which gives the lock back. *)
TruncateOpen(c) ==
    /\ proc[c].op = "trunc" /\ proc[c].pc = "open"
    /\ \/ CanOpen /\ Opened(c, dir, "lock")
       \/ (~CanOpen \/ "open" \in Fault) /\ FailTo(c, "done")
    /\ UNCHANGED volume

TruncateLock(c) == proc[c].op = "trunc" /\ GlusterLock(c, "close")

TruncateClose(c) ==
    /\ proc[c].op = "trunc"
    /\ \/ Close(c, IF proc[c].ret = -1 THEN "done" ELSE "resize")
       \/ /\ "close" \in Fault /\ proc[c].pc = "close"
          /\ proc' = [proc EXCEPT ![c].pc = "done", ![c].fd = None,
                                  ![c].ret = -1]
          /\ lock' = Released(c)
          /\ UNCHANGED <<dir, data>>

(* glfs_truncate works on the path, not on a descriptor. *)
TruncateResize(c) ==
    /\ proc[c].op \in TruncOp /\ proc[c].pc = "resize"
    /\ \/ /\ dir # None
          /\ data' = [data EXCEPT ![dir] = Resize(@, NewSize)]
          /\ proc' = [proc EXCEPT ![c].pc = "done", ![c].ret = 0]
       \/ /\ dir = None \/ "truncate" \in Fault
          /\ FailTo(c, "done")
          /\ UNCHANGED data
    /\ UNCHANGED <<dir, lock>>

TruncateNext(c) ==
    \/ TruncateStat(c) \/ TruncateCreat(c) \/ TruncateOpen(c) \/ TruncateLock(c)
    \/ TruncateClose(c) \/ TruncateResize(c)
=============================================================================
