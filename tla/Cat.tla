-------------------------------- MODULE Cat --------------------------------
(***************************************************************************)
(* gfcat: the path to standard output (far).                               *)
(***************************************************************************)
EXTENDS GlfsUtil

CatOpen(c) ==
    /\ proc[c].op = "cat" /\ proc[c].pc = "open"
    /\ \/ CanOpen /\ Opened(c, dir, "lock")
       \/ (~CanOpen \/ "open" \in Fault) /\ FailTo(c, "done")
    /\ UNCHANGED volume

CatLockSkipped(c) ==        \* mutant: the file is read without its lock
    /\ proc[c].op = "cat" /\ proc[c].pc = "lock"
    /\ proc' = [proc EXCEPT ![c].pc = "copy", ![c].ret = 0]
    /\ UNCHANGED volume

CatLock(c) == proc[c].op = "cat" /\ GlusterLock(c, "copy")

CatCopy(c) == proc[c].op = "cat" /\ (GlusterReadRead(c) \/ GlusterReadWrite(c))

(* Everything but a failed write to standard output is a success. *)
CatReport(c) ==
    /\ proc[c].op = "cat" /\ proc[c].pc = "report"
    /\ proc' = [proc EXCEPT ![c].pc = "close",
                            ![c].ret = IF proc[c].io = -1 THEN -1 ELSE 0]
    /\ UNCHANGED volume

(* A glfs_close that fails turns the result into a failure. *)
CatClose(c) ==
    /\ proc[c].op = "cat" /\ proc[c].pc = "close"
    /\ \E r \in {proc[c].ret} \cup {x \in {-1} : "close" \in Fault} :
         proc' = [proc EXCEPT ![c].pc = "done", ![c].fd = None, ![c].ret = r]
    /\ lock' = Released(c)
    /\ UNCHANGED <<dir, data>>

CatNext(c) ==
    CatOpen(c) \/ CatLock(c) \/ CatCopy(c) \/ CatReport(c) \/ CatClose(c)
=============================================================================
