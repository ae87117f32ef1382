-------------------------------- MODULE Put --------------------------------
(***************************************************************************)
(* gfput: standard input (far) to the path.                                *)
(***************************************************************************)
EXTENDS GlfsUtil

PutOp == {"put", "put_f", "put_a"}

PutLstatUnguarded(c) ==     \* mutant: an existing file is no error
    /\ proc[c].op \in PutOp /\ proc[c].pc = "lstat"
    /\ Goto(c, "creat")
    /\ UNCHANGED volume

(* gluster_put: without -a or -f an existing file is an error.  A failing  *)
(* glfs_lstat counts as "no such file", whatever made it fail.             *)
PutLstat(c) ==
    /\ proc[c].op \in PutOp /\ proc[c].pc = "lstat"
    /\ \/ dir # None /\ proc[c].op = "put" /\ FailTo(c, "done")
       \/ /\ dir = None \/ proc[c].op # "put" \/ "lstat" \in Fault
          /\ Goto(c, "creat")
    /\ UNCHANGED volume

PutCreatTruncating(c) ==    \* mutant: O_TRUNC, before the lock
    /\ proc[c].op \in PutOp /\ proc[c].pc = "creat"
    /\ dir' = Created(c) /\ Opened(c, Created(c), "lock")
    /\ data' = [data EXCEPT ![Created(c)] = << >>]
    /\ UNCHANGED lock

PutCreat(c) ==
    /\ proc[c].op \in PutOp /\ proc[c].pc = "creat"
    /\ \/ dir' = Created(c) /\ Opened(c, Created(c), "lock")
       \/ "creat" \in Fault /\ FailTo(c, "done") /\ UNCHANGED dir
    /\ UNCHANGED <<data, lock>>

PutLock(c) ==
    /\ proc[c].op \in PutOp
    /\ GlusterLock(c, IF proc[c].op = "put_a" THEN "seek" ELSE "truncate")

PutSeekShort(c) ==          \* mutant: one before the end
    /\ proc[c].op = "put_a" /\ proc[c].pc = "seek"
    /\ proc' = [proc EXCEPT ![c].pc = "copy", ![c].ret = 0,
                            ![c].off = Len(data[proc[c].fd]) - 1]
    /\ UNCHANGED volume

(* -a: glfs_lseek (fd, 0, SEEK_END), whose off_t is kept in an int: a file *)
(* whose length becomes -1 there is one of the failures "seek" stands for. *)
PutSeek(c) ==
    /\ proc[c].op = "put_a" /\ proc[c].pc = "seek"
    /\ \/ proc' = [proc EXCEPT ![c].pc = "copy", ![c].ret = 0,
                               ![c].off = Len(data[proc[c].fd])]
       \/ "seek" \in Fault /\ FailTo(c, "close")
    /\ UNCHANGED volume

PutTruncate(c) == proc[c].op \in {"put", "put_f"} /\ FtruncateToZero(c, "copy")

PutCopy(c) ==
    /\ proc[c].op \in PutOp
    /\ GlusterWriteRead(c) \/ GlusterWriteWrite(c)

PutReportInverted(c) ==     \* mutant: the comparison is the wrong way round
    /\ proc[c].op \in PutOp /\ proc[c].pc = "report"
    /\ IF proc[c].io # 0 THEN FailTo(c, "close") ELSE Goto(c, "close")
    /\ UNCHANGED volume

(* Only a gluster_write that returned 0 is a failure: -1 is not. *)
PutReport(c) ==
    /\ proc[c].op \in PutOp /\ proc[c].pc = "report"
    /\ IF proc[c].io = 0 THEN FailTo(c, "close") ELSE Goto(c, "close")
    /\ UNCHANGED volume

PutClose(c) == proc[c].op \in PutOp /\ Close(c, "done")

PutNext(c) ==
    \/ PutLstat(c) \/ PutCreat(c) \/ PutLock(c) \/ PutSeek(c) \/ PutTruncate(c)
    \/ PutCopy(c) \/ PutReport(c) \/ PutClose(c)
=============================================================================
