------------------------------ MODULE GlfsUtil ------------------------------
(***************************************************************************)
(* The helpers of glfs-util.c that every transfer is made of: the          *)
(* non-blocking whole-file lock and the two copy loops.  A copy loop is    *)
(* the step "copy"; it leaves for "report" with its ret in io.             *)
(***************************************************************************)
EXTENDS Volume

(* gluster_lock (fd, F_WRLCK, false): granted to the owner of the lock or  *)
(* when nobody owns it, refused otherwise.                                 *)
GrantableShared(c) == TRUE      \* mutant: a lock that excludes nobody
GrantableAlone(c) ==            \* mutant: refused while anybody has it open
    \A d \in Client \ {c} : proc[d].fd # proc[c].fd
Grantable(c) == lock[proc[c].fd] \in {None, c}

GlusterLockUnchecked(c, next) ==    \* mutant: the refusal goes unnoticed
    /\ proc[c].pc = "lock"
    /\ IF Grantable(c) THEN lock' = [lock EXCEPT ![proc[c].fd] = c]
                        ELSE UNCHANGED lock
    /\ proc' = [proc EXCEPT ![c].pc = next, ![c].ret = 0]
    /\ UNCHANGED <<dir, data>>

GlusterLock(c, next) ==
    /\ proc[c].pc = "lock"
    /\ \/ /\ Grantable(c)
          /\ lock' = [lock EXCEPT ![proc[c].fd] = c]
          /\ proc' = [proc EXCEPT ![c].pc = next, ![c].ret = 0]
       \/ /\ ~Grantable(c) \/ "lock" \in Fault
          /\ FailTo(c, "close")
          /\ UNCHANGED lock
    /\ UNCHANGED <<dir, data>>

(* glfs_ftruncate (fd, 0). *)
FtruncateToZeroSkipped(c, next) ==  \* mutant: the old data are overwritten
    /\ proc[c].pc = "truncate"
    /\ proc' = [proc EXCEPT ![c].pc = next, ![c].ret = 0]
    /\ UNCHANGED volume

FtruncateToZero(c, next) ==
    /\ proc[c].pc = "truncate"
    /\ \/ /\ data' = [data EXCEPT ![proc[c].fd] = << >>]
          /\ proc' = [proc EXCEPT ![c].pc = next, ![c].ret = 0]
       \/ /\ "ftruncate" \in Fault
          /\ FailTo(c, "close")
          /\ UNCHANGED data
    /\ UNCHANGED <<dir, lock>>

-----------------------------------------------------------------------------
(* gluster_write (src, fd): from the far end into the path. *)

(* read (src, buffer, BUFSIZE): end of file, an error, or some blocks. *)
GlusterWriteRead(c) ==
    LET p == proc[c]
        rest == Len(p.far.data) - p.pos
    IN  /\ p.pc = "copy" /\ p.buf = << >>
        /\ \/ rest = 0 /\ Goto(c, "report")
           \/ /\ "srcread" \in Fault
              /\ proc' = [proc EXCEPT ![c].pc = "report", ![c].io = -1]
           \/ \E n \in 1..Smaller(Chunk, rest) :
                proc' = [proc EXCEPT
                    ![c].buf = SubSeq(p.far.data, p.pos + 1, p.pos + n),
                    ![c].pos = p.pos + n]
        /\ UNCHANGED volume

GlusterWriteWriteAgain(c) ==    \* mutant: a short write is read and tried again
    LET p == proc[c]
    IN  /\ p.pc = "copy" /\ p.buf # << >>
        /\ \/ /\ "write" \in Fault
              /\ proc' = [proc EXCEPT ![c].pc = "report", ![c].io = -1]
              /\ UNCHANGED data
           \/ \E k \in 1..Len(p.buf) :
                /\ data' = [data EXCEPT ![p.fd] =
                                WriteAt(@, p.off, SubSeq(p.buf, 1, k))]
                /\ proc' = [proc EXCEPT
                      ![c].buf = << >>,
                      ![c].pos = IF k = Len(p.buf) THEN @ ELSE @ - Len(p.buf),
                      ![c].off = IF k = Len(p.buf) THEN @ + k ELSE @,
                      ![c].io = 1]
        /\ UNCHANGED <<dir, lock>>

(* glfs_write of what is left in the buffer: an error, or k blocks of it. *)
GlusterWriteWrite(c) ==
    LET p == proc[c]
    IN  /\ p.pc = "copy" /\ p.buf # << >>
        /\ \/ /\ "write" \in Fault
              /\ proc' = [proc EXCEPT ![c].pc = "report", ![c].io = -1]
              /\ UNCHANGED data
           \/ \E k \in 1..Len(p.buf) :
                /\ data' = [data EXCEPT ![p.fd] =
                                WriteAt(@, p.off, SubSeq(p.buf, 1, k))]
                /\ proc' = [proc EXCEPT
                                ![c].buf = SubSeq(p.buf, k + 1, Len(p.buf)),
                                ![c].off = p.off + k,
                                ![c].io = 1]
        /\ UNCHANGED <<dir, lock>>

-----------------------------------------------------------------------------
(* gluster_read (fd, dst): from the path into the far end. *)

(* glfs_read: a failed read leaves the loop with the ret of the last write, *)
(* exactly as the end of the file does.                                     *)
GlusterReadRead(c) ==
    LET p == proc[c]
        rest == Len(data[p.fd]) - p.off
    IN  /\ p.pc = "copy" /\ p.buf = << >>
        /\ \/ /\ rest <= 0 \/ "read" \in Fault
              /\ Goto(c, "report")
           \/ \E n \in 1..Smaller(Chunk, rest) :
                proc' = [proc EXCEPT
                    ![c].buf = SubSeq(data[p.fd], p.off + 1, p.off + n),
                    ![c].off = p.off + n]
        /\ UNCHANGED volume

(* write (dst, ...): a write shorter than what is left is an error. *)
GlusterReadWrite(c) ==
    LET p == proc[c]
    IN  /\ p.pc = "copy" /\ p.buf # << >>
        /\ \/ proc' = [proc EXCEPT
                ![c].far.data = WriteAt(@, p.pos, p.buf),
                ![c].pos = p.pos + Len(p.buf),
                ![c].buf = << >>,
                ![c].io = 1]
           \/ /\ "dstwrite" \in Fault
              /\ \E k \in 0..(Len(p.buf) - 1) :
                   proc' = [proc EXCEPT
                       ![c].far.data = WriteAt(@, p.pos, SubSeq(p.buf, 1, k)),
                       ![c].pc = "report",
                       ![c].io = -1]
        /\ UNCHANGED volume

-----------------------------------------------------------------------------
(* The tail of a helper: the descriptors are closed, and the locks go. *)
CloseLeaking(c, next) ==            \* mutant: the descriptor is not closed
    /\ proc[c].pc = "close"
    /\ Goto(c, next)
    /\ UNCHANGED volume

Close(c, next) ==
    /\ proc[c].pc = "close"
    /\ proc' = [proc EXCEPT ![c].pc = next, ![c].fd = None]
    /\ lock' = Released(c)
    /\ UNCHANGED <<dir, data>>
=============================================================================
