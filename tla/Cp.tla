--------------------------------- MODULE Cp ---------------------------------
(***************************************************************************)
(* gfcp: its three transfer functions.  gfmv has verbatim copies of the    *)
(* first two, so the set of utilities that run a function (ops) and the    *)
(* step its caller takes after it (exit) are parameters.  The destination  *)
(* is taken to be a file, so complete_path returns it unchanged.           *)
(***************************************************************************)
EXTENDS GlfsUtil

Runs(c, ops, l) == proc[c].op \in ops /\ proc[c].pc = l

(* local_to_remote: the local source is opened first. *)
LocalToRemoteOpen(c, ops, exit) ==
    /\ Runs(c, ops, "local")
    /\ IF proc[c].far.exists THEN Goto(c, "creat") ELSE FailTo(c, exit)
    /\ UNCHANGED volume

LocalToRemoteCreatTruncating(c, ops, exit) ==   \* mutant: O_TRUNC, unlocked
    /\ Runs(c, ops, "creat")
    /\ dir' = Created(c) /\ Opened(c, Created(c), "lock")
    /\ data' = [data EXCEPT ![Created(c)] = << >>]
    /\ UNCHANGED lock

LocalToRemoteCreat(c, ops, exit) ==
    /\ Runs(c, ops, "creat")
    /\ \/ dir' = Created(c) /\ Opened(c, Created(c), "lock")
       \/ "creat" \in Fault /\ FailTo(c, exit) /\ UNCHANGED dir
    /\ UNCHANGED <<data, lock>>

(* As in gfput, only a gluster_write that returned 0 is a failure. *)
LocalToRemoteReport(c, ops) ==
    /\ Runs(c, ops, "report")
    /\ IF proc[c].io = 0 THEN FailTo(c, "close") ELSE Goto(c, "close")
    /\ UNCHANGED volume

LocalToRemote(c, ops, exit) ==
    \/ LocalToRemoteOpen(c, ops, exit)
    \/ LocalToRemoteCreat(c, ops, exit)
    \/ proc[c].op \in ops /\ GlusterLock(c, "truncate")
    \/ proc[c].op \in ops /\ FtruncateToZero(c, "copy")
    \/ proc[c].op \in ops /\ (GlusterWriteRead(c) \/ GlusterWriteWrite(c))
    \/ LocalToRemoteReport(c, ops)
    \/ proc[c].op \in ops /\ Close(c, exit)

-----------------------------------------------------------------------------
(* remote_to_local: ret is first the result of stat (local_path). *)
RemoteToLocalStat(c, ops) ==
    /\ Runs(c, ops, "stat")
    /\ proc' = [proc EXCEPT ![c].pc = "open",
                            ![c].ret = IF proc[c].far.exists THEN 0 ELSE -1]
    /\ UNCHANGED volume

(* Neither open sets ret when it fails. *)
RemoteToLocalOpen(c, ops, exit) ==
    /\ Runs(c, ops, "open")
    /\ \/ CanOpen /\ Opened(c, dir, "local")
       \/ (~CanOpen \/ "open" \in Fault) /\ Goto(c, exit)
    /\ UNCHANGED volume

(* open (full_path, O_CREAT | O_WRONLY): what is there already stays. *)
RemoteToLocalCreat(c, ops) ==
    /\ Runs(c, ops, "local")
    /\ \/ proc' = [proc EXCEPT ![c].pc = "lock", ![c].far.exists = TRUE]
       \/ "local" \in Fault /\ Goto(c, "close")
    /\ UNCHANGED volume

RemoteToLocalReport(c, ops) ==
    /\ Runs(c, ops, "report")
    /\ proc' = [proc EXCEPT ![c].pc = "close", ![c].ret = proc[c].io]
    /\ UNCHANGED volume

RemoteToLocal(c, ops, exit) ==
    \/ RemoteToLocalStat(c, ops)
    \/ RemoteToLocalOpen(c, ops, exit)
    \/ RemoteToLocalCreat(c, ops)
    \/ proc[c].op \in ops /\ GlusterLock(c, "copy")
    \/ proc[c].op \in ops /\ (GlusterReadRead(c) \/ GlusterReadWrite(c))
    \/ RemoteToLocalReport(c, ops)
    \/ proc[c].op \in ops /\ Close(c, exit)

-----------------------------------------------------------------------------
(* remote_to_remote: no lock, no truncation.  rr_in writes the path from   *)
(* another remote file, rr_out copies the path to one.                     *)
RemoteToRemoteLstat(c) ==
    /\ Runs(c, {"rr_in", "rr_out"}, "lstat")
    /\ LET found == IF proc[c].op = "rr_in" THEN dir # None
                                            ELSE proc[c].far.exists
       IN  proc' = [proc EXCEPT ![c].pc = "open",
                                ![c].ret = IF found THEN 0 ELSE -1]
    /\ UNCHANGED volume

(* A source that cannot be opened leaves ret as glfs_lstat set it. *)
RemoteToRemoteOpen(c) ==
    /\ Runs(c, {"rr_in", "rr_out"}, "open")
    /\ LET there == IF proc[c].op = "rr_in" THEN proc[c].far.exists ELSE CanOpen
       IN  \/ /\ there
              /\ IF proc[c].op = "rr_in" THEN Goto(c, "creat")
                                         ELSE Opened(c, dir, "creat")
           \/ (~there \/ "open" \in Fault) /\ Goto(c, "done")
    /\ UNCHANGED volume

(* glfs_creat (O_CREAT | O_WRONLY) of the destination. *)
RemoteToRemoteCreat(c) ==
    /\ Runs(c, {"rr_in", "rr_out"}, "creat")
    /\ \/ /\ proc[c].op = "rr_in"
          /\ dir' = Created(c)
          /\ Opened(c, Created(c), "copy")
       \/ /\ proc[c].op = "rr_out"
          /\ proc' = [proc EXCEPT ![c].pc = "copy", ![c].far.exists = TRUE]
          /\ UNCHANGED dir
       \/ "creat" \in Fault /\ Goto(c, "close") /\ UNCHANGED dir
    /\ UNCHANGED <<data, lock>>

(* glfs_read: a buffer of blocks, an error, or the end with ret unchanged. *)
RemoteToRemoteRead(c) ==
    /\ Runs(c, {"rr_in", "rr_out"}, "copy") /\ proc[c].buf = << >>
    /\ LET p == proc[c]
           src == IF p.op = "rr_in" THEN p.far.data ELSE data[p.fd]
           at == IF p.op = "rr_in" THEN p.pos ELSE p.off
       IN  \/ at >= Len(src) /\ Goto(c, "close")
           \/ "read" \in Fault /\ FailTo(c, "close")
           \/ \E n \in 1..Smaller(Chunk, Len(src) - at) :
                LET q == [p EXCEPT !.buf = SubSeq(src, at + 1, at + n)]
                IN  proc' = [proc EXCEPT ![c] =
                        IF p.op = "rr_in" THEN [q EXCEPT !.pos = at + n]
                                          ELSE [q EXCEPT !.off = at + n]]
    /\ UNCHANGED volume

(* glfs_write of what is left in the buffer. *)
RemoteToRemoteWrite(c) ==
    /\ Runs(c, {"rr_in", "rr_out"}, "copy") /\ proc[c].buf # << >>
    /\ LET p == proc[c]
       IN  \/ "write" \in Fault /\ FailTo(c, "close") /\ UNCHANGED data
           \/ \E k \in 1..Len(p.buf) :
                LET b == SubSeq(p.buf, 1, k)
                    q == [p EXCEPT !.buf = SubSeq(@, k + 1, Len(@)), !.ret = 1]
                IN  \/ /\ p.op = "rr_in"
                       /\ data' = [data EXCEPT ![p.fd] = WriteAt(@, p.off, b)]
                       /\ proc' = [proc EXCEPT ![c] =
                                       [q EXCEPT !.off = @ + k]]
                    \/ /\ p.op = "rr_out"
                       /\ proc' = [proc EXCEPT ![c] =
                              [q EXCEPT !.far.data = WriteAt(@, p.pos, b),
                                        !.pos = @ + k]]
                       /\ UNCHANGED data
    /\ UNCHANGED <<dir, lock>>

RemoteToRemote(c) ==
    \/ RemoteToRemoteLstat(c) \/ RemoteToRemoteOpen(c) \/ RemoteToRemoteCreat(c)
    \/ RemoteToRemoteRead(c) \/ RemoteToRemoteWrite(c)
    \/ proc[c].op \in {"rr_in", "rr_out"} /\ Close(c, "done")

-----------------------------------------------------------------------------
CpNext(c) ==
    \/ LocalToRemote(c, {"cp_in"}, "done")
    \/ RemoteToLocal(c, {"cp_out"}, "done")
    \/ RemoteToRemote(c)
=============================================================================
