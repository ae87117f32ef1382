------------------------- MODULE TransfersTheorems -------------------------
(***************************************************************************)
(* That the transfers are atomic to each other, and what follows from it,  *)
(* for any set of locking utilities, any lengths and any calls that fail.  *)
(***************************************************************************)
EXTENDS TransfersProofs

(* What a file holds after a step was in it before, or comes from the      *)
(* source of the writer that took the step, which then has written.        *)
LEMMA BlocksFrom ==
    ASSUME NEW c \in Client, Known(c), StableStep, TransferStep(c),
           NEW i \in Inode, NEW k \in 1..Len(data'[i])
    PROVE  \/ \E j \in 1..Len(data[i]) : data'[i][k] = data[i][j]
           \/ /\ proc[c].op \in WriteOp /\ proc'[c].io = 1
              /\ proc'[c].pc = "copy"
              /\ \E j \in 1..Len(proc[c].far.data) :
                    data'[i][k] = proc[c].far.data[j]
<1> DEFINE p == proc[c]
<1>1. VolumeOK /\ LocalInvariant
  BY DEF Known, LocalInvariant
<1>2. CASE data'[i] = data[i]
  BY <1>2
<1>3. CASE WriterPuts(c)
  <2>1. PICK b \in Seq(Block) :
          /\ data' = [data EXCEPT ![p.fd] = data[p.fd] \o b]
          /\ \A j \in 1..Len(b) : \E m \in 1..Len(p.far.data) : b[j] = p.far.data[m]
    BY <1>3, WriterPutsProgress
  <2>2. CASE i # p.fd
    BY <1>1, <1>2, <2>1, <2>2 DEF VolumeOK
  <2>3. CASE i = p.fd
    <3> DEFINE s == data[i]
    <3>1. s \in Seq(Block) /\ data'[i] = s \o b
      BY <1>1, <2>1, <2>3 DEF VolumeOK
    <3>2. /\ Len(s) \in Nat /\ Len(b) \in Nat /\ Len(data'[i]) = Len(s) + Len(b)
          /\ data'[i][k] = IF k <= Len(s) THEN s[k] ELSE b[k - Len(s)]
      <4> HIDE DEF s
      <4> QED BY <3>1, ConcatProperties, LenProperties
    <3>3. CASE k <= Len(s)
      <4> HIDE DEF s
      <4>1. k \in 1..Len(s) /\ data'[i][k] = s[k]
        BY <3>2, <3>3
      <4> QED BY <4>1 DEF s
    <3>4. CASE ~(k <= Len(s))
      <4> HIDE DEF s
      <4>1. k - Len(s) \in 1..Len(b) /\ data'[i][k] = b[k - Len(s)]
        BY <3>2, <3>4
      <4> QED BY <1>3, <2>1, <4>1 DEF WriterPuts
    <3> QED BY <3>3, <3>4
  <2> QED BY <2>2, <2>3
<1>4. CASE Starts(c)
  <2>1. data'[i] = << >> \/ data'[i] = data[i]
    BY <1>1, <1>4 DEF Starts, VolumeOK
  <2>2. data'[i] # << >>
    BY NoBlocks
  <2> QED BY <1>2, <2>1, <2>2
<1>5. CASE ~WriterPuts(c) /\ ~Starts(c)
  <2>1. data' = data
    BY <1>5
    DEF TransferStep, Prepare, Abandon, NoDestination, Locks, Fails, WriterEnds,
        WriterFills, WriterReports, ReaderEnds, ReaderFills, ReaderPuts,
        ReaderReports, Finish, RemoveSource, Dies, volume
  <2> QED BY <1>2, <2>1
<1> QED BY <1>3, <1>4, <1>5

(* The source of a writer is never written, by it or by another. *)
LEMMA SourceKept ==
    ASSUME LocalInvariant, NEW c \in Client, TransferStep(c), proc[c].op \in WriteOp
    PROVE  proc'[c].far.data = proc[c].far.data
BY DEF TransferStep, Prepare, Abandon, NoDestination, Locks, Fails, Starts,
       WriterEnds, WriterFills, WriterPuts, WriterReports, ReaderEnds, ReaderFills,
       ReaderPuts, ReaderReports, Finish, RemoveSource, Dies, Holds, WriteOp, ReadOp

(* A step that ends in a failure before the copy loop, or of it, comes     *)
(* from one that was as far.                                               *)
LEMMA TraceBefore ==
    ASSUME NEW c \in Client, Known(c), TransferStep(c), Traced(c),
           proc[c].op \in WriteOp,
           LET q == proc'[c] IN
           \/ q.pc \in Before
           \/ q.pc \in {"copy", "report"} /\ q.io = 0
           \/ q.pc \in {"close", "rm"} /\ q.ret = -1
           \/ q.pc = "done" /\ q.ret = -1 /\ q.op # "mv_in"
    PROVE  Traceless(c)
<1> DEFINE p == proc[c]
           q == proc'[c]
<1>1. p.pc \in Before => Traceless(c)
  BY DEF Traced
<1>2. CASE Prepare(c) \/ Abandon(c) \/ NoDestination(c) \/ Locks(c) \/ Fails(c)
           \/ Starts(c)
  BY <1>1, <1>2
  DEF Prepare, Abandon, NoDestination, Locks, Fails, Starts, Before
<1>3. CASE WriterEnds(c) \/ WriterFills(c)
  <2>1. /\ p.pc = "copy" /\ q.pc \in {"copy", "report"}
        /\ q.io = p.io \/ q.io = -1
    BY <1>3 DEF WriterEnds, WriterFills, Loops
  <2> QED BY <2>1 DEF Traced, Before
<1>4. CASE WriterPuts(c)
  BY <1>4 DEF WriterPuts, Loops, Before
<1>5. CASE WriterReports(c)
  <2>1. p.ret = 0 /\ p.pc = "report" /\ q.pc = "close" /\ (q.ret = -1 => p.io = 0)
    BY <1>5 DEF WriterReports, Known, Progress
  <2> QED BY <2>1 DEF Traced, Before
<1>6. CASE Finish(c)
  <2>1. p.pc = "close" /\ q.pc \in {"rm", "done"} /\ q.ret = p.ret
    BY <1>6 DEF Finish
  <2> QED BY <2>1 DEF Traced, Before
<1>7. CASE RemoveSource(c)
  BY <1>7 DEF RemoveSource, Holds, WriteOp, Before
<1>8. CASE Dies(c)
  BY <1>8 DEF Dies, Before
<1>9. CASE ReaderEnds(c) \/ ReaderFills(c) \/ ReaderPuts(c) \/ ReaderReports(c)
  BY <1>9 DEF ReaderEnds, ReaderFills, ReaderPuts, ReaderReports, WriteOp, ReadOp
<1> QED BY <1>2, <1>3, <1>4, <1>5, <1>6, <1>7, <1>8, <1>9 DEF TransferStep

(* The blocks keep telling who wrote them. *)
LEMMA TracesKept ==
    ASSUME NEW c \in Client, Known(c), StableStep, TransferStep(c),
           NoHoles, \A d \in Client : Traced(d)
    PROVE  NoHoles' /\ \A d \in Client : Traced(d)'
<1>1. StepOf(c) /\ proc'[c].op = proc[c].op /\ LocalInvariant
  BY Footprint DEF Known
<1>2. ASSUME NEW j \in 1..Len(proc[c].far.data), proc[c].op \in WriteOp
      PROVE  proc[c].far.data[j] = <<c, j>>
  BY <1>2 DEF Traced
<1>3. c # Orig
  BY VolumeAssumption
<1>4. NoHoles'
  <2> SUFFICES ASSUME NEW i \in Inode, NEW k \in 1..Len(data'[i])
               PROVE  data'[i][k] # Hole
    BY DEF NoHoles
  <2>1. CASE \E j \in 1..Len(data[i]) : data'[i][k] = data[i][j]
    BY <2>1 DEF NoHoles
  <2>2. CASE /\ proc[c].op \in WriteOp
             /\ \E j \in 1..Len(proc[c].far.data) :
                   data'[i][k] = proc[c].far.data[j]
    BY <1>2, <1>3, <2>2 DEF Hole
  <2> QED BY <2>1, <2>2, BlocksFrom
<1>5. ASSUME NEW d \in Client, Traceless(d),
             d = c => proc'[c].io # 1 \/ proc'[c].pc # "copy"
      PROVE  Traceless(d)'
  <2> SUFFICES ASSUME NEW i \in Inode, NEW k \in 1..Len(data'[i])
               PROVE  data'[i][k][1] # d
    BY DEF Traceless
  <2>1. CASE \E j \in 1..Len(data[i]) : data'[i][k] = data[i][j]
    BY <1>5, <2>1 DEF Traceless
  <2>2. CASE /\ proc[c].op \in WriteOp /\ proc'[c].io = 1 /\ proc'[c].pc = "copy"
             /\ \E j \in 1..Len(proc[c].far.data) :
                   data'[i][k] = proc[c].far.data[j]
    <3>1. PICK j \in 1..Len(proc[c].far.data) : data'[i][k] = <<c, j>>
      BY <1>2, <2>2
    <3> QED BY <1>5, <2>2, <3>1
  <2> QED BY <2>1, <2>2, BlocksFrom
<1>6. ASSUME NEW d \in Client, d # c PROVE Traced(d)'
  <2>1. proc'[d] = proc[d]
    BY <1>1, <1>6 DEF StepOf, LocalInvariant
  <2> QED BY <1>5, <1>6, <2>1 DEF Traced
<1>7. Traced(c)'
  <2> SUFFICES ASSUME proc[c].op \in WriteOp PROVE Traced(c)'
    BY <1>1 DEF Traced
  <2>1. \A k \in 1..Len(proc'[c].far.data) : proc'[c].far.data[k] = <<c, k>>
    BY <1>1, <1>2, SourceKept
  <2> DEFINE q == proc'[c]
             Out == \/ q.pc \in Before
                    \/ q.pc \in {"copy", "report"} /\ q.io = 0
                    \/ q.pc \in {"close", "rm"} /\ q.ret = -1
                    \/ q.pc = "done" /\ q.ret = -1 /\ q.op # "mv_in"
  <2>2. ASSUME Out PROVE Traceless(c)'
    <3>1. Traceless(c)
      BY <2>2, TraceBefore
    <3>2. q.io # 1 \/ q.pc # "copy"
      BY <2>2 DEF Before
    <3> QED BY <1>5, <3>1, <3>2
  <2> QED BY <2>1, <2>2 DEF Traced
<1> QED BY <1>4, <1>6, <1>7

-----------------------------------------------------------------------------
(* The invariant holds at first, if no utility has to overwrite what its   *)
(* own destination already holds.                                          *)

(* No file, and an empty one, are no blocks. *)
LEMMA NoSource ==
    ASSUME NEW c \in Client
    PROVE  /\ Fresh(c, 0) = << >> /\ Fresh(c, -1) = << >> /\ Stale(c, -1) = << >>
<1>1. ASSUME NEW s \in Seq(Block), DOMAIN s = {} PROVE s = << >>
  <2>1. DOMAIN s = 1..Len(s) /\ Len(s) \in Nat
    BY LenProperties
  <2>2. Len(s) = 0
    BY <1>1, <2>1
  <2> QED BY <2>2, EmptySeq
<1>2. /\ Fresh(c, 0) \in Seq(Block) /\ Fresh(c, -1) \in Seq(Block)
      /\ Stale(c, -1) \in Seq(Block)
  BY FreshType, StaleType, ClientIsSome
<1>3. 1..0 = {} /\ 1..(-1) = {}
  OBVIOUS
<1>4. DOMAIN Fresh(c, 0) = {} /\ DOMAIN Fresh(c, -1) = {} /\ DOMAIN Stale(c, -1) = {}
  BY <1>3 DEF Fresh, Stale
<1> QED BY <1>1, <1>2, <1>4

(* The data of a file at first is that of the one who made it. *)
LEMMA FreshBlocks ==
    ASSUME NEW i, NEW n \in Int, Fresh(i, n) \in Seq(Block)
    PROVE  \A k \in 1..Len(Fresh(i, n)) : Fresh(i, n)[k] = <<i, k>> /\ k # 0
<1>1. DOMAIN Fresh(i, n) = 1..n /\ \A k \in 1..n : Fresh(i, n)[k] = <<i, k>>
  BY DEF Fresh
<1>2. DOMAIN Fresh(i, n) = 1..Len(Fresh(i, n))
  BY LenProperties
<1> QED BY <1>1, <1>2

(* A process at its first step has moved nothing. *)
LEMMA FirstSteps ==
    ASSUME NEW c \in Client, NEW o \in Locker, OldLen = {},
           NEW n \in FarLength(o), n \in Int
    PROVE  LET p == Start(c, o, n) IN
           /\ p.pc \in Before
           /\ o \in ReadOp /\ p.pc = "stat" => ~p.far.exists
           /\ p.pos = 0 /\ p.off = 0 /\ p.buf = << >> /\ p.io = 0 /\ p.ret = -1
           /\ p.op = o
           /\ ~p.far.exists => p.far.data = << >>
           /\ o \in ReadOp => p.far.data = << >>
           /\ o \in WriteOp => p.far.data = Fresh(c, n)
<1>1. FirstStep(o) \in Before /\ (FirstStep(o) = "stat" => o \in {"cp_out", "mv_out"})
  BY DEF FirstStep, Before, Locker, WriteOp, ReadOp
<1>2. /\ o \in {"cp_out", "mv_out"} => n = -1
      /\ o = "cat" => n = 0
  BY DEF FarLength
<1>3. /\ FarAtStart(c, o, n).exists = (n # -1)
      /\ o \in {"cp_out", "mv_out"} => FarAtStart(c, o, n).data = << >>
      /\ o \notin {"cp_out", "mv_out", "rr_out"} => FarAtStart(c, o, n).data = Fresh(c, n)
  BY <1>2, NoSource DEF FarAtStart
<1>4. n = -1 \/ o \in ReadOp => FarAtStart(c, o, n).data = << >>
  BY <1>2, <1>3, NoSource DEF Locker, WriteOp, ReadOp
<1>5. LET p == Start(c, o, n) IN
      /\ p.pc = FirstStep(o) /\ p.far = FarAtStart(c, o, n) /\ p.op = o
      /\ p.pos = 0 /\ p.off = 0 /\ p.buf = << >> /\ p.io = 0 /\ p.ret = -1
  BY DEF Start
<1> QED BY <1>1, <1>2, <1>3, <1>4, <1>5 DEF WriteOp, ReadOp

(* Everything that is used of the reachable states. *)
IInv == LocalInvariant /\ StableType /\ DataInvariant

(* Nobody has a lock and nothing is written. *)
LEMMA InitKnown ==
    ASSUME Job \subseteq Locker, OldLen = {}, HInit
    PROVE  IInv
<1>1. LocalInvariant
  BY InitKeeps, SameInvariant DEF HInit
<1>2. StableType /\ stable = data /\ Init
  BY <1>1 DEF HInit, StableType, LocalInvariant, VolumeOK
<1>3. PICK m \in SourceLen :
        data = [i \in Inode |->
                   IF i = Orig /\ dir = Orig THEN Fresh(Orig, m) ELSE << >>]
  BY <1>2 DEF Init
<1>4. m \in Int /\ Fresh(Orig, m) \in Seq(Block)
  BY FreshType, VolumeAssumption DEF Inode
<1>5. ASSUME NEW i \in Inode, NEW k \in 1..Len(data[i])
      PROVE  data[i][k] = <<Orig, k>> /\ k # 0
  <2>1. data[i] = Fresh(Orig, m) \/ data[i] = << >>
    BY <1>3
  <2> QED BY <1>4, <1>5, <2>1, FreshBlocks, NoBlocks
<1>6. NoHoles
  BY <1>5 DEF NoHoles, Hole
<1>7. \A c \in Client : Traceless(c)
  BY <1>5, VolumeAssumption DEF Traceless
<1>8. PICK job \in [Client -> Job],
           n \in [Client -> SourceLen \cup OldLen \cup {-1, 0}] :
        /\ \A c \in Client : n[c] \in FarLength(job[c])
        /\ proc = [c \in Client |-> Start(c, job[c], n[c])]
  BY <1>2 DEF Init
<1>9. ASSUME NEW c \in Client PROVE Progress(c) /\ Traced(c)
  <2> DEFINE p == proc[c]
             o == job[c]
  <2>1. o \in Locker /\ o \in Job /\ n[c] \in FarLength(o) /\ p = Start(c, o, n[c])
    BY <1>8
  <2>2. n[c] \in Int
    <3>1. SourceLen \cup OldLen \cup {-1, 0} \subseteq Int
      BY VolumeAssumption
    <3> QED BY <3>1
  <2> HIDE DEF p, o
  <2>3. /\ p.pc \in Before
        /\ o \in ReadOp /\ p.pc = "stat" => ~p.far.exists
        /\ p.pos = 0 /\ p.off = 0 /\ p.buf = << >> /\ p.io = 0 /\ p.ret = -1
        /\ p.op = o
        /\ ~p.far.exists => p.far.data = << >>
        /\ o \in ReadOp => p.far.data = << >>
        /\ o \in WriteOp => p.far.data = Fresh(c, n[c])
    BY <2>1, <2>2, FirstSteps
  <2>4. Untouched(c)
    BY <1>2, <2>3 DEF Untouched, p
  <2>5. Progress(c)
    BY <2>1, <2>3, <2>4 DEF Progress, Before, p
  <2>6. o \in WriteOp => \A k \in 1..Len(p.far.data) : p.far.data[k] = <<c, k>>
    BY <2>2, <2>3, FreshBlocks, FreshType, ClientIsSome
  <2> QED BY <1>7, <2>3, <2>5, <2>6 DEF Traced, p
<1> QED BY <1>1, <1>2, <1>6, <1>9 DEF IInv, DataInvariant

(* A step in which nothing happens. *)
LEMMA QuietKnown ==
    ASSUME IInv, UNCHANGED hvars
    PROVE  IInv'
<1>1. dir' = dir /\ data' = data /\ lock' = lock /\ proc' = proc /\ stable' = stable
  BY DEF hvars, vars
<1>2. LocalInvariant' /\ StableType'
  BY <1>1 DEF IInv, LocalInvariant, VolumeOK, Sound, StableType
<1>3. NoHoles'
  BY <1>1 DEF IInv, DataInvariant, NoHoles
<1>4. ASSUME NEW c \in Client PROVE Progress(c)' /\ Traced(c)'
  <2>1. Progress(c) /\ Traced(c)
    BY DEF IInv, DataInvariant
  <2>2. /\ Untouched(c)' <=> Untouched(c)
        /\ Writing(c)' <=> Writing(c)
        /\ Reading(c)' <=> Reading(c)
        /\ Owns(c)' <=> Owns(c)
        /\ Traceless(c)' <=> Traceless(c)
    BY <1>1 DEF Untouched, Writing, Reading, Owns, Traceless, Base, Written
  <2>3. Stored(c)' <=> Stored(c)
    BY <1>1 DEF Stored, Base
  <2>4. \A r : Fetched(c, r)' <=> Fetched(c, r)
    BY <1>1 DEF Fetched
  <2>5. Traced(c)'
    BY <1>1, <2>1, <2>2 DEF Traced
  <2>6. Progress(c)'
    BY <1>1, <2>1, <2>2, <2>3, <2>4 DEF Progress
  <2> QED BY <2>5, <2>6
<1>5. \A i \in Inode : lock'[i] = None => data'[i] = stable'[i]
  BY <1>1 DEF IInv, DataInvariant
<1> QED BY <1>2, <1>3, <1>4, <1>5 DEF IInv, DataInvariant

(* Every step of every transfer, and a signal at any moment, keeps it. *)
LEMMA StepKnown ==
    ASSUME Job \subseteq Locker, IInv, [HNext]_hvars
    PROVE  IInv'
<1>1. CASE UNCHANGED hvars
  BY <1>1, QuietKnown
<1>2. CASE HNext /\ AllEnded
  <2>1. stable' = stable
    BY <1>2 DEF IInv, HNext, AllEnded, vars, DataInvariant, StableType
  <2>2. UNCHANGED hvars
    BY <1>2, <2>1 DEF AllEnded, hvars
  <2> QED BY <2>2, QuietKnown
<1>3. ASSUME NEW c \in Client, HNext, UtilityStep(c) \/ Kill(c) PROVE IInv'
  <2>1. /\ LocalInvariant /\ StableType /\ StableStep /\ NoHoles
        /\ \A i \in Inode : lock[i] = None => data[i] = stable[i]
        /\ \A d \in Client : Progress(d) /\ Traced(d)
    BY <1>3 DEF IInv, DataInvariant, StableStep, HNext
  <2>2. \A d \in Client : proc[d].op \in Locker
    BY <2>1 DEF Progress
  <2>3. Known(c)
    BY <2>1, <2>2 DEF Known
  <2>4. TransferStep(c)
    BY <1>3, <2>1, <2>2, Steps
  <2>5. LocalInvariant'
    <3>1. Next
      BY <1>3 DEF HNext
    <3>2. LockInvariant' => LocalInvariant'
      BY SameInvariant, PTL
    <3> QED BY <2>1, <3>1, <3>2, NextKeeps, SameInvariant
  <2>6. StableType' /\ \A i \in Inode : lock'[i] = None => data'[i] = stable'[i]
    BY <2>1, <2>5 DEF StableType, StableStep, LocalInvariant, VolumeOK
  <2>7. NoHoles' /\ \A d \in Client : Traced(d)'
    BY <2>1, <2>3, <2>4, TracesKept
  <2>8. ASSUME NEW d \in Client PROVE Progress(d)'
    BY <2>1, <2>2, <2>3, <2>4, <2>5, OwnProgress, OthersProgress
  <2> QED BY <2>5, <2>6, <2>7, <2>8 DEF IInv, DataInvariant
<1> QED BY <1>1, <1>2, <1>3 DEF HNext, Next

-----------------------------------------------------------------------------
(* What holds whenever utilities that lock the path run against each       *)
(* other.  The destinations gfcp and gfmv write locally do not exist at    *)
(* first: into one that does they write without emptying it.               *)

(* At every moment the content of a file is one that was committed, or the *)
(* committed one and what the owner of the lock has put there so far.      *)
THEOREM DataKnown ==
    ASSUME Job \subseteq Locker, OldLen = {}
    PROVE  HSpec => []DataInvariant
<1>1. HInit => IInv
  BY InitKnown
<1>2. IInv /\ [HNext]_hvars => IInv'
  BY StepKnown
<1>3. IInv => DataInvariant
  BY DEF IInv
<1> QED BY <1>1, <1>2, <1>3, PTL DEF HSpec

(* No utility leaves a hole in a file (NoHoles): gluster_write counts on   *)
(* the offset of its descriptor, and nobody truncates below it.            *)
THEOREM HolesNever ==
    ASSUME Job \subseteq Locker, OldLen = {}
    PROVE  HSpec => []NoHoles
<1>1. DataInvariant => NoHoles
  BY DEF DataInvariant
<1> QED BY <1>1, DataKnown, PTL

(* After its loop a writer that succeeds has put its whole source. *)
LEMMA StoredKnown ==
    ASSUME IInv, Fault \cap {"srcread", "write"} = {}
    PROVE  SuccessMeansStored
<1> SUFFICES ASSUME NEW c \in Client, proc[c].op \in WriteOp, proc[c].pc = "close",
                    proc[c].ret # -1
             PROVE  IF proc[c].op = "put_a"
                    THEN IsSuffix(proc[c].far.data, data[proc[c].fd])
                    ELSE data[proc[c].fd] = proc[c].far.data
  BY DEF SuccessMeansStored
<1> DEFINE p == proc[c]
           s == p.far.data
<1>1. Progress(c) /\ LocalInvariant /\ StableType
  BY DEF IInv, DataInvariant
<1>2. Owns(c) /\ Stored(c)
  BY <1>1 DEF Progress
<1>3. data[p.fd] = Base(c) \o SubSeq(s, 1, Len(s))
  BY <1>2 DEF Stored
<1>4. p.fd \in Inode /\ s \in Seq(Block) /\ stable[p.fd] \in Seq(Block)
  <2>1. p \in Process /\ Sound(c, p, lock)
    BY <1>1, Fields DEF LocalInvariant
  <2> QED BY <1>1, <1>2, <2>1 DEF Owns, Sound, Process, StableType
<1>5. SubSeq(s, 1, Len(s)) = s
  BY <1>4, SubSeqFull
<1>6. CASE p.op = "put_a"
  <2>1. data[p.fd] = stable[p.fd] \o s
    BY <1>3, <1>5, <1>6 DEF Base
  <2> QED BY <1>4, <1>6, <2>1, SuffixOfConcat
<1>7. CASE p.op # "put_a"
  <2>1. data[p.fd] = << >> \o s
    BY <1>3, <1>5, <1>7 DEF Base
  <2> QED BY <1>4, <1>7, <2>1, ConcatEmptySeq
<1> QED BY <1>6, <1>7

(* A writer whose source and whose writes do not fail, and that returns    *)
(* success, has stored its source (SuccessMeansStored).                    *)
THEOREM SuccessStores ==
    ASSUME Job \subseteq Locker, OldLen = {}, Fault \cap {"srcread", "write"} = {}
    PROVE  HSpec => []SuccessMeansStored
<1>1. HInit => IInv
  BY InitKnown
<1>2. IInv /\ [HNext]_hvars => IInv'
  BY StepKnown
<1> QED BY <1>1, <1>2, StoredKnown, PTL DEF HSpec

(* After its loop a reader that succeeds has the whole file. *)
LEMMA FetchedKnown ==
    ASSUME IInv, "read" \notin Fault
    PROVE  SuccessMeansFetched
<1> SUFFICES ASSUME NEW c \in Client, proc[c].op \in ReadOp, proc[c].pc = "close",
                    proc[c].ret # -1
             PROVE  proc[c].far.data = data[proc[c].fd]
  BY DEF SuccessMeansFetched
<1> DEFINE p == proc[c]
           d == data[p.fd]
<1>1. Progress(c) /\ LocalInvariant
  BY DEF IInv, DataInvariant
<1>2. Owns(c) /\ Fetched(c, p.ret)
  BY <1>1 DEF Progress
<1>3. p.far.data = SubSeq(d, 1, Len(d))
  BY <1>2 DEF Fetched
<1>4. d \in Seq(Block)
  <2>1. Sound(c, p, lock) /\ VolumeOK
    BY <1>1 DEF LocalInvariant
  <2> QED BY <1>2, <2>1 DEF Owns, Sound, VolumeOK
<1> QED BY <1>3, <1>4, SubSeqFull

(* A reader that is not interrupted by a failing glfs_read and returns     *)
(* success has given out the whole file (SuccessMeansFetched).             *)
THEOREM SuccessFetches ==
    ASSUME Job \subseteq Locker, OldLen = {}, "read" \notin Fault
    PROVE  HSpec => []SuccessMeansFetched
<1>1. HInit => IInv
  BY InitKnown
<1>2. IInv /\ [HNext]_hvars => IInv'
  BY StepKnown
<1> QED BY <1>1, <1>2, FetchedKnown, PTL DEF HSpec

(* A writer that returns a failure has written nothing at all              *)
(* (RefusedLeavesNoTrace).  gfmv is left out: it also returns one when it  *)
(* cannot remove what it has copied.                                       *)
THEOREM RefusalsAreTraceless ==
    ASSUME Job \subseteq Locker, OldLen = {}, "mv_in" \notin Job
    PROVE  HSpec => []RefusedLeavesNoTrace
<1>1. ASSUME IInv PROVE RefusedLeavesNoTrace
  <2> SUFFICES ASSUME NEW c \in Client, proc[c].op \in WriteOp,
                      proc[c].pc \in {"rm", "done"}, proc[c].ret = -1
               PROVE  Traceless(c)
    BY DEF RefusedLeavesNoTrace, Traceless
  <2>1. Traced(c) /\ proc[c].op \in Job
    BY <1>1 DEF IInv, DataInvariant, Progress
  <2> QED BY <2>1 DEF Traced
<1>2. HInit => IInv
  BY InitKnown
<1>3. IInv /\ [HNext]_hvars => IInv'
  BY StepKnown
<1> QED BY <1>1, <1>2, <1>3, PTL DEF HSpec

-----------------------------------------------------------------------------
(* What a step may do to the data. *)

(* What does not change has only grown. *)
LEMMA SamePrefix == ASSUME NEW s \in Seq(Block) PROVE IsPrefix(s, s)
<1>1. << >> \in Seq(Block) /\ s \o << >> = s
  BY NoBlocks, ConcatEmptySeq
<1> QED BY <1>1, PrefixOfConcat

(* Only a transfer that writes, that owns the lock and that is not yet at  *)
(* its end changes a file; if it appends the file only grows.              *)
LEMMA DataChange ==
    ASSUME NEW c \in Client, Known(c), StableStep, TransferStep(c), NEW i \in Inode
    PROVE  \/ data'[i] = data[i]
           \/ /\ lock[i] = c /\ proc[c].op \in WriteOp
              /\ proc[c].pc \in {"truncate", "seek", "copy"}
              /\ proc[c].op = "put_a" => IsPrefix(data[i], data'[i])
<1> DEFINE p == proc[c]
<1>1. VolumeOK /\ LocalInvariant
  BY DEF Known, LocalInvariant
<1>2. CASE lock[i] # c
  BY <1>1, <1>2, Footprint
<1>3. CASE lock[i] = c /\ WriterPuts(c)
  <2>1. p.op \in WriteOp /\ p.pc = "copy"
    BY <1>3 DEF WriterPuts, Loops
  <2>2. PICK b \in Seq(Block) : data' = [data EXCEPT ![p.fd] = data[p.fd] \o b]
    BY <1>3, WriterPutsProgress
  <2>3. data[i] \in Seq(Block)
    BY <1>1 DEF VolumeOK
  <2>4. data'[i] = data[i] \/ data'[i] = data[i] \o b
    BY <1>1, <2>2 DEF VolumeOK
  <2> QED BY <1>3, <2>1, <2>3, <2>4, PrefixOfConcat
<1>4. CASE lock[i] = c /\ Starts(c)
  <2>1. /\ p.op \in WriteOp /\ p.pc \in {"truncate", "seek"}
        /\ p.op = "put_a" => data' = data
    BY <1>4 DEF Starts
  <2> QED BY <1>4, <2>1
<1>5. CASE ~WriterPuts(c) /\ ~Starts(c)
  <2>1. data' = data
    BY <1>5
    DEF TransferStep, Prepare, Abandon, NoDestination, Locks, Fails, WriterEnds,
        WriterFills, WriterReports, ReaderEnds, ReaderFills, ReaderPuts,
        ReaderReports, Finish, RemoveSource, Dies, volume
  <2> QED BY <2>1
<1> QED BY <1>2, <1>3, <1>4, <1>5

(* What is known of a step, whoever takes it. *)
LEMMA SomeStep ==
    ASSUME Job \subseteq Locker, IInv, [HNext]_hvars
    PROVE  \/ UNCHANGED hvars
           \/ \E c \in Client :
                 /\ Known(c) /\ StableStep /\ TransferStep(c)
                 /\ UtilityStep(c) \/ Kill(c)
<1>1. /\ LocalInvariant /\ StableType
      /\ \A i \in Inode : lock[i] = None => data[i] = stable[i]
      /\ \A d \in Client : Progress(d)
  BY DEF IInv, DataInvariant
<1>2. \A d \in Client : proc[d].op \in Locker
  BY <1>1 DEF Progress
<1>3. CASE HNext /\ AllEnded
  <2>1. stable' = stable
    BY <1>1, <1>3 DEF HNext, AllEnded, vars, StableType
  <2> QED BY <1>3, <2>1 DEF AllEnded, hvars
<1>4. ASSUME NEW c \in Client, HNext, UtilityStep(c) \/ Kill(c)
      PROVE  Known(c) /\ StableStep /\ TransferStep(c)
  BY <1>1, <1>2, <1>4, Steps DEF Known, HNext, StableStep
<1> QED BY <1>3, <1>4 DEF HNext, Next

(* While gfput -a owns the lock the file only grows (AppendKeepsData): it  *)
(* truncates nothing, and nobody else does.                                *)
THEOREM AppendsOnlyExtend ==
    ASSUME Job \subseteq Locker, OldLen = {}
    PROVE  HSpec => AppendKeepsData
<1> DEFINE A == \A i \in Inode :
                   lock[i] # None =>
                      (proc[lock[i]].op = "put_a" => IsPrefix(data[i], data'[i]))
<1>1. ASSUME IInv, [HNext]_hvars PROVE A
  <2> SUFFICES ASSUME NEW i \in Inode, lock[i] # None, proc[lock[i]].op = "put_a"
               PROVE  IsPrefix(data[i], data'[i])
    OBVIOUS
  <2>1. data[i] \in Seq(Block)
    BY <1>1 DEF IInv, LocalInvariant, VolumeOK
  <2>2. CASE data'[i] = data[i]
    BY <2>1, <2>2, SamePrefix
  <2>3. CASE UNCHANGED hvars
    BY <2>2, <2>3 DEF hvars, vars
  <2>4. ASSUME NEW c \in Client, Known(c), StableStep, TransferStep(c)
        PROVE  IsPrefix(data[i], data'[i])
    BY <2>2, <2>4, DataChange
  <2> QED BY <1>1, <2>3, <2>4, SomeStep
<1>2. HInit => IInv
  BY InitKnown
<1>3. IInv /\ [HNext]_hvars => IInv'
  BY StepKnown
<1>4. IInv /\ [HNext]_hvars => [A]_hvars
  BY <1>1
<1> QED BY <1>2, <1>3, <1>4, PTL DEF HSpec, AppendKeepsData

(* Nobody adds to what a utility under its lock has to copy                *)
(* (NobodyAddsWork): a writer reads its own source, and a reader a file    *)
(* that only the owner of its lock changes.                                *)
THEOREM WorkIsFixed ==
    ASSUME Job \subseteq Locker, OldLen = {}
    PROVE  HSpec => NobodyAddsWork
<1> DEFINE A == \A c \in Client : InDataPhase(proc[c]) =>
                   \/ UtilityStep(c) \/ Kill(c)
                   \/ UNCHANGED <<proc[c], Available(proc[c])>>
<1>1. ASSUME IInv, [HNext]_hvars PROVE A \/ UNCHANGED vars
  <2> SUFFICES ASSUME NEW c \in Client, NEW d \in Client, InDataPhase(proc[c]),
                      Known(d), StableStep, TransferStep(d), UtilityStep(d) \/ Kill(d),
                      c # d
               PROVE  UNCHANGED <<proc[c], Available(proc[c])>>
    BY <1>1, SomeStep DEF hvars
  <2>1. Sound(c, proc[c], lock) /\ LocalInvariant
    BY <1>1 DEF IInv, LocalInvariant
  <2>2. proc[c].fd \in Inode /\ lock[proc[c].fd] = c
    BY <2>1 DEF Sound, InDataPhase, NeedsDescriptor
  <2>3. StepOf(d) /\ data'[proc[c].fd] = data[proc[c].fd]
    BY <2>1, <2>2, Footprint
  <2>4. proc'[c] = proc[c]
    BY <2>1, <2>3 DEF StepOf, LocalInvariant
  <2> QED BY <2>3, <2>4 DEF Available, FromFar
<1>2. HInit => IInv
  BY InitKnown
<1>3. IInv /\ [HNext]_hvars => IInv'
  BY StepKnown
<1>4. IInv /\ [HNext]_hvars => [A]_vars
  BY <1>1
<1> QED BY <1>2, <1>3, <1>4, PTL DEF HSpec, NobodyAddsWork

(* A plain gfput gets no further than its look at the path while the path  *)
(* names the file of the beginning, if that look does not fail.            *)
PutsStop ==
    dir = Orig => \A c \in Client : proc[c].op = "put" =>
                     proc[c].pc \in {"lstat", "rm", "done", "killed"}

(* At first no gfput has looked. *)
LEMMA PutsStopAtFirst == Init => PutsStop
<1> SUFFICES ASSUME Init, NEW c \in Client, proc[c].op = "put"
             PROVE  proc[c].pc = "lstat"
  BY DEF PutsStop
<1>1. PICK job \in [Client -> Job],
           n \in [Client -> SourceLen \cup OldLen \cup {-1, 0}] :
        proc = [d \in Client |-> Start(d, job[d], n[d])]
  BY DEF Init
<1>2. proc[c].op = job[c] /\ proc[c].pc = FirstStep(job[c])
  BY <1>1 DEF Start
<1> QED BY <1>2 DEF FirstStep

(* The path never names that file again once it names another or none. *)
LEMMA PutsStopStill ==
    ASSUME Job \subseteq Locker, "lstat" \notin Fault, IInv, PutsStop, [HNext]_hvars
    PROVE  PutsStop'
<1>1. CASE UNCHANGED hvars
  BY <1>1 DEF hvars, vars, PutsStop
<1>2. ASSUME NEW c \in Client, Known(c), TransferStep(c) PROVE PutsStop'
  <2> SUFFICES ASSUME dir' = Orig, NEW d \in Client, proc'[d].op = "put"
               PROVE  proc'[d].pc \in {"lstat", "rm", "done", "killed"}
    BY DEF PutsStop
  <2>1. dir' \in {dir, Created(c), None}
    BY <1>2
    DEF TransferStep, Prepare, Abandon, NoDestination, Locks, Fails, Starts,
        WriterEnds, WriterFills, WriterPuts, WriterReports, ReaderEnds, ReaderFills,
        ReaderPuts, ReaderReports, Finish, RemoveSource, Dies, Loops, volume
  <2>2. dir = Orig
    BY <2>1, VolumeAssumption DEF Created
  <2>3. StepOf(c) /\ proc'[c].op = proc[c].op /\ LocalInvariant
    BY <1>2, Footprint DEF Known
  <2>4. CASE d # c
    <3>1. proc'[d] = proc[d]
      BY <2>3, <2>4 DEF StepOf, LocalInvariant
    <3> QED BY <2>2, <3>1 DEF PutsStop
  <2>5. CASE d = c
    <3>1. /\ proc[c].op = "put"
          /\ proc[c].pc \in {"lstat", "rm", "done", "killed"}
      BY <2>2, <2>3, <2>5 DEF PutsStop
    <3>2. ~Prepare(c)
      BY <2>2, <3>1, VolumeAssumption DEF Prepare, Before
    <3> QED
      BY <1>2, <2>5, <3>1, <3>2
      DEF TransferStep, Abandon, NoDestination, Locks, Fails, Starts, Loops,
          WriterEnds, WriterFills, WriterPuts, WriterReports, ReaderEnds,
          ReaderFills, ReaderPuts, ReaderReports, Finish, RemoveSource, Dies
  <2> QED BY <2>4, <2>5
<1> QED BY <1>1, <1>2, SomeStep

(* Plain and appending gfputs and readers never destroy the file that was  *)
(* there at first (OriginalKept), as long as glfs_lstat does not fail.     *)
THEOREM OriginalSurvives ==
    ASSUME Job \subseteq Locker, OldLen = {}, "lstat" \notin Fault
    PROVE  HSpec => OriginalKept
<1> DEFINE A == /\ dir = Orig
                /\ \A c \in Client : proc[c].op \in {"put", "put_a"} \cup ReadOp
                => IsPrefix(data[Orig], data'[Orig])
           I == IInv /\ PutsStop
<1>1. ASSUME I, [HNext]_hvars PROVE A
  <2> SUFFICES ASSUME dir = Orig,
                      \A c \in Client : proc[c].op \in {"put", "put_a"} \cup ReadOp
               PROVE  IsPrefix(data[Orig], data'[Orig])
    OBVIOUS
  <2>1. data[Orig] \in Seq(Block) /\ Orig \in Inode
    BY <1>1 DEF IInv, LocalInvariant, VolumeOK, Inode
  <2>2. CASE data'[Orig] = data[Orig]
    BY <2>1, <2>2, SamePrefix
  <2>3. CASE UNCHANGED hvars
    BY <2>2, <2>3 DEF hvars, vars
  <2>4. ASSUME NEW c \in Client, Known(c), StableStep, TransferStep(c)
        PROVE  IsPrefix(data[Orig], data'[Orig])
    <3>1. proc[c].op = "put" => proc[c].pc \in {"lstat", "rm", "done", "killed"}
      BY <1>1 DEF PutsStop
    <3>2. proc[c].op \in WriteOp => proc[c].op \in {"put", "put_a"}
      BY DEF WriteOp, ReadOp
    <3> QED BY <2>1, <2>2, <2>4, <3>1, <3>2, DataChange
  <2> QED BY <1>1, <2>3, <2>4, SomeStep
<1>2. HInit => I
  BY InitKnown, PutsStopAtFirst DEF HInit
<1>3. I /\ [HNext]_hvars => I'
  BY StepKnown, PutsStopStill
<1>4. I /\ [HNext]_hvars => [A]_hvars
  BY <1>1
<1> QED BY <1>2, <1>3, <1>4, PTL DEF HSpec, OriginalKept

(* Of rivals that all have something to write, one is past its lock once   *)
(* another is refused, and nothing but a signal stops it.                  *)
Rivals == \A c \in Client :
             proc[c].op \in {"put_f", "put_a", "cp_in"} /\ proc[c].far.data # << >>
Over(c) == proc[c].pc \in {"close", "rm", "done"}
Failed(c) == Over(c) /\ proc[c].ret = -1
Winner(c) ==
    \/ InDataPhase(proc[c])
    \/ proc[c].pc = "killed"
    \/ Over(c) /\ proc[c].ret # -1

Contest ==
    Rivals =>
        /\ \A c \in Client : Failed(c) => ~Owns(c)
        /\ (\E c \in Client : Failed(c)) => \E d \in Client : Winner(d)

(* At first nobody has failed. *)
LEMMA ContestBegins == ASSUME Job \subseteq Locker, Init PROVE Contest
<1>1. PICK job \in [Client -> Job],
           n \in [Client -> SourceLen \cup OldLen \cup {-1, 0}] :
        proc = [c \in Client |-> Start(c, job[c], n[c])]
  BY DEF Init
<1>2. \A c \in Client : job[c] \in Locker /\ proc[c].pc = FirstStep(job[c])
  BY <1>1 DEF Start
<1>3. \A c \in Client : ~Over(c)
  BY <1>2 DEF FirstStep, Over, Locker, WriteOp, ReadOp
<1> QED BY <1>3 DEF Contest, Failed

(* The copy loop of a writer does not end in a failure, but by a signal,   *)
(* and a writer that fails was refused.                                    *)
LEMMA RivalStep ==
    ASSUME Fault \subseteq {"read", "write", "srcread", "dstwrite", "kill"},
           NEW c \in Client, Known(c), StableStep, TransferStep(c),
           proc[c].op \in {"put_f", "put_a", "cp_in"}, proc[c].far.data # << >>
    PROVE  /\ Winner(c) => Winner(c)'
           /\ Failed(c)' => Failed(c) \/ (Fails(c) /\ proc[c].pc = "lock" /\ ~Grantable(c))
           /\ Failed(c) => \A i \in Inode : lock'[i] = c => lock[i] = c
<1> DEFINE p == proc[c]
           q == proc'[c]
<1>1. /\ Progress(c) /\ p.op \in WriteOp /\ p.op \in Locker /\ q.op = p.op
      /\ p.op \notin ReadOp /\ p.op \notin {"mv_in", "mv_out"}
  BY Footprint DEF Known, WriteOp, ReadOp
<1>2. CASE Prepare(c)
  BY <1>2 DEF Prepare, Winner, Failed, Over, InDataPhase, Before, Holds
<1>3. ~Abandon(c)
  BY <1>1 DEF Abandon, Progress, Untouched
<1>4. ~NoDestination(c) /\ ~RemoveSource(c) /\ ~ReaderEnds(c) /\ ~ReaderFills(c)
      /\ ~ReaderPuts(c) /\ ~ReaderReports(c)
  BY <1>1
  DEF NoDestination, RemoveSource, ReaderEnds, ReaderFills, ReaderPuts, ReaderReports
<1>5. CASE Locks(c)
  BY <1>1, <1>5 DEF Locks, Winner, Failed, Over, InDataPhase, Holds
<1>6. CASE Fails(c)
  <2>1. p.pc = "lock" /\ ~Grantable(c)
    BY <1>6 DEF Fails
  <2> QED BY <1>6, <2>1 DEF Winner, Failed, Over, InDataPhase
<1>7. CASE Starts(c)
  BY <1>1, <1>7 DEF Starts, Winner, Failed, Over, InDataPhase
<1>8. CASE Loops(c)
  BY <1>1, <1>8 DEF Loops, Winner, Failed, Over, InDataPhase
<1>9. CASE WriterReports(c)
  <2>1. p.pc = "report" /\ q.pc = "close" /\ q.ret = 0
    BY <1>1, <1>9 DEF WriterReports, Progress
  <2> QED BY <2>1 DEF Winner, Failed, Over, InDataPhase
<1>10. CASE Finish(c)
  <2>1. /\ p.pc = "close" /\ q.pc \in {"rm", "done"} /\ q.ret = p.ret
        /\ lock' = Released(c)
    BY <1>1, <1>10 DEF Finish
  <2> QED BY <2>1, ClientIsSome DEF Winner, Failed, Over, InDataPhase, Released
<1>11. CASE Dies(c)
  <2>1. q.pc = "killed" /\ lock' = Released(c)
    BY <1>11 DEF Dies
  <2> QED BY <2>1, ClientIsSome DEF Winner, Failed, Over, Released
<1> QED
  BY <1>2, <1>3, <1>4, <1>5, <1>6, <1>7, <1>8, <1>9, <1>10, <1>11
  DEF TransferStep, WriterEnds, WriterFills, WriterPuts

(* Who is refused leaves the owner of the lock behind. *)
LEMMA ContestGoesOn ==
    ASSUME Job \subseteq Locker, IInv, Contest, [HNext]_hvars,
           Fault \subseteq {"read", "write", "srcread", "dstwrite", "kill"}
    PROVE  Contest'
<1>1. CASE UNCHANGED hvars
  BY <1>1
  DEF hvars, vars, Contest, Rivals, Failed, Over, Owns, Winner, InDataPhase
<1>2. ASSUME NEW c \in Client, Known(c), StableStep, TransferStep(c) PROVE Contest'
  <2>1. /\ StepOf(c) /\ LocalInvariant /\ proc'[c].op = proc[c].op
        /\ \A d \in Client \ {c} : proc'[d] = proc[d]
        /\ \A i \in Inode, d \in Client \ {c} : lock'[i] = d <=> lock[i] = d
    <3>1. StepOf(c) /\ LocalInvariant
      BY <1>2, Footprint DEF Known
    <3> QED BY <1>2, <3>1, Footprint DEF StepOf, LocalInvariant
  <2> SUFFICES ASSUME Rivals'
               PROVE  /\ \A d \in Client : Failed(d)' => ~Owns(d)'
                      /\ (\E d \in Client : Failed(d)') => \E d \in Client : Winner(d)'
    BY DEF Contest
  <2>2. Rivals
    <3>1. proc[c].op \in {"put_f", "put_a", "cp_in"}
      BY <2>1 DEF Rivals
    <3>2. proc'[c].far.data = proc[c].far.data
      BY <1>2, <2>1, <3>1, SourceKept DEF WriteOp
    <3> QED BY <2>1, <3>1, <3>2 DEF Rivals
  <2>3. /\ \A d \in Client : Failed(d) => ~Owns(d)
        /\ (\E d \in Client : Failed(d)) => \E d \in Client : Winner(d)
    BY <2>2 DEF Contest
  <2>4. /\ Winner(c) => Winner(c)'
        /\ Failed(c)' => Failed(c) \/ (Fails(c) /\ proc[c].pc = "lock" /\ ~Grantable(c))
        /\ Failed(c) => \A i \in Inode : lock'[i] = c => lock[i] = c
    BY <1>2, <2>2, RivalStep DEF Rivals
  <2>5. ASSUME NEW d \in Client \ {c}
        PROVE  /\ Failed(d)' <=> Failed(d)
               /\ Owns(d)' <=> Owns(d)
               /\ Winner(d)' <=> Winner(d)
    BY <2>1 DEF Failed, Over, Owns, Winner
  <2>6. \A d \in Client : Winner(d) => Winner(d)'
    BY <2>4, <2>5
  <2>7. CASE Failed(c)' /\ ~Failed(c)
    <3>1. proc[c].pc = "lock" /\ ~Grantable(c) /\ lock' = lock
      BY <2>4, <2>7 DEF Fails, volume
    <3>2. ~Owns(c)'
      BY <1>2, <2>1, <3>1, OwnsNothing DEF Before, Owns
    <3>3. PICK d \in Client \ {c} : lock[proc[c].fd] = d /\ proc[c].fd \in Inode
      BY <2>1, <3>1
      DEF LocalInvariant, Sound, VolumeOK, NeedsDescriptor, Grantable
    <3>4. MayOwnLock(proc[d]) /\ Owns(d)
      BY <2>1, <3>3 DEF LocalInvariant, Sound, Owns
    <3>5. Winner(d)
      BY <2>3, <3>4 DEF MayOwnLock, Winner, Failed, Over
    <3> QED BY <2>3, <2>5, <2>6, <3>2, <3>5
  <2>8. CASE Failed(c)' => Failed(c)
    <3>1. Failed(c) => ~Owns(c)'
      BY <2>3, <2>4 DEF Owns
    <3> QED BY <2>3, <2>5, <2>6, <2>8, <3>1
  <2> QED BY <2>7, <2>8
<1> QED BY <1>1, <1>2, SomeStep

(* Rivals are not all refused (SomeoneSucceeds): who is refused has met    *)
(* somebody who owns the lock and who will not be.                         *)
THEOREM RivalsSucceed ==
    ASSUME Job \subseteq Locker, OldLen = {}, Client # {},
           Fault \subseteq {"read", "write", "srcread", "dstwrite", "kill"}
    PROVE  HSpec => []SomeoneSucceeds
<1> DEFINE I == IInv /\ Contest
<1>1. ASSUME Contest PROVE SomeoneSucceeds
  <2> SUFFICES ASSUME \A c \in Client : /\ proc[c].op \in WriteOp \ {"put", "mv_in"}
                                        /\ proc[c].pc = "done"
                                        /\ proc[c].far.data # << >>
                                        /\ proc[c].ret = -1
               PROVE  FALSE
    BY DEF SomeoneSucceeds
  <2>1. Rivals
    BY DEF Rivals, WriteOp
  <2>2. \A c \in Client : Failed(c) /\ ~Winner(c)
    BY DEF Failed, Over, Winner, InDataPhase
  <2> QED BY <1>1, <2>1, <2>2 DEF Contest
<1>2. HInit => I
  BY InitKnown, ContestBegins DEF HInit
<1>3. I /\ [HNext]_hvars => I'
  BY StepKnown, ContestGoesOn
<1> QED BY <1>1, <1>2, <1>3, PTL DEF HSpec

-----------------------------------------------------------------------------
(* The refinement: what the transfers do to what is committed. *)

(* Only the end of a transfer commits, what its owner has put under its    *)
(* lock.                                                                   *)
LEMMA Commits ==
    ASSUME NEW c \in Client, Known(c), StableStep, TransferStep(c)
    PROVE  /\ stable' \in [Inode -> Seq(Block)]
           /\ Finish(c) \/ Dies(c) =>
                 \A i \in Inode : stable'[i] = IF lock[i] = c THEN data[i] ELSE stable[i]
           /\ ~Finish(c) /\ ~Dies(c) => stable' = stable
<1>1. /\ VolumeOK /\ stable \in [Inode -> Seq(Block)] /\ None \notin Client
      /\ \A i \in Inode : lock[i] = None => data[i] = stable[i]
      /\ \A i \in Inode : lock[i] # c => data'[i] = data[i]
  BY Footprint, VolumeAssumption DEF Known, LocalInvariant, StableType
<1>2. /\ DOMAIN stable' = Inode
      /\ stable' = [i \in Inode |-> stable'[i]]
      /\ \A i \in Inode : stable'[i] = IF lock'[i] = None THEN data'[i] ELSE stable[i]
  BY DEF StableStep
<1>3. CASE Finish(c) \/ Dies(c)
  <2>1. lock' = Released(c) /\ data' = data
    BY <1>3 DEF Finish, Dies
  <2>2. \A i \in Inode : lock'[i] = IF lock[i] = c THEN None ELSE lock[i]
    BY <2>1 DEF Released
  <2>3. \A i \in Inode : stable'[i] = IF lock[i] = c THEN data[i] ELSE stable[i]
    BY <1>1, <1>2, <2>1, <2>2
  <2>4. \A i \in Inode : stable'[i] \in Seq(Block)
    BY <1>1, <2>3 DEF VolumeOK
  <2> QED BY <1>2, <1>3, <2>3, <2>4
<1>4. CASE ~Finish(c) /\ ~Dies(c)
  <2>1. \A i \in Inode : lock'[i] = None => lock[i] = None
    <3>1. lock' = lock \/ Locks(c)
      BY <1>4
      DEF TransferStep, Prepare, Abandon, NoDestination, Fails, Starts, WriterEnds,
          WriterFills, WriterPuts, WriterReports, ReaderEnds, ReaderFills,
          ReaderPuts, ReaderReports, RemoveSource, Loops, volume
    <3>2. Locks(c) => \A i \in Inode : lock'[i] \in {lock[i], c}
      BY <1>1 DEF Locks, VolumeOK
    <3> QED BY <1>1, <3>1, <3>2
  <2>2. \A i \in Inode : stable'[i] = stable[i]
    BY <1>1, <1>2, <2>1
  <2> QED BY <1>1, <1>2, <1>4, <2>2
<1> QED BY <1>3, <1>4

Cuts == Fault \cap {"read", "write", "srcread", "dstwrite", "kill"} # {}

(* What is cut at n is a part, if that is allowed. *)
LEMMA PartOf ==
    ASSUME NEW s, NEW n \in 0..Len(s), n = Len(s) \/ Cuts
    PROVE  SubSeq(s, 1, n) \in Atomic!Part(s)
<1>1. Cuts => SubSeq(s, 1, n) \in Atomic!Part(s)
  BY DEF Atomic!Part, Cuts
<1>2. n = Len(s) => SubSeq(s, 1, n) \in Atomic!Part(s)
  BY DEF Atomic!Part
<1> QED BY <1>1, <1>2

(* How a transfer can end: it gives up, it has written a part of its       *)
(* source, or it has read a part of the file.                              *)
GivesUp(c) ==
    /\ proc[c].op \in ReadOp => proc[c].far.data = << >>
    /\ \A i \in Inode : lock[i] = c => data[i] = stable[i]

HasWritten(c) ==
    LET p == proc[c] IN
    /\ p.op \in WriteOp /\ p.fd \in Inode /\ lock[p.fd] = c
    /\ \E s \in Atomic!Part(p.far.data) : data[p.fd] = Base(c) \o s

HasRead(c) ==
    LET p == proc[c] IN
    /\ p.op \in ReadOp /\ p.fd \in Inode /\ lock[p.fd] = c
    /\ data[p.fd] = stable[p.fd]
    /\ p.far.data \in Atomic!Part(data[p.fd])

(* There is no other way to end. *)
LEMMA Outcome ==
    ASSUME NEW c \in Client, Known(c), Finish(c) \/ Dies(c), c \notin Acted
    PROVE  GivesUp(c) \/ HasWritten(c) \/ HasRead(c)
<1> DEFINE p == proc[c]
<1>1. /\ Progress(c) /\ p.op \in Locker /\ Sound(c, p, lock) /\ VolumeOK
      /\ \A i \in Inode : lock[i] = c => i = p.fd
  BY DEF Known, LocalInvariant, Sound
<1>2. p.pc = "close" \/ "kill" \in Fault
  BY DEF Finish, Dies
<1>3. CASE p.pc \in Before
  BY <1>1, <1>3 DEF Progress, Untouched, GivesUp
<1>4. CASE ~Owns(c) /\ p.pc \notin {"copy", "report"}
  <2>1. p.pc \in Before \cup {"close"}
    <3>1. p.pc \in Step \ {"rm", "done", "killed", "copy", "report"}
      BY <1>1, <1>4 DEF Acted, Sound, Process
    <3>2. p.pc # "resize"
      BY <1>1 DEF Progress
    <3> QED BY <3>1, <3>2 DEF Step, Before
  <2> QED BY <1>1, <1>3, <1>4, <2>1 DEF Progress, GivesUp, Owns
<1>5. CASE Owns(c) \/ p.pc \in {"copy", "report"}
  <2>1. p.fd \in Inode /\ lock[p.fd] = c /\ data[p.fd] \in Seq(Block)
    BY <1>1, <1>5 DEF Sound, InDataPhase, Owns, NeedsDescriptor, VolumeOK
  <2>2. p.pc \in Before \cup {"copy", "report", "close"}
    BY <1>1, <2>1 DEF Sound, MayOwnLock, InDataPhase, Before
  <2>3. p.far.data \in Seq(Block) /\ Len(p.far.data) \in Nat /\ Len(data[p.fd]) \in Nat
        /\ p.pos \in Nat /\ Len(p.buf) \in Nat /\ p.off \in Nat
    BY <2>1, Held, LenProperties
  <2>4. CASE p.pc = "copy" /\ p.op \in WriteOp
    <3> DEFINE W == Written(p)
    <3>1. Writing(c) /\ Cuts
      BY <1>1, <1>2, <2>4 DEF Progress, Cuts
    <3>2. W \in 0..Len(p.far.data)
      <4>1. p.pos \in Len(p.buf)..Len(p.far.data) /\ W = p.pos - Len(p.buf)
        BY <3>1 DEF Writing, Written
      <4> HIDE DEF W, p
      <4> QED BY <2>3, <4>1
    <3> HIDE DEF W
    <3>3. SubSeq(p.far.data, 1, W) \in Atomic!Part(p.far.data)
      BY <3>1, <3>2, PartOf
    <3> QED BY <2>1, <2>4, <3>1, <3>3 DEF HasWritten, Writing, W
  <2>5. CASE p.pc = "copy" /\ p.op \in ReadOp
    <3>1. Reading(c) /\ Cuts
      BY <1>1, <1>2, <2>5 DEF Progress, Cuts
    <3>2. p.pos \in 0..Len(data[p.fd])
      BY <2>3, <3>1 DEF Reading
    <3>3. SubSeq(data[p.fd], 1, p.pos) \in Atomic!Part(data[p.fd])
      BY <3>1, <3>2, PartOf
    <3> QED BY <2>1, <2>5, <3>1, <3>3 DEF HasRead, Reading
  <2>6. CASE p.pc \in {"report", "close"} /\ p.op \in WriteOp
    <3>1. Stored(c) \/ data[p.fd] = stable[p.fd]
      BY <1>1, <2>1, <2>6 DEF Progress, Owns
    <3>2. CASE data[p.fd] = stable[p.fd]
      BY <1>1, <2>6, <3>2 DEF GivesUp, WriteOp, ReadOp
    <3>3. CASE Stored(c)
      <4>1. PICK n \in 0..Len(p.far.data) :
              /\ data[p.fd] = Base(c) \o SubSeq(p.far.data, 1, n)
              /\ n = Len(p.far.data) \/ Fault \cap {"srcread", "write"} # {}
        BY <3>3 DEF Stored
      <4>2. SubSeq(p.far.data, 1, n) \in Atomic!Part(p.far.data)
        BY <4>1, PartOf DEF Cuts
      <4> QED BY <2>1, <2>6, <4>1, <4>2 DEF HasWritten
    <3> QED BY <3>1, <3>2, <3>3
  <2>7. CASE p.pc \in {"report", "close"} /\ p.op \in ReadOp
    <3>1. \E r : Fetched(c, r)
      BY <1>1, <2>1, <2>7 DEF Progress, Owns
    <3>2. PICK n \in 0..Len(data[p.fd]) :
            /\ p.far.data = SubSeq(data[p.fd], 1, n)
            /\ n = Len(data[p.fd]) \/ Fault \cap {"read", "dstwrite"} # {}
      BY <3>1 DEF Fetched
    <3>3. p.far.data \in Atomic!Part(data[p.fd])
      BY <3>2, PartOf DEF Cuts
    <3> QED BY <2>1, <2>7, <3>1, <3>3 DEF HasRead, Fetched
  <2> QED BY <1>1, <1>3, <2>2, <2>4, <2>5, <2>6, <2>7 DEF Locker
<1> QED BY <1>3, <1>4, <1>5

(* What the abstract specification sees of the processes. *)
Kinds == [d \in Client |-> Kind(d)]
Sources == [d \in Client |->
              IF proc[d].op \in WriteOp THEN proc[d].far.data ELSE << >>]
Got(d) == IF proc[d].op \in ReadOp /\ d \in Acted THEN proc[d].far.data ELSE << >>
Gots == [d \in Client |-> Got(d)]

(* How a step changes what is seen. *)
LEMMA Seen ==
    ASSUME NEW c \in Client, Known(c), TransferStep(c)
    PROVE  /\ Kinds' = Kinds /\ Sources' = Sources
           /\ c \notin Acted /\ proc'[c].pc \notin {"rm", "done", "killed"} =>
                 Acted' = Acted /\ Gots' = Gots
           /\ c \in Acted =>
                 Acted' = Acted /\ Gots' = Gots /\ (RemoveSource(c) \/ Dies(c))
           /\ Abandon(c) \/ Finish(c) \/ Dies(c) =>
                 /\ Acted' = Acted \cup {c}
                 /\ proc[c].op \in ReadOp =>
                       Gots' = [Gots EXCEPT ![c] = proc[c].far.data]
                 /\ proc[c].op \in ReadOp /\ c \notin Acted /\ proc[c].far.data = << >> =>
                       Gots' = Gots
                 /\ proc[c].op \notin ReadOp => Gots' = Gots
<1>1. /\ StepOf(c) /\ proc'[c].op = proc[c].op /\ LocalInvariant
      /\ \A d \in Client \ {c} : proc'[d] = proc[d]
      /\ proc[c].op \in Locker
  <2>1. StepOf(c) /\ proc'[c].op = proc[c].op /\ LocalInvariant /\ proc[c].op \in Locker
    BY Footprint DEF Known
  <2> QED BY <2>1 DEF StepOf, LocalInvariant
<1>2. Kinds' = Kinds
  <2>1. \A d \in Client : Kind(d)' = Kind(d)
    BY <1>1 DEF Kind
  <2> QED BY <2>1 DEF Kinds
<1>3. Sources' = Sources
  <2>1. proc[c].op \in WriteOp => proc'[c].far.data = proc[c].far.data
    BY <1>1, SourceKept
  <2> QED BY <1>1, <2>1 DEF Sources
<1>4. \A d \in Client \ {c} : (d \in Acted' <=> d \in Acted) /\ Got(d)' = Got(d)
  BY <1>1 DEF Acted, Got
<1>5. ASSUME c \notin Acted, proc'[c].pc \notin {"rm", "done", "killed"}
      PROVE  Acted' = Acted /\ Gots' = Gots
  <2>1. c \notin Acted' /\ Got(c)' = Got(c)
    BY <1>5 DEF Acted, Got
  <2> QED BY <1>4, <1>5, <2>1 DEF Acted, Gots
<1>6. ASSUME c \in Acted PROVE RemoveSource(c) \/ Dies(c)
  BY <1>6
  DEF Acted, TransferStep, Prepare, Abandon, NoDestination, Locks, Fails, Starts,
      WriterEnds, WriterFills, WriterPuts, WriterReports, ReaderEnds, ReaderFills,
      ReaderPuts, ReaderReports, Finish, RemoveSource, Loops, Before
<1>7. ASSUME Abandon(c) \/ Finish(c) \/ Dies(c) \/ RemoveSource(c)
      PROVE  /\ c \in Acted' /\ Acted' = Acted \cup {c}
             /\ proc'[c].far.data = proc[c].far.data
  <2>1. proc'[c].pc \in {"rm", "done", "killed"} /\ Holds(c)
    BY <1>7 DEF Abandon, Finish, Dies, RemoveSource
  <2> QED BY <1>1, <1>4, <2>1 DEF Acted, Holds
<1>8. ASSUME c \in Acted PROVE Acted' = Acted /\ Gots' = Gots
  <2>1. Got(c)' = Got(c)
    BY <1>1, <1>6, <1>7, <1>8 DEF Got
  <2> QED BY <1>4, <1>6, <1>7, <1>8, <2>1 DEF Gots
<1>9. ASSUME Abandon(c) \/ Finish(c) \/ Dies(c)
      PROVE  /\ proc[c].op \in ReadOp => Gots' = [Gots EXCEPT ![c] = proc[c].far.data]
             /\ proc[c].op \in ReadOp /\ c \notin Acted /\ proc[c].far.data = << >> =>
                   Gots' = Gots
             /\ proc[c].op \notin ReadOp => Gots' = Gots
  <2>1. Got(c)' = IF proc[c].op \in ReadOp THEN proc[c].far.data ELSE << >>
    BY <1>1, <1>7, <1>9 DEF Got
  <2>2. Gots' = [Gots EXCEPT ![c] = Got(c)']
    BY <1>4 DEF Gots
  <2>3. Gots[c] = Got(c) /\ Gots = [d \in Client |-> Gots[d]]
    BY DEF Gots
  <2>4. c \notin Acted \/ proc[c].op \notin ReadOp => Got(c) = << >>
    BY DEF Got
  <2> QED BY <2>1, <2>2, <2>3, <2>4
<1> QED BY <1>2, <1>3, <1>5, <1>6, <1>7, <1>8, <1>9

(* The names stand for the expressions of the refinement mapping. *)
LEMMA SeenAs ==
    /\ Kinds = [c \in Client |-> Kind(c)]
    /\ Sources = [c \in Client |->
                    IF proc[c].op \in WriteOp THEN proc[c].far.data ELSE << >>]
    /\ Gots = [c \in Client |->
                 IF proc[c].op \in ReadOp /\ c \in Acted THEN proc[c].far.data ELSE << >>]
BY DEF Kinds, Sources, Gots, Got

(* Every step is one of the abstract specification, or nothing to it. *)
LEMMA AtomicStep ==
    ASSUME Job \subseteq Locker, IInv, [HNext]_hvars
    PROVE  Atomic!ANext \/ UNCHANGED Atomic!avars
<1>1. CASE UNCHANGED hvars
  <2>1. proc' = proc /\ dir' = dir /\ stable' = stable
    BY <1>1 DEF hvars, vars
  <2>2. Kinds' = Kinds /\ Sources' = Sources /\ Acted' = Acted /\ Gots' = Gots
    BY <2>1 DEF Kinds, Kind, Sources, Acted, Gots, Got
  <2> QED BY <2>1, <2>2 DEF Atomic!avars, Kinds, Sources, Gots, Got
<1>2. ASSUME NEW c \in Client, Known(c), StableStep, TransferStep(c)
      PROVE  Atomic!ANext \/ UNCHANGED Atomic!avars
  <2> DEFINE p == proc[c]
  <2>1. Kinds' = Kinds /\ Sources' = Sources
    BY <1>2, Seen
  <2>2. CASE /\ Acted' = Acted /\ Gots' = Gots /\ stable' = stable
             /\ dir' = dir \/ dir' = Created(c) \/ dir' = None
    <3>1. dir' = dir \/ (dir = None /\ dir' = c) \/ dir' = None
      BY <2>2 DEF Created
    <3>2. dir' = dir => UNCHANGED Atomic!avars
      BY <2>1, <2>2 DEF Atomic!avars, Kinds, Sources, Gots, Got
    <3>3. dir = None /\ dir' = c => Atomic!Create(c)
      BY <2>1, <2>2 DEF Atomic!Create, Kinds, Sources, Gots, Got
    <3>4. dir' = None => Atomic!Remove
      BY <2>1, <2>2 DEF Atomic!Remove, Kinds, Sources, Gots, Got
    <3> QED BY <1>2, <3>1, <3>2, <3>3, <3>4 DEF Atomic!ANext
  <2>3. CASE ~Abandon(c) /\ ~Finish(c) /\ ~Dies(c)
    <3>1. stable' = stable
      BY <1>2, <2>3, Commits
    <3>2. dir' \in {dir, Created(c), None}
      BY <1>2
      DEF TransferStep, Prepare, Abandon, NoDestination, Locks, Fails, Starts,
          WriterEnds, WriterFills, WriterPuts, WriterReports, ReaderEnds,
          ReaderFills, ReaderPuts, ReaderReports, Finish, RemoveSource, Dies, Loops,
          volume
    <3>3. Acted' = Acted /\ Gots' = Gots
      <4>1. CASE c \in Acted
        BY <1>2, <4>1, Seen
      <4>2. CASE c \notin Acted
        <5>1. proc'[c].pc \notin {"rm", "done", "killed"}
          BY <1>2, <2>3, <4>2
          DEF TransferStep, Prepare, NoDestination, Locks, Fails, Starts, WriterEnds,
              WriterFills, WriterPuts, WriterReports, ReaderEnds, ReaderFills,
              ReaderPuts, ReaderReports, RemoveSource, Loops, Acted
        <5> QED BY <1>2, <4>2, <5>1, Seen
      <4> QED BY <4>1, <4>2
    <3> QED BY <2>2, <3>1, <3>2, <3>3
  <2>4. CASE Abandon(c) \/ Finish(c) \/ Dies(c)
    <3>1. /\ dir' = dir /\ Acted' = Acted \cup {c}
          /\ p.op \in Locker /\ p.op \in Op
      BY <1>2, <2>4, Seen, Fields
      DEF Abandon, Finish, Dies, volume, Known, Process
    <3>2. CASE c \in Acted
      <4>1. Dies(c) /\ Acted' = Acted /\ Gots' = Gots
        BY <1>2, <2>4, <3>2, Seen DEF RemoveSource, Acted, Abandon, Finish, Dies, Before
      <4>2. \A i \in Inode : lock[i] # c
        <5>1. ~MayOwnLock(p)
          BY <3>2 DEF MayOwnLock, InDataPhase, Acted
        <5> QED BY <1>2, <5>1 DEF Known, LocalInvariant, Sound
      <4>3. \A i \in Inode : stable'[i] = stable[i]
        BY <1>2, <4>1, <4>2, Commits
      <4>4. stable' = stable
        BY <1>2, <4>3, Commits DEF Known, StableType
      <4> QED BY <2>2, <3>1, <4>1, <4>4
    <3>3. ASSUME c \notin Acted, Gots' = Gots, stable' = stable
          PROVE  Atomic!GiveUp(c)
      BY <2>1, <3>1, <3>3 DEF Atomic!GiveUp, Kinds, Sources, Gots, Got
    <3>4. CASE c \notin Acted /\ GivesUp(c)
      <4>1. stable' = stable
        <5>1. CASE Finish(c) \/ Dies(c)
          <6>1. \A i \in Inode : stable'[i] = stable[i]
            BY <1>2, <3>4, <5>1, Commits DEF GivesUp
          <6> QED BY <1>2, <6>1, Commits DEF Known, StableType
        <5> QED BY <1>2, <5>1, Commits
      <4>2. Gots' = Gots
        BY <1>2, <2>4, <3>4, Seen DEF GivesUp
      <4> QED BY <1>2, <3>3, <3>4, <4>1, <4>2 DEF Atomic!ANext
    <3>5. CASE c \notin Acted /\ Abandon(c)
      <4>1. GivesUp(c)
        <5>1. Untouched(c) /\ ~Owns(c)
          BY <1>2, <3>5, OwnsNothing DEF Known, Progress, Abandon
        <5> QED BY <5>1 DEF GivesUp, Owns, Untouched
      <4> QED BY <3>4, <3>5, <4>1
    <3>6. CASE c \notin Acted /\ HasWritten(c) /\ (Finish(c) \/ Dies(c))
      <4>1. PICK s \in Atomic!Part(p.far.data) : data[p.fd] = Base(c) \o s
        BY <3>6 DEF HasWritten
      <4>2. p.op \in WriteOp /\ p.op \notin ReadOp /\ p.fd \in Inode /\ lock[p.fd] = c
        BY <3>6 DEF HasWritten, WriteOp, ReadOp
      <4>3. /\ Kinds[c] = IF p.op = "put_a" THEN "append" ELSE "write"
            /\ Sources[c] = p.far.data
        BY <4>2 DEF Kinds, Kind, Sources
      <4>4. s \in Seq(Block) /\ << >> \o s = s
        <5>1. p.far.data \in Seq(Block)
          BY <1>2, Held
        <5>2. \E n \in 0..Len(p.far.data) : s = SubSeq(p.far.data, 1, n)
          BY <4>1, <5>1, LenProperties DEF Atomic!Part
        <5>3. s \in Seq(Block)
          BY <5>1, <5>2, HeadIs
        <5> QED BY <5>3, ConcatEmptySeq
      <4>5. data[p.fd] = IF Kinds[c] = "append" THEN stable[p.fd] \o s ELSE s
        BY <4>1, <4>3, <4>4 DEF Base
      <4>6. \A i \in Inode : lock[i] = c => i = p.fd
        BY <1>2 DEF Known, LocalInvariant, Sound
      <4>7. stable' = [stable EXCEPT ![p.fd] = IF Kinds[c] = "append" THEN @ \o s ELSE s]
        BY <1>2, <3>6, <4>2, <4>5, <4>6, Commits DEF Known, StableType
      <4>8. Gots' = Gots
        BY <1>2, <3>6, <4>2, Seen
      <4>9. Kinds[c] \in {"write", "append"}
        BY <4>3
      <4>10. Atomic!Write(c)
        <5>1. \E i \in Inode, b \in Atomic!Part(Sources[c]) :
                stable' = [stable EXCEPT ![i] =
                              IF Kinds[c] = "append" THEN @ \o b ELSE b]
          BY <4>1, <4>2, <4>3, <4>7
        <5> QED
          BY <2>1, <3>1, <3>6, <4>8, <4>9, <5>1
          DEF Atomic!Write, Kinds, Sources, Gots, Got
      <4> QED BY <1>2, <4>10 DEF Atomic!ANext
    <3>7. CASE c \notin Acted /\ HasRead(c) /\ (Finish(c) \/ Dies(c))
      <4>1. /\ p.op \in ReadOp /\ p.fd \in Inode /\ lock[p.fd] = c
            /\ data[p.fd] = stable[p.fd] /\ p.far.data \in Atomic!Part(stable[p.fd])
        BY <3>7 DEF HasRead
      <4>2. \A i \in Inode : lock[i] = c => i = p.fd
        BY <1>2 DEF Known, LocalInvariant, Sound
      <4>3. stable' = stable
        <5>1. \A i \in Inode : stable'[i] = stable[i]
          BY <1>2, <3>7, <4>1, <4>2, Commits
        <5> QED BY <1>2, <5>1, Commits DEF Known, StableType
      <4>4. Gots' = [Gots EXCEPT ![c] = p.far.data]
        BY <1>2, <3>7, <4>1, Seen
      <4>5. Kinds[c] = "read"
        BY <4>1 DEF Kinds, Kind, WriteOp, ReadOp
      <4>6. Atomic!Read(c)
        <5>1. \E i \in Inode : \E s \in Atomic!Part(stable[i]) :
                Gots' = [Gots EXCEPT ![c] = s]
          BY <4>1, <4>4
        <5> QED
          BY <2>1, <3>1, <3>7, <4>3, <4>5, <5>1
          DEF Atomic!Read, Kinds, Sources, Gots, Got
      <4> QED BY <1>2, <4>6 DEF Atomic!ANext
    <3> QED BY <1>2, <2>4, <3>2, <3>4, <3>5, <3>6, <3>7, Outcome
  <2> QED BY <2>3, <2>4
<1> QED BY <1>1, <1>2, SomeStep

(* At first nobody has acted. *)
LEMMA AtomicStart ==
    ASSUME Job \subseteq Locker, OldLen = {}, HInit
    PROVE  Atomic!AInit
<1>1. dir \in Inode \cup {None}
  BY DEF HInit, Init, Inode
<1>2. PICK job \in [Client -> Job],
           n \in [Client -> SourceLen \cup OldLen \cup {-1, 0}] :
        proc = [d \in Client |-> Start(d, job[d], n[d])]
  BY DEF HInit, Init
<1>3. ASSUME NEW c \in Client PROVE c \notin Acted
  <2>1. proc[c].pc = FirstStep(job[c]) /\ job[c] \in Locker
    BY <1>2 DEF Start
  <2> QED BY <2>1 DEF FirstStep, Acted, Locker, WriteOp, ReadOp
<1>4. Acted = {}
  BY <1>3 DEF Acted
<1>5. Gots = [c \in Client |-> << >>]
  BY <1>4 DEF Gots, Got
<1> QED BY <1>1, <1>4, <1>5, SeenAs DEF Atomic!AInit

(* The utilities that lock the path are atomic to each other               *)
(* (TransfersAreAtomic), however many there are and whatever fails: a      *)
(* reader gets one committed content or, if a call fails or it is killed,  *)
(* a part of one, and so on for those that write and append.               *)
THEOREM Atomicity ==
    ASSUME Job \subseteq Locker, OldLen = {}
    PROVE  HSpec => TransfersAreAtomic
<1>1. HInit => IInv /\ Atomic!AInit
  BY InitKnown, AtomicStart
<1>2. IInv /\ [HNext]_hvars => IInv'
  BY StepKnown
<1>3. IInv /\ [HNext]_hvars => [Atomic!ANext]_(Atomic!avars)
  BY AtomicStep
<1> QED BY <1>1, <1>2, <1>3, PTL DEF HSpec, TransfersAreAtomic, Atomic!ASpec
=============================================================================
