-------------------------- MODULE UtilitiesProofs --------------------------
(***************************************************************************)
(* The lock discipline of the utilities, for any set of processes, any     *)
(* lengths and any calls that fail; and that each step goes forward.       *)
(***************************************************************************)
EXTENDS Utilities, SequenceTheorems, TLAPS

(* LockInvariant, process by process: what it says of a process p of       *)
(* identity c when lk is the lock table.                                   *)
Sound(c, p, lk) ==
    /\ p \in Process
    /\ NeedsDescriptor(p) => p.fd \in Inode
    /\ InDataPhase(p) => lk[p.fd] = c
    /\ \A i \in Inode : lk[i] = c => MayOwnLock(p) /\ p.fd = i

VolumeOK ==
    /\ dir \in Inode \cup {None}
    /\ data \in [Inode -> Seq(Block)]
    /\ lock \in [Inode -> Client \cup {None}]

LocalInvariant ==
    /\ VolumeOK
    /\ proc = [c \in Client |-> proc[c]]
    /\ \A c \in Client : Sound(c, proc[c], lock)

(* The two forms of the invariant agree. *)
LEMMA SameInvariant == LockInvariant <=> LocalInvariant
<1>1. ASSUME LockInvariant PROVE LocalInvariant
  <2>1. VolumeOK /\ proc = [c \in Client |-> proc[c]]
    BY <1>1 DEF LockInvariant, TypeOK, VolumeOK
  <2>2. ASSUME NEW c \in Client PROVE Sound(c, proc[c], lock)
    BY <1>1, VolumeAssumption
    DEF LockInvariant, TypeOK, DescriptorsOpen, DataPhaseLocked,
        LocksAreReleased, Sound
  <2> QED BY <2>1, <2>2 DEF LocalInvariant
<1>2. ASSUME LocalInvariant PROVE LockInvariant
  <2>1. proc \in [Client -> Process]
    BY <1>2 DEF LocalInvariant, Sound
  <2>2. TypeOK
    BY <1>2, <2>1 DEF LocalInvariant, VolumeOK, TypeOK
  <2>3. DescriptorsOpen /\ DataPhaseLocked
    BY <1>2 DEF LocalInvariant, Sound, DescriptorsOpen, DataPhaseLocked
  <2>4. LocksAreReleased
    BY <1>2 DEF LocalInvariant, VolumeOK, Sound, LocksAreReleased
  <2> QED BY <2>2, <2>3, <2>4 DEF LockInvariant
<1> QED BY <1>1, <1>2

(* A step that changes the state of no process but c. *)
StepOf(c) == proc' = [proc EXCEPT ![c] = proc'[c]]

(* A step of c keeps the invariant if it leaves c sound and the locks of   *)
(* everybody else alone.                                                   *)
LEMMA StepOfOne ==
    ASSUME LocalInvariant,
           NEW c \in Client,
           StepOf(c),
           VolumeOK',
           \A d \in Client \ {c}, i \in Inode : lock'[i] = d <=> lock[i] = d,
           Sound(c, proc'[c], lock')
    PROVE  LocalInvariant'
<1>1. proc' = [d \in Client |-> proc'[d]]
  BY DEF LocalInvariant, StepOf
<1>2. ASSUME NEW d \in Client PROVE Sound(d, proc'[d], lock')
  <2>1. CASE d = c
    BY <2>1
  <2>2. CASE d # c
    <3>1. proc'[d] = proc[d] /\ Sound(d, proc[d], lock)
      BY <2>2 DEF LocalInvariant, StepOf
    <3>2. InDataPhase(proc[d]) => proc[d].fd \in Inode
      BY <3>1 DEF Sound, InDataPhase, NeedsDescriptor
    <3> QED BY <3>1, <3>2, <2>2 DEF Sound
  <2> QED BY <2>1, <2>2
<1> QED BY <1>1, <1>2 DEF LocalInvariant

(* A step of c that leaves every lock alone. *)
LEMMA QuietStep ==
    ASSUME LocalInvariant,
           NEW c \in Client,
           StepOf(c),
           dir' \in Inode \cup {None},
           data' \in [Inode -> Seq(Block)],
           UNCHANGED lock,
           Sound(c, proc'[c], lock)
    PROVE  LocalInvariant'
BY StepOfOne DEF LocalInvariant, VolumeOK

-----------------------------------------------------------------------------
(* The sequences the copy loops make are sequences of blocks. *)
LEMMA HoleIsBlock == Hole \in Block
BY DEF Hole, Block, Inode

(* The data of a process is a sequence of blocks, whatever its length. *)
LEMMA FreshType == ASSUME NEW i \in Inode, NEW n \in Int PROVE Fresh(i, n) \in Seq(Block)
<1>1. CASE n \in Nat
  <2>1. Fresh(i, n) \in [1..n -> Block]
    BY DEF Fresh, Block
  <2> QED BY <1>1, <2>1, SeqDef
<1>2. CASE n \notin Nat
  <2>1. 1..n = {} /\ 1..0 = {}
    BY <1>2
  <2>2. Fresh(i, n) \in [1..0 -> Block]
    BY <2>1 DEF Fresh
  <2> QED BY <2>2, SeqDef
<1> QED BY <1>1, <1>2

(* So is what a file held before. *)
LEMMA StaleType == ASSUME NEW c \in Inode, NEW n \in Int PROVE Stale(c, n) \in Seq(Block)
<1>1. CASE n \in Nat
  <2>1. Stale(c, n) \in [1..n -> Block]
    BY DEF Stale, Block
  <2> QED BY <1>1, <2>1, SeqDef
<1>2. CASE n \notin Nat
  <2>1. 1..n = {} /\ 1..0 = {}
    BY <1>2
  <2>2. Stale(c, n) \in [1..0 -> Block]
    BY <2>1 DEF Stale
  <2> QED BY <2>2, SeqDef
<1> QED BY <1>1, <1>2

(* glfs_write at any offset leaves a sequence of blocks. *)
LEMMA WriteAtType ==
    ASSUME NEW s \in Seq(Block), NEW o \in Nat, NEW b \in Seq(Block)
    PROVE  WriteAt(s, o, b) \in Seq(Block)
<1> DEFINE n == IF Len(s) > o + Len(b) THEN Len(s) ELSE o + Len(b)
<1>1. n \in Nat
  OBVIOUS
<1>2. WriteAt(s, o, b) \in [1..n -> Block]
  <2>1. ASSUME NEW k \in 1..n
        PROVE  (IF o < k /\ k <= o + Len(b) THEN b[k - o]
                ELSE IF k <= Len(s) THEN s[k] ELSE Hole) \in Block
    BY HoleIsBlock
  <2> QED BY <2>1 DEF WriteAt
<1> QED BY <1>1, <1>2, SeqDef

(* So does glfs_ftruncate to any size. *)
LEMMA ResizeType ==
    ASSUME NEW s \in Seq(Block), NEW n \in Nat PROVE Resize(s, n) \in Seq(Block)
<1>1. ASSUME NEW k \in 1..n
      PROVE  (IF k <= Len(s) THEN s[k] ELSE Hole) \in Block
  BY HoleIsBlock
<1>2. Resize(s, n) \in [1..n -> Block]
  BY <1>1 DEF Resize
<1> QED BY <1>2, SeqDef

(* A part of a sequence of blocks is one. *)
LEMMA SliceType ==
    ASSUME NEW s \in Seq(Block), NEW m \in Nat \ {0}, NEW n \in Int, n <= Len(s)
    PROVE  SubSeq(s, m, n) \in Seq(Block)
<1>1. \A k \in m..n : s[k] \in Block
  OBVIOUS
<1> QED BY <1>1, SubSeqProperties

-----------------------------------------------------------------------------
(* gluster_lock: a grant gives c a lock nobody else has. *)
LEMMA GlusterLockKeeps ==
    ASSUME LocalInvariant, NEW c \in Client, NEW next,
           GlusterLock(c, next),
           \/ proc[c].op \in Locker /\ next \in {"truncate", "seek", "copy"}
           \/ proc[c].op = "trunc" /\ next = "close"
    PROVE  LocalInvariant'
<1> DEFINE p == proc[c]
<1> USE DEF Sound, NeedsDescriptor, InDataPhase, MayOwnLock, Locker, WriteOp,
        ReadOp, Process, Step
<1>1. /\ Sound(c, p, lock) /\ VolumeOK /\ p.pc = "lock"
      /\ UNCHANGED <<dir, data>>
  BY DEF LocalInvariant, GlusterLock
<1>2. p.fd \in Inode /\ \A i \in Inode : lock[i] # c
  BY <1>1
<1>3. CASE Grantable(c) /\ lock' = [lock EXCEPT ![p.fd] = c]
           /\ proc' = [proc EXCEPT ![c].pc = next, ![c].ret = 0]
  <2>1. StepOf(c) /\ proc'[c] = [p EXCEPT !.pc = next, !.ret = 0]
    BY <1>3 DEF LocalInvariant, StepOf
  <2>2. /\ VolumeOK'
        /\ \A d \in Client \ {c}, i \in Inode : lock'[i] = d <=> lock[i] = d
        /\ lock'[p.fd] = c /\ \A i \in Inode : lock'[i] = c => i = p.fd
    BY <1>1, <1>2, <1>3, VolumeAssumption DEF VolumeOK, Grantable
  <2>3. Sound(c, proc'[c], lock')
    BY <1>1, <1>2, <2>1, <2>2
  <2> QED BY <2>1, <2>2, <2>3, StepOfOne
<1>4. CASE FailTo(c, "close") /\ UNCHANGED lock
  <2>1. StepOf(c) /\ proc'[c] = [p EXCEPT !.pc = "close", !.ret = -1]
    BY <1>4 DEF LocalInvariant, StepOf, FailTo
  <2>2. Sound(c, proc'[c], lock)
    BY <1>1, <1>2, <2>1
  <2> QED BY <1>1, <1>4, <2>1, <2>2, QuietStep DEF VolumeOK
<1> QED BY <1>3, <1>4 DEF GlusterLock

(* glfs_ftruncate happens under the lock of its inode. *)
LEMMA FtruncateKeeps ==
    ASSUME LocalInvariant, NEW c \in Client,
           FtruncateToZero(c, "copy"), proc[c].op \in Locker
    PROVE  LocalInvariant'
<1> DEFINE p == proc[c]
<1>1. /\ Sound(c, p, lock) /\ VolumeOK /\ p.pc = "truncate"
      /\ UNCHANGED <<dir, lock>>
  BY DEF LocalInvariant, FtruncateToZero
<1>2. data' \in [Inode -> Seq(Block)]
  <2>1. << >> \in Seq(Block)
    OBVIOUS
  <2> QED BY <1>1, <2>1 DEF VolumeOK, FtruncateToZero
<1> USE DEF Sound, NeedsDescriptor, InDataPhase, MayOwnLock, Process, Step
<1>3. \E l \in {"copy", "close"}, r \in {-1, 0} :
         proc' = [proc EXCEPT ![c].pc = l, ![c].ret = r]
  BY DEF FtruncateToZero, FailTo
<1>4. PICK l \in {"copy", "close"}, r \in {-1, 0} :
         proc' = [proc EXCEPT ![c].pc = l, ![c].ret = r]
  BY <1>3
<1>5. StepOf(c) /\ proc'[c] = [p EXCEPT !.pc = l, !.ret = r]
  BY <1>4 DEF LocalInvariant, StepOf
<1>6. Sound(c, proc'[c], lock)
  BY <1>1, <1>5
<1> QED BY <1>1, <1>2, <1>5, <1>6, QuietStep DEF VolumeOK

(* gluster_write: the loop writes to the inode whose lock c owns. *)
LEMMA GlusterWriteKeeps ==
    ASSUME LocalInvariant, NEW c \in Client,
           GlusterWriteRead(c) \/ GlusterWriteWrite(c), proc[c].op \in WriteOp
    PROVE  LocalInvariant'
<1> DEFINE p == proc[c]
<1>1. /\ Sound(c, p, lock) /\ VolumeOK /\ p.pc = "copy"
      /\ UNCHANGED <<dir, lock>> /\ p \in Process
  BY DEF LocalInvariant, Sound, GlusterWriteRead, GlusterWriteWrite, volume
<1>2. ASSUME NEW q \in Process, StepOf(c), proc'[c] = q, q.op = p.op,
             q.fd = p.fd, q.pc \in {"copy", "report"},
             data' \in [Inode -> Seq(Block)]
      PROVE  LocalInvariant'
  <2>1. Sound(c, q, lock)
    BY <1>1, <1>2
    DEF Sound, NeedsDescriptor, InDataPhase, MayOwnLock, Locker
  <2> QED BY <1>1, <1>2, <2>1, QuietStep DEF VolumeOK
<1>3. CASE GlusterWriteRead(c)
  <2>1. UNCHANGED data /\ data \in [Inode -> Seq(Block)]
    BY <1>1, <1>3 DEF GlusterWriteRead, volume, VolumeOK
  <2>2. CASE Goto(c, "report")
    <3> DEFINE q == [p EXCEPT !.pc = "report"]
    <3>1. StepOf(c) /\ proc'[c] = q
      BY <2>2 DEF LocalInvariant, StepOf, Goto
    <3>2. q \in Process /\ q.op = p.op /\ q.fd = p.fd /\ q.pc = "report"
      BY <1>1 DEF Process, Step
    <3> QED BY <1>2, <2>1, <3>1, <3>2
  <2>3. CASE proc' = [proc EXCEPT ![c].pc = "report", ![c].io = -1]
    <3> DEFINE q == [p EXCEPT !.pc = "report", !.io = -1]
    <3>1. StepOf(c) /\ proc'[c] = q
      BY <2>3 DEF LocalInvariant, StepOf
    <3>2. q \in Process /\ q.op = p.op /\ q.fd = p.fd /\ q.pc = "report"
      BY <1>1 DEF Process, Step
    <3> QED BY <1>2, <2>1, <3>1, <3>2
  <2>4. ASSUME NEW n \in 1..Smaller(Chunk, Len(p.far.data) - p.pos),
               proc' = [proc EXCEPT
                   ![c].buf = SubSeq(p.far.data, p.pos + 1, p.pos + n),
                   ![c].pos = p.pos + n]
        PROVE  LocalInvariant'
    <3> DEFINE b == SubSeq(p.far.data, p.pos + 1, p.pos + n)
               o == p.pos + n
               q == [p EXCEPT !.buf = b, !.pos = o]
    <3>1. StepOf(c) /\ proc'[c] = q
      BY <2>4 DEF LocalInvariant, StepOf
    <3>2. b \in Seq(Block)
      <4>1. p.far.data \in Seq(Block) /\ p.pos \in Nat
        BY <1>1 DEF Process
      <4>2. n \in Nat /\ p.pos + n <= Len(p.far.data)
        BY <4>1, VolumeAssumption DEF Smaller
      <4>3. p.pos + 1 \in Nat \ {0} /\ p.pos + n \in Int
        BY <4>1, <4>2
      <4> HIDE DEF p
      <4> QED BY <4>1, <4>2, <4>3, SliceType
    <3>3. o \in Nat
      BY <1>1 DEF Process
    <3>4. q \in Process /\ q.op = p.op /\ q.fd = p.fd /\ q.pc = "copy"
      <4> HIDE DEF b, o
      <4> QED BY <1>1, <3>2, <3>3 DEF Process, Step
    <3> QED BY <1>2, <2>1, <3>1, <3>4
  <2> QED BY <1>3, <2>2, <2>3, <2>4 DEF GlusterWriteRead
<1>4. CASE GlusterWriteWrite(c)
  <2>1. CASE proc' = [proc EXCEPT ![c].pc = "report", ![c].io = -1]
             /\ UNCHANGED data
    <3> DEFINE q == [p EXCEPT !.pc = "report", !.io = -1]
    <3>1. StepOf(c) /\ proc'[c] = q
      BY <2>1 DEF LocalInvariant, StepOf
    <3>2. q \in Process /\ q.op = p.op /\ q.fd = p.fd /\ q.pc = "report"
      BY <1>1 DEF Process, Step
    <3> QED BY <1>1, <1>2, <2>1, <3>1, <3>2 DEF VolumeOK
  <2>2. ASSUME NEW k \in 1..Len(p.buf),
               data' = [data EXCEPT ![p.fd] =
                            WriteAt(@, p.off, SubSeq(p.buf, 1, k))],
               proc' = [proc EXCEPT
                            ![c].buf = SubSeq(p.buf, k + 1, Len(p.buf)),
                            ![c].off = p.off + k,
                            ![c].io = 1]
        PROVE  LocalInvariant'
    <3> DEFINE b == SubSeq(p.buf, 1, k)
               r == SubSeq(p.buf, k + 1, Len(p.buf))
               o == p.off + k
               q == [p EXCEPT !.buf = r, !.off = o, !.io = 1]
    <3>1. StepOf(c) /\ proc'[c] = q
      BY <2>2 DEF LocalInvariant, StepOf
    <3>2. p.buf \in Seq(Block) /\ p.off \in Nat /\ k \in Nat /\ o \in Nat
      BY <1>1 DEF Process
    <3>3. b \in Seq(Block) /\ r \in Seq(Block)
      <4>1. 1 \in Nat \ {0} /\ k + 1 \in Nat \ {0} /\ k \in Int
            /\ Len(p.buf) \in Int /\ k <= Len(p.buf)
        BY <3>2
      <4> HIDE DEF p
      <4> QED BY <3>2, <4>1, SliceType
    <3>4. q \in Process /\ q.op = p.op /\ q.fd = p.fd /\ q.pc = "copy"
      <4> HIDE DEF r, o
      <4> QED BY <1>1, <3>2, <3>3 DEF Process, Step
    <3>5. data' \in [Inode -> Seq(Block)]
      <4> DEFINE w == WriteAt(data[p.fd], p.off, b)
      <4>1. data' = [data EXCEPT ![p.fd] = w]
        BY <2>2
      <4> HIDE DEF b
      <4>2. p.fd \in Inode
        BY <1>1 DEF Sound, NeedsDescriptor
      <4>3. data[p.fd] \in Seq(Block)
        BY <1>1, <4>2 DEF VolumeOK
      <4>4. w \in Seq(Block)
        BY <3>2, <3>3, <4>3, WriteAtType
      <4> HIDE DEF w
      <4> QED BY <1>1, <4>1, <4>4 DEF VolumeOK
    <3> QED BY <1>2, <3>1, <3>4, <3>5
  <2> QED BY <1>4, <2>1, <2>2 DEF GlusterWriteWrite
<1> QED BY <1>3, <1>4

(* gluster_read: only the far end changes. *)
LEMMA GlusterReadKeeps ==
    ASSUME LocalInvariant, NEW c \in Client,
           GlusterReadRead(c) \/ GlusterReadWrite(c), proc[c].op \in ReadOp
    PROVE  LocalInvariant'
<1> DEFINE p == proc[c]
<1>1. /\ Sound(c, p, lock) /\ VolumeOK /\ p.pc = "copy"
      /\ UNCHANGED volume /\ p \in Process
  BY DEF LocalInvariant, Sound, GlusterReadRead, GlusterReadWrite
<1>2. ASSUME NEW q \in Process, StepOf(c), proc'[c] = q, q.op = p.op,
             q.fd = p.fd, q.pc \in {"copy", "report"}
      PROVE  LocalInvariant'
  <2>1. Sound(c, q, lock)
    BY <1>1, <1>2
    DEF Sound, NeedsDescriptor, InDataPhase, MayOwnLock, Locker
  <2> QED BY <1>1, <1>2, <2>1, QuietStep DEF VolumeOK, volume
<1>3. p.pos \in Nat /\ p.off \in Nat /\ p.buf \in Seq(Block)
      /\ p.far \in [exists : BOOLEAN, data : Seq(Block)]
  BY <1>1 DEF Process
<1>4. CASE GlusterReadRead(c)
  <2>1. CASE Goto(c, "report")
    <3> DEFINE q == [p EXCEPT !.pc = "report"]
    <3>1. StepOf(c) /\ proc'[c] = q
      BY <2>1 DEF LocalInvariant, StepOf, Goto
    <3>2. q \in Process /\ q.op = p.op /\ q.fd = p.fd /\ q.pc = "report"
      BY <1>1 DEF Process, Step
    <3> QED BY <1>2, <3>1, <3>2
  <2>2. ASSUME NEW n \in 1..Smaller(Chunk, Len(data[p.fd]) - p.off),
               proc' = [proc EXCEPT
                   ![c].buf = SubSeq(data[p.fd], p.off + 1, p.off + n),
                   ![c].off = p.off + n]
        PROVE  LocalInvariant'
    <3> DEFINE b == SubSeq(data[p.fd], p.off + 1, p.off + n)
               o == p.off + n
               q == [p EXCEPT !.buf = b, !.off = o]
    <3>1. StepOf(c) /\ proc'[c] = q
      BY <2>2 DEF LocalInvariant, StepOf
    <3>2. o \in Nat
      BY <1>3
    <3>3. b \in Seq(Block)
      <4>1. data[p.fd] \in Seq(Block)
        BY <1>1 DEF Sound, NeedsDescriptor, VolumeOK
      <4>2. n \in Nat /\ p.off + n <= Len(data[p.fd])
        BY <1>3, <4>1, VolumeAssumption DEF Smaller
      <4>3. p.off + 1 \in Nat \ {0} /\ p.off + n \in Int
        BY <1>3, <4>2
      <4> HIDE DEF p
      <4> QED BY <4>1, <4>2, <4>3, SliceType
    <3>4. q \in Process /\ q.op = p.op /\ q.fd = p.fd /\ q.pc = "copy"
      <4> HIDE DEF b, o
      <4> QED BY <1>1, <3>2, <3>3 DEF Process, Step
    <3> QED BY <1>2, <3>1, <3>4
  <2> QED BY <1>4, <2>1, <2>2 DEF GlusterReadRead
<1>5. CASE GlusterReadWrite(c)
  <2>1. ASSUME NEW s \in Seq(Block)
        PROVE  /\ WriteAt(p.far.data, p.pos, s) \in Seq(Block)
               /\ [p.far EXCEPT !.data = WriteAt(@, p.pos, s)]
                     \in [exists : BOOLEAN, data : Seq(Block)]
    <3>1. WriteAt(p.far.data, p.pos, s) \in Seq(Block)
      BY <1>3, WriteAtType
    <3> QED BY <1>3, <3>1
  <2>2. CASE proc' = [proc EXCEPT
                ![c].far.data = WriteAt(@, p.pos, p.buf),
                ![c].pos = p.pos + Len(p.buf),
                ![c].buf = << >>,
                ![c].io = 1]
    <3> DEFINE f == [p.far EXCEPT !.data = WriteAt(@, p.pos, p.buf)]
               o == p.pos + Len(p.buf)
               q == [p EXCEPT !.far = f, !.pos = o, !.buf = << >>, !.io = 1]
    <3>1. StepOf(c) /\ proc'[c] = q
      BY <2>2 DEF LocalInvariant, StepOf
    <3>2. o \in Nat /\ f \in [exists : BOOLEAN, data : Seq(Block)]
      BY <1>3, <2>1
    <3>3. << >> \in Seq(Block)
      OBVIOUS
    <3>4. q \in Process /\ q.op = p.op /\ q.fd = p.fd /\ q.pc = "copy"
      <4> HIDE DEF f, o
      <4> QED BY <1>1, <3>2, <3>3 DEF Process, Step
    <3> QED BY <1>2, <3>1, <3>4
  <2>3. ASSUME NEW k \in 0..(Len(p.buf) - 1),
               proc' = [proc EXCEPT
                   ![c].far.data = WriteAt(@, p.pos, SubSeq(p.buf, 1, k)),
                   ![c].pc = "report",
                   ![c].io = -1]
        PROVE  LocalInvariant'
    <3> DEFINE b == SubSeq(p.buf, 1, k)
               f == [p.far EXCEPT !.data = WriteAt(@, p.pos, b)]
               q == [p EXCEPT !.far = f, !.pc = "report", !.io = -1]
    <3>1. StepOf(c) /\ proc'[c] = q
      BY <2>3 DEF LocalInvariant, StepOf
    <3>2. b \in Seq(Block)
      <4>1. 1 \in Nat \ {0} /\ k \in Int /\ k <= Len(p.buf)
        BY <1>3
      <4> HIDE DEF p
      <4> QED BY <1>3, <4>1, SliceType
    <3>3. f \in [exists : BOOLEAN, data : Seq(Block)]
      BY <2>1, <3>2
    <3>4. q \in Process /\ q.op = p.op /\ q.fd = p.fd /\ q.pc = "report"
      <4> HIDE DEF f
      <4> QED BY <1>1, <3>3 DEF Process, Step
    <3> QED BY <1>2, <3>1, <3>4
  <2> QED BY <1>5, <2>2, <2>3 DEF GlusterReadWrite
<1> QED BY <1>4, <1>5

(* The end of a utility or of its transfer: every lock of c goes. *)
LEMMA ReleaseKeeps ==
    ASSUME LocalInvariant, NEW c \in Client,
           NEW q \in Process, StepOf(c), proc'[c] = q,
           q.pc \in {"rm", "resize", "done", "killed"},
           lock' = Released(c), UNCHANGED <<dir, data>>
    PROVE  LocalInvariant'
<1>1. VolumeOK /\ VolumeOK'
  BY DEF LocalInvariant, VolumeOK, Released
<1>2. \A d \in Client \ {c}, i \in Inode : lock'[i] = d <=> lock[i] = d
  BY VolumeAssumption DEF Released
<1>3. \A i \in Inode : lock'[i] # c
  BY VolumeAssumption DEF Released
<1>4. Sound(c, proc'[c], lock')
  BY <1>3 DEF Sound, NeedsDescriptor, InDataPhase
<1> QED BY <1>1, <1>2, <1>4, StepOfOne

(* glfs_close releases the lock and the descriptor together. *)
LEMMA CloseKeeps ==
    ASSUME LocalInvariant, NEW c \in Client,
           NEW next \in {"rm", "resize", "done"}, Close(c, next)
    PROVE  LocalInvariant'
<1> DEFINE q == [proc[c] EXCEPT !.pc = next, !.fd = None]
<1>1. StepOf(c) /\ proc'[c] = q
  BY DEF LocalInvariant, StepOf, Close
<1>2. proc[c] \in Process
  BY DEF LocalInvariant, Sound
<1>3. q \in Process /\ q.pc = next
  BY <1>2 DEF Process, Step
<1> QED BY <1>1, <1>3, ReleaseKeeps DEF Close

(* So does the death of the process. *)
LEMMA KillKeeps ==
    ASSUME LocalInvariant, NEW c \in Client, Kill(c)
    PROVE  LocalInvariant'
<1> DEFINE q == [proc[c] EXCEPT !.pc = "killed", !.fd = None]
<1>1. StepOf(c) /\ proc'[c] = q
  BY DEF LocalInvariant, StepOf, Kill
<1>2. proc[c] \in Process
  BY DEF LocalInvariant, Sound
<1>3. q \in Process /\ q.pc = "killed"
  BY <1>2 DEF Process, Step
<1> QED BY <1>1, <1>3, ReleaseKeeps DEF Kill

-----------------------------------------------------------------------------
(* c moves to step l with result r and keeps the rest. *)
Moves(c, l, r) ==
    StepOf(c) /\ proc'[c] = [proc[c] EXCEPT !.pc = l, !.ret = r]

(* Goto and FailTo move the program counter and the result, nothing else. *)
LEMMA GotoMoves ==
    ASSUME LocalInvariant, NEW c \in Client, NEW l
    PROVE  /\ Goto(c, l) => Moves(c, l, proc[c].ret)
           /\ FailTo(c, l) => Moves(c, l, -1)
<1>1. proc[c] \in Process /\ c \in DOMAIN proc
  BY DEF LocalInvariant, Sound
<1>2. ASSUME Goto(c, l) PROVE Moves(c, l, proc[c].ret)
  <2>1. StepOf(c) /\ proc'[c] = [proc[c] EXCEPT !.pc = l]
    BY <1>1, <1>2 DEF Goto, StepOf
  <2>2. [proc[c] EXCEPT !.pc = l] = [proc[c] EXCEPT !.pc = l, !.ret = proc[c].ret]
    BY <1>1 DEF Process
  <2> QED BY <2>1, <2>2 DEF Moves
<1>3. ASSUME FailTo(c, l) PROVE Moves(c, l, -1)
  BY <1>1, <1>3 DEF FailTo, StepOf, Moves
<1> QED BY <1>2, <1>3

(* A process at a step where it owns no lock. *)
Unlocked(c) == ~MayOwnLock(proc[c])

(* Such a process may change the volume, and its own state as long as it   *)
(* does not enter the data phase and has the descriptor it needs.          *)
LEMMA UnlockedStep ==
    ASSUME LocalInvariant, NEW c \in Client, Unlocked(c),
           NEW q \in Process, StepOf(c), proc'[c] = q,
           ~InDataPhase(q), NeedsDescriptor(q) => q.fd \in Inode,
           dir' \in Inode \cup {None}, data' \in [Inode -> Seq(Block)],
           UNCHANGED lock
    PROVE  LocalInvariant'
<1>1. \A i \in Inode : lock[i] # c
  BY DEF LocalInvariant, Sound, Unlocked
<1>2. Sound(c, q, lock)
  BY <1>1 DEF Sound
<1> QED BY <1>2, QuietStep

(* A step before the lock that only moves. *)
LEMMA MoveBeforeLock ==
    ASSUME LocalInvariant, NEW c \in Client, Unlocked(c),
           NEW l \in Step \ {"truncate", "seek", "copy", "report"},
           NEW r \in {-1, 0, 1}, Moves(c, l, r),
           \/ proc[c].fd \in Inode
           \/ l # "lock" /\ (l = "local" => proc[c].op \notin {"cp_out", "mv_out"})
                         /\ (l = "creat" => proc[c].op # "rr_out"),
           dir' \in Inode \cup {None}, data' \in [Inode -> Seq(Block)],
           UNCHANGED lock
    PROVE  LocalInvariant'
<1> DEFINE q == [proc[c] EXCEPT !.pc = l, !.ret = r]
<1>1. proc[c] \in Process
  BY DEF LocalInvariant, Sound
<1>2. q \in Process /\ q.op = proc[c].op /\ q.pc = l /\ q.fd = proc[c].fd
  BY <1>1 DEF Process
<1>3. ~InDataPhase(q) /\ (NeedsDescriptor(q) => q.fd \in Inode)
  BY <1>2 DEF InDataPhase, NeedsDescriptor
<1>4. StepOf(c) /\ proc'[c] = q
  BY DEF Moves
<1> HIDE DEF q
<1> QED BY <1>2, <1>3, <1>4, UnlockedStep

(* A step before the lock that opens the file. *)
LEMMA OpenBeforeLock ==
    ASSUME LocalInvariant, NEW c \in Client, Unlocked(c),
           NEW i \in Inode, NEW l \in {"lock", "local", "creat", "copy"},
           Opened(c, i, l),
           l = "copy" => proc[c].op \notin Locker,
           dir' \in Inode \cup {None}, UNCHANGED <<data, lock>>
    PROVE  LocalInvariant'
<1> DEFINE q == [proc[c] EXCEPT !.pc = l, !.fd = i, !.off = 0]
<1>1. proc[c] \in Process /\ c \in DOMAIN proc
  BY DEF LocalInvariant, Sound
<1>2. q \in Process /\ q.op = proc[c].op /\ q.pc = l /\ q.fd = i
  BY <1>1 DEF Process, Step
<1>3. ~InDataPhase(q) /\ (NeedsDescriptor(q) => q.fd \in Inode)
  BY <1>2 DEF InDataPhase, NeedsDescriptor
<1>4. StepOf(c) /\ proc'[c] = q
  BY <1>1 DEF Opened, StepOf
<1>5. data' \in [Inode -> Seq(Block)]
  BY DEF LocalInvariant, VolumeOK
<1> HIDE DEF q
<1> QED BY <1>2, <1>3, <1>4, <1>5, UnlockedStep

(* From the data phase on, a process only moves forward to its close. *)
LEMMA MoveUnderLock ==
    ASSUME LocalInvariant, NEW c \in Client, InDataPhase(proc[c]),
           NEW l \in {"copy", "close"}, NEW q \in Process,
           StepOf(c), proc'[c] = q, q.op = proc[c].op, q.fd = proc[c].fd, q.pc = l,
           UNCHANGED volume
    PROVE  LocalInvariant'
<1>1. Sound(c, proc[c], lock) /\ VolumeOK
  BY DEF LocalInvariant
<1>2. Sound(c, q, lock)
  BY <1>1 DEF Sound, InDataPhase, NeedsDescriptor, MayOwnLock
<1> QED BY <1>1, <1>2, QuietStep DEF VolumeOK, volume

(* The end of a copy loop: ret is settled, and the close follows. *)
LEMMA ReportKeeps ==
    ASSUME LocalInvariant, NEW c \in Client,
           proc[c].op \in Locker, proc[c].pc = "report",
           NEW r \in {-1, 0, 1}, Moves(c, "close", r), UNCHANGED volume
    PROVE  LocalInvariant'
<1> DEFINE q == [proc[c] EXCEPT !.pc = "close", !.ret = r]
<1>1. proc[c] \in Process
  BY DEF LocalInvariant, Sound
<1>2. q \in Process /\ q.op = proc[c].op /\ q.fd = proc[c].fd /\ q.pc = "close"
  BY <1>1 DEF Process, Step
<1>3. InDataPhase(proc[c]) /\ StepOf(c) /\ proc'[c] = q
  BY DEF InDataPhase, Moves
<1> HIDE DEF q
<1> QED BY <1>2, <1>3, MoveUnderLock

-----------------------------------------------------------------------------
(* The steps of the utilities. *)
LEMMA Typed ==
    ASSUME LocalInvariant, NEW c \in Client
    PROVE  /\ proc[c] \in Process
           /\ dir \in Inode \cup {None}
           /\ data \in [Inode -> Seq(Block)]
           /\ Created(c) \in Inode
           /\ CanOpen => dir \in Inode
BY DEF LocalInvariant, Sound, VolumeOK, Created, CanOpen, Inode

(* Every step of gfput. *)
LEMMA PutKeeps ==
    ASSUME LocalInvariant, NEW c \in Client, PutNext(c)
    PROVE  LocalInvariant'
<1>1. /\ proc[c].ret \in {-1, 0, 1} /\ proc[c].op \in Op
      /\ dir \in Inode \cup {None} /\ data \in [Inode -> Seq(Block)]
  BY Typed DEF Process
<1>2. CASE PutLstat(c)
  <2>1. Unlocked(c) /\ UNCHANGED volume
    BY <1>2 DEF PutLstat, Unlocked, MayOwnLock, InDataPhase
  <2>2. Moves(c, "creat", proc[c].ret) \/ Moves(c, "done", -1)
    BY <1>2, GotoMoves DEF PutLstat
  <2>3. proc[c].op # "rr_out"
    BY <1>2 DEF PutLstat, PutOp
  <2> QED BY <1>1, <2>1, <2>2, <2>3, MoveBeforeLock DEF volume, Step
<1>3. CASE PutCreat(c)
  <2>1. Unlocked(c) /\ UNCHANGED <<data, lock>>
    BY <1>3 DEF PutCreat, Unlocked, MayOwnLock, InDataPhase
  <2>2. CASE dir' = Created(c) /\ Opened(c, Created(c), "lock")
    BY <2>1, <2>2, Typed, OpenBeforeLock
  <2>3. CASE FailTo(c, "done") /\ UNCHANGED dir
    <3>1. Moves(c, "done", -1)
      BY <2>3, GotoMoves
    <3> QED BY <1>1, <2>1, <2>3, <3>1, MoveBeforeLock DEF Step
  <2> QED BY <1>3, <2>2, <2>3 DEF PutCreat
<1>4. CASE PutLock(c)
  BY <1>4, GlusterLockKeeps DEF PutLock, PutOp, Locker, WriteOp
<1>5. CASE PutSeek(c)
  <2>1. InDataPhase(proc[c]) /\ UNCHANGED volume
    BY <1>5 DEF PutSeek, InDataPhase, Locker, WriteOp
  <2>2. CASE proc' = [proc EXCEPT ![c].pc = "copy", ![c].ret = 0,
                                  ![c].off = Len(data[proc[c].fd])]
    <3> DEFINE n == Len(data[proc[c].fd])
               q == [proc[c] EXCEPT !.pc = "copy", !.ret = 0, !.off = n]
    <3>1. StepOf(c) /\ proc'[c] = q
      BY <2>2 DEF LocalInvariant, StepOf
    <3>2. n \in Nat
      <4>1. proc[c].fd \in Inode
        BY <2>1 DEF LocalInvariant, Sound, InDataPhase, NeedsDescriptor
      <4> QED BY <1>1, <4>1
    <3>3. q \in Process /\ q.op = proc[c].op /\ q.fd = proc[c].fd /\ q.pc = "copy"
      <4> HIDE DEF n
      <4> QED BY <3>2, Typed DEF Process, Step
    <3> HIDE DEF q
    <3> QED BY <2>1, <3>1, <3>3, MoveUnderLock
  <2>3. CASE FailTo(c, "close")
    <3> DEFINE q == [proc[c] EXCEPT !.pc = "close", !.ret = -1]
    <3>1. StepOf(c) /\ proc'[c] = q
      BY <2>3 DEF LocalInvariant, StepOf, FailTo
    <3>2. q \in Process /\ q.op = proc[c].op /\ q.fd = proc[c].fd /\ q.pc = "close"
      BY Typed DEF Process, Step
    <3> HIDE DEF q
    <3> QED BY <2>1, <3>1, <3>2, MoveUnderLock
  <2> QED BY <1>5, <2>2, <2>3 DEF PutSeek
<1>6. CASE PutTruncate(c)
  BY <1>6, FtruncateKeeps DEF PutTruncate, Locker, WriteOp
<1>7. CASE PutCopy(c)
  BY <1>7, GlusterWriteKeeps DEF PutCopy, PutOp, WriteOp
<1>8. CASE PutReport(c)
  <2>1. proc[c].op \in Locker /\ proc[c].pc = "report" /\ UNCHANGED volume
    BY <1>8 DEF PutReport, PutOp, Locker, WriteOp
  <2>2. Moves(c, "close", -1) \/ Moves(c, "close", proc[c].ret)
    BY <1>8, GotoMoves DEF PutReport
  <2> QED BY <1>1, <2>1, <2>2, ReportKeeps
<1>9. CASE PutClose(c)
  BY <1>9, CloseKeeps DEF PutClose
<1> QED
  BY <1>2, <1>3, <1>4, <1>5, <1>6, <1>7, <1>8, <1>9 DEF PutNext

(* gfcp or gfmv of a local file to the path, whatever its caller does next. *)
LEMMA LocalToRemoteKeeps ==
    ASSUME LocalInvariant, NEW c \in Client,
           NEW ops \in SUBSET {"cp_in", "mv_in"}, NEW exit \in {"rm", "done"},
           LocalToRemote(c, ops, exit)
    PROVE  LocalInvariant'
<1>1. /\ proc[c].ret \in {-1, 0, 1}
      /\ dir \in Inode \cup {None} /\ data \in [Inode -> Seq(Block)]
  BY Typed DEF Process
<1>2. proc[c].op \in {"cp_in", "mv_in"} /\ proc[c].op \in ops
  BY DEF LocalToRemote, LocalToRemoteOpen, LocalToRemoteCreat,
         LocalToRemoteReport, Runs
<1>3. CASE LocalToRemoteOpen(c, ops, exit)
  <2>1. Unlocked(c) /\ UNCHANGED volume
    BY <1>3 DEF LocalToRemoteOpen, Runs, Unlocked, MayOwnLock, InDataPhase
  <2>2. Moves(c, "creat", proc[c].ret) \/ Moves(c, exit, -1)
    BY <1>3, GotoMoves DEF LocalToRemoteOpen
  <2> QED BY <1>1, <1>2, <2>1, <2>2, MoveBeforeLock DEF volume, Step
<1>4. CASE LocalToRemoteCreat(c, ops, exit)
  <2>1. Unlocked(c) /\ UNCHANGED <<data, lock>>
    BY <1>4 DEF LocalToRemoteCreat, Runs, Unlocked, MayOwnLock, InDataPhase
  <2>2. CASE dir' = Created(c) /\ Opened(c, Created(c), "lock")
    BY <2>1, <2>2, Typed, OpenBeforeLock
  <2>3. CASE FailTo(c, exit) /\ UNCHANGED dir
    <3>1. Moves(c, exit, -1)
      BY <2>3, GotoMoves
    <3> QED BY <1>1, <2>1, <2>3, <3>1, MoveBeforeLock DEF Step
  <2> QED BY <1>4, <2>2, <2>3 DEF LocalToRemoteCreat
<1>5. CASE GlusterLock(c, "truncate")
  BY <1>2, <1>5, GlusterLockKeeps DEF Locker, WriteOp
<1>6. CASE FtruncateToZero(c, "copy")
  BY <1>2, <1>6, FtruncateKeeps DEF Locker, WriteOp
<1>7. CASE GlusterWriteRead(c) \/ GlusterWriteWrite(c)
  BY <1>2, <1>7, GlusterWriteKeeps DEF WriteOp
<1>8. CASE LocalToRemoteReport(c, ops)
  <2>1. proc[c].op \in Locker /\ proc[c].pc = "report" /\ UNCHANGED volume
    BY <1>2, <1>8 DEF LocalToRemoteReport, Runs, Locker, WriteOp
  <2>2. Moves(c, "close", -1) \/ Moves(c, "close", proc[c].ret)
    BY <1>8, GotoMoves DEF LocalToRemoteReport
  <2> QED BY <1>1, <2>1, <2>2, ReportKeeps
<1>9. CASE Close(c, exit)
  BY <1>9, CloseKeeps
<1> QED
  BY <1>3, <1>4, <1>5, <1>6, <1>7, <1>8, <1>9 DEF LocalToRemote

(* gfcp or gfmv of the path to a local file. *)
LEMMA RemoteToLocalKeeps ==
    ASSUME LocalInvariant, NEW c \in Client,
           NEW ops \in SUBSET {"cp_out", "mv_out"}, NEW exit \in {"rm", "done"},
           RemoteToLocal(c, ops, exit)
    PROVE  LocalInvariant'
<1> DEFINE p == proc[c]
<1>1. /\ p \in Process
      /\ dir \in Inode \cup {None} /\ data \in [Inode -> Seq(Block)]
  BY Typed
<1>2. p.op \in {"cp_out", "mv_out"} /\ p.op \in ops
  BY DEF RemoteToLocal, RemoteToLocalStat, RemoteToLocalOpen,
         RemoteToLocalCreat, RemoteToLocalReport, Runs
<1>3. CASE RemoteToLocalStat(c, ops)
  <2>1. Unlocked(c) /\ UNCHANGED volume
    BY <1>3 DEF RemoteToLocalStat, Runs, Unlocked, MayOwnLock, InDataPhase
  <2>2. \E r \in {-1, 0} : Moves(c, "open", r)
    BY <1>1, <1>3 DEF RemoteToLocalStat, Moves, LocalInvariant, StepOf
  <2> QED BY <1>1, <2>1, <2>2, MoveBeforeLock DEF volume, Step
<1>4. CASE RemoteToLocalOpen(c, ops, exit)
  <2>1. Unlocked(c) /\ UNCHANGED volume
    BY <1>4 DEF RemoteToLocalOpen, Runs, Unlocked, MayOwnLock, InDataPhase
  <2>2. CASE CanOpen /\ Opened(c, dir, "local")
    BY <1>1, <2>1, <2>2, Typed, OpenBeforeLock DEF volume
  <2>3. CASE Goto(c, exit)
    <3>1. Moves(c, exit, p.ret) /\ p.ret \in {-1, 0, 1}
      BY <1>1, <2>3, GotoMoves DEF Process
    <3> QED BY <1>1, <2>1, <3>1, MoveBeforeLock DEF Step, volume
  <2> QED BY <1>4, <2>2, <2>3 DEF RemoteToLocalOpen
<1>5. CASE RemoteToLocalCreat(c, ops)
  <2>1. Unlocked(c) /\ UNCHANGED volume /\ p.fd \in Inode
    BY <1>2, <1>5
    DEF RemoteToLocalCreat, Runs, Unlocked, MayOwnLock, InDataPhase,
        LocalInvariant, Sound, NeedsDescriptor
  <2>2. CASE proc' = [proc EXCEPT ![c].pc = "lock", ![c].far.exists = TRUE]
    <3> DEFINE f == [p.far EXCEPT !.exists = TRUE]
               q == [p EXCEPT !.pc = "lock", !.far = f]
    <3>1. StepOf(c) /\ proc'[c] = q
      BY <2>2 DEF LocalInvariant, StepOf
    <3>2. f \in [exists : BOOLEAN, data : Seq(Block)]
      BY <1>1 DEF Process
    <3>3. q \in Process /\ q.pc = "lock" /\ q.fd \in Inode
      <4> HIDE DEF f
      <4> QED BY <1>1, <2>1, <3>2 DEF Process, Step
    <3> HIDE DEF q
    <3> QED BY <1>1, <2>1, <3>1, <3>3, UnlockedStep DEF volume, InDataPhase
  <2>3. CASE Goto(c, "close")
    <3>1. Moves(c, "close", p.ret) /\ p.ret \in {-1, 0, 1}
      BY <1>1, <2>3, GotoMoves DEF Process
    <3> QED BY <1>1, <2>1, <3>1, MoveBeforeLock DEF Step, volume
  <2> QED BY <1>5, <2>2, <2>3 DEF RemoteToLocalCreat
<1>6. CASE GlusterLock(c, "copy")
  BY <1>2, <1>6, GlusterLockKeeps DEF Locker, ReadOp
<1>7. CASE GlusterReadRead(c) \/ GlusterReadWrite(c)
  BY <1>2, <1>7, GlusterReadKeeps DEF ReadOp
<1>8. CASE RemoteToLocalReport(c, ops)
  <2>1. p.op \in Locker /\ p.pc = "report" /\ UNCHANGED volume
    BY <1>2, <1>8 DEF RemoteToLocalReport, Runs, Locker, ReadOp
  <2>2. Moves(c, "close", p.io) /\ p.io \in {-1, 0, 1}
    BY <1>1, <1>8
    DEF RemoteToLocalReport, Process, Moves, LocalInvariant, StepOf
  <2> QED BY <2>1, <2>2, ReportKeeps
<1>9. CASE Close(c, exit)
  BY <1>9, CloseKeeps
<1> QED
  BY <1>3, <1>4, <1>5, <1>6, <1>7, <1>8, <1>9 DEF RemoteToLocal

(* gfcp between two remote files never owns a lock; its descriptor of the  *)
(* path is open from the moment it creates (rr_in) or opens (rr_out) it.   *)
LEMMA RemoteToRemoteKeeps ==
    ASSUME LocalInvariant, NEW c \in Client, RemoteToRemote(c)
    PROVE  LocalInvariant'
<1> DEFINE p == proc[c]
<1>1. /\ p \in Process /\ Sound(c, p, lock)
      /\ dir \in Inode \cup {None} /\ data \in [Inode -> Seq(Block)]
      /\ p.ret \in {-1, 0, 1} /\ p.pos \in Nat /\ p.off \in Nat
      /\ p.buf \in Seq(Block) /\ p.far \in [exists : BOOLEAN, data : Seq(Block)]
  BY Typed DEF LocalInvariant, Process
<1>2. p.op \in {"rr_in", "rr_out"}
  BY DEF RemoteToRemote, RemoteToRemoteLstat, RemoteToRemoteOpen,
         RemoteToRemoteCreat, RemoteToRemoteRead, RemoteToRemoteWrite, Runs
<1>3. CASE RemoteToRemoteLstat(c)
  <2>1. Unlocked(c) /\ UNCHANGED volume
    BY <1>3 DEF RemoteToRemoteLstat, Runs, Unlocked, MayOwnLock, InDataPhase
  <2>2. \E r \in {-1, 0} : Moves(c, "open", r)
    BY <1>3 DEF RemoteToRemoteLstat, Moves, LocalInvariant, StepOf
  <2> QED BY <1>1, <2>1, <2>2, MoveBeforeLock DEF volume, Step
<1>4. CASE RemoteToRemoteOpen(c)
  <2>1. Unlocked(c) /\ UNCHANGED volume
    BY <1>4 DEF RemoteToRemoteOpen, Runs, Unlocked, MayOwnLock, InDataPhase
  <2>2. CASE p.op = "rr_in" /\ Goto(c, "creat")
    <3>1. Moves(c, "creat", p.ret)
      BY <2>2, GotoMoves
    <3> QED BY <1>1, <2>1, <2>2, <3>1, MoveBeforeLock DEF Step, volume
  <2>3. CASE CanOpen /\ Opened(c, dir, "creat")
    BY <1>1, <2>1, <2>3, Typed, OpenBeforeLock DEF volume
  <2>4. CASE Goto(c, "done")
    <3>1. Moves(c, "done", p.ret)
      BY <2>4, GotoMoves
    <3> QED BY <1>1, <2>1, <3>1, MoveBeforeLock DEF Step, volume
  <2> QED BY <1>2, <1>4, <2>2, <2>3, <2>4 DEF RemoteToRemoteOpen
<1>5. CASE RemoteToRemoteCreat(c)
  <2>1. Unlocked(c) /\ UNCHANGED <<data, lock>>
    BY <1>5 DEF RemoteToRemoteCreat, Runs, Unlocked, MayOwnLock, InDataPhase
  <2>2. CASE dir' = Created(c) /\ Opened(c, Created(c), "copy")
    BY <1>2, <2>1, <2>2, Typed, OpenBeforeLock DEF Locker, WriteOp, ReadOp
  <2>3. CASE /\ p.op = "rr_out" /\ UNCHANGED dir
             /\ proc' = [proc EXCEPT ![c].pc = "copy", ![c].far.exists = TRUE]
    <3> DEFINE f == [p.far EXCEPT !.exists = TRUE]
               q == [p EXCEPT !.pc = "copy", !.far = f]
    <3>1. StepOf(c) /\ proc'[c] = q
      BY <2>3 DEF LocalInvariant, StepOf
    <3>2. f \in [exists : BOOLEAN, data : Seq(Block)]
      BY <1>1
    <3>3. p.fd \in Inode
      BY <1>1, <1>5, <2>3
      DEF Sound, NeedsDescriptor, RemoteToRemoteCreat, Runs
    <3>4. q \in Process /\ q.op = "rr_out" /\ q.fd \in Inode
      <4> HIDE DEF f
      <4> QED BY <1>1, <2>3, <3>2, <3>3 DEF Process, Step
    <3>5. ~InDataPhase(q)
      <4> HIDE DEF q
      <4> QED BY <3>4 DEF InDataPhase, Locker, WriteOp, ReadOp
    <3> HIDE DEF q
    <3> QED BY <1>1, <2>1, <2>3, <3>1, <3>4, <3>5, UnlockedStep
  <2>4. CASE Goto(c, "close") /\ UNCHANGED dir
    <3>1. Moves(c, "close", p.ret)
      BY <2>4, GotoMoves
    <3> QED BY <1>1, <2>1, <2>4, <3>1, MoveBeforeLock DEF Step
  <2> QED BY <1>5, <2>2, <2>3, <2>4 DEF RemoteToRemoteCreat
<1>6. ASSUME p.pc = "copy", NEW q \in Process, StepOf(c), proc'[c] = q,
             q.op = p.op, q.fd = p.fd, UNCHANGED <<dir, lock>>,
             data' \in [Inode -> Seq(Block)]
      PROVE  LocalInvariant'
  <2>1. Unlocked(c) /\ ~InDataPhase(q) /\ p.fd \in Inode
    BY <1>1, <1>2, <1>6
    DEF Sound, NeedsDescriptor, Unlocked, MayOwnLock, InDataPhase, Locker,
        WriteOp, ReadOp
  <2> QED BY <1>1, <1>6, <2>1, UnlockedStep
<1>7. ASSUME NEW l \in {"close"}, NEW r \in {-1, 0, 1}, Moves(c, l, r),
             p.pc = "copy", UNCHANGED volume
      PROVE  LocalInvariant'
  <2>1. Unlocked(c)
    BY <1>2, <1>7
    DEF Unlocked, MayOwnLock, InDataPhase, Locker, WriteOp, ReadOp
  <2> QED BY <1>1, <1>7, <2>1, MoveBeforeLock DEF Step, volume
<1>8. CASE RemoteToRemoteRead(c)
  <2> DEFINE src == IF p.op = "rr_in" THEN p.far.data ELSE data[p.fd]
             at == IF p.op = "rr_in" THEN p.pos ELSE p.off
  <2>1. p.pc = "copy" /\ UNCHANGED volume /\ p.fd \in Inode
    BY <1>1, <1>8 DEF RemoteToRemoteRead, Runs, Sound, NeedsDescriptor
  <2>2. CASE Goto(c, "close") \/ FailTo(c, "close")
    BY <1>1, <1>7, <2>1, <2>2, GotoMoves
  <2>3. ASSUME NEW n \in 1..Smaller(Chunk, Len(src) - at),
               proc' = [proc EXCEPT ![c] =
                   IF p.op = "rr_in"
                   THEN [p EXCEPT !.buf = SubSeq(src, at + 1, at + n),
                                  !.pos = at + n]
                   ELSE [p EXCEPT !.buf = SubSeq(src, at + 1, at + n),
                                  !.off = at + n]]
        PROVE  LocalInvariant'
    <3> DEFINE b == SubSeq(src, at + 1, at + n)
               o == at + n
               q == IF p.op = "rr_in" THEN [p EXCEPT !.buf = b, !.pos = o]
                                      ELSE [p EXCEPT !.buf = b, !.off = o]
    <3>1. StepOf(c) /\ proc'[c] = q
      BY <2>3 DEF LocalInvariant, StepOf
    <3>2. src \in Seq(Block) /\ at \in Nat
      BY <1>1, <2>1
    <3>3. n \in Nat /\ o \in Nat /\ b \in Seq(Block)
      <4> HIDE DEF src, at
      <4>1. n \in Nat /\ at + n <= Len(src)
        BY <3>2, VolumeAssumption DEF Smaller
      <4>2. at + 1 \in Nat \ {0} /\ at + n \in Int
        BY <3>2, <4>1
      <4> QED BY <3>2, <4>1, <4>2, SliceType
    <3>4. q \in Process /\ q.op = p.op /\ q.fd = p.fd
      <4> HIDE DEF b, o
      <4> QED BY <1>1, <3>3 DEF Process
    <3> HIDE DEF q
    <3> QED BY <1>1, <1>6, <2>1, <3>1, <3>4 DEF volume
  <2> QED BY <1>8, <2>2, <2>3 DEF RemoteToRemoteRead
<1>9. CASE RemoteToRemoteWrite(c)
  <2>1. p.pc = "copy" /\ UNCHANGED <<dir, lock>> /\ p.fd \in Inode
    BY <1>1, <1>9 DEF RemoteToRemoteWrite, Runs, Sound, NeedsDescriptor
  <2>2. CASE FailTo(c, "close") /\ UNCHANGED data
    BY <1>7, <2>1, <2>2, GotoMoves DEF volume
  <2>3. ASSUME NEW k \in 1..Len(p.buf)
        PROVE  /\ SubSeq(p.buf, 1, k) \in Seq(Block)
               /\ SubSeq(p.buf, k + 1, Len(p.buf)) \in Seq(Block)
    <3>1. 1 \in Nat \ {0} /\ k + 1 \in Nat \ {0} /\ k \in Int
          /\ Len(p.buf) \in Int /\ k <= Len(p.buf)
      BY <1>1
    <3> HIDE DEF p
    <3> QED BY <1>1, <3>1, SliceType
  <2>4. ASSUME NEW k \in 1..Len(p.buf), p.op = "rr_in",
               data' = [data EXCEPT ![p.fd] =
                            WriteAt(@, p.off, SubSeq(p.buf, 1, k))],
               proc' = [proc EXCEPT ![c] =
                   [[p EXCEPT !.buf = SubSeq(@, k + 1, Len(@)), !.ret = 1]
                      EXCEPT !.off = @ + k]]
        PROVE  LocalInvariant'
    <3> DEFINE b == SubSeq(p.buf, 1, k)
               r == SubSeq(p.buf, k + 1, Len(p.buf))
               o == p.off + k
               q == [p EXCEPT !.buf = r, !.ret = 1, !.off = o]
               w == WriteAt(data[p.fd], p.off, b)
    <3>1. StepOf(c) /\ proc'[c] = q
      BY <1>1, <2>4 DEF LocalInvariant, StepOf, Process
    <3>2. b \in Seq(Block) /\ r \in Seq(Block) /\ o \in Nat
      BY <1>1, <2>3
    <3>3. q \in Process /\ q.op = p.op /\ q.fd = p.fd
      <4> HIDE DEF r, o
      <4> QED BY <1>1, <3>2 DEF Process
    <3>4. data' = [data EXCEPT ![p.fd] = w]
      BY <2>4
    <3>5. w \in Seq(Block)
      <4>1. data[p.fd] \in Seq(Block)
        BY <1>1, <2>1
      <4> HIDE DEF b
      <4> QED BY <1>1, <3>2, <4>1, WriteAtType
    <3>6. data' \in [Inode -> Seq(Block)]
      <4> HIDE DEF w
      <4> QED BY <1>1, <3>4, <3>5
    <3> HIDE DEF q
    <3> QED BY <1>6, <2>1, <3>1, <3>3, <3>6
  <2>5. ASSUME NEW k \in 1..Len(p.buf), p.op = "rr_out", UNCHANGED data,
               proc' = [proc EXCEPT ![c] =
                   [[p EXCEPT !.buf = SubSeq(@, k + 1, Len(@)), !.ret = 1]
                      EXCEPT !.far.data = WriteAt(@, p.pos, SubSeq(p.buf, 1, k)),
                             !.pos = @ + k]]
        PROVE  LocalInvariant'
    <3> DEFINE b == SubSeq(p.buf, 1, k)
               r == SubSeq(p.buf, k + 1, Len(p.buf))
               f == [p.far EXCEPT !.data = WriteAt(@, p.pos, b)]
               o == p.pos + k
               q == [p EXCEPT !.buf = r, !.ret = 1, !.far = f, !.pos = o]
    <3>1. StepOf(c) /\ proc'[c] = q
      BY <1>1, <2>5 DEF LocalInvariant, StepOf, Process
    <3>2. b \in Seq(Block) /\ r \in Seq(Block) /\ o \in Nat
      BY <1>1, <2>3
    <3>3. f \in [exists : BOOLEAN, data : Seq(Block)]
      <4> HIDE DEF b
      <4>1. WriteAt(p.far.data, p.pos, b) \in Seq(Block)
        BY <1>1, <3>2, WriteAtType
      <4> QED BY <1>1, <4>1
    <3>4. q \in Process /\ q.op = p.op /\ q.fd = p.fd
      <4> HIDE DEF r, o, f
      <4> QED BY <1>1, <3>2, <3>3 DEF Process
    <3> HIDE DEF q
    <3> QED BY <1>1, <1>6, <2>1, <2>5, <3>1, <3>4
  <2> QED BY <1>2, <1>9, <2>2, <2>4, <2>5 DEF RemoteToRemoteWrite
<1>10. CASE Close(c, "done")
  BY <1>10, CloseKeeps
<1> QED
  BY <1>3, <1>4, <1>5, <1>8, <1>9, <1>10 DEF RemoteToRemote

(* gfcp. *)
LEMMA CpKeeps ==
    ASSUME LocalInvariant, NEW c \in Client, CpNext(c)
    PROVE  LocalInvariant'
<1>1. CASE LocalToRemote(c, {"cp_in"}, "done")
  BY <1>1, LocalToRemoteKeeps
<1>2. CASE RemoteToLocal(c, {"cp_out"}, "done")
  BY <1>2, RemoteToLocalKeeps
<1> QED BY <1>1, <1>2, RemoteToRemoteKeeps DEF CpNext

(* gfmv: a process that is removing its source has given its lock back. *)
LEMMA MvKeeps ==
    ASSUME LocalInvariant, NEW c \in Client, MvNext(c)
    PROVE  LocalInvariant'
<1> DEFINE p == proc[c]
<1>1. /\ p \in Process /\ p.far \in [exists : BOOLEAN, data : Seq(Block)]
      /\ dir \in Inode \cup {None} /\ data \in [Inode -> Seq(Block)]
  BY Typed DEF Process
<1>2. CASE MvLocalToRemote(c)
  BY <1>2, LocalToRemoteKeeps DEF MvLocalToRemote
<1>3. CASE MvRemoteToLocal(c)
  BY <1>3, RemoteToLocalKeeps DEF MvRemoteToLocal
<1>4. CASE MvRmLocal(c)
  <2>1. Unlocked(c) /\ UNCHANGED volume
    BY <1>4 DEF MvRmLocal, Runs, Unlocked, MayOwnLock, InDataPhase
  <2>2. CASE proc' = [proc EXCEPT ![c].pc = "done", ![c].ret = 0,
                                  ![c].far.exists = FALSE]
    <3> DEFINE f == [p.far EXCEPT !.exists = FALSE]
               q == [p EXCEPT !.pc = "done", !.ret = 0, !.far = f]
    <3>1. StepOf(c) /\ proc'[c] = q
      BY <2>2 DEF LocalInvariant, StepOf
    <3>2. f \in [exists : BOOLEAN, data : Seq(Block)]
      BY <1>1
    <3>3. q \in Process /\ q.pc = "done" /\ q.op = "mv_in"
      <4> HIDE DEF f
      <4> QED BY <1>1, <1>4, <3>2 DEF Process, Step, MvRmLocal, Runs
    <3> HIDE DEF q
    <3> QED
      BY <1>1, <2>1, <3>1, <3>3, UnlockedStep
      DEF volume, InDataPhase, NeedsDescriptor
  <2>3. CASE FailTo(c, "done")
    <3>1. Moves(c, "done", -1)
      BY <2>3, GotoMoves
    <3> QED BY <1>1, <2>1, <3>1, MoveBeforeLock DEF Step, volume
  <2> QED BY <1>4, <2>2, <2>3 DEF MvRmLocal
<1>5. CASE MvRmRemote(c)
  <2>1. Unlocked(c) /\ UNCHANGED <<data, lock>>
    BY <1>5 DEF MvRmRemote, Runs, Unlocked, MayOwnLock, InDataPhase
  <2>2. dir' \in Inode \cup {None}
    BY <1>1, <1>5 DEF MvRmRemote, Unlink
  <2>3. Moves(c, "done", 0) \/ Moves(c, "done", -1)
    BY <1>5, GotoMoves DEF MvRmRemote, Moves, LocalInvariant, StepOf
  <2> QED BY <1>1, <2>1, <2>2, <2>3, MoveBeforeLock DEF Step
<1> QED BY <1>2, <1>3, <1>4, <1>5 DEF MvNext

(* gfcat. *)
LEMMA CatKeeps ==
    ASSUME LocalInvariant, NEW c \in Client, CatNext(c)
    PROVE  LocalInvariant'
<1> DEFINE p == proc[c]
<1>1. /\ p \in Process /\ p.ret \in {-1, 0, 1}
      /\ dir \in Inode \cup {None} /\ data \in [Inode -> Seq(Block)]
  BY Typed DEF Process
<1>2. CASE CatOpen(c)
  <2>1. Unlocked(c) /\ UNCHANGED volume
    BY <1>2 DEF CatOpen, Unlocked, MayOwnLock, InDataPhase
  <2>2. CASE CanOpen /\ Opened(c, dir, "lock")
    BY <1>1, <2>1, <2>2, Typed, OpenBeforeLock DEF volume
  <2>3. CASE FailTo(c, "done")
    <3>1. Moves(c, "done", -1)
      BY <2>3, GotoMoves
    <3> QED BY <1>1, <2>1, <3>1, MoveBeforeLock DEF Step, volume
  <2> QED BY <1>2, <2>2, <2>3 DEF CatOpen
<1>3. CASE CatLock(c)
  BY <1>3, GlusterLockKeeps DEF CatLock, Locker, ReadOp
<1>4. CASE CatCopy(c)
  BY <1>4, GlusterReadKeeps DEF CatCopy, ReadOp
<1>5. CASE CatReport(c)
  <2>1. p.op \in Locker /\ p.pc = "report" /\ UNCHANGED volume
    BY <1>5 DEF CatReport, Locker, ReadOp
  <2>2. \E r \in {-1, 0} : Moves(c, "close", r)
    BY <1>5 DEF CatReport, Moves, LocalInvariant, StepOf
  <2> QED BY <2>1, <2>2, ReportKeeps
<1>6. CASE CatClose(c)
  <2>1. \E r \in {-1, 0, 1} :
            proc' = [proc EXCEPT ![c].pc = "done", ![c].fd = None, ![c].ret = r]
    BY <1>1, <1>6 DEF CatClose
  <2>2. PICK r \in {-1, 0, 1} :
            proc' = [proc EXCEPT ![c].pc = "done", ![c].fd = None, ![c].ret = r]
    BY <2>1
  <2> DEFINE q == [p EXCEPT !.pc = "done", !.fd = None, !.ret = r]
  <2>3. StepOf(c) /\ proc'[c] = q
    BY <2>2 DEF LocalInvariant, StepOf
  <2>4. q \in Process /\ q.pc = "done"
    BY <1>1 DEF Process, Step
  <2> HIDE DEF q
  <2> QED BY <1>6, <2>3, <2>4, ReleaseKeeps DEF CatClose
<1> QED BY <1>2, <1>3, <1>4, <1>5, <1>6 DEF CatNext

(* gftruncate, and the truncate command of the shell. *)
LEMMA TruncateKeeps ==
    ASSUME LocalInvariant, NEW c \in Client, TruncateNext(c)
    PROVE  LocalInvariant'
<1> DEFINE p == proc[c]
<1>1. /\ p \in Process /\ p.ret \in {-1, 0, 1}
      /\ dir \in Inode \cup {None} /\ data \in [Inode -> Seq(Block)]
  BY Typed DEF Process
<1>2. CASE TruncateStat(c)
  <2>1. Unlocked(c) /\ UNCHANGED volume /\ p.op \in TruncOp
    BY <1>2 DEF TruncateStat, Unlocked, MayOwnLock, InDataPhase
  <2>2. \E l \in {"open", "resize", "creat"}, r \in {-1, 0} : Moves(c, l, r)
    <3>1. CASE FailTo(c, "creat")
      BY <3>1, GotoMoves
    <3>2. CASE proc' = [proc EXCEPT ![c].ret = 0,
                 ![c].pc = IF p.op = "trunc" THEN "open" ELSE "resize"]
      <4> DEFINE l == IF p.op = "trunc" THEN "open" ELSE "resize"
      <4>1. StepOf(c) /\ proc'[c] = [p EXCEPT !.ret = 0, !.pc = l]
        BY <3>2 DEF LocalInvariant, StepOf
      <4>2. [p EXCEPT !.ret = 0, !.pc = l] = [p EXCEPT !.pc = l, !.ret = 0]
        BY <1>1 DEF Process
      <4>3. Moves(c, l, 0) /\ l \in {"open", "resize"}
        BY <4>1, <4>2 DEF Moves
      <4> QED BY <4>3
    <3> QED BY <1>2, <3>1, <3>2 DEF TruncateStat
  <2> QED BY <1>1, <2>1, <2>2, MoveBeforeLock DEF volume, Step, TruncOp
<1>3. CASE TruncateCreat(c)
  <2>1. Unlocked(c) /\ UNCHANGED <<data, lock>>
    BY <1>3 DEF TruncateCreat, Unlocked, MayOwnLock, InDataPhase
  <2>2. dir' \in Inode \cup {None}
    BY <1>1, <1>3, Typed DEF TruncateCreat
  <2>3. \E l \in {"open", "resize", "done"} : Moves(c, l, p.ret)
    BY <1>3, GotoMoves DEF TruncateCreat
  <2> QED BY <1>1, <2>1, <2>2, <2>3, MoveBeforeLock DEF Step
<1>4. CASE TruncateOpen(c)
  <2>1. Unlocked(c) /\ UNCHANGED volume
    BY <1>4 DEF TruncateOpen, Unlocked, MayOwnLock, InDataPhase
  <2>2. CASE CanOpen /\ Opened(c, dir, "lock")
    BY <1>1, <2>1, <2>2, Typed, OpenBeforeLock DEF volume
  <2>3. CASE FailTo(c, "done")
    <3>1. Moves(c, "done", -1)
      BY <2>3, GotoMoves
    <3> QED BY <1>1, <2>1, <3>1, MoveBeforeLock DEF Step, volume
  <2> QED BY <1>4, <2>2, <2>3 DEF TruncateOpen
<1>5. CASE TruncateLock(c)
  BY <1>5, GlusterLockKeeps DEF TruncateLock
<1>6. CASE TruncateClose(c)
  <2>1. CASE Close(c, IF p.ret = -1 THEN "done" ELSE "resize")
    BY <2>1, CloseKeeps
  <2>2. CASE /\ lock' = Released(c) /\ UNCHANGED <<dir, data>>
             /\ proc' = [proc EXCEPT ![c].pc = "done", ![c].fd = None,
                                     ![c].ret = -1]
    <3> DEFINE q == [p EXCEPT !.pc = "done", !.fd = None, !.ret = -1]
    <3>1. StepOf(c) /\ proc'[c] = q
      BY <2>2 DEF LocalInvariant, StepOf
    <3>2. q \in Process /\ q.pc = "done"
      BY <1>1 DEF Process, Step
    <3> HIDE DEF q
    <3> QED BY <2>2, <3>1, <3>2, ReleaseKeeps
  <2> QED BY <1>6, <2>1, <2>2 DEF TruncateClose
<1>7. CASE TruncateResize(c)
  <2>1. Unlocked(c) /\ UNCHANGED <<dir, lock>>
    BY <1>7 DEF TruncateResize, Unlocked, MayOwnLock, InDataPhase, TruncOp
  <2>2. data' \in [Inode -> Seq(Block)]
    <3>1. CASE UNCHANGED data
      BY <1>1, <3>1
    <3>2. CASE dir # None /\ data' = [data EXCEPT ![dir] = Resize(@, NewSize)]
      <4>1. data[dir] \in Seq(Block)
        BY <1>1, <3>2
      <4>2. Resize(data[dir], NewSize) \in Seq(Block)
        BY <4>1, ResizeType, VolumeAssumption
      <4> QED BY <1>1, <3>2, <4>2
    <3> QED BY <1>7, <3>1, <3>2 DEF TruncateResize
  <2>3. Moves(c, "done", 0) \/ Moves(c, "done", -1)
    BY <1>7, GotoMoves DEF TruncateResize, Moves, LocalInvariant, StepOf
  <2> QED BY <1>1, <2>1, <2>2, <2>3, MoveBeforeLock DEF Step
<1> QED BY <1>2, <1>3, <1>4, <1>5, <1>6, <1>7 DEF TruncateNext

(* gfrm. *)
LEMMA RmKeeps ==
    ASSUME LocalInvariant, NEW c \in Client, RmUnlink(c)
    PROVE  LocalInvariant'
<1>1. dir \in Inode \cup {None} /\ data \in [Inode -> Seq(Block)]
  BY Typed
<1>2. Unlocked(c) /\ UNCHANGED <<data, lock>> /\ dir' \in Inode \cup {None}
  BY <1>1 DEF RmUnlink, Unlocked, MayOwnLock, InDataPhase, Unlink
<1>3. Moves(c, "done", 0) \/ Moves(c, "done", -1)
  BY GotoMoves DEF RmUnlink, Moves, LocalInvariant, StepOf
<1> QED BY <1>1, <1>2, <1>3, MoveBeforeLock DEF Step

-----------------------------------------------------------------------------
(* Every process a command line starts has the type of one. *)
LEMMA StartType ==
    ASSUME NEW c \in Client, NEW o \in Op, NEW n \in Int
    PROVE  Start(c, o, n) \in Process
<1>1. FarAtStart(c, o, n) \in [exists : BOOLEAN, data : Seq(Block)]
  <2>1. Fresh(c, n) \in Seq(Block) /\ Stale(c, n) \in Seq(Block)
    BY FreshType, StaleType DEF Inode
  <2> QED BY <2>1 DEF FarAtStart
<1>2. FirstStep(o) \in Step
  BY DEF FirstStep, Step, Op
<1>3. << >> \in Seq(Block)
  OBVIOUS
<1> QED BY <1>1, <1>2, <1>3 DEF Start, Process

(* A process that has not taken a step owns nothing. *)
LEMMA InitKeeps == Init => LockInvariant
<1> SUFFICES ASSUME Init PROVE LockInvariant
  OBVIOUS
<1>1. dir \in Inode \cup {None} /\ lock = [i \in Inode |-> None]
  BY DEF Init, Inode
<1>2. data \in [Inode -> Seq(Block)]
  <2>1. PICK n \in SourceLen :
            data = [i \in Inode |->
                       IF i = Orig /\ dir = Orig THEN Fresh(Orig, n) ELSE << >>]
    BY DEF Init
  <2>2. Fresh(Orig, n) \in Seq(Block) /\ << >> \in Seq(Block)
    BY FreshType, VolumeAssumption DEF Inode
  <2> QED BY <2>1, <2>2
<1>3. PICK job \in [Client -> Job],
           n \in [Client -> SourceLen \cup OldLen \cup {-1, 0}] :
        proc = [c \in Client |-> Start(c, job[c], n[c])]
  BY DEF Init
<1>4. ASSUME NEW c \in Client
      PROVE  Start(c, job[c], n[c]) \in Process
  <2>1. job[c] \in Op
    BY VolumeAssumption
  <2>2. SourceLen \cup OldLen \cup {-1, 0} \subseteq Int
    BY VolumeAssumption
  <2>3. n[c] \in Int
    BY <2>2
  <2> QED BY <2>1, <2>3, StartType
<1>5. ASSUME NEW c \in Client
      PROVE  ~InDataPhase(proc[c]) /\ ~NeedsDescriptor(proc[c])
  <2>1. job[c] \in Op
    BY VolumeAssumption
  <2>2. proc[c].op = job[c] /\ proc[c].pc = FirstStep(job[c])
    BY <1>3 DEF Start
  <2> QED BY <2>1, <2>2 DEF InDataPhase, NeedsDescriptor, FirstStep, Op
<1>6. TypeOK
  BY <1>1, <1>2, <1>3, <1>4 DEF TypeOK
<1> QED
  BY <1>1, <1>5, <1>6
  DEF LockInvariant, DescriptorsOpen, DataPhaseLocked, LocksAreReleased

(* Every step of every utility, and a signal at any moment, keeps it. *)
LEMMA NextKeeps == LockInvariant /\ [Next]_vars => LockInvariant'
<1> SUFFICES ASSUME LocalInvariant, [Next]_vars PROVE LocalInvariant'
  <2>1. LockInvariant' <=> LocalInvariant'
    BY SameInvariant, PTL
  <2> QED BY <2>1, SameInvariant
<1>1. CASE UNCHANGED vars
  BY <1>1
  DEF vars, LocalInvariant, VolumeOK, Sound, NeedsDescriptor, InDataPhase,
      MayOwnLock
<1>2. ASSUME NEW c \in Client, UtilityStep(c) PROVE LocalInvariant'
  BY <1>2, PutKeeps, CpKeeps, MvKeeps, CatKeeps, TruncateKeeps, RmKeeps
  DEF UtilityStep
<1>3. ASSUME NEW c \in Client, Kill(c) PROVE LocalInvariant'
  BY <1>3, KillKeeps
<1> QED BY <1>1, <1>2, <1>3 DEF Next, AllEnded

(* The inductive invariant holds in every state the utilities reach. *)
THEOREM LockDiscipline == Spec => []LockInvariant
BY InitKeeps, NextKeeps, PTL DEF Spec

(* Every variable keeps its type. *)
THEOREM Types == Spec => []TypeOK
<1>1. LockInvariant => TypeOK
  BY DEF LockInvariant
<1> QED BY <1>1, LockDiscipline, PTL

(* A utility that locks its path reads and writes under its lock only. *)
THEOREM LockedData == Spec => []DataPhaseLocked
<1>1. LockInvariant => DataPhaseLocked
  BY DEF LockInvariant
<1> QED BY <1>1, LockDiscipline, PTL

(* No error path and no signal leaves a lock behind. *)
THEOREM LocksReleased == Spec => []LocksAreReleased
<1>1. LockInvariant => LocksAreReleased
  BY DEF LockInvariant
<1> QED BY <1>1, LockDiscipline, PTL

(* Two utilities that lock their path never work on one inode together:    *)
(* each would own the lock of the inode, and an inode has one owner.       *)
THEOREM MutualExclusion == Spec => []DataPhaseExclusive
<1>1. LockInvariant => DataPhaseExclusive
  BY DEF LockInvariant, DataPhaseLocked, DataPhaseExclusive
<1> QED BY <1>1, LockDiscipline, PTL

-----------------------------------------------------------------------------
(* What ends a utility: each of its steps goes forward. *)

(* A step of c that leads to the statement l. *)
LeadsTo(c, l) == proc'[c].pc = l /\ proc'[c].op = proc[c].op

(* The plain steps of a process do. *)
LEMMA Jumps ==
    ASSUME LocalInvariant, NEW c \in Client, NEW l
    PROVE  /\ Goto(c, l) => LeadsTo(c, l)
           /\ FailTo(c, l) => LeadsTo(c, l)
           /\ \A i : Opened(c, i, l) => LeadsTo(c, l)
<1>1. proc = [d \in Client |-> proc[d]] /\ proc[c] \in Process
  BY DEF LocalInvariant, Sound
<1>2. Goto(c, l) => LeadsTo(c, l)
  BY <1>1 DEF Goto, LeadsTo, Process
<1>3. FailTo(c, l) => LeadsTo(c, l)
  BY <1>1 DEF FailTo, LeadsTo, Process
<1>4. ASSUME NEW i, Opened(c, i, l) PROVE LeadsTo(c, l)
  BY <1>1, <1>4 DEF Opened, LeadsTo, Process
<1> QED
  BY <1>2, <1>3, <1>4

(* So do those that set ret, the descriptor, or the far end as well. *)
LEMMA JumpsSetting ==
    ASSUME LocalInvariant, NEW c \in Client, NEW l, NEW x
    PROVE  /\ proc' = [proc EXCEPT ![c].pc = l, ![c].ret = x] => LeadsTo(c, l)
           /\ proc' = [proc EXCEPT ![c].ret = x, ![c].pc = l] => LeadsTo(c, l)
           /\ proc' = [proc EXCEPT ![c].pc = l, ![c].io = x] => LeadsTo(c, l)
           /\ proc' = [proc EXCEPT ![c].pc = l, ![c].fd = x] => LeadsTo(c, l)
           /\ proc' = [proc EXCEPT ![c].pc = l, ![c].far.exists = x] => LeadsTo(c, l)
<1>1. proc = [d \in Client |-> proc[d]] /\ proc[c] \in Process
  BY DEF LocalInvariant, Sound
<1> USE DEF LeadsTo, Process
<1>2. proc' = [proc EXCEPT ![c].pc = l, ![c].ret = x] => LeadsTo(c, l)
  BY <1>1
<1>3. proc' = [proc EXCEPT ![c].ret = x, ![c].pc = l] => LeadsTo(c, l)
  BY <1>1
<1>4. proc' = [proc EXCEPT ![c].pc = l, ![c].io = x] => LeadsTo(c, l)
  BY <1>1
<1>5. proc' = [proc EXCEPT ![c].pc = l, ![c].fd = x] => LeadsTo(c, l)
  BY <1>1
<1>6. proc' = [proc EXCEPT ![c].pc = l, ![c].far.exists = x] => LeadsTo(c, l)
  BY <1>1
<1> HIDE DEF LeadsTo, Process
<1> QED
  BY <1>2, <1>3, <1>4, <1>5, <1>6

(* Two of them. *)
LEMMA JumpsSettingTwo ==
    ASSUME LocalInvariant, NEW c \in Client, NEW l, NEW r, NEW x
    PROVE  /\ proc' = [proc EXCEPT ![c].pc = l, ![c].ret = r, ![c].off = x]
                => LeadsTo(c, l)
           /\ proc' = [proc EXCEPT ![c].pc = l, ![c].fd = x, ![c].ret = r]
                => LeadsTo(c, l)
           /\ proc' = [proc EXCEPT ![c].pc = l, ![c].ret = r, ![c].far.exists = x]
                => LeadsTo(c, l)
<1>1. proc = [d \in Client |-> proc[d]] /\ proc[c] \in Process
  BY DEF LocalInvariant, Sound
<1> USE DEF LeadsTo, Process
<1>2. proc' = [proc EXCEPT ![c].pc = l, ![c].ret = r, ![c].off = x] => LeadsTo(c, l)
  BY <1>1
<1>3. proc' = [proc EXCEPT ![c].pc = l, ![c].fd = x, ![c].ret = r] => LeadsTo(c, l)
  BY <1>1
<1>4. proc' = [proc EXCEPT ![c].pc = l, ![c].ret = r, ![c].far.exists = x]
        => LeadsTo(c, l)
  BY <1>1
<1> HIDE DEF LeadsTo, Process
<1> QED
  BY <1>2, <1>3, <1>4

(* gluster_lock leads on or to the close. *)
LEMMA LockForward ==
    ASSUME LocalInvariant, NEW c \in Client, NEW l, GlusterLock(c, l),
           l \in {"truncate", "seek", "copy", "close"}
    PROVE  Forward(proc[c], proc'[c])
<1>1. proc' = [proc EXCEPT ![c].pc = l, ![c].ret = 0] => LeadsTo(c, l)
  BY JumpsSetting
<1>2. FailTo(c, "close") => LeadsTo(c, "close")
  BY Jumps
<1>3. proc[c].pc = "lock" /\ (LeadsTo(c, l) \/ LeadsTo(c, "close"))
  BY <1>1, <1>2 DEF GlusterLock
<1> QED
  BY <1>3 DEF LeadsTo, Forward, StatementsLeft, Order

(* So does glfs_ftruncate. *)
LEMMA FtruncateForward ==
    ASSUME LocalInvariant, NEW c \in Client, FtruncateToZero(c, "copy")
    PROVE  Forward(proc[c], proc'[c])
<1>1. proc' = [proc EXCEPT ![c].pc = "copy", ![c].ret = 0] => LeadsTo(c, "copy")
  BY JumpsSetting
<1>2. FailTo(c, "close") => LeadsTo(c, "close")
  BY Jumps
<1>3. proc[c].pc = "truncate" /\ (LeadsTo(c, "copy") \/ LeadsTo(c, "close"))
  BY <1>1, <1>2 DEF FtruncateToZero
<1> QED
  BY <1>3 DEF LeadsTo, Forward, StatementsLeft, Order

(* The close leads to the end or to what gfmv and gftruncate do after it. *)
LEMMA CloseForward ==
    ASSUME LocalInvariant, NEW c \in Client, NEW l, Close(c, l),
           l \in {"done", "rm", "resize"}
    PROVE  Forward(proc[c], proc'[c])
<1>1. proc[c].pc = "close" /\ LeadsTo(c, l)
  BY JumpsSetting DEF Close
<1> QED
  BY <1>1 DEF LeadsTo, Forward, StatementsLeft, Order

(* What is left of a buffer after a write is shorter. *)
LEMMA RestIsShorter ==
    ASSUME NEW b \in Seq(Block), NEW k \in 1..Len(b)
    PROVE  Len(SubSeq(b, k + 1, Len(b))) < Len(b)
<1>1. Len(b) \in Nat /\ k \in Nat \ {0} /\ k <= Len(b)
  BY LenProperties
<1>2. CASE k = Len(b)
  <2>1. SubSeq(b, k + 1, Len(b)) = << >> /\ Len(<< >>) = 0
    BY <1>1, <1>2, SubSeqEmpty
  <2> QED
    BY <1>1, <1>2, <2>1
<1>3. CASE k < Len(b)
  <2>1. Len(SubSeq(b, k + 1, Len(b))) = Len(b) - k
    BY <1>1, <1>3, SubSeqProperties
  <2> QED
    BY <1>1, <2>1
<1> QED
  BY <1>1, <1>2, <1>3

(* gluster_write: a read takes more of the source, a write empties the     *)
(* buffer, and everything else ends the loop.                              *)
LEMMA WriteForward ==
    ASSUME LocalInvariant, NEW c \in Client, proc[c].op \in WriteOp,
           GlusterWriteRead(c) \/ GlusterWriteWrite(c)
    PROVE  Forward(proc[c], proc'[c])
<1> DEFINE p == proc[c]
<1>1. /\ proc = [d \in Client |-> proc[d]] /\ p \in Process /\ p.pc = "copy"
      /\ p.pos \in Nat /\ p.off \in Nat /\ p.buf \in Seq(Block) /\ p.far.data \in Seq(Block)
  BY DEF LocalInvariant, Sound, Process, GlusterWriteRead, GlusterWriteWrite
<1>2. LeadsTo(c, "report") => Forward(p, proc'[c])
  BY <1>1 DEF LeadsTo, Forward, StatementsLeft, Order
<1>3. CASE Goto(c, "report") \/ proc' = [proc EXCEPT ![c].pc = "report", ![c].io = -1]
  BY <1>2, <1>3, Jumps, JumpsSetting
<1>4. ASSUME p.buf = << >>,
             NEW n \in 1..Smaller(Chunk, Len(p.far.data) - p.pos),
             proc' = [proc EXCEPT
                 ![c].buf = SubSeq(p.far.data, p.pos + 1, p.pos + n),
                 ![c].pos = p.pos + n]
      PROVE  Forward(p, proc'[c])
  <2> DEFINE b == SubSeq(p.far.data, p.pos + 1, p.pos + n)
             q == proc'[c]
  <2>1. /\ q.pc = "copy" /\ q.op = p.op /\ q.fd = p.fd /\ q.pos = p.pos + n
        /\ q.far = p.far
    BY <1>1, <1>4 DEF Process
  <2>2. Len(p.far.data) \in Nat /\ n \in Nat \ {0} /\ p.pos + n <= Len(p.far.data)
    BY <1>1, LenProperties, VolumeAssumption DEF Smaller
  <2>3. /\ FromFar(p) /\ FromFar(q)
        /\ Taken(p) = p.pos /\ Taken(q) = q.pos /\ Available(p) = Len(p.far.data)
    BY <2>1 DEF FromFar, Taken, Available
  <2>4. p.pos < p.pos + n
    BY <1>1, <2>2
  <2>5. Forward(p, q)
    <3> HIDE DEF q, p
    <3> QED
      BY <1>1, <1>4, <2>1, <2>2, <2>3, <2>4 DEF Forward
  <2> QED
    BY <2>5
<1>5. ASSUME p.buf # << >>, NEW k \in 1..Len(p.buf),
             proc' = [proc EXCEPT ![c].buf = SubSeq(p.buf, k + 1, Len(p.buf)),
                                  ![c].off = p.off + k,
                                  ![c].io = 1]
      PROVE  Forward(p, proc'[c])
  <2> DEFINE b == SubSeq(p.buf, k + 1, Len(p.buf))
             q == proc'[c]
  <2>1. q.pc = "copy" /\ q.op = p.op /\ q.fd = p.fd /\ q.pos = p.pos /\ q.buf = b
    BY <1>1, <1>5 DEF Process
  <2>2. Len(b) < Len(p.buf)
    BY <1>1, RestIsShorter
  <2>3. FromFar(p) /\ FromFar(q) /\ Taken(q) = Taken(p)
    BY <2>1 DEF FromFar, Taken
  <2>4. Forward(p, q)
    <3> HIDE DEF q, p, b
    <3> QED
      BY <1>1, <1>5, <2>1, <2>2, <2>3 DEF Forward
  <2> QED
    BY <2>4
<1> QED
  BY <1>1, <1>3, <1>4, <1>5 DEF GlusterWriteRead, GlusterWriteWrite

(* gluster_read: a read takes more of the file, a write empties the buffer *)
(* or ends the loop.                                                       *)
LEMMA ReadForward ==
    ASSUME LocalInvariant, NEW c \in Client, proc[c].op \in ReadOp,
           GlusterReadRead(c) \/ GlusterReadWrite(c)
    PROVE  Forward(proc[c], proc'[c])
<1> DEFINE p == proc[c]
<1>1. /\ proc = [d \in Client |-> proc[d]] /\ p \in Process /\ p.pc = "copy"
      /\ p.pos \in Nat /\ p.off \in Nat /\ p.buf \in Seq(Block) /\ p.fd \in Inode
      /\ data[p.fd] \in Seq(Block)
  BY DEF LocalInvariant, VolumeOK, Sound, NeedsDescriptor, Process, GlusterReadRead,
     GlusterReadWrite
<1>2. LeadsTo(c, "report") => Forward(p, proc'[c])
  BY <1>1 DEF LeadsTo, Forward, StatementsLeft, Order
<1>3. CASE Goto(c, "report")
  BY <1>2, <1>3, Jumps
<1>4. ASSUME p.buf = << >>,
             NEW n \in 1..Smaller(Chunk, Len(data[p.fd]) - p.off),
             proc' = [proc EXCEPT
                 ![c].buf = SubSeq(data[p.fd], p.off + 1, p.off + n),
                 ![c].off = p.off + n]
      PROVE  Forward(p, proc'[c])
  <2> DEFINE q == proc'[c]
  <2>1. q.pc = "copy" /\ q.op = p.op /\ q.fd = p.fd /\ q.off = p.off + n
    BY <1>1, <1>4 DEF Process
  <2>2. Len(data[p.fd]) \in Nat /\ n \in Nat \ {0} /\ p.off + n <= Len(data[p.fd])
    BY <1>1, LenProperties, VolumeAssumption DEF Smaller
  <2>3. /\ Taken(p) = p.off /\ Taken(q) = q.off /\ Available(p) = Len(data[p.fd])
    BY <2>1 DEF FromFar, Taken, Available, ReadOp, WriteOp
  <2>4. p.off < p.off + n
    BY <1>1, <2>2
  <2>5. Forward(p, q)
    <3> HIDE DEF q, p
    <3> QED
      BY <1>1, <1>4, <2>1, <2>2, <2>3, <2>4 DEF Forward
  <2> QED
    BY <2>5
<1>5. ASSUME p.buf # << >>,
             proc' = [proc EXCEPT
                ![c].far.data = WriteAt(@, p.pos, p.buf),
                ![c].pos = p.pos + Len(p.buf),
                ![c].buf = << >>,
                ![c].io = 1]
      PROVE  Forward(p, proc'[c])
  <2> DEFINE q == proc'[c]
             d == WriteAt(p.far.data, p.pos, p.buf)
             n == p.pos + Len(p.buf)
  <2>1. q = [p EXCEPT !.far.data = d, !.pos = n, !.buf = << >>, !.io = 1]
    BY <1>1, <1>5
  <2>2. q.pc = "copy" /\ q.op = p.op /\ q.fd = p.fd /\ q.off = p.off /\ q.buf = << >>
    <3> HIDE DEF d, n, q
    <3> QED
      BY <1>1, <2>1 DEF Process
  <2>3. Len(<< >>) < Len(p.buf)
    BY <1>1, <1>5, LenProperties, EmptySeq
  <2>4. Taken(q) = Taken(p)
    BY <2>2 DEF FromFar, Taken, ReadOp, WriteOp
  <2>5. Forward(p, q)
    <3> HIDE DEF q, p
    <3> QED
      BY <1>1, <1>5, <2>2, <2>3, <2>4 DEF Forward
  <2> QED
    BY <2>5
<1>6. ASSUME NEW k \in 0..(Len(p.buf) - 1),
             proc' = [proc EXCEPT
                       ![c].far.data = WriteAt(@, p.pos, SubSeq(p.buf, 1, k)),
                       ![c].pc = "report",
                       ![c].io = -1]
      PROVE  Forward(p, proc'[c])
  <2> DEFINE d == WriteAt(p.far.data, p.pos, SubSeq(p.buf, 1, k))
  <2>1. proc'[c] = [p EXCEPT !.far.data = d, !.pc = "report", !.io = -1]
    BY <1>1, <1>6
  <2>2. LeadsTo(c, "report")
    <3> HIDE DEF d
    <3> QED
      BY <1>1, <2>1 DEF Process, LeadsTo
  <2> QED
    BY <1>2, <2>2
<1> QED
  BY <1>1, <1>3, <1>4, <1>5, <1>6 DEF GlusterReadRead, GlusterReadWrite

-----------------------------------------------------------------------------
(* gfput. *)
LEMMA PutForward ==
    ASSUME LocalInvariant, NEW c \in Client, PutNext(c)
    PROVE  Forward(proc[c], proc'[c])
<1> DEFINE p == proc[c]
           q == proc'[c]
<1> USE DEF LeadsTo, Forward, StatementsLeft, Order, PutOp, TruncOp
<1>1. CASE PutLstat(c)
  <2>1. p.pc = "lstat" /\ (LeadsTo(c, "done") \/ LeadsTo(c, "creat")) /\ p.op \in PutOp
    BY <1>1, Jumps DEF PutLstat
  <2> QED
    BY <2>1
<1>2. CASE PutCreat(c)
  <2>1. p.pc = "creat" /\ (LeadsTo(c, "lock") \/ LeadsTo(c, "done")) /\ p.op \in PutOp
    BY <1>2, Jumps DEF PutCreat
  <2> QED
    BY <2>1
<1>3. CASE PutLock(c)
  BY <1>3, LockForward DEF PutLock
<1>4. CASE PutSeek(c)
  <2> DEFINE n == Len(data[p.fd])
  <2>1. proc' = [proc EXCEPT ![c].pc = "copy", ![c].ret = 0, ![c].off = n]
          => LeadsTo(c, "copy")
    <3>1. proc = [d \in Client |-> proc[d]] /\ p \in Process
      BY DEF LocalInvariant, Sound
    <3> HIDE DEF n
    <3> QED
      BY <3>1 DEF Process
  <2>2. p.pc = "seek" /\ (LeadsTo(c, "copy") \/ LeadsTo(c, "close"))
    BY <1>4, <2>1, Jumps DEF PutSeek
  <2> QED
    BY <2>2
<1>5. CASE PutTruncate(c)
  BY <1>5, FtruncateForward DEF PutTruncate
<1>6. CASE PutCopy(c)
  BY <1>6, WriteForward DEF PutCopy, WriteOp
<1>7. CASE PutReport(c)
  <2>1. p.pc = "report" /\ LeadsTo(c, "close")
    BY <1>7, Jumps DEF PutReport
  <2> QED
    BY <2>1
<1>8. CASE PutClose(c)
  BY <1>8, CloseForward DEF PutClose
<1> QED
  BY <1>1, <1>2, <1>3, <1>4, <1>5, <1>6, <1>7, <1>8 DEF PutNext

(* The transfers of gfcp and gfmv. *)
LEMMA LocalToRemoteForward ==
    ASSUME LocalInvariant, NEW c \in Client, NEW ops, NEW exit,
           ops \subseteq {"cp_in", "mv_in"}, exit \in {"done", "rm"},
           LocalToRemote(c, ops, exit)
    PROVE  Forward(proc[c], proc'[c])
<1> DEFINE p == proc[c]
           q == proc'[c]
<1> USE DEF LeadsTo, Forward, StatementsLeft, Order, TruncOp, Runs
<1>1. CASE LocalToRemoteOpen(c, ops, exit)
  <2>1. p.pc = "local" /\ (LeadsTo(c, "creat") \/ LeadsTo(c, exit)) /\ p.op \in ops
    BY <1>1, Jumps DEF LocalToRemoteOpen
  <2> QED
    BY <2>1
<1>2. CASE LocalToRemoteCreat(c, ops, exit)
  <2>1. p.pc = "creat" /\ (LeadsTo(c, "lock") \/ LeadsTo(c, exit)) /\ p.op \in ops
    BY <1>2, Jumps DEF LocalToRemoteCreat
  <2> QED
    BY <2>1
<1>3. CASE GlusterLock(c, "truncate")
  BY <1>3, LockForward
<1>4. CASE FtruncateToZero(c, "copy")
  BY <1>4, FtruncateForward
<1>5. CASE proc[c].op \in ops /\ (GlusterWriteRead(c) \/ GlusterWriteWrite(c))
  BY <1>5, WriteForward DEF WriteOp
<1>6. CASE LocalToRemoteReport(c, ops)
  <2>1. p.pc = "report" /\ LeadsTo(c, "close")
    BY <1>6, Jumps DEF LocalToRemoteReport
  <2> QED
    BY <2>1
<1>7. CASE Close(c, exit)
  BY <1>7, CloseForward
<1> QED
  BY <1>1, <1>2, <1>3, <1>4, <1>5, <1>6, <1>7 DEF LocalToRemote

LEMMA RemoteToLocalForward ==
    ASSUME LocalInvariant, NEW c \in Client, NEW ops, NEW exit,
           ops \subseteq {"cp_out", "mv_out"}, exit \in {"done", "rm"},
           RemoteToLocal(c, ops, exit)
    PROVE  Forward(proc[c], proc'[c])
<1> DEFINE p == proc[c]
           q == proc'[c]
<1> USE DEF LeadsTo, Forward, StatementsLeft, Order, TruncOp, Runs
<1>1. CASE RemoteToLocalStat(c, ops)
  <2> DEFINE r == IF p.far.exists THEN 0 ELSE -1
  <2>1. p.pc = "stat" /\ proc' = [proc EXCEPT ![c].pc = "open", ![c].ret = r]
    BY <1>1 DEF RemoteToLocalStat
  <2> HIDE DEF r
  <2>2. LeadsTo(c, "open")
    BY <2>1, JumpsSetting
  <2> QED
    BY <2>1, <2>2
<1>2. CASE RemoteToLocalOpen(c, ops, exit)
  <2>1. p.pc = "open" /\ (LeadsTo(c, "local") \/ LeadsTo(c, exit))
    BY <1>2, Jumps DEF RemoteToLocalOpen
  <2> QED
    BY <2>1
<1>3. CASE RemoteToLocalCreat(c, ops)
  <2>1. proc' = [proc EXCEPT ![c].pc = "lock", ![c].far.exists = TRUE]
          => LeadsTo(c, "lock")
    BY JumpsSetting
  <2>2. p.pc = "local" /\ (LeadsTo(c, "lock") \/ LeadsTo(c, "close"))
    BY <1>3, <2>1, Jumps DEF RemoteToLocalCreat
  <2> QED
    BY <2>2
<1>4. CASE GlusterLock(c, "copy")
  BY <1>4, LockForward
<1>5. CASE proc[c].op \in ops /\ (GlusterReadRead(c) \/ GlusterReadWrite(c))
  BY <1>5, ReadForward DEF ReadOp
<1>6. CASE RemoteToLocalReport(c, ops)
  <2>1. p.pc = "report" /\ proc' = [proc EXCEPT ![c].pc = "close", ![c].ret = p.io]
    BY <1>6 DEF RemoteToLocalReport
  <2>2. LeadsTo(c, "close")
    BY <2>1, JumpsSetting
  <2> QED
    BY <2>1, <2>2
<1>7. CASE Close(c, exit)
  BY <1>7, CloseForward
<1> QED
  BY <1>1, <1>2, <1>3, <1>4, <1>5, <1>6, <1>7 DEF RemoteToLocal

(* One block or more between two volumes. *)
LEMMA RemoteToRemoteForward ==
    ASSUME LocalInvariant, NEW c \in Client, RemoteToRemote(c)
    PROVE  Forward(proc[c], proc'[c])
<1> DEFINE p == proc[c]
           q == proc'[c]
           ops == {"rr_in", "rr_out"}
<1>0. /\ proc = [d \in Client |-> proc[d]] /\ p \in Process
      /\ p.pos \in Nat /\ p.off \in Nat /\ p.buf \in Seq(Block)
      /\ p.far.data \in Seq(Block) /\ (p.pc = "copy" => data[p.fd] \in Seq(Block))
  BY DEF LocalInvariant, VolumeOK, Sound, NeedsDescriptor, Process
<1>a. ASSUME p.pc \in {"lstat", "open", "creat", "copy"}, p.op \in ops,
             NEW l, LeadsTo(c, l),
             \/ l = "close"
             \/ l = "done" /\ p.pc # "copy"
             \/ l = "open" /\ p.pc = "lstat"
             \/ l = "creat" /\ p.pc = "open"
             \/ l = "copy" /\ p.pc = "creat"
      PROVE  Forward(p, q)
  BY <1>a DEF LeadsTo, Forward, StatementsLeft, Order, TruncOp
<1>1. CASE RemoteToRemoteLstat(c)
  <2>1. PICK r : proc' = [proc EXCEPT ![c].pc = "open", ![c].ret = r]
    BY <1>1 DEF RemoteToRemoteLstat
  <2>2. LeadsTo(c, "open")
    BY <2>1, JumpsSetting
  <2> QED
    BY <1>1, <1>a, <2>2 DEF RemoteToRemoteLstat, Runs
<1>2. CASE RemoteToRemoteOpen(c)
  <2>1. p.pc = "open" /\ p.op \in ops /\ (LeadsTo(c, "creat") \/ LeadsTo(c, "done"))
    BY <1>2, Jumps DEF RemoteToRemoteOpen, Runs
  <2> QED
    BY <1>a, <2>1
<1>3. CASE RemoteToRemoteCreat(c)
  <2>1. proc' = [proc EXCEPT ![c].pc = "copy", ![c].far.exists = TRUE]
          => LeadsTo(c, "copy")
    BY <1>0 DEF LeadsTo, Process
  <2>2. p.pc = "creat" /\ p.op \in ops /\ (LeadsTo(c, "copy") \/ LeadsTo(c, "close"))
    BY <1>3, <2>1, Jumps DEF RemoteToRemoteCreat, Runs
  <2> QED
    BY <1>a, <2>2
<1>4. CASE RemoteToRemoteRead(c)
  <2> DEFINE src == IF p.op = "rr_in" THEN p.far.data ELSE data[p.fd]
             at == IF p.op = "rr_in" THEN p.pos ELSE p.off
  <2>1. p.pc = "copy" /\ p.op \in ops /\ p.buf = << >>
    BY <1>4 DEF RemoteToRemoteRead, Runs
  <2>2. CASE Goto(c, "close") \/ FailTo(c, "close")
    BY <1>a, <2>1, <2>2, Jumps
  <2>3. ASSUME NEW n \in 1..Smaller(Chunk, Len(src) - at), NEW b,
               proc' = [proc EXCEPT ![c] =
                          IF p.op = "rr_in" THEN [[p EXCEPT !.buf = b] EXCEPT !.pos = at + n]
                          ELSE [[p EXCEPT !.buf = b] EXCEPT !.off = at + n]]
        PROVE  Forward(p, q)
    <3>1. src \in Seq(Block) /\ at \in Nat /\ Len(src) \in Nat
      BY <1>0, <2>1, LenProperties
    <3>2. n \in Nat \ {0} /\ at + n <= Len(src) /\ at < at + n
      <4> HIDE DEF src, at
      <4> QED
        BY <3>1, VolumeAssumption DEF Smaller
    <3>3. /\ q.pc = "copy" /\ q.op = p.op /\ q.fd = p.fd
          /\ p.op = "rr_in" => q.pos = at + n
          /\ p.op # "rr_in" => q.off = at + n
      <4> HIDE DEF src, at
      <4> QED
        BY <1>0, <2>1, <2>3 DEF Process
    <3>4. Taken(p) = at /\ Taken(q) = at + n /\ Available(p) = Len(src)
      BY <2>1, <3>3 DEF Taken, Available, FromFar, WriteOp
    <3>5. Forward(p, q)
      <4> HIDE DEF p, q, src, at
      <4> QED
        BY <2>1, <3>1, <3>2, <3>3, <3>4 DEF Forward
    <3> QED
      BY <3>5
  <2> QED
    BY <1>4, <2>2, <2>3 DEF RemoteToRemoteRead
<1>5. CASE RemoteToRemoteWrite(c)
  <2>1. p.pc = "copy" /\ p.op \in ops /\ p.buf # << >>
    BY <1>5 DEF RemoteToRemoteWrite, Runs
  <2>2. CASE FailTo(c, "close")
    BY <1>a, <2>1, <2>2, Jumps
  <2>3. ASSUME NEW k \in 1..Len(p.buf), NEW d,
               LET w == [p EXCEPT !.buf = SubSeq(@, k + 1, Len(@)), !.ret = 1] IN
               \/ /\ p.op = "rr_in"
                  /\ proc' = [proc EXCEPT ![c] = [w EXCEPT !.off = @ + k]]
               \/ /\ p.op = "rr_out"
                  /\ proc' = [proc EXCEPT ![c] =
                                [w EXCEPT !.far.data = d, !.pos = @ + k]]
        PROVE  Forward(p, q)
    <3> DEFINE b == SubSeq(p.buf, k + 1, Len(p.buf))
               w == [p EXCEPT !.buf = b, !.ret = 1]
    <3>1. Len(b) < Len(p.buf)
      BY <1>0, RestIsShorter
    <3>2. /\ w.pc = "copy" /\ w.op = p.op /\ w.fd = p.fd /\ w.buf = b
          /\ w.pos = p.pos /\ w.off = p.off
      <4> HIDE DEF b
      <4> QED
        BY <1>0, <2>1 DEF Process
    <3>3. \/ p.op = "rr_in" /\ q = [w EXCEPT !.off = @ + k]
          \/ p.op = "rr_out" /\ q = [w EXCEPT !.far.data = d, !.pos = @ + k]
      BY <1>0, <2>3
    <3>4. DOMAIN w = DOMAIN p
      OBVIOUS
    <3>5. /\ q.pc = "copy" /\ q.op = p.op /\ q.fd = p.fd /\ q.buf = b
          /\ p.op = "rr_in" => q.pos = p.pos
          /\ p.op = "rr_out" => q.off = p.off
      <4> HIDE DEF b, w
      <4> QED
        BY <1>0, <3>2, <3>3, <3>4 DEF Process
    <3>6. Taken(q) = Taken(p)
      BY <2>1, <3>5 DEF Taken, FromFar, WriteOp
    <3>7. Forward(p, q)
      <4> HIDE DEF p, q, b
      <4> QED
        BY <2>1, <3>1, <3>5, <3>6 DEF Forward
    <3> QED
      BY <3>7
  <2> QED
    BY <1>5, <2>2, <2>3 DEF RemoteToRemoteWrite
<1>6. CASE Close(c, "done")
  BY <1>6, CloseForward
<1> QED
  BY <1>1, <1>2, <1>3, <1>4, <1>5, <1>6 DEF RemoteToRemote

LEMMA CpForward ==
    ASSUME LocalInvariant, NEW c \in Client, CpNext(c)
    PROVE  Forward(proc[c], proc'[c])
<1>1. CASE LocalToRemote(c, {"cp_in"}, "done")
  BY <1>1, LocalToRemoteForward
<1>2. CASE RemoteToLocal(c, {"cp_out"}, "done")
  BY <1>2, RemoteToLocalForward
<1>3. CASE RemoteToRemote(c)
  BY <1>3, RemoteToRemoteForward
<1> QED
  BY <1>1, <1>2, <1>3 DEF CpNext

LEMMA MvForward ==
    ASSUME LocalInvariant, NEW c \in Client, MvNext(c)
    PROVE  Forward(proc[c], proc'[c])
<1> DEFINE p == proc[c]
<1>0. proc = [d \in Client |-> proc[d]] /\ p \in Process
  BY DEF LocalInvariant, Sound
<1>a. p.pc = "rm" /\ LeadsTo(c, "done") => Forward(p, proc'[c])
  BY DEF LeadsTo, Forward, StatementsLeft, Order
<1>1. CASE LocalToRemote(c, {"mv_in"}, "rm")
  BY <1>1, LocalToRemoteForward
<1>2. CASE RemoteToLocal(c, {"mv_out"}, "rm")
  BY <1>2, RemoteToLocalForward
<1>3. CASE MvRmLocal(c)
  <2>1. proc' = [proc EXCEPT ![c].pc = "done", ![c].ret = 0, ![c].far.exists = FALSE]
          => LeadsTo(c, "done")
    BY <1>0 DEF LeadsTo, Process
  <2>2. p.pc = "rm" /\ LeadsTo(c, "done")
    BY <1>3, <2>1, Jumps DEF MvRmLocal, Runs
  <2> QED
    BY <1>a, <2>2
<1>4. CASE MvRmRemote(c)
  <2>1. proc' = [proc EXCEPT ![c].pc = "done", ![c].ret = 0] => LeadsTo(c, "done")
    BY JumpsSetting
  <2>2. p.pc = "rm" /\ LeadsTo(c, "done")
    BY <1>4, <2>1, Jumps DEF MvRmRemote, Runs
  <2> QED
    BY <1>a, <2>2
<1> QED
  BY <1>1, <1>2, <1>3, <1>4 DEF MvNext, MvLocalToRemote, MvRemoteToLocal

(* gfcat. *)
LEMMA CatForward ==
    ASSUME LocalInvariant, NEW c \in Client, CatNext(c)
    PROVE  Forward(proc[c], proc'[c])
<1> DEFINE p == proc[c]
<1> USE DEF LeadsTo, Forward, StatementsLeft, Order
<1>1. CASE CatOpen(c)
  <2>1. p.pc = "open" /\ (LeadsTo(c, "lock") \/ LeadsTo(c, "done"))
    BY <1>1, Jumps DEF CatOpen
  <2> QED
    BY <2>1
<1>2. CASE CatLock(c)
  BY <1>2, LockForward DEF CatLock
<1>3. CASE CatCopy(c)
  BY <1>3, ReadForward DEF CatCopy, ReadOp
<1>4. CASE CatReport(c)
  <2>1. PICK r : proc' = [proc EXCEPT ![c].pc = "close", ![c].ret = r]
    BY <1>4 DEF CatReport
  <2>2. LeadsTo(c, "close")
    BY <2>1, JumpsSetting
  <2>3. p.pc = "report"
    BY <1>4 DEF CatReport
  <2> QED
    BY <2>2, <2>3
<1>5. CASE CatClose(c)
  <2>1. PICK r : proc' = [proc EXCEPT ![c].pc = "done", ![c].fd = None, ![c].ret = r]
    BY <1>5 DEF CatClose
  <2>2. p.pc = "close" /\ LeadsTo(c, "done")
    BY <1>5, <2>1, JumpsSettingTwo DEF CatClose
  <2> QED
    BY <2>2
<1> QED
  BY <1>1, <1>2, <1>3, <1>4, <1>5 DEF CatNext

(* gftruncate, which creates the file before it opens it. *)
LEMMA TruncateForward ==
    ASSUME LocalInvariant, NEW c \in Client, TruncateNext(c)
    PROVE  Forward(proc[c], proc'[c])
<1> DEFINE p == proc[c]
<1>0. proc = [d \in Client |-> proc[d]] /\ p \in Process
  BY DEF LocalInvariant, Sound
<1>a. ASSUME NEW l, LeadsTo(c, l),
             \/ p.pc = "stat" /\ l \in {"open", "resize", "creat"}
             \/ p.pc = "creat" /\ p.op \in TruncOp /\ l \in {"open", "resize", "done"}
             \/ p.pc = "open" /\ l \in {"lock", "done"}
             \/ p.pc \in {"close", "resize"} /\ l = "done"
      PROVE  Forward(p, proc'[c])
  BY <1>a DEF LeadsTo, Forward, StatementsLeft, Order
<1>1. CASE TruncateStat(c)
  <2> DEFINE l == IF p.op = "trunc" THEN "open" ELSE "resize"
  <2>1. l \in {"open", "resize"}
    OBVIOUS
  <2>2. \/ proc' = [proc EXCEPT ![c].ret = 0, ![c].pc = l]
        \/ FailTo(c, "creat")
    BY <1>1 DEF TruncateStat
  <2> HIDE DEF l
  <2>3. LeadsTo(c, l) \/ LeadsTo(c, "creat")
    BY <2>2, Jumps, JumpsSetting
  <2> QED
    BY <1>1, <1>a, <2>1, <2>3 DEF TruncateStat
<1>2. CASE TruncateCreat(c)
  <2>1. p.pc = "creat" /\ p.op \in TruncOp
        /\ (LeadsTo(c, "open") \/ LeadsTo(c, "resize") \/ LeadsTo(c, "done"))
    BY <1>2, Jumps DEF TruncateCreat
  <2> QED
    BY <1>a, <2>1
<1>3. CASE TruncateOpen(c)
  <2>1. p.pc = "open" /\ (LeadsTo(c, "lock") \/ LeadsTo(c, "done"))
    BY <1>3, Jumps DEF TruncateOpen
  <2> QED
    BY <1>a, <2>1
<1>4. CASE TruncateLock(c)
  BY <1>4, LockForward DEF TruncateLock
<1>5. CASE TruncateClose(c)
  <2>1. CASE Close(c, "done") \/ Close(c, "resize")
    BY <2>1, CloseForward
  <2>2. CASE p.pc = "close" /\ proc' = [proc EXCEPT ![c].pc = "done", ![c].fd = None,
                                                    ![c].ret = -1]
    BY <1>a, <2>2, JumpsSettingTwo
  <2> QED
    BY <1>5, <2>1, <2>2 DEF TruncateClose
<1>6. CASE TruncateResize(c)
  <2>1. proc' = [proc EXCEPT ![c].pc = "done", ![c].ret = 0] => LeadsTo(c, "done")
    BY JumpsSetting
  <2>2. p.pc = "resize" /\ LeadsTo(c, "done")
    BY <1>6, <2>1, Jumps DEF TruncateResize
  <2> QED
    BY <1>a, <2>2
<1> QED
  BY <1>1, <1>2, <1>3, <1>4, <1>5, <1>6 DEF TruncateNext

(* gfrm. *)
LEMMA RmForward ==
    ASSUME LocalInvariant, NEW c \in Client, RmUnlink(c)
    PROVE  Forward(proc[c], proc'[c])
<1>1. proc' = [proc EXCEPT ![c].pc = "done", ![c].ret = 0] => LeadsTo(c, "done")
  BY JumpsSetting
<1>2. proc[c].pc = "rm" /\ LeadsTo(c, "done")
  BY <1>1, Jumps DEF RmUnlink
<1> QED
  BY <1>2 DEF LeadsTo, Forward, StatementsLeft, Order

(* No utility waits and no loop of one stands still: each step leads to a  *)
(* statement further down or moves blocks, for any processes, lengths and  *)
(* failing calls.                                                          *)
THEOREM AlwaysForward == Spec => StepsGoForward
<1>1. ASSUME LockInvariant, NEW c \in Client, UtilityStep(c)
      PROVE  Forward(proc[c], proc'[c])
  BY <1>1, SameInvariant, PutForward, CpForward, MvForward, CatForward, TruncateForward,
     RmForward DEF UtilityStep
<1>2. LockInvariant
        => [\A c \in Client : UtilityStep(c) => Forward(proc[c], proc'[c])]_vars
  BY <1>1
<1> QED
  BY <1>2, LockDiscipline, PTL DEF StepsGoForward
=============================================================================
