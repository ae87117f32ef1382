-------------------------- MODULE TransfersProofs --------------------------
(***************************************************************************)
(* What the transfers promise about data, for any set of processes, any    *)
(* lengths and any calls that fail.                                        *)
(***************************************************************************)
EXTENDS Transfers, UtilitiesProofs

-----------------------------------------------------------------------------
(* Sequences of blocks. *)

(* The empty sequence is one of blocks. *)
LEMMA NoBlocks == Len(<< >>) = 0 /\ << >> \in Seq(Block)
BY EmptySeq

(* A part of a sequence, by its length and its elements. *)
LEMMA SliceIs ==
    ASSUME NEW s \in Seq(Block), NEW m \in Nat, NEW n \in m..Len(s)
    PROVE  /\ SubSeq(s, m + 1, n) \in Seq(Block)
           /\ Len(SubSeq(s, m + 1, n)) = n - m
           /\ \A k \in 1..(n - m) : SubSeq(s, m + 1, n)[k] = s[m + k]
<1>1. m + 1 \in Int /\ n \in Int /\ Len(s) \in Nat
  OBVIOUS
<1>2. \A k \in (m + 1)..n : s[k] \in Block
  BY <1>1, ElementOfSeq
<1>3. /\ SubSeq(s, m + 1, n) \in Seq(Block)
      /\ Len(SubSeq(s, m + 1, n)) = IF m + 1 <= n THEN n - (m + 1) + 1 ELSE 0
      /\ \A k \in 1..(n - (m + 1) + 1) : SubSeq(s, m + 1, n)[k] = s[m + 1 + k - 1]
  BY <1>1, <1>2, SubSeqProperties
<1>4. \A k \in 1..(n - m) : k \in 1..(n - (m + 1) + 1) /\ s[m + 1 + k - 1] = s[m + k]
  BY <1>1
<1>5. (IF m + 1 <= n THEN n - (m + 1) + 1 ELSE 0) = n - m
  BY <1>1
<1> QED BY <1>3, <1>4, <1>5

(* The beginning of a sequence. *)
LEMMA HeadIs ==
    ASSUME NEW s \in Seq(Block), NEW n \in 0..Len(s)
    PROVE  /\ SubSeq(s, 1, n) \in Seq(Block)
           /\ Len(SubSeq(s, 1, n)) = n
           /\ \A k \in 1..n : SubSeq(s, 1, n)[k] = s[k]
<1>1. 0 \in Nat /\ n \in 0..Len(s) /\ 0 + 1 = 1 /\ n - 0 = n /\ \A k \in 1..n : 0 + k = k
  OBVIOUS
<1> QED BY <1>1, SliceIs

(* The first blocks of a part, and the rest of it. *)
LEMMA SliceOfSlice ==
    ASSUME NEW s \in Seq(Block), NEW m \in Nat, NEW n \in m..Len(s),
           NEW k \in 0..(n - m)
    PROVE  /\ SubSeq(SubSeq(s, m + 1, n), 1, k) = SubSeq(s, m + 1, m + k)
           /\ SubSeq(SubSeq(s, m + 1, n), k + 1, n - m) = SubSeq(s, m + k + 1, n)
<1> DEFINE b == SubSeq(s, m + 1, n)
<1>1. b \in Seq(Block) /\ Len(b) = n - m /\ \A j \in 1..(n - m) : b[j] = s[m + j]
  BY SliceIs
<1>2. /\ k \in Nat /\ k \in 0..Len(b) /\ m + k \in m..Len(s) /\ Len(b) \in k..Len(b)
      /\ m + k \in Nat /\ n \in (m + k)..Len(s) /\ n - m = Len(b)
  BY <1>1
<1> HIDE DEF b
<1>3. SubSeq(b, 1, k) = SubSeq(s, m + 1, m + k)
  <2>1. /\ SubSeq(b, 1, k) \in Seq(Block) /\ Len(SubSeq(b, 1, k)) = k
        /\ \A j \in 1..k : SubSeq(b, 1, k)[j] = b[j]
    BY <1>1, <1>2, HeadIs
  <2>2. /\ SubSeq(s, m + 1, m + k) \in Seq(Block)
        /\ Len(SubSeq(s, m + 1, m + k)) = m + k - m
        /\ \A j \in 1..(m + k - m) : SubSeq(s, m + 1, m + k)[j] = s[m + j]
    BY <1>2, SliceIs
  <2>3. m + k - m = k /\ \A j \in 1..k : j \in 1..(n - m)
    BY <1>2
  <2> QED BY <1>1, <2>1, <2>2, <2>3, SeqEqual
<1>4. SubSeq(b, k + 1, Len(b)) = SubSeq(s, m + k + 1, n)
  <2>1. /\ SubSeq(b, k + 1, Len(b)) \in Seq(Block)
        /\ Len(SubSeq(b, k + 1, Len(b))) = Len(b) - k
        /\ \A j \in 1..(Len(b) - k) : SubSeq(b, k + 1, Len(b))[j] = b[k + j]
    BY <1>1, <1>2, SliceIs
  <2>2. /\ SubSeq(s, m + k + 1, n) \in Seq(Block)
        /\ Len(SubSeq(s, m + k + 1, n)) = n - (m + k)
        /\ \A j \in 1..(n - (m + k)) : SubSeq(s, m + k + 1, n)[j] = s[m + k + j]
    BY <1>2, SliceIs
  <2>3. /\ Len(b) - k = n - (m + k)
        /\ \A j \in 1..(Len(b) - k) : k + j \in 1..(n - m) /\ m + (k + j) = m + k + j
    BY <1>1, <1>2
  <2> QED BY <1>1, <2>1, <2>2, <2>3, SeqEqual
<1> QED BY <1>1, <1>3, <1>4 DEF b

(* The beginning of a sequence and the part after it. *)
LEMMA Glue ==
    ASSUME NEW s \in Seq(Block), NEW m \in Nat, NEW n \in m..Len(s)
    PROVE  SubSeq(s, 1, m) \o SubSeq(s, m + 1, n) = SubSeq(s, 1, n)
<1>1. 1 \in 1..(Len(s) + 1) /\ m \in (1 - 1)..Len(s) /\ n \in m..Len(s)
  OBVIOUS
<1> QED BY <1>1, ConcatAdjacentSubSeq

(* A write at the end of the file appends. *)
LEMMA WriteAtEnd ==
    ASSUME NEW s \in Seq(Block), NEW b \in Seq(Block)
    PROVE  WriteAt(s, Len(s), b) = s \o b
<1> DEFINE n == Len(s) + Len(b)
           w == WriteAt(s, Len(s), b)
<1>1. Len(s) \in Nat /\ Len(b) \in Nat
  OBVIOUS
<1>2. w = [k \in 1..n |-> IF Len(s) < k /\ k <= n THEN b[k - Len(s)]
                          ELSE IF k <= Len(s) THEN s[k] ELSE Hole]
  <2>1. (IF Len(s) > Len(s) + Len(b) THEN Len(s) ELSE Len(s) + Len(b)) = n
    BY <1>1
  <2> QED BY <2>1 DEF WriteAt
<1>3. w \in Seq(Block)
  BY <1>1, WriteAtType
<1>4. Len(w) = n
  <2>1. DOMAIN w = 1..n /\ n \in Nat
    BY <1>1, <1>2
  <2>2. DOMAIN w = 1..Len(w) /\ Len(w) \in Nat
    BY <1>3, LenProperties
  <2> HIDE DEF w, n
  <2> QED BY <2>1, <2>2
<1>5. /\ s \o b \in Seq(Block) /\ Len(s \o b) = n
      /\ \A k \in 1..n : (s \o b)[k] = IF k <= Len(s) THEN s[k] ELSE b[k - Len(s)]
  BY ConcatProperties
<1>6. \A k \in 1..n : w[k] = (s \o b)[k]
  <2> TAKE k \in 1..n
  <2>1. w[k] = IF Len(s) < k /\ k <= n THEN b[k - Len(s)]
               ELSE IF k <= Len(s) THEN s[k] ELSE Hole
    BY <1>2
  <2>2. k \in Int /\ k <= n
    BY <1>1
  <2> HIDE DEF w, n
  <2> QED BY <1>1, <1>5, <2>1, <2>2
<1> HIDE DEF w, n
<1> QED BY <1>3, <1>4, <1>5, <1>6, SeqEqual DEF w

(* What was there before something is appended is a prefix. *)
LEMMA PrefixOfConcat ==
    ASSUME NEW s \in Seq(Block), NEW b \in Seq(Block)
    PROVE  IsPrefix(s, s \o b)
<1> DEFINE t == s \o b
<1>1. /\ t \in Seq(Block) /\ Len(t) = Len(s) + Len(b)
      /\ \A k \in 1..(Len(s) + Len(b)) :
            t[k] = IF k <= Len(s) THEN s[k] ELSE b[k - Len(s)]
  BY ConcatProperties
<1>2. Len(s) \in Nat /\ Len(b) \in Nat /\ Len(s) \in 0..Len(s) /\ Len(s) \in 0..Len(t)
  BY <1>1
<1> HIDE DEF t
<1>3. SubSeq(t, 1, Len(s)) = SubSeq(s, 1, Len(s))
  <2>1. /\ SubSeq(s, 1, Len(s)) \in Seq(Block) /\ Len(SubSeq(s, 1, Len(s))) = Len(s)
        /\ \A k \in 1..Len(s) : SubSeq(s, 1, Len(s))[k] = s[k]
    BY <1>2, HeadIs
  <2>2. /\ SubSeq(t, 1, Len(s)) \in Seq(Block) /\ Len(SubSeq(t, 1, Len(s))) = Len(s)
        /\ \A k \in 1..Len(s) : SubSeq(t, 1, Len(s))[k] = t[k]
    BY <1>1, <1>2, HeadIs
  <2>3. \A k \in 1..Len(s) : t[k] = s[k]
    BY <1>1, <1>2
  <2> QED BY <2>1, <2>2, <2>3, SeqEqual
<1>4. Len(s) <= Len(t)
  BY <1>1, <1>2
<1> QED BY <1>3, <1>4 DEF IsPrefix, t

(* A sequence read backwards. *)
LEMMA ReverseIs ==
    ASSUME NEW s \in Seq(Block)
    PROVE  /\ Reverse(s) \in Seq(Block) /\ Len(Reverse(s)) = Len(s)
           /\ \A k \in 1..Len(s) : Reverse(s)[k] = s[Len(s) - k + 1]
<1> DEFINE r == Reverse(s)
<1>1. Len(s) \in Nat /\ \A k \in 1..Len(s) : Len(s) - k + 1 \in 1..Len(s)
  OBVIOUS
<1>2. r = [k \in 1..Len(s) |-> s[Len(s) - k + 1]]
  BY DEF Reverse
<1>3. \A k \in 1..Len(s) : s[Len(s) - k + 1] \in Block
  BY <1>1, ElementOfSeq
<1>4. r \in [1..Len(s) -> Block]
  BY <1>2, <1>3
<1>5. r \in Seq(Block)
  BY <1>1, <1>4, SeqDef
<1>6. Len(r) = Len(s)
  <2>1. DOMAIN r = 1..Len(s) /\ DOMAIN r = 1..Len(r) /\ Len(r) \in Nat
    BY <1>2, <1>5, LenProperties
  <2> HIDE DEF r
  <2> QED BY <1>1, <2>1
<1> QED BY <1>2, <1>5, <1>6

(* What is appended is a suffix. *)
LEMMA SuffixOfConcat ==
    ASSUME NEW s \in Seq(Block), NEW b \in Seq(Block)
    PROVE  IsSuffix(b, s \o b)
<1> DEFINE t == s \o b
           rb == Reverse(b)
           rt == Reverse(t)
<1>1. /\ t \in Seq(Block) /\ Len(t) = Len(s) + Len(b)
      /\ \A k \in 1..(Len(s) + Len(b)) :
            t[k] = IF k <= Len(s) THEN s[k] ELSE b[k - Len(s)]
  BY ConcatProperties
<1>2. Len(s) \in Nat /\ Len(b) \in Nat
  OBVIOUS
<1> HIDE DEF t
<1>3. /\ rb \in Seq(Block) /\ Len(rb) = Len(b)
      /\ \A k \in 1..Len(b) : rb[k] = b[Len(b) - k + 1]
  BY ReverseIs
<1>4. /\ rt \in Seq(Block) /\ Len(rt) = Len(t)
      /\ \A k \in 1..Len(t) : rt[k] = t[Len(t) - k + 1]
  BY <1>1, ReverseIs
<1> HIDE DEF rb, rt
<1>5. \A k \in 1..Len(b) : rt[k] = rb[k]
  <2> TAKE k \in 1..Len(b)
  <2>1. /\ k \in 1..Len(t) /\ Len(t) - k + 1 \in 1..(Len(s) + Len(b))
        /\ ~(Len(t) - k + 1 <= Len(s)) /\ Len(t) - k + 1 - Len(s) = Len(b) - k + 1
    BY <1>1, <1>2
  <2>2. rt[k] = t[Len(t) - k + 1]
    BY <1>4, <2>1
  <2>3. t[Len(t) - k + 1] = b[Len(t) - k + 1 - Len(s)]
    BY <1>1, <2>1
  <2> QED BY <1>3, <2>1, <2>2, <2>3
<1>6. Len(rb) \in 0..Len(rb) /\ Len(rb) \in 0..Len(rt) /\ Len(rb) <= Len(rt)
  BY <1>1, <1>2, <1>3, <1>4
<1>7. SubSeq(rb, 1, Len(rb)) = SubSeq(rt, 1, Len(rb))
  <2>1. /\ SubSeq(rb, 1, Len(rb)) \in Seq(Block) /\ Len(SubSeq(rb, 1, Len(rb))) = Len(rb)
        /\ \A k \in 1..Len(rb) : SubSeq(rb, 1, Len(rb))[k] = rb[k]
    BY <1>3, <1>6, HeadIs
  <2>2. /\ SubSeq(rt, 1, Len(rb)) \in Seq(Block) /\ Len(SubSeq(rt, 1, Len(rb))) = Len(rb)
        /\ \A k \in 1..Len(rb) : SubSeq(rt, 1, Len(rb))[k] = rt[k]
    BY <1>4, <1>6, HeadIs
  <2> QED BY <1>3, <1>5, <2>1, <2>2, SeqEqual
<1> QED BY <1>6, <1>7 DEF IsSuffix, IsPrefix, t, rb, rt

-----------------------------------------------------------------------------
(* The steps of a transfer, by what they do to the file and to what the    *)
(* process holds, whichever utility takes them.                            *)

(* c's job, its source and what it has read of it are what they were. *)
Holds(c) ==
    LET p == proc[c]  q == proc'[c] IN
    /\ StepOf(c)
    /\ q.op = p.op /\ q.far.data = p.far.data
    /\ q.pos = p.pos /\ q.buf = p.buf /\ q.io = p.io

(* A step on the way to the lock. *)
Prepare(c) ==
    LET p == proc[c]  q == proc'[c] IN
    /\ Holds(c)
    /\ p.pc \in Before \ {"lock", "truncate", "seek"}
    /\ q.pc \in {"open", "local", "creat", "lock"}
    /\ q.off \in {p.off, 0}
    /\ q.far.exists \in {p.far.exists, TRUE}
    /\ q.ret = p.ret \/ (p.pc = "stat" /\ (~p.far.exists => q.ret = -1))
    /\ p.op = "put" /\ p.pc = "lstat" => dir = None \/ "lstat" \in Fault
    /\ dir' \in {dir, Created(c)}
    /\ UNCHANGED <<data, lock>>

(* The end of a transfer that never had a descriptor. *)
Abandon(c) ==
    LET p == proc[c]  q == proc'[c] IN
    /\ Holds(c)
    /\ p.pc \in Before \ {"lock", "truncate", "seek"}
    /\ q.pc \in {"rm", "done"}
    /\ q.ret \in {p.ret, -1}
    /\ p.op \in WriteOp => q.ret = -1
    /\ p.op \in {"put_f", "put_a", "cp_in"} =>
          ~p.far.exists \/ Fault \cap {"creat", "local"} # {}
    /\ UNCHANGED volume

(* The local destination cannot be opened. *)
NoDestination(c) ==
    LET p == proc[c]  q == proc'[c] IN
    /\ Holds(c)
    /\ p.op \in ReadOp /\ p.pc = "local"
    /\ q.pc = "close" /\ q.ret = p.ret
    /\ UNCHANGED volume

(* What the copy loop returned becomes the result. *)
WriterReports(c) ==
    LET p == proc[c]  q == proc'[c] IN
    /\ Holds(c)
    /\ p.op \in WriteOp /\ p.pc = "report"
    /\ q.pc = "close" /\ q.fd = p.fd
    /\ q.ret = IF p.io = 0 THEN -1 ELSE p.ret
    /\ UNCHANGED volume

ReaderReports(c) ==
    LET p == proc[c]  q == proc'[c] IN
    /\ Holds(c)
    /\ p.op \in ReadOp /\ p.pc = "report"
    /\ q.pc = "close" /\ q.fd = p.fd
    /\ q.ret = -1 <=> p.io = -1
    /\ UNCHANGED volume

(* The descriptor is closed. *)
Finish(c) ==
    LET p == proc[c]  q == proc'[c] IN
    /\ Holds(c)
    /\ p.pc = "close" /\ q.pc \in {"rm", "done"}
    /\ p.op \in WriteOp => q.ret = p.ret
    /\ lock' = Released(c)
    /\ UNCHANGED <<dir, data>>

(* gfmv removes its source. *)
RemoveSource(c) ==
    LET p == proc[c]  q == proc'[c] IN
    /\ Holds(c)
    /\ p.op \in {"mv_in", "mv_out"} /\ p.pc = "rm" /\ q.pc = "done"
    /\ dir' \in {dir, None}
    /\ UNCHANGED <<data, lock>>

(* The process is killed. *)
Dies(c) ==
    LET p == proc[c]  q == proc'[c] IN
    /\ Holds(c)
    /\ "kill" \in Fault /\ ~Ended(c) /\ q.pc = "killed"
    /\ lock' = Released(c)
    /\ UNCHANGED <<dir, data>>

(* The lock is granted, or refused. *)
Locks(c) ==
    LET p == proc[c]  q == proc'[c] IN
    /\ Holds(c)
    /\ p.pc = "lock" /\ q.fd = p.fd /\ q.far = p.far /\ q.off = p.off /\ q.ret = 0
    /\ q.pc = IF p.op \in ReadOp THEN "copy"
              ELSE IF p.op = "put_a" THEN "seek" ELSE "truncate"
    /\ Grantable(c) /\ lock' = [lock EXCEPT ![p.fd] = c]
    /\ UNCHANGED <<dir, data>>

(* A call between the lock and the copy loop fails, or the lock does. *)
Fails(c) ==
    LET p == proc[c]  q == proc'[c] IN
    /\ Holds(c)
    /\ p.pc \in {"lock", "truncate", "seek"}
    /\ p.pc = "lock" => ~Grantable(c) \/ "lock" \in Fault
    /\ p.pc # "lock" => p.op \in WriteOp /\ Fault \cap {"ftruncate", "seek"} # {}
    /\ q.pc = "close" /\ q.fd = p.fd /\ q.ret = -1
    /\ UNCHANGED volume

(* The place for the first block is made, or found. *)
Starts(c) ==
    LET p == proc[c]  q == proc'[c] IN
    /\ Holds(c)
    /\ p.op \in WriteOp
    /\ q.pc = "copy" /\ q.fd = p.fd /\ q.ret = 0
    /\ \/ /\ p.pc = "truncate" /\ p.op # "put_a"
          /\ data' = [data EXCEPT ![p.fd] = << >>] /\ q.off = p.off
       \/ /\ p.pc = "seek" /\ p.op = "put_a"
          /\ UNCHANGED data /\ q.off = Len(data[p.fd])
    /\ UNCHANGED <<dir, lock>>

(* A step of a copy loop. *)
Loops(c) ==
    LET p == proc[c]  q == proc'[c] IN
    /\ StepOf(c)
    /\ p.pc = "copy" /\ q.pc \in {"copy", "report"}
    /\ q.op = p.op /\ q.fd = p.fd /\ q.ret = p.ret
    /\ UNCHANGED <<dir, lock>>

WriterEnds(c) ==
    LET p == proc[c]  q == proc'[c] IN
    /\ Loops(c)
    /\ p.op \in WriteOp /\ q.pc = "report" /\ q.far.data = p.far.data
    /\ \/ p.buf = << >> /\ p.pos = Len(p.far.data) /\ q.io = p.io
       \/ Fault \cap {"srcread", "write"} # {} /\ q.io = -1
    /\ UNCHANGED data

WriterFills(c) ==
    LET p == proc[c]  q == proc'[c] IN
    /\ Loops(c)
    /\ p.op \in WriteOp /\ q.pc = "copy" /\ p.buf = << >>
    /\ \E n \in Nat \ {0} :
          /\ p.pos + n <= Len(p.far.data)
          /\ q.buf = SubSeq(p.far.data, p.pos + 1, p.pos + n)
          /\ q.pos = p.pos + n
    /\ q.far.data = p.far.data /\ q.off = p.off /\ q.io = p.io
    /\ UNCHANGED data

WriterPuts(c) ==
    LET p == proc[c]  q == proc'[c] IN
    /\ Loops(c)
    /\ p.op \in WriteOp /\ q.pc = "copy" /\ q.io = 1
    /\ \E k \in 1..Len(p.buf) :
          /\ data' = [data EXCEPT ![p.fd] =
                          WriteAt(data[p.fd], p.off, SubSeq(p.buf, 1, k))]
          /\ q.buf = SubSeq(p.buf, k + 1, Len(p.buf))
          /\ q.off = p.off + k
    /\ q.far.data = p.far.data /\ q.pos = p.pos

ReaderEnds(c) ==
    LET p == proc[c]  q == proc'[c] IN
    /\ Loops(c)
    /\ p.op \in ReadOp /\ q.pc = "report" /\ p.buf = << >>
    /\ Len(data[p.fd]) <= p.off \/ "read" \in Fault
    /\ q.far.data = p.far.data /\ q.io = p.io
    /\ UNCHANGED data

ReaderFills(c) ==
    LET p == proc[c]  q == proc'[c] IN
    /\ Loops(c)
    /\ p.op \in ReadOp /\ q.pc = "copy" /\ p.buf = << >>
    /\ \E n \in Nat \ {0} :
          /\ p.off + n <= Len(data[p.fd])
          /\ q.buf = SubSeq(data[p.fd], p.off + 1, p.off + n)
          /\ q.off = p.off + n
    /\ q.far.data = p.far.data /\ q.pos = p.pos
    /\ UNCHANGED data

ReaderPuts(c) ==
    LET p == proc[c]  q == proc'[c] IN
    /\ Loops(c)
    /\ p.op \in ReadOp
    /\ \/ /\ q.pc = "copy" /\ q.buf = << >> /\ q.off = p.off
          /\ q.far.data = WriteAt(p.far.data, p.pos, p.buf)
          /\ q.pos = p.pos + Len(p.buf)
       \/ /\ q.pc = "report" /\ q.io = -1 /\ "dstwrite" \in Fault
          /\ \E k \in 0..(Len(p.buf) - 1) :
                q.far.data = WriteAt(p.far.data, p.pos, SubSeq(p.buf, 1, k))
    /\ UNCHANGED data

TransferStep(c) ==
    \/ Prepare(c) \/ Abandon(c) \/ NoDestination(c)
    \/ Locks(c) \/ Fails(c) \/ Starts(c)
    \/ WriterEnds(c) \/ WriterFills(c) \/ WriterPuts(c) \/ WriterReports(c)
    \/ ReaderEnds(c) \/ ReaderFills(c) \/ ReaderPuts(c) \/ ReaderReports(c)
    \/ Finish(c) \/ RemoveSource(c) \/ Dies(c)

(* What a process holds after a step that only moves it on. *)
Moved(c, l, r) ==
    LET p == proc[c]  q == proc'[c] IN
    Holds(c) /\ q.pc = l /\ q.ret = r /\ q.off = p.off /\ q.fd = p.fd /\ q.far = p.far

(* What the invariant says of one process. *)
LEMMA Fields ==
    ASSUME LocalInvariant, NEW c \in Client
    PROVE  /\ proc[c] \in Process
           /\ c \in DOMAIN proc
           /\ proc = [d \in Client |-> proc[d]]
BY DEF LocalInvariant, Sound

(* The steps of Volume that change nothing but the place and the result. *)
LEMMA MovesOn ==
    ASSUME LocalInvariant, NEW c \in Client, NEW l
    PROVE  /\ Goto(c, l) => Moved(c, l, proc[c].ret)
           /\ FailTo(c, l) => Moved(c, l, -1)
           /\ \A r : Moves(c, l, r) => Moved(c, l, r)
<1>1. \A r : Moves(c, l, r) => Moved(c, l, r)
  <2> TAKE r
  <2> SUFFICES ASSUME Moves(c, l, r) PROVE Moved(c, l, r)
    OBVIOUS
  <2> DEFINE p == proc[c]
             q == [p EXCEPT !.pc = l, !.ret = r]
  <2>1. p \in Process
    BY Fields
  <2>2. /\ q.op = p.op /\ q.far = p.far /\ q.pos = p.pos /\ q.buf = p.buf
        /\ q.io = p.io /\ q.pc = l /\ q.ret = r /\ q.off = p.off /\ q.fd = p.fd
    BY <2>1 DEF Process
  <2>3. StepOf(c) /\ proc'[c] = q
    BY DEF Moves
  <2> HIDE DEF p, q
  <2> QED BY <2>2, <2>3 DEF Moved, Holds, p
<1> QED BY <1>1, GotoMoves

(* glfs_open and glfs_creat. *)
LEMMA OpensOn ==
    ASSUME LocalInvariant, NEW c \in Client, NEW i, NEW l, Opened(c, i, l)
    PROVE  /\ Holds(c)
           /\ proc'[c].pc = l /\ proc'[c].fd = i /\ proc'[c].off = 0
           /\ proc'[c].ret = proc[c].ret /\ proc'[c].far = proc[c].far
<1> DEFINE p == proc[c]
           q == [p EXCEPT !.pc = l, !.fd = i, !.off = 0]
<1>1. p \in Process
  BY Fields
<1>2. /\ q.op = p.op /\ q.far = p.far /\ q.pos = p.pos /\ q.buf = p.buf
      /\ q.io = p.io /\ q.pc = l /\ q.ret = p.ret /\ q.off = 0 /\ q.fd = i
  BY <1>1 DEF Process
<1>3. StepOf(c) /\ proc'[c] = q
  BY Fields DEF Opened, StepOf
<1> HIDE DEF p, q
<1> QED BY <1>2, <1>3 DEF Holds, p

(* gluster_lock. *)
LEMMA LockSteps ==
    ASSUME LocalInvariant, NEW c \in Client, NEW next, GlusterLock(c, next),
           \/ proc[c].op \in ReadOp /\ next = "copy"
           \/ proc[c].op = "put_a" /\ next = "seek"
           \/ proc[c].op \in WriteOp \ {"put_a"} /\ next = "truncate"
    PROVE  TransferStep(c)
<1> DEFINE p == proc[c]
<1>1. p.pc = "lock" /\ UNCHANGED <<dir, data>>
  BY DEF GlusterLock
<1>2. CASE /\ Grantable(c) /\ lock' = [lock EXCEPT ![p.fd] = c]
           /\ proc' = [proc EXCEPT ![c].pc = next, ![c].ret = 0]
  <2>1. Moves(c, next, 0)
    BY <1>2 DEF Moves, StepOf, LocalInvariant
  <2>2. Moved(c, next, 0)
    BY <2>1, MovesOn
  <2>3. Locks(c)
    BY <1>1, <1>2, <2>2 DEF Locks, Moved, WriteOp, ReadOp
  <2> QED BY <2>3 DEF TransferStep
<1>3. CASE (~Grantable(c) \/ "lock" \in Fault) /\ FailTo(c, "close") /\ UNCHANGED lock
  <2>1. Moved(c, "close", -1)
    BY <1>3, MovesOn
  <2>2. Fails(c)
    BY <1>1, <1>3, <2>1 DEF Fails, Moved, volume
  <2> QED BY <2>2 DEF TransferStep
<1> QED BY <1>2, <1>3 DEF GlusterLock

(* glfs_ftruncate. *)
LEMMA EmptySteps ==
    ASSUME LocalInvariant, NEW c \in Client, proc[c].op \in WriteOp \ {"put_a"},
           FtruncateToZero(c, "copy")
    PROVE  TransferStep(c)
<1> DEFINE p == proc[c]
<1>1. CASE /\ data' = [data EXCEPT ![p.fd] = << >>]
           /\ proc' = [proc EXCEPT ![c].pc = "copy", ![c].ret = 0]
  <2>1. Moves(c, "copy", 0)
    BY <1>1 DEF Moves, StepOf, LocalInvariant
  <2>2. Moved(c, "copy", 0)
    BY <2>1, MovesOn
  <2>3. Starts(c)
    BY <1>1, <2>2 DEF FtruncateToZero, Starts, Moved
  <2> QED BY <2>3 DEF TransferStep
<1>2. CASE "ftruncate" \in Fault /\ FailTo(c, "close") /\ UNCHANGED data
  <2>1. Moved(c, "close", -1)
    BY <1>2, MovesOn
  <2>2. Fails(c)
    BY <1>2, <2>1 DEF FtruncateToZero, Fails, Moved, volume
  <2> QED BY <2>2 DEF TransferStep
<1> QED BY <1>1, <1>2 DEF FtruncateToZero

(* glfs_lseek. *)
LEMMA SeekSteps ==
    ASSUME LocalInvariant, NEW c \in Client, PutSeek(c)
    PROVE  TransferStep(c)
<1> DEFINE p == proc[c]
<1>1. CASE proc' = [proc EXCEPT ![c].pc = "copy", ![c].ret = 0,
                                ![c].off = Len(data[p.fd])]
  <2> DEFINE q == [p EXCEPT !.pc = "copy", !.ret = 0, !.off = Len(data[p.fd])]
  <2>1. StepOf(c) /\ proc'[c] = q
    BY <1>1 DEF StepOf, LocalInvariant
  <2>2. /\ q.op = p.op /\ q.far = p.far /\ q.pos = p.pos /\ q.buf = p.buf
        /\ q.io = p.io /\ q.pc = "copy" /\ q.ret = 0 /\ q.fd = p.fd
        /\ q.off = Len(data[p.fd])
    BY Fields DEF Process
  <2> HIDE DEF q
  <2>3. Starts(c)
    BY <2>1, <2>2 DEF PutSeek, Starts, Holds, WriteOp, volume
  <2> QED BY <2>3 DEF TransferStep
<1>2. CASE "seek" \in Fault /\ FailTo(c, "close")
  <2>1. Moved(c, "close", -1)
    BY <1>2, MovesOn
  <2>2. Fails(c)
    BY <1>2, <2>1 DEF PutSeek, Fails, Moved, WriteOp
  <2> QED BY <2>2 DEF TransferStep
<1> QED BY <1>1, <1>2 DEF PutSeek

(* What one call reads is something, and no more than there is. *)
LEMMA ReadSize ==
    ASSUME NEW a \in Nat, NEW b \in Nat, NEW n \in 1..Smaller(Chunk, a - b)
    PROVE  n \in Nat \ {0} /\ b + n <= a
BY VolumeAssumption DEF Smaller

(* gluster_write. *)
LEMMA WriteSteps ==
    ASSUME LocalInvariant, NEW c \in Client, proc[c].op \in WriteOp,
           GlusterWriteRead(c) \/ GlusterWriteWrite(c)
    PROVE  TransferStep(c)
<1> DEFINE p == proc[c]
<1>1. p \in Process
  BY Fields
<1>2. p.pos \in Nat /\ Len(p.far.data) \in Nat
  <2>1. p.pos \in Nat /\ p.far.data \in Seq(Block)
    BY <1>1 DEF Process
  <2> QED BY <2>1, LenProperties
<1>3. CASE GlusterWriteRead(c)
  <2>1. p.pc = "copy" /\ p.buf = << >> /\ UNCHANGED <<dir, data, lock>>
    BY <1>3 DEF GlusterWriteRead, volume
  <2>2. CASE Len(p.far.data) - p.pos = 0 /\ Goto(c, "report")
    <3>1. Moved(c, "report", p.ret)
      BY <2>2, MovesOn
    <3>2. WriterEnds(c)
      BY <1>2, <2>1, <2>2, <3>1 DEF WriterEnds, Loops, Moved, Holds
    <3> QED BY <3>2 DEF TransferStep
  <2>3. CASE /\ "srcread" \in Fault
             /\ proc' = [proc EXCEPT ![c].pc = "report", ![c].io = -1]
    <3> DEFINE q == [p EXCEPT !.pc = "report", !.io = -1]
    <3>1. StepOf(c) /\ proc'[c] = q
      BY <2>3 DEF StepOf, LocalInvariant
    <3>2. /\ q.op = p.op /\ q.far = p.far /\ q.io = -1 /\ q.pc = "report"
          /\ q.ret = p.ret /\ q.fd = p.fd
      BY <1>1 DEF Process
    <3> HIDE DEF q
    <3>3. WriterEnds(c)
      BY <2>1, <2>3, <3>1, <3>2 DEF WriterEnds, Loops
    <3> QED BY <3>3 DEF TransferStep
  <2>4. ASSUME NEW n \in 1..Smaller(Chunk, Len(p.far.data) - p.pos),
               proc' = [proc EXCEPT
                   ![c].buf = SubSeq(p.far.data, p.pos + 1, p.pos + n),
                   ![c].pos = p.pos + n]
        PROVE  TransferStep(c)
    <3> DEFINE b == SubSeq(p.far.data, p.pos + 1, p.pos + n)
               o == p.pos + n
               q == [p EXCEPT !.buf = b, !.pos = o]
    <3>1. StepOf(c) /\ proc'[c] = q
      BY <2>4 DEF StepOf, LocalInvariant
    <3>2. /\ q.op = p.op /\ q.far = p.far /\ q.io = p.io /\ q.pc = p.pc
          /\ q.ret = p.ret /\ q.fd = p.fd /\ q.off = p.off /\ q.buf = b /\ q.pos = o
      BY <1>1 DEF Process
    <3>3. n \in Nat \ {0} /\ p.pos + n <= Len(p.far.data)
      BY <1>2, ReadSize
    <3> HIDE DEF q
    <3>4. WriterFills(c)
      BY <2>1, <3>1, <3>2, <3>3 DEF WriterFills, Loops
    <3> QED BY <3>4 DEF TransferStep
  <2> QED BY <1>3, <2>2, <2>3, <2>4 DEF GlusterWriteRead
<1>4. CASE GlusterWriteWrite(c)
  <2>1. p.pc = "copy" /\ UNCHANGED <<dir, lock>>
    BY <1>4 DEF GlusterWriteWrite
  <2>2. CASE /\ "write" \in Fault
             /\ proc' = [proc EXCEPT ![c].pc = "report", ![c].io = -1]
             /\ UNCHANGED data
    <3> DEFINE q == [p EXCEPT !.pc = "report", !.io = -1]
    <3>1. StepOf(c) /\ proc'[c] = q
      BY <2>2 DEF StepOf, LocalInvariant
    <3>2. /\ q.op = p.op /\ q.far = p.far /\ q.io = -1 /\ q.pc = "report"
          /\ q.ret = p.ret /\ q.fd = p.fd
      BY <1>1 DEF Process
    <3> HIDE DEF q
    <3>3. WriterEnds(c)
      BY <2>1, <2>2, <3>1, <3>2 DEF WriterEnds, Loops
    <3> QED BY <3>3 DEF TransferStep
  <2>3. ASSUME NEW k \in 1..Len(p.buf),
               data' = [data EXCEPT ![p.fd] =
                            WriteAt(@, p.off, SubSeq(p.buf, 1, k))],
               proc' = [proc EXCEPT
                            ![c].buf = SubSeq(p.buf, k + 1, Len(p.buf)),
                            ![c].off = p.off + k,
                            ![c].io = 1]
        PROVE  TransferStep(c)
    <3> DEFINE r == SubSeq(p.buf, k + 1, Len(p.buf))
               o == p.off + k
               q == [p EXCEPT !.buf = r, !.off = o, !.io = 1]
    <3>1. StepOf(c) /\ proc'[c] = q
      BY <2>3 DEF StepOf, LocalInvariant
    <3>2. /\ q.op = p.op /\ q.far = p.far /\ q.io = 1 /\ q.pc = p.pc
          /\ q.ret = p.ret /\ q.fd = p.fd /\ q.off = o /\ q.buf = r /\ q.pos = p.pos
      BY <1>1 DEF Process
    <3>3. data' = [data EXCEPT ![p.fd] =
                      WriteAt(data[p.fd], p.off, SubSeq(p.buf, 1, k))]
      BY <2>3
    <3> HIDE DEF q
    <3>4. WriterPuts(c)
      BY <2>1, <3>1, <3>2, <3>3 DEF WriterPuts, Loops
    <3> QED BY <3>4 DEF TransferStep
  <2> QED BY <1>4, <2>2, <2>3 DEF GlusterWriteWrite
<1> QED BY <1>3, <1>4

(* gluster_read. *)
LEMMA ReadSteps ==
    ASSUME LocalInvariant, NEW c \in Client, proc[c].op \in ReadOp,
           GlusterReadRead(c) \/ GlusterReadWrite(c)
    PROVE  TransferStep(c)
<1> DEFINE p == proc[c]
<1>1. /\ p \in Process /\ p.pc = "copy" /\ UNCHANGED <<dir, data, lock>>
      /\ p.far \in [exists : BOOLEAN, data : Seq(Block)]
  BY Fields DEF GlusterReadRead, GlusterReadWrite, volume, Process
<1>2. p.off \in Nat /\ Len(data[p.fd]) \in Nat
  <2>1. p.off \in Nat /\ data[p.fd] \in Seq(Block)
    BY <1>1 DEF LocalInvariant, VolumeOK, Sound, NeedsDescriptor, Process
  <2> QED BY <2>1, LenProperties
<1>3. CASE GlusterReadRead(c)
  <2>1. p.buf = << >>
    BY <1>3 DEF GlusterReadRead
  <2>2. CASE (Len(data[p.fd]) - p.off <= 0 \/ "read" \in Fault) /\ Goto(c, "report")
    <3>1. Moved(c, "report", p.ret)
      BY <2>2, MovesOn
    <3>2. ReaderEnds(c)
      BY <1>1, <1>2, <2>1, <2>2, <3>1 DEF ReaderEnds, Loops, Moved, Holds
    <3> QED BY <3>2 DEF TransferStep
  <2>3. ASSUME NEW n \in 1..Smaller(Chunk, Len(data[p.fd]) - p.off),
               proc' = [proc EXCEPT
                   ![c].buf = SubSeq(data[p.fd], p.off + 1, p.off + n),
                   ![c].off = p.off + n]
        PROVE  TransferStep(c)
    <3> DEFINE b == SubSeq(data[p.fd], p.off + 1, p.off + n)
               o == p.off + n
               q == [p EXCEPT !.buf = b, !.off = o]
    <3>1. StepOf(c) /\ proc'[c] = q
      BY <2>3 DEF StepOf, LocalInvariant
    <3>2. /\ q.op = p.op /\ q.far = p.far /\ q.pc = p.pc /\ q.ret = p.ret
          /\ q.fd = p.fd /\ q.off = o /\ q.buf = b /\ q.pos = p.pos
      BY <1>1 DEF Process
    <3>3. n \in Nat \ {0} /\ p.off + n <= Len(data[p.fd])
      BY <1>2, ReadSize
    <3> HIDE DEF q
    <3>4. ReaderFills(c)
      BY <1>1, <2>1, <3>1, <3>2, <3>3 DEF ReaderFills, Loops
    <3> QED BY <3>4 DEF TransferStep
  <2> QED BY <1>3, <2>2, <2>3 DEF GlusterReadRead
<1>4. CASE GlusterReadWrite(c)
  <2>1. CASE proc' = [proc EXCEPT
                ![c].far.data = WriteAt(@, p.pos, p.buf),
                ![c].pos = p.pos + Len(p.buf),
                ![c].buf = << >>,
                ![c].io = 1]
    <3> DEFINE w == WriteAt(p.far.data, p.pos, p.buf)
               f == [p.far EXCEPT !.data = w]
               o == p.pos + Len(p.buf)
               q == [p EXCEPT !.far = f, !.pos = o, !.buf = << >>, !.io = 1]
    <3>1. StepOf(c) /\ proc'[c] = q
      BY <2>1 DEF StepOf, LocalInvariant
    <3>2. /\ q.op = p.op /\ q.far = f /\ q.pc = p.pc /\ q.ret = p.ret
          /\ q.fd = p.fd /\ q.off = p.off /\ q.buf = << >> /\ q.pos = o /\ f.data = w
      BY <1>1 DEF Process
    <3> HIDE DEF q, f
    <3>3. ReaderPuts(c)
      BY <1>1, <3>1, <3>2 DEF ReaderPuts, Loops
    <3> QED BY <3>3 DEF TransferStep
  <2>2. ASSUME "dstwrite" \in Fault,
               NEW k \in 0..(Len(p.buf) - 1),
               proc' = [proc EXCEPT
                   ![c].far.data = WriteAt(@, p.pos, SubSeq(p.buf, 1, k)),
                   ![c].pc = "report",
                   ![c].io = -1]
        PROVE  TransferStep(c)
    <3> DEFINE w == WriteAt(p.far.data, p.pos, SubSeq(p.buf, 1, k))
               f == [p.far EXCEPT !.data = w]
               q == [p EXCEPT !.far = f, !.pc = "report", !.io = -1]
    <3>1. StepOf(c) /\ proc'[c] = q
      BY <2>2 DEF StepOf, LocalInvariant
    <3>2. /\ q.op = p.op /\ q.far = f /\ q.pc = "report" /\ q.ret = p.ret
          /\ q.fd = p.fd /\ q.io = -1 /\ f.data = w
      BY <1>1 DEF Process
    <3> HIDE DEF q, f
    <3>3. ReaderPuts(c)
      BY <1>1, <2>2, <3>1, <3>2 DEF ReaderPuts, Loops
    <3> QED BY <3>3 DEF TransferStep
  <2> QED BY <1>4, <2>1, <2>2 DEF GlusterReadWrite
<1> QED BY <1>3, <1>4

(* Every step of gfput is one of them. *)
LEMMA PutSteps ==
    ASSUME LocalInvariant, NEW c \in Client, PutNext(c)
    PROVE  TransferStep(c)
<1>1. CASE PutLstat(c)
  <2>1. CASE FailTo(c, "done")
    <3>1. Abandon(c)
      BY <1>1, <2>1, MovesOn DEF PutLstat, Abandon, Moved, Holds, Before, volume
    <3> QED BY <3>1 DEF TransferStep
  <2>2. CASE /\ dir = None \/ proc[c].op # "put" \/ "lstat" \in Fault
             /\ Goto(c, "creat")
    <3>1. Prepare(c)
      BY <1>1, <2>2, MovesOn DEF PutLstat, Prepare, Moved, Holds, Before, volume
    <3> QED BY <3>1 DEF TransferStep
  <2> QED BY <1>1, <2>1, <2>2 DEF PutLstat
<1>2. CASE PutCreat(c)
  <2>1. CASE dir' = Created(c) /\ Opened(c, Created(c), "lock")
    <3>1. Prepare(c)
      BY <1>2, <2>1, OpensOn DEF PutCreat, Prepare, Before
    <3> QED BY <3>1 DEF TransferStep
  <2>2. CASE "creat" \in Fault /\ FailTo(c, "done") /\ UNCHANGED dir
    <3>1. Abandon(c)
      BY <1>2, <2>2, MovesOn DEF PutCreat, Abandon, Moved, Before, volume
    <3> QED BY <3>1 DEF TransferStep
  <2> QED BY <1>2, <2>1, <2>2 DEF PutCreat
<1>3. CASE PutLock(c)
  BY <1>3, LockSteps DEF PutLock, PutOp, WriteOp
<1>4. CASE PutTruncate(c)
  BY <1>4, EmptySteps DEF PutTruncate, WriteOp
<1>5. CASE PutCopy(c)
  BY <1>5, WriteSteps DEF PutCopy, PutOp, WriteOp
<1>6. CASE PutReport(c)
  <2>1. Moved(c, "close", IF proc[c].io = 0 THEN -1 ELSE proc[c].ret)
    BY <1>6, MovesOn DEF PutReport
  <2>2. WriterReports(c)
    BY <1>6, <2>1 DEF PutReport, PutOp, WriterReports, Moved, WriteOp
  <2> QED BY <2>2 DEF TransferStep
<1>7. CASE PutClose(c)
  <2>1. Finish(c)
    BY <1>7, Fields DEF PutClose, Close, Finish, Holds, StepOf, Process
  <2> QED BY <2>1 DEF TransferStep
<1> QED BY <1>1, <1>2, <1>3, <1>4, <1>5, <1>6, <1>7, SeekSteps DEF PutNext

(* Every step of the first function of gfcp and gfmv. *)
LEMMA LocalToRemoteSteps ==
    ASSUME LocalInvariant, NEW c \in Client,
           NEW ops \in SUBSET {"cp_in", "mv_in"}, NEW exit \in {"rm", "done"},
           LocalToRemote(c, ops, exit)
    PROVE  TransferStep(c)
<1>1. proc[c].op \in {"cp_in", "mv_in"} /\ proc[c].op \in ops
  BY DEF LocalToRemote, LocalToRemoteOpen, LocalToRemoteCreat,
         LocalToRemoteReport, Runs
<1>2. CASE LocalToRemoteOpen(c, ops, exit)
  <2>1. CASE Goto(c, "creat")
    <3>1. Prepare(c)
      BY <1>2, <2>1, MovesOn
      DEF LocalToRemoteOpen, Runs, Prepare, Moved, Before, volume
    <3> QED BY <3>1 DEF TransferStep
  <2>2. CASE FailTo(c, exit)
    <3>1. Abandon(c)
      BY <1>2, <2>2, MovesOn DEF LocalToRemoteOpen, Runs, Abandon, Moved, Before
    <3> QED BY <3>1 DEF TransferStep
  <2> QED BY <1>2, <2>1, <2>2 DEF LocalToRemoteOpen
<1>3. CASE LocalToRemoteCreat(c, ops, exit)
  <2>1. CASE dir' = Created(c) /\ Opened(c, Created(c), "lock")
    <3>1. /\ Holds(c)
          /\ proc'[c].pc = "lock" /\ proc'[c].off = 0
          /\ proc'[c].ret = proc[c].ret /\ proc'[c].far = proc[c].far
      BY <2>1, OpensOn
    <3>2. Prepare(c)
      BY <1>3, <2>1, <3>1 DEF LocalToRemoteCreat, Runs, Prepare, Before
    <3> QED BY <3>2 DEF TransferStep
  <2>2. CASE "creat" \in Fault /\ FailTo(c, exit) /\ UNCHANGED dir
    <3>1. Abandon(c)
      BY <1>3, <2>2, MovesOn
      DEF LocalToRemoteCreat, Runs, Abandon, Moved, Before, volume
    <3> QED BY <3>1 DEF TransferStep
  <2> QED BY <1>3, <2>1, <2>2 DEF LocalToRemoteCreat
<1>4. CASE GlusterLock(c, "truncate")
  BY <1>1, <1>4, LockSteps DEF WriteOp
<1>5. CASE FtruncateToZero(c, "copy")
  BY <1>1, <1>5, EmptySteps DEF WriteOp
<1>6. CASE GlusterWriteRead(c) \/ GlusterWriteWrite(c)
  BY <1>1, <1>6, WriteSteps DEF WriteOp
<1>7. CASE LocalToRemoteReport(c, ops)
  <2>1. Moved(c, "close", IF proc[c].io = 0 THEN -1 ELSE proc[c].ret)
    BY <1>7, MovesOn DEF LocalToRemoteReport
  <2>2. WriterReports(c)
    BY <1>1, <1>7, <2>1 DEF LocalToRemoteReport, Runs, WriterReports, Moved, WriteOp
  <2> QED BY <2>2 DEF TransferStep
<1>8. CASE Close(c, exit)
  <2>1. Finish(c)
    BY <1>8, Fields DEF Close, Finish, Holds, StepOf, Process
  <2> QED BY <2>1 DEF TransferStep
<1> QED
  BY <1>2, <1>3, <1>4, <1>5, <1>6, <1>7, <1>8 DEF LocalToRemote

(* Every step of the second. *)
LEMMA RemoteToLocalSteps ==
    ASSUME LocalInvariant, NEW c \in Client,
           NEW ops \in SUBSET {"cp_out", "mv_out"}, NEW exit \in {"rm", "done"},
           RemoteToLocal(c, ops, exit)
    PROVE  TransferStep(c)
<1>1. proc[c].op \in {"cp_out", "mv_out"} /\ proc[c].op \in ops
  BY DEF RemoteToLocal, RemoteToLocalStat, RemoteToLocalOpen, RemoteToLocalCreat,
         RemoteToLocalReport, Runs
<1>2. CASE RemoteToLocalStat(c, ops)
  <2>1. Prepare(c)
    BY <1>1, <1>2, Fields
    DEF RemoteToLocalStat, Runs, Prepare, Holds, StepOf, Process, Before, volume
  <2> QED BY <2>1 DEF TransferStep
<1>3. CASE RemoteToLocalOpen(c, ops, exit)
  <2>1. CASE Opened(c, dir, "local")
    <3>1. /\ Holds(c)
          /\ proc'[c].pc = "local" /\ proc'[c].off = 0
          /\ proc'[c].ret = proc[c].ret /\ proc'[c].far = proc[c].far
      BY <2>1, OpensOn
    <3>2. Prepare(c)
      BY <1>3, <3>1 DEF RemoteToLocalOpen, Runs, Prepare, Before, volume
    <3> QED BY <3>2 DEF TransferStep
  <2>2. CASE Goto(c, exit)
    <3>1. Abandon(c)
      BY <1>1, <1>3, <2>2, MovesOn
      DEF RemoteToLocalOpen, Runs, Abandon, Moved, Before, WriteOp
    <3> QED BY <3>1 DEF TransferStep
  <2> QED BY <1>3, <2>1, <2>2 DEF RemoteToLocalOpen
<1>4. CASE RemoteToLocalCreat(c, ops)
  <2>1. CASE proc' = [proc EXCEPT ![c].pc = "lock", ![c].far.exists = TRUE]
    <3> DEFINE p == proc[c]
               f == [p.far EXCEPT !.exists = TRUE]
               q == [p EXCEPT !.pc = "lock", !.far = f]
    <3>1. StepOf(c) /\ proc'[c] = q
      BY <2>1, Fields DEF StepOf
    <3>2. /\ q.op = p.op /\ q.far = f /\ q.pos = p.pos /\ q.buf = p.buf
          /\ q.io = p.io /\ q.pc = "lock" /\ q.ret = p.ret /\ q.off = p.off
          /\ f.data = p.far.data /\ f.exists = TRUE
      BY Fields DEF Process
    <3> HIDE DEF f, q
    <3>3. Prepare(c)
      BY <1>4, <3>1, <3>2
      DEF RemoteToLocalCreat, Runs, Prepare, Holds, Before, volume
    <3> QED BY <3>3 DEF TransferStep
  <2>2. CASE Goto(c, "close")
    <3>1. NoDestination(c)
      BY <1>1, <1>4, <2>2, MovesOn
      DEF RemoteToLocalCreat, Runs, NoDestination, Moved, ReadOp
    <3> QED BY <3>1 DEF TransferStep
  <2> QED BY <1>4, <2>1, <2>2 DEF RemoteToLocalCreat
<1>5. CASE GlusterLock(c, "copy")
  BY <1>1, <1>5, LockSteps DEF ReadOp
<1>6. CASE GlusterReadRead(c) \/ GlusterReadWrite(c)
  BY <1>1, <1>6, ReadSteps DEF ReadOp
<1>7. CASE RemoteToLocalReport(c, ops)
  <2>1. ReaderReports(c)
    BY <1>1, <1>7, Fields
    DEF RemoteToLocalReport, Runs, ReaderReports, Holds, StepOf, Process, volume,
        ReadOp
  <2> QED BY <2>1 DEF TransferStep
<1>8. CASE Close(c, exit)
  <2>1. Finish(c)
    BY <1>8, Fields DEF Close, Finish, Holds, StepOf, Process
  <2> QED BY <2>1 DEF TransferStep
<1> QED
  BY <1>2, <1>3, <1>4, <1>5, <1>6, <1>7, <1>8 DEF RemoteToLocal

(* Every step of gfcat. *)
LEMMA CatSteps ==
    ASSUME LocalInvariant, NEW c \in Client, CatNext(c)
    PROVE  TransferStep(c)
<1>1. CASE CatOpen(c)
  <2>1. CASE Opened(c, dir, "lock")
    <3>1. Prepare(c)
      BY <1>1, <2>1, OpensOn DEF CatOpen, Prepare, Before, volume
    <3> QED BY <3>1 DEF TransferStep
  <2>2. CASE FailTo(c, "done")
    <3>1. Abandon(c)
      BY <1>1, <2>2, MovesOn DEF CatOpen, Abandon, Moved, Before
    <3> QED BY <3>1 DEF TransferStep
  <2> QED BY <1>1, <2>1, <2>2 DEF CatOpen
<1>2. CASE CatLock(c)
  BY <1>2, LockSteps DEF CatLock, ReadOp
<1>3. CASE CatCopy(c)
  BY <1>3, ReadSteps DEF CatCopy, ReadOp
<1>4. CASE CatReport(c)
  <2> DEFINE r == IF proc[c].io = -1 THEN -1 ELSE 0
  <2>1. StepOf(c) /\ proc'[c] = [proc[c] EXCEPT !.pc = "close", !.ret = r]
    BY <1>4, Fields DEF CatReport, StepOf
  <2>2. Moved(c, "close", r)
    BY <2>1, MovesOn DEF Moves
  <2>3. ReaderReports(c)
    BY <1>4, <2>2 DEF CatReport, ReaderReports, Moved, ReadOp
  <2> QED BY <2>3 DEF TransferStep
<1>5. CASE CatClose(c)
  <2> DEFINE p == proc[c]
  <2>1. PICK r \in {p.ret} \cup {x \in {-1} : "close" \in Fault} :
            proc' = [proc EXCEPT ![c].pc = "done", ![c].fd = None, ![c].ret = r]
    BY <1>5 DEF CatClose
  <2> DEFINE q == [p EXCEPT !.pc = "done", !.fd = None, !.ret = r]
  <2>2. StepOf(c) /\ proc'[c] = q
    BY <2>1, Fields DEF StepOf
  <2>3. /\ q.op = p.op /\ q.far = p.far /\ q.pos = p.pos /\ q.buf = p.buf
        /\ q.io = p.io /\ q.pc = "done"
    BY Fields DEF Process
  <2> HIDE DEF q
  <2>4. Finish(c)
    BY <1>5, <2>2, <2>3 DEF CatClose, Finish, Holds, WriteOp
  <2> QED BY <2>4 DEF TransferStep
<1> QED BY <1>1, <1>2, <1>3, <1>4, <1>5 DEF CatNext

(* Every step of a utility that locks the path, and every signal. *)
LEMMA Steps ==
    ASSUME LocalInvariant, NEW c \in Client, proc[c].op \in Locker,
           UtilityStep(c) \/ Kill(c)
    PROVE  TransferStep(c)
<1>1. CASE PutNext(c)
  BY <1>1, PutSteps
<1>2. CASE CpNext(c)
  <2>1. ~RemoteToRemote(c)
    BY DEF RemoteToRemote, RemoteToRemoteLstat, RemoteToRemoteOpen,
           RemoteToRemoteCreat, RemoteToRemoteRead, RemoteToRemoteWrite, Runs,
           Locker, WriteOp, ReadOp
  <2>2. CASE LocalToRemote(c, {"cp_in"}, "done")
    BY <2>2, LocalToRemoteSteps
  <2>3. CASE RemoteToLocal(c, {"cp_out"}, "done")
    BY <2>3, RemoteToLocalSteps
  <2> QED BY <1>2, <2>1, <2>2, <2>3 DEF CpNext
<1>3. CASE MvNext(c)
  <2>1. CASE MvLocalToRemote(c)
    BY <2>1, LocalToRemoteSteps DEF MvLocalToRemote
  <2>2. CASE MvRemoteToLocal(c)
    BY <2>2, RemoteToLocalSteps DEF MvRemoteToLocal
  <2>3. CASE MvRmLocal(c)
    <3>1. CASE FailTo(c, "done")
      <4>1. RemoveSource(c)
        BY <2>3, <3>1, MovesOn DEF MvRmLocal, Runs, RemoveSource, Moved, volume
      <4> QED BY <4>1 DEF TransferStep
    <3>2. CASE proc' = [proc EXCEPT ![c].pc = "done", ![c].ret = 0,
                                    ![c].far.exists = FALSE]
      <4> DEFINE p == proc[c]
                 f == [p.far EXCEPT !.exists = FALSE]
                 q == [p EXCEPT !.pc = "done", !.ret = 0, !.far = f]
      <4>1. StepOf(c) /\ proc'[c] = q
        BY <3>2 DEF LocalInvariant, StepOf
      <4>2. /\ q.op = p.op /\ q.far = f /\ q.pos = p.pos /\ q.buf = p.buf
            /\ q.io = p.io /\ q.pc = "done" /\ f.data = p.far.data
        BY Fields DEF Process
      <4> HIDE DEF f, q
      <4>3. RemoveSource(c)
        BY <2>3, <4>1, <4>2 DEF MvRmLocal, Runs, RemoveSource, Holds, volume
      <4> QED BY <4>3 DEF TransferStep
    <3> QED BY <2>3, <3>1, <3>2 DEF MvRmLocal
  <2>4. CASE MvRmRemote(c)
    <3>1. Moves(c, "done", 0) \/ Moves(c, "done", -1)
      BY <2>4, GotoMoves DEF MvRmRemote, Moves, LocalInvariant, StepOf
    <3>2. Moved(c, "done", 0) \/ Moved(c, "done", -1)
      BY <3>1, MovesOn
    <3>3. RemoveSource(c)
      BY <2>4, <3>2 DEF MvRmRemote, Runs, Unlink, RemoveSource, Moved
    <3> QED BY <3>3 DEF TransferStep
  <2> QED BY <1>3, <2>1, <2>2, <2>3, <2>4 DEF MvNext
<1>4. CASE CatNext(c)
  BY <1>4, CatSteps
<1>5. ~TruncateNext(c) /\ ~RmUnlink(c)
  BY DEF TruncateNext, TruncateStat, TruncateCreat, TruncateOpen, TruncateLock,
         TruncateClose, TruncateResize, RmUnlink, TruncOp, Locker, WriteOp, ReadOp
<1>6. CASE Kill(c)
  <2>1. Dies(c)
    BY <1>6, Fields DEF Kill, Dies, Holds, StepOf, Process
  <2> QED BY <2>1 DEF TransferStep
<1> QED BY <1>1, <1>2, <1>3, <1>4, <1>5, <1>6 DEF UtilityStep

-----------------------------------------------------------------------------
(* What a step of one process leaves to the others. *)

StableStep ==
    stable' = [i \in Inode |-> IF lock'[i] = None THEN data'[i] ELSE stable[i]]

StableType == stable \in [Inode -> Seq(Block)]

(* Only the owner of a lock changes the data under it, or gives it back. *)
LEMMA Footprint ==
    ASSUME LocalInvariant, NEW c \in Client, TransferStep(c)
    PROVE  /\ StepOf(c)
           /\ proc'[c].op = proc[c].op
           /\ \A i \in Inode : lock[i] # c => data'[i] = data[i]
           /\ \A i \in Inode, d \in Client \ {c} : lock'[i] = d <=> lock[i] = d
<1> DEFINE p == proc[c]
<1>1. /\ p \in Process /\ VolumeOK /\ Sound(c, p, lock) /\ Client \subseteq Inode
      /\ None \notin Client
  BY Fields, VolumeAssumption DEF LocalInvariant, Inode
<1>2. CASE Prepare(c) \/ Abandon(c) \/ NoDestination(c) \/ WriterReports(c)
           \/ ReaderReports(c) \/ RemoveSource(c)
  BY <1>2
  DEF Prepare, Abandon, NoDestination, WriterReports, ReaderReports, RemoveSource,
      Holds, volume
<1>3. CASE Finish(c) \/ Dies(c)
  <2>1. Holds(c) /\ lock' = Released(c) /\ UNCHANGED data
    BY <1>3 DEF Finish, Dies
  <2> QED BY <1>1, <2>1 DEF Released, Holds
<1>4. CASE Locks(c)
  <2>1. p.fd \in Inode /\ lock[p.fd] \in {None, c}
    BY <1>1, <1>4 DEF Locks, Grantable, Sound, NeedsDescriptor
  <2> QED BY <1>1, <1>4, <2>1 DEF Locks, Holds, VolumeOK
<1>5. CASE Fails(c)
  BY <1>5 DEF Fails, Holds, volume
<1>6. CASE Starts(c)
  <2>1. lock[p.fd] = c
    BY <1>1, <1>6 DEF Starts, Sound, InDataPhase, Locker
  <2>2. data' = [data EXCEPT ![p.fd] = << >>] \/ UNCHANGED data
    BY <1>6 DEF Starts
  <2> QED BY <1>1, <1>6, <2>1, <2>2 DEF Starts, Holds, VolumeOK
<1>7. CASE WriterEnds(c) \/ WriterFills(c) \/ ReaderEnds(c) \/ ReaderFills(c)
           \/ ReaderPuts(c)
  <2>1. Loops(c) /\ UNCHANGED data
    BY <1>7 DEF WriterEnds, WriterFills, ReaderEnds, ReaderFills, ReaderPuts
  <2> QED BY <2>1 DEF Loops
<1>8. CASE WriterPuts(c)
  <2>1. Loops(c) /\ \E w : data' = [data EXCEPT ![p.fd] = w]
    BY <1>8 DEF WriterPuts
  <2>2. lock[p.fd] = c
    BY <1>1, <1>8, <2>1 DEF WriterPuts, Loops, Sound, InDataPhase, Locker
  <2> QED BY <1>1, <2>1, <2>2 DEF Loops, VolumeOK
<1> QED
  BY <1>2, <1>3, <1>4, <1>5, <1>6, <1>7, <1>8 DEF TransferStep

(* A process that takes no step keeps what it knows. *)
LEMMA OthersProgress ==
    ASSUME LocalInvariant, LocalInvariant', NEW c \in Client, TransferStep(c),
           StableStep, NEW d \in Client \ {c}, Progress(d), proc[d].op \in Locker
    PROVE  Progress(d)'
<1> DEFINE p == proc[d]
<1>1. /\ proc'[d] = p /\ Sound(d, p, lock) /\ p \in Process
      /\ d # None
  BY Footprint, VolumeAssumption DEF StepOf, LocalInvariant, Sound
<1>2. \A i \in Inode : lock'[i] = d <=> lock[i] = d
  BY Footprint
<1>3. \A i \in Inode : lock[i] = d => data'[i] = data[i] /\ stable'[i] = stable[i]
  BY <1>1, <1>2, Footprint DEF StableStep
<1>4. Owns(d)' <=> Owns(d)
  BY <1>2 DEF Owns
<1>5. CASE p.pc \in Before
  <2>1. Untouched(d)'
    BY <1>1, <1>2, <1>3, <1>5 DEF Progress, Untouched
  <2> QED BY <1>1, <1>5, <2>1 DEF Progress, Before
<1>6. ASSUME p.pc \in {"copy", "report"} \/ (p.pc = "close" /\ Owns(d))
      PROVE  /\ lock[p.fd] = d /\ p.fd \in Inode
             /\ data'[p.fd] = data[p.fd] /\ stable'[p.fd] = stable[p.fd]
             /\ Base(d)' = Base(d)
  <2>1. lock[p.fd] = d /\ p.fd \in Inode
    BY <1>1, <1>6 DEF Sound, InDataPhase, NeedsDescriptor, Owns
  <2> QED BY <1>1, <1>3, <2>1 DEF Base
<1>7. CASE p.pc = "copy"
  <2>1. Writing(d) => Writing(d)'
    BY <1>1, <1>6, <1>7 DEF Writing, Written
  <2>2. Reading(d) => Reading(d)'
    BY <1>1, <1>6, <1>7 DEF Reading
  <2> QED BY <1>1, <1>7, <2>1, <2>2 DEF Progress, Before
<1>8. CASE p.pc = "report"
  <2>1. Stored(d) => Stored(d)'
    BY <1>1, <1>6, <1>8 DEF Stored
  <2>2. Fetched(d, p.io) => Fetched(d, p.io)'
    BY <1>1, <1>6, <1>8 DEF Fetched
  <2> QED BY <1>1, <1>8, <2>1, <2>2 DEF Progress, Before
<1>9. CASE p.pc = "close"
  <2>1. Owns(d) /\ Stored(d) => Stored(d)'
    BY <1>1, <1>6, <1>9 DEF Stored
  <2>2. Owns(d) /\ Fetched(d, p.ret) => Fetched(d, p.ret)'
    BY <1>1, <1>6, <1>9 DEF Fetched
  <2> QED BY <1>1, <1>4, <1>6, <1>9, <2>1, <2>2 DEF Progress, Before
<1>10. CASE p.pc \notin Before \cup {"copy", "report", "close"}
  BY <1>1, <1>10 DEF Progress, Before
<1> QED BY <1>5, <1>7, <1>8, <1>9, <1>10

-----------------------------------------------------------------------------
(* What a process knows after a step of its own. *)

Known(c) ==
    /\ LocalInvariant /\ StableType
    /\ \A i \in Inode : lock[i] = None => data[i] = stable[i]
    /\ Progress(c) /\ proc[c].op \in Locker

(* A process in its data phase, what it owns and what it holds. *)
LEMMA Held ==
    ASSUME NEW c \in Client, Known(c)
    PROVE  /\ proc[c].far.data \in Seq(Block) /\ proc[c].buf \in Seq(Block)
           /\ proc[c].pos \in Nat /\ proc[c].off \in Nat
           /\ Len(proc[c].far.data) \in Nat /\ Len(proc[c].buf) \in Nat
           /\ InDataPhase(proc[c]) =>
                 /\ proc[c].fd \in Inode /\ lock[proc[c].fd] = c
                 /\ data[proc[c].fd] \in Seq(Block)
                 /\ Len(data[proc[c].fd]) \in Nat
                 /\ stable[proc[c].fd] \in Seq(Block) /\ Base(c) \in Seq(Block)
<1> DEFINE p == proc[c]
<1>1. p \in Process /\ Sound(c, p, lock) /\ VolumeOK
  BY Fields DEF Known, LocalInvariant
<1>2. /\ p.far.data \in Seq(Block) /\ p.buf \in Seq(Block)
      /\ p.pos \in Nat /\ p.off \in Nat
  BY <1>1 DEF Process
<1>3. Len(p.far.data) \in Nat /\ Len(p.buf) \in Nat
  BY <1>2, LenProperties
<1>4. ASSUME InDataPhase(p)
      PROVE  /\ p.fd \in Inode /\ lock[p.fd] = c
             /\ data[p.fd] \in Seq(Block) /\ stable[p.fd] \in Seq(Block)
  <2>1. p.fd \in Inode /\ lock[p.fd] = c
    BY <1>1, <1>4 DEF Sound, InDataPhase, NeedsDescriptor
  <2> QED BY <1>1, <2>1 DEF VolumeOK, Known, StableType
<1>5. ASSUME InDataPhase(p) PROVE Base(c) \in Seq(Block) /\ Len(data[p.fd]) \in Nat
  <2>1. << >> \in Seq(Block)
    OBVIOUS
  <2> QED BY <1>4, <1>5, <2>1, LenProperties DEF Base
<1> QED BY <1>2, <1>3, <1>4, <1>5

(* A lock that is not given back keeps what is remembered of its inode. *)
LEMMA StableKept ==
    ASSUME StableStep, NEW i \in Inode, lock'[i] # None
    PROVE  stable'[i] = stable[i]
BY DEF StableStep

(* A process is not None, and can be the name of an inode. *)
LEMMA ClientIsSome == ASSUME NEW c \in Client PROVE c # None /\ c \in Inode
BY VolumeAssumption DEF Inode

(* Before the lock. *)
LEMMA OwnsNothing ==
    ASSUME NEW c \in Client, LocalInvariant,
           proc[c].pc \in Before \ {"truncate", "seek"}
    PROVE  ~Owns(c)
BY DEF LocalInvariant, Sound, Owns, MayOwnLock, InDataPhase, Before

(* On the way to the lock nothing is moved. *)
LEMMA PrepareProgress ==
    ASSUME NEW c \in Client, Known(c), Prepare(c)
    PROVE  Progress(c)'
<1> DEFINE p == proc[c]
           q == proc'[c]
<1>1. Untouched(c) /\ p.op \in Job /\ p.pc \in Before /\ ~Owns(c)
  BY OwnsNothing DEF Known, Progress, Prepare
<1>2. q.pc \in Before \ {"stat"} /\ q.op = p.op /\ lock' = lock
  BY DEF Prepare, Holds, Before
<1>3. Untouched(c)'
  BY <1>1, <1>2 DEF Untouched, Prepare, Holds, Owns
<1> QED BY <1>1, <1>2, <1>3 DEF Progress, Before

(* Locks that are refused, and destinations that cannot be opened. *)
LEMMA FailsProgress ==
    ASSUME NEW c \in Client, Known(c), StableStep, Fails(c) \/ NoDestination(c)
    PROVE  Progress(c)'
<1> DEFINE p == proc[c]
           q == proc'[c]
<1>1. /\ Untouched(c) /\ p.op \in Job /\ p.op \in Locker
      /\ p.pc \in Before /\ Sound(c, p, lock) /\ VolumeOK
  BY DEF Known, Progress, Fails, NoDestination, Before, LocalInvariant
<1>2. /\ q.pc = "close" /\ q.ret = -1 /\ q.op = p.op /\ q.far.data = p.far.data
      /\ UNCHANGED volume
  BY <1>1 DEF Fails, NoDestination, Holds, Untouched
<1>3. Owns(c)' <=> Owns(c)
  BY <1>2 DEF Owns, volume
<1>4. CASE Owns(c)
  <2>1. Fails(c) /\ q.fd = p.fd /\ p.op \in WriteOp
    BY <1>4, OwnsNothing DEF Known, Fails, NoDestination, Before
  <2>2. p.fd \in Inode /\ lock[p.fd] = c
    BY <1>1, <1>4 DEF Owns, Sound
  <2>3. data'[q.fd] = stable'[q.fd]
    BY <1>1, <1>2, <2>1, <2>2, StableKept, ClientIsSome DEF Untouched, volume
  <2> QED BY <1>1, <1>2, <1>3, <1>4, <2>1, <2>3 DEF Progress, Before, WriteOp, ReadOp
<1>5. CASE ~Owns(c)
  BY <1>1, <1>2, <1>3, <1>5 DEF Progress, Before, Untouched
<1> QED BY <1>4, <1>5

(* The one who gets the lock finds what was there when it was given back. *)
LEMMA LocksProgress ==
    ASSUME NEW c \in Client, Known(c), StableStep, Locks(c)
    PROVE  Progress(c)'
<1> DEFINE p == proc[c]
           q == proc'[c]
<1>1. /\ Untouched(c) /\ p.op \in Job /\ p.op \in Locker /\ ~Owns(c)
      /\ p.pc = "lock" /\ Sound(c, p, lock) /\ VolumeOK
  BY OwnsNothing DEF Known, Progress, Locks, Before, LocalInvariant
<1>2. p.fd \in Inode /\ lock[p.fd] \in {None, c}
  BY <1>1 DEF Locks, Grantable, Sound, NeedsDescriptor
<1>3. lock[p.fd] = None /\ data[p.fd] = stable[p.fd]
  BY <1>1, <1>2 DEF Owns, Known
<1>4. lock'[p.fd] = c /\ \A i \in Inode : lock'[i] = c => i = p.fd
  BY <1>1, <1>2 DEF Locks, Owns, VolumeOK
<1>5. data'[p.fd] = stable'[p.fd] /\ data'[p.fd] = data[p.fd]
  BY <1>2, <1>3, <1>4, StableKept, ClientIsSome DEF Locks
<1>6. CASE p.op \in WriteOp
  <2>1. q.pc \in {"truncate", "seek"} /\ q.op = p.op
    BY <1>6 DEF Locks, Holds, WriteOp, ReadOp
  <2>2. Untouched(c)'
    BY <1>1, <1>4, <1>5, <1>6, <2>1 DEF Untouched, Locks, Holds, WriteOp, ReadOp
  <2> QED BY <1>1, <2>1, <2>2 DEF Progress, Before
<1>7. CASE p.op \in ReadOp
  <2>1. /\ q.pc = "copy" /\ q.op = p.op /\ q.far.data = << >> /\ q.buf = << >>
        /\ q.pos = 0 /\ q.off = 0 /\ q.fd = p.fd
    BY <1>1, <1>7 DEF Locks, Holds, Untouched
  <2>2. Len(data'[p.fd]) \in Nat
    <3>1. data[p.fd] \in Seq(Block)
      BY <1>1, <1>2 DEF VolumeOK
    <3> QED BY <1>5, <3>1, LenProperties
  <2>3. SubSeq(data'[p.fd], 1, 0) = << >> /\ SubSeq(data'[p.fd], 0 + 1, 0) = << >>
    BY SubSeqEmpty
  <2>4. 0 \in 0..Len(data'[p.fd])
    BY <2>2
  <2>5. Reading(c)'
    <3>1. q.off \in q.pos..Len(data'[q.fd])
      BY <2>1, <2>4
    <3>2. q.far.data = SubSeq(data'[q.fd], 1, q.pos)
      BY <2>1, <2>3
    <3>3. q.buf = SubSeq(data'[q.fd], q.pos + 1, q.off)
      BY <2>1, <2>3
    <3> QED BY <1>5, <2>1, <3>1, <3>2, <3>3 DEF Reading
  <2> QED BY <1>1, <1>7, <2>1, <2>5 DEF Progress, Before, WriteOp, ReadOp
<1> QED BY <1>1, <1>6, <1>7 DEF Locker

(* The beginning of the copy loop of a writer. *)
LEMMA StartsProgress ==
    ASSUME NEW c \in Client, Known(c), StableStep, Starts(c)
    PROVE  Progress(c)'
<1> DEFINE p == proc[c]
           q == proc'[c]
           s == p.far.data
<1>1. /\ Untouched(c) /\ p.op \in Job /\ p.op \in WriteOp /\ InDataPhase(p)
  BY DEF Known, Progress, Starts, Before, InDataPhase, Locker
<1>2. /\ p.fd \in Inode /\ lock[p.fd] = c /\ data[p.fd] \in Seq(Block)
      /\ stable[p.fd] \in Seq(Block) /\ Len(s) \in Nat
  BY <1>1, Held
<1>3. data[p.fd] = stable[p.fd] /\ stable'[p.fd] = stable[p.fd]
  BY <1>1, <1>2, StableKept, ClientIsSome DEF Untouched, Starts
<1>4. /\ q.pc = "copy" /\ q.op = p.op /\ q.fd = p.fd /\ q.far.data = s /\ q.buf = << >>
      /\ q.pos = 0 /\ q.io = 0 /\ q.ret = 0
  BY <1>1 DEF Starts, Holds, Untouched
<1>5. data'[p.fd] = Base(c)' /\ q.off = Len(data'[p.fd]) /\ Base(c)' \in Seq(Block)
  <2>1. CASE p.pc = "truncate" /\ p.op # "put_a"
    <3>1. data'[p.fd] = << >> /\ q.off = 0
      BY <1>1, <1>2, <2>1 DEF Starts, Untouched, Known, LocalInvariant, VolumeOK
    <3>2. Base(c)' = << >>
      BY <1>4, <2>1 DEF Base
    <3>3. Len(<< >>) = 0 /\ << >> \in Seq(Block)
      BY NoBlocks
    <3> QED BY <3>1, <3>2, <3>3
  <2>2. CASE p.pc = "seek" /\ p.op = "put_a"
    <3>1. data'[p.fd] = data[p.fd] /\ q.off = Len(data[p.fd])
      BY <2>2 DEF Starts
    <3>2. Base(c)' = stable[p.fd]
      BY <1>3, <1>4, <2>2 DEF Base
    <3> QED BY <1>2, <1>3, <3>1, <3>2
  <2> QED BY <2>1, <2>2 DEF Starts
<1>6. SubSeq(s, 1, 0) = << >> /\ Base(c)' \o << >> = Base(c)'
  BY <1>5, SubSeqEmpty, ConcatEmptySeq
<1>7. Written(q) = 0 /\ Len(q.buf) = 0
  <2>1. Len(q.buf) = 0
    BY <1>4, NoBlocks
  <2>2. q.pos = 0
    BY <1>4
  <2> HIDE DEF q
  <2>3. Written(q) = q.pos - Len(q.buf)
    BY DEF Written
  <2> QED BY <2>1, <2>2, <2>3
<1>8. Writing(c)'
  <2>1. q.buf = SubSeq(q.far.data, Written(q) + 1, q.pos)
    BY <1>4, <1>6, <1>7
  <2>2. data'[q.fd] = Base(c)' \o SubSeq(q.far.data, 1, Written(q))
    BY <1>4, <1>5, <1>6, <1>7
  <2>3. q.pos \in Len(q.buf)..Len(q.far.data)
    BY <1>2, <1>4, <1>7
  <2>4. q.off = Len(data'[q.fd]) /\ q.ret = 0 /\ (q.io = 0 => Written(q) = 0)
    BY <1>4, <1>5, <1>7
  <2> QED BY <2>1, <2>2, <2>3, <2>4 DEF Writing
<1> QED BY <1>1, <1>4, <1>8 DEF Progress, Before, WriteOp, ReadOp

(* A buffer of the source. *)
LEMMA WriterFillsProgress ==
    ASSUME NEW c \in Client, Known(c), StableStep, WriterFills(c)
    PROVE  Progress(c)'
<1> DEFINE p == proc[c]
           q == proc'[c]
           s == p.far.data
           o == p.pos
<1>1. /\ Writing(c) /\ p.op \in Job /\ p.op \in WriteOp /\ InDataPhase(p)
  BY DEF Known, Progress, WriterFills, Loops, Before, InDataPhase, Locker
<1>2. /\ p.fd \in Inode /\ lock[p.fd] = c /\ s \in Seq(Block)
      /\ o \in Nat /\ Len(s) \in Nat
  BY <1>1, Held
<1>3. stable'[p.fd] = stable[p.fd] /\ Base(c)' = Base(c)
  BY <1>2, StableKept, ClientIsSome DEF WriterFills, Loops, Base
<1>4. PICK n \in Nat \ {0} :
        o + n <= Len(s) /\ q.buf = SubSeq(s, o + 1, o + n) /\ q.pos = o + n
  BY DEF WriterFills
<1>5. /\ q.pc = "copy" /\ q.op = p.op /\ q.fd = p.fd /\ q.far.data = s
      /\ q.off = p.off /\ q.io = p.io /\ q.ret = p.ret /\ p.buf = << >>
      /\ data' = data
  BY DEF WriterFills, Loops
<1>6. Len(p.buf) = 0
  BY <1>5, NoBlocks
<1>7. Written(p) = o - 0
  BY <1>6 DEF Written
<1> HIDE DEF p, q, s, o
<1>8. Written(q) = (o + n) - Len(q.buf)
  <2>1. Written(q) = q.pos - Len(q.buf)
    BY DEF Written
  <2>2. q.pos = o + n
    BY <1>4
  <2> QED BY <2>1, <2>2
<1>9. Len(q.buf) = n
  <2>1. o + n \in o..Len(s) /\ o + n - o = n
    BY <1>2, <1>4
  <2>2. Len(SubSeq(s, o + 1, o + n)) = o + n - o
    BY <1>2, <2>1, SliceIs
  <2> QED BY <1>4, <2>1, <2>2
<1>10. Written(p) = o /\ Written(q) = o
  BY <1>2, <1>7, <1>8, <1>9
<1>11. q.pos \in Len(q.buf)..Len(s)
  <2>1. o + n \in n..Len(s)
    BY <1>2, <1>4
  <2> QED BY <1>4, <1>9, <2>1
<1>12. /\ data[p.fd] = Base(c) \o SubSeq(s, 1, o) /\ p.off = Len(data[p.fd])
       /\ p.ret = 0 /\ (p.io = 0 => o = 0)
  BY <1>1, <1>10 DEF Writing, p, s
<1>13. Writing(c)'
  BY <1>3, <1>4, <1>5, <1>10, <1>11, <1>12 DEF Writing, p, q
<1> QED BY <1>1, <1>5, <1>13 DEF Progress, Before, WriteOp, ReadOp, p, q

(* Some blocks of the buffer. *)
LEMMA WriterPutsProgress ==
    ASSUME NEW c \in Client, Known(c), StableStep, WriterPuts(c)
    PROVE  /\ Progress(c)'
           /\ \E b \in Seq(Block) :
                 /\ data' = [data EXCEPT ![proc[c].fd] = data[proc[c].fd] \o b]
                 /\ \A j \in 1..Len(b) :
                       \E k \in 1..Len(proc[c].far.data) : b[j] = proc[c].far.data[k]
<1> DEFINE p == proc[c]
           q == proc'[c]
           s == p.far.data
           d == data[p.fd]
           B == Base(c)
           W == Written(p)
           o == p.pos
           f == p.buf
           m == Len(f)
           l == Len(d)
<1>1. /\ Writing(c) /\ p.op \in Job /\ p.op \in WriteOp /\ InDataPhase(p)
  BY DEF Known, Progress, WriterPuts, Loops, Before, InDataPhase, Locker
<1>2. /\ p.fd \in Inode /\ lock[p.fd] = c /\ s \in Seq(Block) /\ d \in Seq(Block)
      /\ o \in Nat /\ Len(s) \in Nat /\ l \in Nat /\ B \in Seq(Block)
      /\ f \in Seq(Block) /\ m \in Nat /\ data \in [Inode -> Seq(Block)]
  BY <1>1, Held DEF Known, LocalInvariant, VolumeOK
<1>3. stable'[p.fd] = stable[p.fd] /\ Base(c)' = B
  BY <1>2, StableKept, ClientIsSome DEF WriterPuts, Loops, Base
<1>4. /\ o \in m..Len(s) /\ f = SubSeq(s, W + 1, o)
      /\ d = B \o SubSeq(s, 1, W) /\ p.off = l /\ p.ret = 0 /\ W = o - m
  BY <1>1 DEF Writing, Written
<1>5. PICK k \in 1..m :
        /\ data' = [data EXCEPT ![p.fd] = WriteAt(d, l, SubSeq(f, 1, k))]
        /\ q.buf = SubSeq(f, k + 1, m)
        /\ q.off = l + k
  BY <1>4 DEF WriterPuts
<1>6. /\ q.pc = "copy" /\ q.op = p.op /\ q.fd = p.fd /\ q.far.data = s
      /\ q.pos = o /\ q.io = 1 /\ q.ret = p.ret
  BY DEF WriterPuts, Loops
<1>7. Written(q) = o - Len(q.buf)
  BY <1>6 DEF Written
<1> HIDE DEF p, q, s, d, B, W, o, f, m, l
<1>8. /\ W \in Nat /\ o \in W..Len(s) /\ k \in 0..(o - W) /\ o - W = m
      /\ W + k \in W..Len(s) /\ W \in 0..Len(s) /\ k \in 0..m /\ k \in Nat
      /\ m \in k..m /\ W + k - W = k /\ o - (m - k) = W + k
  <2>1. o \in Nat /\ m \in Nat /\ Len(s) \in Nat /\ k \in 1..m
    BY <1>2
  <2>2. m <= o /\ o <= Len(s) /\ W = o - m
    BY <1>2, <1>4
  <2> QED BY <2>1, <2>2
<1> DEFINE b == SubSeq(f, 1, k)
           x == SubSeq(s, 1, W)
           y == SubSeq(s, W + 1, W + k)
<1>9. b = y /\ q.buf = SubSeq(s, W + k + 1, o)
  <2>1. /\ SubSeq(SubSeq(s, W + 1, o), 1, k) = y
        /\ SubSeq(SubSeq(s, W + 1, o), k + 1, o - W) = SubSeq(s, W + k + 1, o)
    BY <1>2, <1>8, SliceOfSlice
  <2> QED BY <1>4, <1>5, <1>8, <2>1
<1>10. b \in Seq(Block) /\ Len(b) = k /\ x \in Seq(Block)
  BY <1>2, <1>8, HeadIs DEF m
<1>11. \A j \in 1..k : b[j] = s[W + j]
  <2>1. \A j \in 1..(W + k - W) : y[j] = s[W + j]
    BY <1>2, <1>8, SliceIs
  <2> QED BY <1>8, <1>9, <2>1
<1>12. Len(q.buf) = m - k
  BY <1>2, <1>5, <1>8, SliceIs DEF m
<1> HIDE DEF b, x, y
<1>13. WriteAt(d, l, b) = d \o b
  BY <1>2, <1>10, WriteAtEnd DEF l
<1>14. data' = [data EXCEPT ![p.fd] = d \o b]
  BY <1>5, <1>13 DEF b
<1>15. x \o y = SubSeq(s, 1, W + k)
  BY <1>2, <1>8, Glue DEF x, y
<1>16. d \o b = B \o SubSeq(s, 1, W + k)
  <2>1. d = B \o x
    BY <1>4 DEF x
  <2>2. B \in Seq(Block) /\ x \in Seq(Block) /\ b \in Seq(Block)
    BY <1>2, <1>10
  <2>3. (B \o x) \o b = B \o (x \o b)
    BY <2>2, ConcatAssociative
  <2> QED BY <1>9, <1>15, <2>1, <2>3
<1>17. data'[p.fd] = d \o b /\ Len(d \o b) = l + k
  BY <1>2, <1>10, <1>14, ConcatProperties DEF l
<1>18. Written(q) = W + k
  BY <1>7, <1>8, <1>12
<1>19. Writing(c)'
  <2>1. q.pos \in Len(q.buf)..Len(s)
    <3>1. o \in (m - k)..Len(s)
      BY <1>2, <1>4, <1>8
    <3> QED BY <1>6, <1>12, <3>1
  <2>2. q.buf = SubSeq(s, Written(q) + 1, q.pos)
    BY <1>6, <1>9, <1>18
  <2>3. data'[q.fd] = Base(c)' \o SubSeq(s, 1, Written(q))
    BY <1>3, <1>6, <1>16, <1>17, <1>18
  <2>4. q.off = Len(data'[q.fd]) /\ q.ret = 0
    BY <1>4, <1>5, <1>6, <1>17
  <2>5. q.io # 0
    BY <1>6
  <2> QED BY <1>6, <2>1, <2>2, <2>3, <2>4, <2>5 DEF Writing, q
<1>20. \A j \in 1..Len(b) : \E i \in 1..Len(s) : b[j] = s[i]
  <2> TAKE j \in 1..Len(b)
  <2>1. j \in 1..k /\ W + j \in 1..Len(s)
    BY <1>2, <1>8, <1>10
  <2> QED BY <1>11, <2>1
<1>21. Progress(c)'
  BY <1>1, <1>6, <1>19 DEF Progress, Before, WriteOp, ReadOp, p, q
<1> QED BY <1>10, <1>14, <1>20, <1>21 DEF p, s, d

(* The end of the copy loop of a writer. *)
LEMMA WriterEndsProgress ==
    ASSUME NEW c \in Client, Known(c), StableStep, WriterEnds(c)
    PROVE  Progress(c)'
<1> DEFINE p == proc[c]
           q == proc'[c]
           s == p.far.data
<1>1. /\ Writing(c) /\ p.op \in Job /\ p.op \in WriteOp /\ InDataPhase(p)
  BY DEF Known, Progress, WriterEnds, Loops, Before, InDataPhase, Locker
<1>2. /\ p.fd \in Inode /\ lock[p.fd] = c /\ s \in Seq(Block)
      /\ p.pos \in Nat /\ Len(s) \in Nat /\ Len(p.buf) \in Nat
  BY <1>1, Held
<1>3. stable'[p.fd] = stable[p.fd] /\ Base(c)' = Base(c)
  BY <1>2, StableKept, ClientIsSome DEF WriterEnds, Loops, Base
<1>4. /\ q.pc = "report" /\ q.op = p.op /\ q.fd = p.fd /\ q.far.data = s
      /\ q.ret = p.ret /\ data' = data
  BY DEF WriterEnds, Loops
<1>5. /\ Written(p) \in 0..Len(s) /\ data[p.fd] = Base(c) \o SubSeq(s, 1, Written(p))
      /\ p.ret = 0 /\ (p.io = 0 => Written(p) = 0)
  <2>1. p.pos \in Len(p.buf)..Len(s) /\ Written(p) = p.pos - Len(p.buf)
    BY <1>1 DEF Writing, Written
  <2> HIDE DEF p, s
  <2>2. Written(p) \in 0..Len(s)
    BY <1>2, <2>1
  <2> QED BY <1>1, <2>2 DEF Writing, p, s
<1>6. \/ p.buf = << >> /\ p.pos = Len(s) /\ q.io = p.io
      \/ Fault \cap {"srcread", "write"} # {} /\ q.io = -1
  BY DEF WriterEnds
<1>7. p.buf = << >> /\ p.pos = Len(s) => Written(p) = Len(s)
  <2>1. Len(<< >>) = 0
    BY NoBlocks
  <2> QED BY <1>2, <2>1 DEF Written
<1>8. Stored(c)'
  BY <1>3, <1>4, <1>5, <1>6, <1>7 DEF Stored
<1>9. q.io = 0 => s = << >>
  BY <1>2, <1>5, <1>6, <1>7, NoBlocks
<1> QED BY <1>1, <1>4, <1>5, <1>8, <1>9 DEF Progress, Before, WriteOp, ReadOp

(* The result of a writer. *)
LEMMA WriterReportsProgress ==
    ASSUME NEW c \in Client, Known(c), StableStep, WriterReports(c)
    PROVE  Progress(c)'
<1> DEFINE p == proc[c]
           q == proc'[c]
<1>1. /\ Stored(c) /\ p.op \in Job /\ p.op \in WriteOp /\ InDataPhase(p)
  BY DEF Known, Progress, WriterReports, Before, InDataPhase, Locker
<1>2. p.fd \in Inode /\ lock[p.fd] = c
  BY <1>1, Held
<1>3. stable'[p.fd] = stable[p.fd] /\ Base(c)' = Base(c)
  BY <1>2, StableKept, ClientIsSome DEF WriterReports, Holds, volume, Base
<1>4. /\ q.pc = "close" /\ q.op = p.op /\ q.fd = p.fd /\ q.far.data = p.far.data
      /\ UNCHANGED volume
  BY DEF WriterReports, Holds
<1>5. Stored(c)' /\ Owns(c)'
  BY <1>1, <1>2, <1>3, <1>4 DEF Stored, Owns, volume
<1> QED BY <1>1, <1>4, <1>5 DEF Progress, Before, WriteOp, ReadOp

(* A buffer of the file. *)
LEMMA ReaderFillsProgress ==
    ASSUME NEW c \in Client, Known(c), StableStep, ReaderFills(c)
    PROVE  Progress(c)'
<1> DEFINE p == proc[c]
           q == proc'[c]
           d == data[p.fd]
<1>1. /\ Reading(c) /\ p.op \in Job /\ p.op \in ReadOp /\ InDataPhase(p)
  BY DEF Known, Progress, ReaderFills, Loops, Before, InDataPhase, Locker
<1>2. /\ p.fd \in Inode /\ lock[p.fd] = c /\ d \in Seq(Block) /\ Len(d) \in Nat
      /\ p.pos \in Nat /\ p.off \in Nat /\ p.buf \in Seq(Block)
  BY <1>1, Held
<1>3. stable'[p.fd] = stable[p.fd]
  BY <1>2, StableKept, ClientIsSome DEF ReaderFills, Loops
<1>4. PICK n \in Nat \ {0} :
        /\ p.off + n <= Len(d)
        /\ q.buf = SubSeq(d, p.off + 1, p.off + n)
        /\ q.off = p.off + n
  BY DEF ReaderFills
<1>5. /\ q.pc = "copy" /\ q.op = p.op /\ q.fd = p.fd /\ q.far.data = p.far.data
      /\ q.pos = p.pos /\ p.buf = << >> /\ data' = data
  BY DEF ReaderFills, Loops
<1>6. /\ d = stable[p.fd] /\ p.off \in p.pos..Len(d)
      /\ p.far.data = SubSeq(d, 1, p.pos) /\ p.buf = SubSeq(d, p.pos + 1, p.off)
  BY <1>1 DEF Reading
<1>7. p.off = p.pos
  <2>1. Len(p.buf) = p.off - p.pos
    BY <1>2, <1>6, SliceIs
  <2>2. Len(p.buf) = 0
    BY <1>5, NoBlocks
  <2> QED BY <1>2, <2>1, <2>2
<1>8. q.off \in q.pos..Len(d)
  BY <1>2, <1>4, <1>5, <1>7
<1>9. Reading(c)'
  BY <1>3, <1>4, <1>5, <1>6, <1>7, <1>8 DEF Reading
<1> QED BY <1>1, <1>5, <1>9 DEF Progress, Before, WriteOp, ReadOp

(* The buffer, or a part of it. *)
LEMMA ReaderPutsProgress ==
    ASSUME NEW c \in Client, Known(c), StableStep, ReaderPuts(c)
    PROVE  Progress(c)'
<1> DEFINE p == proc[c]
           q == proc'[c]
           d == data[p.fd]
           s == p.far.data
           o == p.pos
           e == p.off
           f == p.buf
           m == Len(f)
<1>1. /\ Reading(c) /\ p.op \in Job /\ p.op \in ReadOp /\ InDataPhase(p)
  BY DEF Known, Progress, ReaderPuts, Loops, Before, InDataPhase, Locker
<1>2. /\ p.fd \in Inode /\ lock[p.fd] = c /\ d \in Seq(Block) /\ Len(d) \in Nat
      /\ o \in Nat /\ e \in Nat /\ f \in Seq(Block) /\ m \in Nat /\ s \in Seq(Block)
  BY <1>1, Held
<1>3. stable'[p.fd] = stable[p.fd]
  BY <1>2, StableKept, ClientIsSome DEF ReaderPuts, Loops
<1>4. /\ q.op = p.op /\ q.fd = p.fd /\ data' = data
  BY DEF ReaderPuts, Loops
<1>5. /\ d = stable[p.fd] /\ e \in o..Len(d)
      /\ s = SubSeq(d, 1, o) /\ f = SubSeq(d, o + 1, e)
  BY <1>1 DEF Reading
<1>6. \/ /\ q.pc = "copy" /\ q.buf = << >> /\ q.off = e
         /\ q.far.data = WriteAt(s, o, f)
         /\ q.pos = o + m
      \/ /\ q.pc = "report" /\ q.io = -1 /\ "dstwrite" \in Fault
         /\ \E k \in 0..(m - 1) : q.far.data = WriteAt(s, o, SubSeq(f, 1, k))
  BY DEF ReaderPuts
<1> HIDE DEF p, q, d, s, o, e, f, m
<1>7. m = e - o /\ o \in 0..Len(d) /\ Len(s) = o
  <2>1. o \in 0..Len(d)
    BY <1>2, <1>5
  <2>2. Len(SubSeq(d, o + 1, e)) = e - o
    BY <1>2, <1>5, SliceIs
  <2>3. Len(SubSeq(d, 1, o)) = o
    BY <1>2, <2>1, HeadIs
  <2> QED BY <1>5, <2>1, <2>2, <2>3 DEF m
<1>8. ASSUME NEW k \in 0..m
      PROVE  /\ WriteAt(s, o, SubSeq(f, 1, k)) = SubSeq(d, 1, o + k)
             /\ o + k \in 0..Len(d)
  <2>1. k \in 0..(e - o) /\ o + k \in o..Len(d) /\ o + k \in 0..Len(d)
    BY <1>2, <1>5, <1>7
  <2>2. SubSeq(f, 1, k) = SubSeq(d, o + 1, o + k)
    BY <1>2, <1>5, <2>1, SliceOfSlice
  <2>3. SubSeq(f, 1, k) \in Seq(Block)
    BY <1>2, HeadIs DEF m
  <2>4. WriteAt(s, o, SubSeq(f, 1, k)) = s \o SubSeq(f, 1, k)
    BY <1>2, <1>7, <2>3, WriteAtEnd
  <2>5. SubSeq(d, 1, o) \o SubSeq(d, o + 1, o + k) = SubSeq(d, 1, o + k)
    BY <1>2, <2>1, Glue
  <2> QED BY <1>5, <2>1, <2>2, <2>4, <2>5
<1>9. CASE /\ q.pc = "copy" /\ q.buf = << >> /\ q.off = e
           /\ q.far.data = WriteAt(s, o, f)
           /\ q.pos = o + m
  <2>1. q.pos = e /\ o + m = e
    BY <1>2, <1>7, <1>9
  <2>2. SubSeq(f, 1, m) = f /\ m \in 0..m
    BY <1>2, SubSeqFull DEF m
  <2>3. q.far.data = SubSeq(d, 1, e)
    BY <1>8, <1>9, <2>1, <2>2
  <2>4. SubSeq(d, e + 1, e) = << >>
    BY <1>2, SubSeqEmpty
  <2>5. e \in e..Len(d)
    BY <1>2, <1>5
  <2>6. Reading(c)'
    BY <1>3, <1>4, <1>5, <1>9, <2>1, <2>3, <2>4, <2>5 DEF Reading, p, q, d
  <2> QED BY <1>1, <1>4, <1>9, <2>6 DEF Progress, Before, WriteOp, ReadOp, p, q
<1>10. CASE /\ q.pc = "report" /\ q.io = -1 /\ "dstwrite" \in Fault
            /\ \E k \in 0..(m - 1) : q.far.data = WriteAt(s, o, SubSeq(f, 1, k))
  <2>1. PICK k \in 0..(m - 1) : q.far.data = WriteAt(s, o, SubSeq(f, 1, k))
    BY <1>10
  <2>2. k \in 0..m
    BY <1>2
  <2>3. q.far.data = SubSeq(d, 1, o + k) /\ o + k \in 0..Len(d)
    BY <1>8, <2>1, <2>2
  <2>4. Fetched(c, p.io)'
    BY <1>3, <1>4, <1>5, <1>10, <2>3 DEF Fetched, p, q, d
  <2> QED BY <1>1, <1>4, <1>10, <2>4 DEF Progress, Before, WriteOp, ReadOp, p, q
<1> QED BY <1>6, <1>9, <1>10

(* The end of the copy loop of a reader. *)
LEMMA ReaderEndsProgress ==
    ASSUME NEW c \in Client, Known(c), StableStep, ReaderEnds(c)
    PROVE  Progress(c)'
<1> DEFINE p == proc[c]
           q == proc'[c]
           d == data[p.fd]
<1>1. /\ Reading(c) /\ p.op \in Job /\ p.op \in ReadOp /\ InDataPhase(p)
  BY DEF Known, Progress, ReaderEnds, Loops, Before, InDataPhase, Locker
<1>2. /\ p.fd \in Inode /\ lock[p.fd] = c /\ d \in Seq(Block) /\ Len(d) \in Nat
      /\ p.pos \in Nat /\ p.off \in Nat /\ p.buf \in Seq(Block)
  BY <1>1, Held
<1>3. stable'[p.fd] = stable[p.fd]
  BY <1>2, StableKept, ClientIsSome DEF ReaderEnds, Loops
<1>4. /\ q.pc = "report" /\ q.op = p.op /\ q.fd = p.fd /\ q.far.data = p.far.data
      /\ p.buf = << >> /\ data' = data
      /\ Len(d) <= p.off \/ "read" \in Fault
  BY DEF ReaderEnds, Loops
<1>5. /\ d = stable[p.fd] /\ p.off \in p.pos..Len(d)
      /\ p.far.data = SubSeq(d, 1, p.pos) /\ p.buf = SubSeq(d, p.pos + 1, p.off)
  BY <1>1 DEF Reading
<1>6. p.off = p.pos
  <2>1. Len(p.buf) = p.off - p.pos
    BY <1>2, <1>5, SliceIs
  <2>2. Len(p.buf) = 0
    BY <1>4, NoBlocks
  <2> QED BY <1>2, <2>1, <2>2
<1>7. p.pos \in 0..Len(d) /\ (p.pos = Len(d) \/ "read" \in Fault)
  BY <1>2, <1>4, <1>5, <1>6
<1>8. Fetched(c, p.io)'
  BY <1>3, <1>4, <1>5, <1>7 DEF Fetched
<1> QED BY <1>1, <1>4, <1>8 DEF Progress, Before, WriteOp, ReadOp

(* The result of a reader. *)
LEMMA ReaderReportsProgress ==
    ASSUME NEW c \in Client, Known(c), StableStep, ReaderReports(c)
    PROVE  Progress(c)'
<1> DEFINE p == proc[c]
           q == proc'[c]
<1>1. /\ Fetched(c, p.io) /\ p.op \in Job /\ p.op \in ReadOp /\ InDataPhase(p)
  BY DEF Known, Progress, ReaderReports, Before, InDataPhase, Locker
<1>2. p.fd \in Inode /\ lock[p.fd] = c
  BY <1>1, Held
<1>3. stable'[p.fd] = stable[p.fd]
  BY <1>2, StableKept, ClientIsSome DEF ReaderReports, Holds, volume
<1>4. /\ q.pc = "close" /\ q.op = p.op /\ q.fd = p.fd /\ q.far.data = p.far.data
      /\ (q.ret = -1 <=> p.io = -1) /\ UNCHANGED volume
  BY DEF ReaderReports, Holds
<1>5. Fetched(c, p.ret)' /\ Owns(c)'
  BY <1>1, <1>2, <1>3, <1>4 DEF Fetched, Owns, volume
<1> QED BY <1>1, <1>4, <1>5 DEF Progress, Before, WriteOp, ReadOp

(* Whatever it does, it knows as much after it. *)
LEMMA OwnProgress ==
    ASSUME NEW c \in Client, Known(c), StableStep, TransferStep(c)
    PROVE  Progress(c)'
<1>1. CASE Abandon(c) \/ Finish(c) \/ RemoveSource(c) \/ Dies(c)
  <2>1. proc'[c].op = proc[c].op /\ proc'[c].pc \in {"rm", "done", "killed"}
    BY <1>1 DEF Abandon, Finish, RemoveSource, Dies, Holds
  <2> QED BY <2>1 DEF Known, Progress, Before
<1> QED
  BY <1>1, PrepareProgress, FailsProgress, LocksProgress, StartsProgress,
     WriterFillsProgress, WriterPutsProgress, WriterEndsProgress,
     WriterReportsProgress, ReaderFillsProgress, ReaderPutsProgress,
     ReaderEndsProgress, ReaderReportsProgress
  DEF TransferStep
=============================================================================
