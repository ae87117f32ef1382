----------------------------- MODULE TailProofs -----------------------------
(***************************************************************************)
(* gftail of a file that only grows: TailInvariant is inductive, for any   *)
(* buffer size, options, contents and failing calls.  At the end, what     *)
(* ends its loops and what makes tail -f catch up.                         *)
(***************************************************************************)
EXTENDS Tail, SequenceTheorems, FiniteSetTheorems, TLAPS

(* What a read at o returns is of the file, and all of it if it fits.      *)
LEMMA ReadType ==
    ASSUME data \in [Inode -> Seq(Byte)], proc.fd \in Inode, NEW o \in Nat
    PROVE  /\ ReadAt(o) \in Seq(Byte)
           /\ Len(ReadAt(o)) \in Nat
           /\ o <= Len(data[proc.fd]) =>
                /\ o + Len(ReadAt(o)) <= Len(data[proc.fd])
                /\ Len(data[proc.fd]) <= o + BufSize =>
                     o + Len(ReadAt(o)) = Len(data[proc.fd])
                /\ ReadAt(o) = SubSeq(data[proc.fd], o + 1, o + Len(ReadAt(o)))
<1> DEFINE s == data[proc.fd]
           n == Lesser(o + BufSize, Len(s))
<1>1. s \in Seq(Byte) /\ Len(s) \in Nat
  BY LenProperties
<1>2. n \in Nat /\ n <= Len(s) /\ n <= o + BufSize /\ (n = Len(s) \/ n = o + BufSize)
  BY <1>1, TailAssumption DEF Lesser
<1>3. ReadAt(o) = SubSeq(s, o + 1, n)
  BY DEF ReadAt
<1>4. CASE o >= Len(s)
  <2>1. ReadAt(o) = << >>
    BY <1>1, <1>2, <1>3, <1>4, SubSeqEmpty
  <2>2. << >> \in Seq(Byte) /\ Len(<< >>) = 0
    OBVIOUS
  <2>3. SubSeq(s, o + 1, o + 0) = << >>
    BY <1>1, SubSeqEmpty
  <2> QED
    BY <1>1, <1>4, <2>1, <2>2, <2>3
<1>5. CASE o < Len(s)
  <2>1. n >= o + 1
    BY <1>1, <1>2, <1>5, TailAssumption
  <2>2. SubSeq(s, o + 1, n) \in Seq(Byte) /\ Len(SubSeq(s, o + 1, n)) = n - o
    BY <1>1, <1>2, <1>5, <2>1, SubSeqProperties
  <2>3. ReadAt(o) \in Seq(Byte) /\ Len(ReadAt(o)) = n - o
    BY <1>3, <2>2
  <2>4. o + Len(ReadAt(o)) = n
    BY <1>2, <2>3
  <2>5. Len(ReadAt(o)) \in Nat
    BY <1>2, <2>1, <2>3
  <2>6. ReadAt(o) = SubSeq(s, o + 1, o + Len(ReadAt(o)))
    BY <1>3, <2>4
  <2>7. Len(s) <= o + BufSize => n = Len(s)
    BY <1>1, <1>2
  <2> QED
    BY <1>1, <1>2, <2>3, <2>4, <2>5, <2>6, <2>7
<1> QED
  BY <1>1, <1>4, <1>5

LEMMA CountType ==
    ASSUME NEW b \in Seq(Byte), proc.newlines \in Nat
    PROVE  Counted(b) \in Nat /\ Newlines(b) \subseteq 1..Len(b)
<1>1. Newlines(b) \subseteq 1..Len(b)
  BY LenProperties DEF Newlines
<1>2. IsFiniteSet(Newlines(b))
  <2>1. Len(b) \in Nat
    BY LenProperties
  <2>2. IsFiniteSet(1..Len(b))
    BY <2>1, FS_Interval
  <2>3. Newlines(b) \in SUBSET (1..Len(b))
    BY <1>1
  <2> QED
    BY <2>2, <2>3, FS_Subset
<1> QED
  BY <1>1, <1>2, FS_CardinalityType DEF Counted

-----------------------------------------------------------------------------
(* gftail's own steps. *)

(* goto err, for a call that failed or a reason NothingElseFails names. *)
LEMMA ErrKeeps ==
    ASSUME TailInvariant, Local, UNCHANGED out, NEW o \in Int,
           proc' = [proc EXCEPT !.pc = "out", !.ret = -1, !.offset = o],
           proc.start = None \/ proc.pc \in {"copy", "while", "poll"},
           failed' \in BOOLEAN, failed => failed',
           grown /\ ~failed' =>
             \/ dir = None
             \/ o >= 0 /\ AsInt(o) = -1
             \/ proc.mode = "LINES" /\ o < 0 /\ SeveralPieces
    PROVE  TailInvariant'
<1> USE DEF TailInvariant, Local
<1>0. -1 \in Int
  OBVIOUS
<1>a. proc' \in Locals
  BY <1>0 DEF TypeOK, Locals
<1>b. UNCHANGED <<dir, data, argv, keep_running, changes, grown, out>>
  BY DEF Local
<1>1. TypeOK'
  BY <1>a, <1>b DEF TypeOK
<1>2. StepsMatch'
  BY DEF TypeOK, Locals, StepsMatch, InFile
<1>3. grown' => PositionsInFile' /\ Pieces'
  BY DEF TypeOK, Locals, PositionsInFile, Pieces, InFile
<1>4. ShownIsContiguous'
  BY DEF TypeOK, Locals, ShownIsContiguous
<1>5. NothingElseFails'
  BY DEF TypeOK, Locals, NothingElseFails, At, SeveralPieces
<1> QED
  BY <1>1, <1>2, <1>3, <1>4, <1>5

LEMMA SeekKeeps ==
    ASSUME TailInvariant, NEW o \in Int, SeekAndCopy(o),
           proc.pc \in {"tail_bytes", "finished"},
           grown => o <= Len(data["old"]),
           grown => o >= 0 \/ (proc.mode = "LINES" /\ SeveralPieces)
    PROVE  TailInvariant'
<1> USE DEF TailInvariant
<1>0. proc.start = None /\ proc.fd \in Inode /\ proc \in Locals
  BY DEF TypeOK, Locals, StepsMatch, InFile
<1>1. CASE Fails("seek", Err)
  <2>1. proc' = [proc EXCEPT !.pc = "out", !.ret = -1, !.offset = proc.offset]
    BY <1>1 DEF Fails, Err, Locals, TypeOK
  <2>2. failed' = TRUE /\ Local /\ UNCHANGED out /\ proc.offset \in Int
    BY <1>0, <1>1 DEF Fails, Locals
  <2>3. failed' \in BOOLEAN /\ (failed => failed') /\ ~(grown /\ ~failed')
    BY <2>2
  <2> QED
    BY <1>0, <2>1, <2>2, <2>3, ErrKeeps
<1>2. CASE (o < 0 \/ AsInt(o) = -1) /\ Goes([Err EXCEPT !.offset = o])
  <2>1. proc' = [proc EXCEPT !.pc = "out", !.ret = -1, !.offset = o]
    BY <1>2 DEF Goes, Err
  <2>2. failed' \in BOOLEAN /\ (failed => failed') /\ Local /\ UNCHANGED out
    BY <1>2 DEF Goes, TypeOK
  <2>3. grown => \/ o >= 0 /\ AsInt(o) = -1
                 \/ proc.mode = "LINES" /\ o < 0 /\ SeveralPieces
    BY <1>2
  <2> QED
    BY <1>0, <2>1, <2>2, <2>3, ErrKeeps
<1>3. CASE /\ o >= 0 /\ AsInt(o) # -1
           /\ Goes([proc EXCEPT !.pc = "copy", !.offset = o, !.pos = o, !.start = o,
                                !.io = 0])
  <2>0. o \in Nat
    BY <1>3
  <2>1. proc' \in Locals
    BY <1>0, <1>3, <2>0 DEF Goes, Locals
  <2>2. UNCHANGED <<dir, data, argv, keep_running, changes, grown, out, failed>>
    BY <1>3 DEF Goes, Local
  <2>3. /\ proc'.pc = "copy" /\ proc'.fd = proc.fd /\ proc'.pos = o /\ proc'.start = o
        /\ proc'.size = proc.size /\ o \in Nat
    BY <1>0, <1>3 DEF Goes, Locals
  <2>4. TypeOK'
    BY <2>1, <2>2 DEF TypeOK
  <2>5. StepsMatch'
    BY <1>0, <2>3, TailAssumption DEF StepsMatch, Inode
  <2>6. grown' => PositionsInFile' /\ Pieces'
    BY <1>0, <2>2, <2>3 DEF PositionsInFile, Pieces
  <2>7. ShownIsContiguous'
    <3>1. out = << >>
      BY <1>0 DEF StepsMatch
    <3>2. SubSeq(data["old"], o + 1, o) = << >>
      BY <2>3, SubSeqEmpty
    <3> QED
      BY <2>2, <2>3, <3>1, <3>2 DEF ShownIsContiguous
  <2>8. NothingElseFails'
    BY <2>3 DEF NothingElseFails, At
  <2> QED
    BY <2>4, <2>5, <2>6, <2>7, <2>8
<1> QED
  BY <1>1, <1>2, <1>3 DEF SeekAndCopy

(* A step that shows nothing, fails nothing and keeps the start. *)
LEMMA MoveKeeps ==
    ASSUME TailInvariant, Local, UNCHANGED <<out, failed>>,
           proc' \in Locals, proc'.start = proc.start,
           proc.start # None => proc'.pos = proc.pos,
           proc'.pc = "out" => proc'.ret # -1,
           StepsMatch',
           grown => PositionsInFile' /\ Pieces'
    PROVE  TailInvariant'
<1>1. UNCHANGED <<dir, data, argv, keep_running, changes, grown, out, failed>>
  BY DEF Local
<1>2. TypeOK'
  BY <1>1 DEF TailInvariant, TypeOK
<1>3. ShownIsContiguous'
  BY <1>1 DEF TailInvariant, ShownIsContiguous
<1>4. NothingElseFails'
  BY DEF NothingElseFails, At
<1> QED
  BY <1>1, <1>2, <1>3, <1>4 DEF TailInvariant

LEMMA ParseOptionsKeeps ==
    ASSUME TailInvariant, ParseOptions
    PROVE  TailInvariant'
<1> DEFINE n == Strtoint(argv.number)
<1>0. /\ proc \in Locals /\ proc.pc = "parse" /\ proc.start = None
      /\ Local /\ UNCHANGED <<dir, data, out, failed, grown>>
  BY DEF TailInvariant, TypeOK, Locals, StepsMatch, ParseOptions, Goes, At, Local
<1>1. n = -1 \/ n \in Nat
  <2>1. argv.number = None \/ argv.number \in Int
    BY TailAssumption DEF TailInvariant, TypeOK, Arguments
  <2> QED
    BY <2>1 DEF Strtoint
<1>2. \/ proc' = [proc EXCEPT !.pc = "stat"]
      \/ proc' = [proc EXCEPT !.pc = "done"]
      \/ /\ n # -1
         /\ proc' = [proc EXCEPT !.pc = "stat", !.number = n,
                       !.mode = IF argv.option = "c" THEN "BYTES" ELSE "LINES"]
  BY DEF ParseOptions, Goes
<1>3. /\ proc' \in Locals /\ proc'.start = proc.start /\ proc'.pos = proc.pos
      /\ proc'.pc \in {"stat", "done"} /\ proc'.fd = proc.fd /\ proc'.size = proc.size
  BY <1>0, <1>1, <1>2 DEF Locals
<1>4. StepsMatch'
  BY <1>0, <1>3 DEF TailInvariant, StepsMatch, InFile
<1>5. grown => PositionsInFile' /\ Pieces'
  BY <1>0, <1>3 DEF TailInvariant, PositionsInFile, Pieces
<1> QED
  BY <1>0, <1>3, <1>4, <1>5, MoveKeeps

LEMMA StatKeeps ==
    ASSUME TailInvariant, Stat
    PROVE  TailInvariant'
<1>0. proc \in Locals /\ proc.pc = "stat" /\ proc.start = None /\ failed \in BOOLEAN
  BY DEF TailInvariant, TypeOK, Locals, StepsMatch, Stat, At
<1>1. CASE Fails("stat", Err) \/ (dir = None /\ Goes(Err))
  <2>1. /\ proc' = [proc EXCEPT !.pc = "out", !.ret = -1, !.offset = proc.offset]
        /\ proc.offset \in Int
    BY <1>0, <1>1 DEF Fails, Goes, Err, Locals
  <2>2. failed' \in BOOLEAN /\ (failed => failed') /\ Local /\ UNCHANGED out
    BY <1>0, <1>1 DEF Fails, Goes
  <2>3. failed' \/ dir = None
    BY <1>1 DEF Fails
  <2> QED
    BY <1>0, <2>1, <2>2, <2>3, ErrKeeps
<1>2. CASE dir # None /\ Goes([proc EXCEPT !.pc = "open", !.size = Len(data[dir])])
  <2>1. Local /\ UNCHANGED <<dir, data, out, failed, grown>> /\ Len(data[dir]) \in Nat
    BY <1>2, LenProperties DEF Goes, Local, TailInvariant, TypeOK
  <2>2. /\ proc' \in Locals /\ proc'.start = proc.start /\ proc'.pos = proc.pos
        /\ proc'.pc = "open" /\ proc'.fd = proc.fd /\ proc'.size = Len(data[dir])
    BY <1>0, <1>2, <2>1 DEF Goes, Locals
  <2>3. StepsMatch'
    BY <1>0, <2>1, <2>2 DEF TailInvariant, StepsMatch, InFile
  <2>4. grown => PositionsInFile' /\ Pieces'
    BY <1>0, <1>2, <2>1, <2>2 DEF TailInvariant, PositionsInFile, Pieces
  <2> QED
    BY <2>1, <2>2, <2>3, <2>4, MoveKeeps
<1> QED
  BY <1>1, <1>2 DEF Stat

LEMMA OpenKeeps ==
    ASSUME TailInvariant, Open
    PROVE  TailInvariant'
<1>0. proc \in Locals /\ proc.pc = "open" /\ proc.start = None /\ failed \in BOOLEAN
  BY DEF TailInvariant, TypeOK, Locals, StepsMatch, Open, At
<1>1. CASE Fails("open", Err) \/ (dir = None /\ Goes(Err))
  <2>1. /\ proc' = [proc EXCEPT !.pc = "out", !.ret = -1, !.offset = proc.offset]
        /\ proc.offset \in Int
    BY <1>0, <1>1 DEF Fails, Goes, Err, Locals
  <2>2. failed' \in BOOLEAN /\ (failed => failed') /\ Local /\ UNCHANGED out
    BY <1>0, <1>1 DEF Fails, Goes
  <2>3. failed' \/ dir = None
    BY <1>1 DEF Fails
  <2> QED
    BY <1>0, <2>1, <2>2, <2>3, ErrKeeps
<1>2. CASE /\ dir # None
           /\ Goes([proc EXCEPT !.fd = dir,
                     !.pc = IF proc.mode = "BYTES" THEN "tail_bytes" ELSE "tail_lines"])
  <2>1. Local /\ UNCHANGED <<dir, data, out, failed, grown>> /\ dir \in Inode
    BY <1>2 DEF Goes, Local, TailInvariant, TypeOK
  <2>2. /\ proc' \in Locals /\ proc'.start = proc.start /\ proc'.pos = proc.pos
        /\ proc'.fd = dir /\ proc'.size = proc.size /\ proc'.mode = proc.mode
        /\ proc'.pc = IF proc.mode = "BYTES" THEN "tail_bytes" ELSE "tail_lines"
    BY <1>0, <1>2, <2>1 DEF Goes, Locals
  <2>3. StepsMatch'
    BY <1>0, <1>2, <2>1, <2>2 DEF TailInvariant, StepsMatch, InFile, Locals
  <2>4. grown => PositionsInFile' /\ Pieces'
    BY <1>0, <1>2, <2>1, <2>2 DEF TailInvariant, PositionsInFile, Pieces
  <2> QED
    BY <1>0, <2>1, <2>2, <2>3, <2>4, MoveKeeps
<1> QED
  BY <1>1, <1>2 DEF Open

LEMMA TailBytesKeeps ==
    ASSUME TailInvariant, TailBytes
    PROVE  TailInvariant'
<1> DEFINE o == Greater(proc.size - proc.number, 0)
<1>1. proc.pc = "tail_bytes" /\ SeekAndCopy(o)
  BY DEF TailBytes, At
<1>2. proc.size \in Nat /\ proc.number \in Nat
  BY DEF TailInvariant, TypeOK, Locals
<1>3. o \in Nat /\ o <= proc.size
  BY <1>2 DEF Greater
<1>4. grown => proc.size <= Len(data["old"]) /\ Len(data["old"]) \in Nat
  BY LenProperties DEF TailInvariant, TypeOK, PositionsInFile, Inode
<1>5. grown => o <= Len(data["old"])
  BY <1>2, <1>3, <1>4
<1> QED
  BY <1>1, <1>3, <1>5, SeekKeeps

LEMMA TailLinesKeeps ==
    ASSUME TailInvariant, TailLines
    PROVE  TailInvariant'
<1>0. /\ proc \in Locals /\ proc.pc = "tail_lines" /\ proc.start = None
      /\ Local /\ UNCHANGED <<dir, data, out, failed, grown>>
  BY DEF TailInvariant, TypeOK, Locals, StepsMatch, TailLines, Goes, At, Local
<1>1. /\ StartOffset \in Nat /\ StartOffset <= proc.size
      /\ proc.size <= BufSize => StartOffset = 0
  BY <1>0, TailAssumption DEF StartOffset, Greater, Locals
<1>2. \/ proc' = [proc EXCEPT !.pc = "finished", !.offset = proc.size]
      \/ proc' = [proc EXCEPT !.pc = "search", !.offset = StartOffset]
  BY DEF TailLines, Goes
<1>3. /\ proc' \in Locals /\ proc'.start = proc.start /\ proc'.pos = proc.pos
      /\ proc'.fd = proc.fd /\ proc'.size = proc.size /\ proc'.mode = proc.mode
      /\ \/ proc'.pc = "finished" /\ proc'.offset = proc.size
         \/ proc'.pc = "search" /\ proc'.offset = StartOffset
      /\ proc.size \in Nat
  <2>1. proc.size \in Nat /\ proc.size \in Int /\ StartOffset \in Int
    BY <1>0, <1>1 DEF Locals
  <2>2. CASE proc' = [proc EXCEPT !.pc = "finished", !.offset = proc.size]
    BY <1>0, <2>1, <2>2 DEF Locals
  <2>3. CASE proc' = [proc EXCEPT !.pc = "search", !.offset = StartOffset]
    BY <1>0, <2>1, <2>3 DEF Locals
  <2> QED
    BY <1>2, <2>2, <2>3
<1>4. StepsMatch'
  BY <1>0, <1>1, <1>3 DEF TailInvariant, StepsMatch, InFile
<1>5. grown => PositionsInFile' /\ Pieces'
  <2>1. Len(data["old"]) \in Nat
    BY LenProperties DEF TailInvariant, TypeOK, Inode
  <2> QED
    BY <1>0, <1>1, <1>3, <2>1 DEF TailInvariant, PositionsInFile, Pieces
<1> QED
  BY <1>0, <1>3, <1>4, <1>5, MoveKeeps

(* What has been read at o leads to an offset in the file. *)
LEMMA FoundKeeps ==
    ASSUME TailInvariant, proc.pc \in {"search", "search_rest"}, NEW r \in Nat,
           NEW o \in Int, o <= r, Found(ReadAt(r), o),
           grown => r <= Len(data["old"]),
           grown => o >= 0 \/ SeveralPieces \/ ReadAt(r) = << >>
    PROVE  TailInvariant'
<1> DEFINE b == ReadAt(r)
<1>0. /\ proc \in Locals /\ proc.start = None /\ proc.fd \in Inode
      /\ Local /\ UNCHANGED <<dir, data, out, failed, grown>>
      /\ proc.mode = "LINES"
  BY DEF TailInvariant, TypeOK, Locals, StepsMatch, InFile, Found, Goes, Local
<1>1. /\ b \in Seq(Byte) /\ Len(b) \in Nat
      /\ r <= Len(data[proc.fd]) => r + Len(b) <= Len(data[proc.fd])
  BY <1>0, ReadType DEF TailInvariant, TypeOK
<1>2. PICK k \in Hit(b) : proc' = [proc EXCEPT !.pc = "finished", !.offset = o + k]
  BY DEF Found, Goes
<1>3. k \in 1..Len(b)
  BY <1>1, LenProperties DEF Hit, Newlines
<1>4. /\ proc' \in Locals /\ proc'.start = proc.start /\ proc'.pos = proc.pos
      /\ proc'.fd = proc.fd /\ proc'.size = proc.size /\ proc'.mode = proc.mode
      /\ proc'.pc = "finished" /\ proc'.offset = o + k
  <2>1. o + k \in Int
    BY <1>1, <1>3
  <2> QED
    BY <1>0, <1>2, <2>1 DEF Locals
<1>5. StepsMatch'
  BY <1>0, <1>4 DEF TailInvariant, StepsMatch, InFile
<1>6. grown => PositionsInFile' /\ Pieces'
  <2> SUFFICES ASSUME grown PROVE PositionsInFile' /\ Pieces'
    OBVIOUS
  <2>1. proc.fd = "old"
    BY <1>0, TailAssumption DEF TailInvariant, PositionsInFile, Inode
  <2>2. Len(data["old"]) \in Nat
    BY LenProperties DEF TailInvariant, TypeOK, Inode
  <2>3. o + k <= Len(data["old"])
    BY <1>1, <1>3, <2>1, <2>2
  <2>4. o + k < 0 => SeveralPieces
    <3>1. b # << >>
      BY <1>1, <1>3
    <3> QED
      BY <1>1, <1>3, <3>1
  <2>5. SeveralPieces' = SeveralPieces
    BY <1>0, <1>4 DEF SeveralPieces
  <2> QED
    BY <1>0, <1>4, <2>1, <2>2, <2>3, <2>4, <2>5
       DEF TailInvariant, PositionsInFile, Pieces
<1> QED
  BY <1>0, <1>4, <1>5, <1>6, MoveKeeps

LEMMA SearchBufferKeeps ==
    ASSUME TailInvariant, SearchBuffer
    PROVE  TailInvariant'
<1> DEFINE o == proc.offset
           b == ReadAt(o)
<1>0. /\ proc \in Locals /\ proc.pc = "search" /\ proc.start = None
      /\ proc.fd \in Inode /\ proc.mode = "LINES" /\ o \in Nat /\ failed \in BOOLEAN
      /\ proc.newlines \in Nat /\ proc.size \in Nat
  BY DEF TailInvariant, TypeOK, Locals, StepsMatch, InFile, SearchBuffer, At
<1>1. /\ b \in Seq(Byte) /\ Len(b) \in Nat
      /\ o <= Len(data[proc.fd]) =>
           /\ o + Len(b) <= Len(data[proc.fd])
           /\ Len(data[proc.fd]) <= o + BufSize => o + Len(b) = Len(data[proc.fd])
  BY <1>0, ReadType DEF TailInvariant, TypeOK
<1>2. Counted(b) \in Nat
  BY <1>0, <1>1, CountType
<1>a. Len(data["old"]) \in Nat
  BY LenProperties DEF TailInvariant, TypeOK, Inode
<1>3. grown => proc.fd = "old" /\ o <= Len(data["old"])
  BY <1>0, TailAssumption DEF TailInvariant, PositionsInFile
<1>4. CASE Fails("seek", Err) \/ Fails("read", Err) \/ (AsInt(o) = -1 /\ Goes(Err))
  <2>1. proc' = [proc EXCEPT !.pc = "out", !.ret = -1, !.offset = o]
    BY <1>0, <1>4 DEF Fails, Goes, Err, Locals
  <2>2. failed' \in BOOLEAN /\ (failed => failed') /\ Local /\ UNCHANGED out
    BY <1>0, <1>4 DEF Fails, Goes
  <2>3. failed' \/ (o >= 0 /\ AsInt(o) = -1)
    BY <1>0, <1>4 DEF Fails
  <2>4. o \in Int
    BY <1>0
  <2> QED
    BY <1>0, <2>1, <2>2, <2>3, <2>4, ErrKeeps
<1>5. CASE Found(b, o)
  <2>1. o \in Int /\ o <= o /\ o >= 0 /\ proc.pc \in {"search", "search_rest"}
    BY <1>0
  <2> QED
    BY <1>0, <1>3, <1>5, <2>1, FoundKeeps
<1>6. CASE /\ o - BufSize < 0
           /\ Goes([proc EXCEPT !.pc = "search_rest", !.offset = o - Len(b),
                                !.pos = o + Len(b), !.newlines = Counted(b)])
  <2>1. Local /\ UNCHANGED <<dir, data, out, failed, grown>>
    BY <1>6 DEF Goes, Local
  <2>2. /\ proc' \in Locals /\ proc'.start = proc.start /\ proc'.pos = o + Len(b)
        /\ proc'.fd = proc.fd /\ proc'.size = proc.size /\ proc'.mode = proc.mode
        /\ proc'.pc = "search_rest" /\ proc'.offset = o - Len(b)
    <3>1. o - Len(b) \in Int /\ o + Len(b) \in Nat
      BY <1>0, <1>1
    <3> QED
      BY <1>0, <1>2, <1>6, <3>1 DEF Goes, Locals
  <2>3. StepsMatch'
    BY <1>0, <2>1, <2>2 DEF TailInvariant, StepsMatch, InFile
  <2>4. grown => PositionsInFile' /\ Pieces'
    <3> SUFFICES ASSUME grown PROVE PositionsInFile' /\ Pieces'
      OBVIOUS
    <3>1. SeveralPieces' = SeveralPieces
      BY <2>1, <2>2 DEF SeveralPieces
    <3>2. ~SeveralPieces => o + Len(b) = Len(data["old"])
      <4>1. CASE ~SeveralPieces
        <5>1. Len(data[proc.fd]) <= BufSize /\ proc.fd = "old"
          BY <1>3, <1>a, <4>1, TailAssumption DEF SeveralPieces
        <5>2. BufSize <= o + BufSize
          BY <1>0, TailAssumption
        <5>3. Len(data[proc.fd]) <= o + BufSize
          BY <1>0, <1>a, <5>1, <5>2, TailAssumption
        <5> QED
          BY <1>1, <1>3, <5>1, <5>3
      <4> QED
        BY <4>1
    <3> QED
      BY <1>0, <1>1, <1>3, <1>a, <2>1, <2>2, <3>1, <3>2
         DEF TailInvariant, PositionsInFile, Pieces
  <2> QED
    BY <1>0, <2>1, <2>2, <2>3, <2>4, MoveKeeps
<1>7. CASE /\ o - BufSize >= 0
           /\ Goes([proc EXCEPT !.offset = o - BufSize, !.newlines = Counted(b)])
  <2>1. Local /\ UNCHANGED <<dir, data, out, failed, grown>>
    BY <1>7 DEF Goes, Local
  <2>2. o - BufSize \in Nat /\ o - BufSize < o /\ o - BufSize \in Int
    BY <1>0, <1>7, TailAssumption
  <2>3. /\ proc' \in Locals /\ proc'.start = proc.start /\ proc'.pos = proc.pos
        /\ proc'.fd = proc.fd /\ proc'.size = proc.size /\ proc'.mode = proc.mode
        /\ proc'.pc = "search" /\ proc'.offset = o - BufSize
    BY <1>0, <1>2, <1>7, <2>2 DEF Goes, Locals
  <2>4. StepsMatch'
    BY <1>0, <2>1, <2>2, <2>3 DEF TailInvariant, StepsMatch, InFile
  <2>5. grown => PositionsInFile' /\ Pieces'
    BY <1>0, <1>3, <1>a, <1>7, <2>1, <2>2, <2>3, TailAssumption
       DEF TailInvariant, PositionsInFile, Pieces
  <2> QED
    BY <1>0, <2>1, <2>3, <2>4, <2>5, MoveKeeps
<1> QED
  BY <1>4, <1>5, <1>6, <1>7 DEF SearchBuffer

LEMMA SearchRestKeeps ==
    ASSUME TailInvariant, SearchRest
    PROVE  TailInvariant'
<1> DEFINE b == ReadAt(proc.pos)
           n == IF Counted(b) < proc.number THEN 0 ELSE Greater(proc.offset, 0)
<1>0. /\ proc \in Locals /\ proc.pc = "search_rest" /\ proc.start = None
      /\ proc.fd \in Inode /\ proc.mode = "LINES" /\ proc.pos \in Nat
      /\ proc.offset \in Int /\ proc.offset <= proc.pos /\ failed \in BOOLEAN
  BY DEF TailInvariant, TypeOK, Locals, StepsMatch, InFile, SearchRest, At
<1>1. /\ b \in Seq(Byte) /\ Len(b) \in Nat
      /\ proc.pos <= Len(data[proc.fd]) => proc.pos + Len(b) <= Len(data[proc.fd])
  BY <1>0, ReadType DEF TailInvariant, TypeOK
<1>a. Len(data["old"]) \in Nat
  BY LenProperties DEF TailInvariant, TypeOK, Inode
<1>2. grown => proc.fd = "old" /\ proc.pos <= Len(data["old"])
  BY <1>0, TailAssumption DEF TailInvariant, PositionsInFile
<1>3. CASE Fails("read", Err)
  <2>1. proc' = [proc EXCEPT !.pc = "out", !.ret = -1, !.offset = proc.offset]
    BY <1>0, <1>3 DEF Fails, Err, Locals
  <2>2. failed' = TRUE /\ Local /\ UNCHANGED out
    BY <1>3 DEF Fails
  <2>3. failed' \in BOOLEAN /\ (failed => failed') /\ ~(grown /\ ~failed')
    BY <2>2
  <2> QED
    BY <1>0, <2>1, <2>2, <2>3, ErrKeeps
<1>4. CASE Found(b, proc.offset)
  <2>1. grown => (proc.offset >= 0 \/ SeveralPieces \/ b = << >>)
    <3> SUFFICES ASSUME grown, ~SeveralPieces PROVE b = << >>
      OBVIOUS
    <3>1. proc.pos = Len(data["old"])
      BY <1>0 DEF TailInvariant, Pieces
    <3>2. proc.pos + Len(b) <= proc.pos
      BY <1>1, <1>2, <3>1, <1>0
    <3>3. Len(b) = 0
      BY <1>0, <1>1, <3>2
    <3> QED
      BY <1>1, <3>3, EmptySeq
  <2>2. proc.pc \in {"search", "search_rest"}
    BY <1>0
  <2> QED
    BY <1>0, <1>2, <1>4, <2>1, <2>2, FoundKeeps
<1>5. CASE Goes([proc EXCEPT !.pc = "finished", !.offset = n])
  <2>1. n \in Nat /\ n <= proc.pos
    BY <1>0 DEF Greater
  <2>2. Local /\ UNCHANGED <<dir, data, out, failed, grown>>
    BY <1>5 DEF Goes, Local
  <2>3. /\ proc' \in Locals /\ proc'.start = proc.start /\ proc'.pos = proc.pos
        /\ proc'.fd = proc.fd /\ proc'.size = proc.size /\ proc'.mode = proc.mode
        /\ proc'.pc = "finished" /\ proc'.offset = n
    <3>1. n \in Int
      BY <2>1
    <3>2. proc' = [proc EXCEPT !.pc = "finished", !.offset = n]
      BY <1>5 DEF Goes
    <3> HIDE DEF n
    <3> QED
      BY <1>0, <3>1, <3>2 DEF Locals
  <2> HIDE DEF n
  <2>4. StepsMatch'
    BY <1>0, <2>2, <2>3 DEF TailInvariant, StepsMatch, InFile
  <2>5. grown => PositionsInFile' /\ Pieces'
    BY <1>0, <1>2, <1>a, <2>1, <2>2, <2>3 DEF TailInvariant, PositionsInFile, Pieces
  <2> QED
    BY <1>0, <2>2, <2>3, <2>4, <2>5, MoveKeeps
<1> QED
  BY <1>3, <1>4, <1>5 DEF SearchRest

LEMMA FinishedKeeps ==
    ASSUME TailInvariant, Finished
    PROVE  TailInvariant'
<1>1. proc.pc = "finished" /\ SeekAndCopy(proc.offset) /\ proc.offset \in Int
  BY DEF Finished, At, TailInvariant, TypeOK, Locals
<1>2. grown => proc.offset <= Len(data["old"])
  BY <1>1 DEF TailInvariant, PositionsInFile
<1>3. grown => (proc.offset >= 0 \/ (proc.mode = "LINES" /\ SeveralPieces))
  BY <1>1 DEF TailInvariant, Pieces, StepsMatch
<1> QED
  BY <1>1, <1>2, <1>3, SeekKeeps

-----------------------------------------------------------------------------
(* The copy, and following the file. *)

(* After a call that failed nothing is claimed of what is shown. *)
LEMMA FailKeeps ==
    ASSUME TailInvariant, Local, failed' = TRUE, out' \in Seq(Byte), proc' \in Locals,
           StepsMatch', grown => PositionsInFile' /\ Pieces'
    PROVE  TailInvariant'
<1>1. UNCHANGED <<dir, data, argv, keep_running, changes, grown>>
  BY DEF Local
<1>2. TypeOK'
  BY <1>1 DEF TailInvariant, TypeOK
<1>3. ShownIsContiguous' /\ NothingElseFails'
  BY DEF ShownIsContiguous, NothingElseFails
<1> QED
  BY <1>1, <1>2, <1>3 DEF TailInvariant

(* A step of the copy or of the loop of tail -f. *)
LEMMA FollowingMoves ==
    ASSUME TailInvariant, proc.pc \in {"copy", "while", "poll"},
           NEW p \in Locals, proc' = p,
           p.pc \in {"copy", "while", "poll", "out", "done"},
           p.pc \in {"while", "poll"} => p.ret # -1,
           p.start = proc.start, p.fd = proc.fd, UNCHANGED <<dir, data, grown>>,
           grown => /\ p.pos <= Len(data["old"]) /\ p.size <= Len(data["old"])
                    /\ p.pos >= proc.pos
    PROVE  StepsMatch' /\ (grown => PositionsInFile' /\ Pieces')
<1>0. proc \in Locals /\ proc.fd # None /\ proc.start # None /\ proc.start \in Nat
  BY DEF TailInvariant, TypeOK, Locals, StepsMatch, InFile
<1>1. StepsMatch'
  BY <1>0 DEF TailInvariant, StepsMatch, InFile
<1>2. grown => PositionsInFile'
  <2> SUFFICES ASSUME grown PROVE PositionsInFile'
    OBVIOUS
  <2>1. proc.start <= proc.pos /\ proc.pos \in Nat /\ p.pos \in Nat /\ proc.pos <= p.pos
    BY <1>0 DEF TailInvariant, PositionsInFile, Locals
  <2>2. proc.start <= p.pos
    BY <1>0, <2>1
  <2> QED
    BY <1>0, <2>2 DEF TailInvariant, PositionsInFile
<1>3. Pieces'
  BY DEF Pieces
<1> QED
  BY <1>1, <1>2, <1>3

LEMMA CopyDoneType ==
    ASSUME NEW p \in Locals, NEW r \in Int
    PROVE  /\ CopyDone(p, r) \in Locals
           /\ CopyDone(p, r).start = p.start /\ CopyDone(p, r).fd = p.fd
           /\ CopyDone(p, r).pos = p.pos /\ CopyDone(p, r).size = p.size
           /\ CopyDone(p, r).pc \in {"while", "out"}
           /\ CopyDone(p, r).ret = r /\ (r = -1 => CopyDone(p, r).pc = "out")
<1>0. -1 \in Int
  OBVIOUS
<1>1. CASE r = -1
  BY <1>0, <1>1 DEF CopyDone, Locals
<1>2. CASE r # -1 /\ argv.follow
  BY <1>2 DEF CopyDone, Locals
<1>3. CASE r # -1 /\ ~argv.follow
  BY <1>3 DEF CopyDone, Locals
<1> QED
  BY <1>1, <1>2, <1>3

(* The bounds of two pieces of a sequence of length l that meet at j. *)
LEMMA Between ==
    ASSUME NEW i \in Nat, NEW j \in Nat, NEW n \in Nat, NEW l \in Nat,
           i <= j, j <= l, j + n <= l
    PROVE  i + 1 \in 1..(l + 1) /\ j \in ((i + 1) - 1)..l /\ j + n \in j..l
OBVIOUS

(* A read of the file that only grows shows the next bytes of it. *)
LEMMA GlusterReadKeeps ==
    ASSUME TailInvariant, GlusterRead
    PROVE  TailInvariant'
<1> DEFINE b == ReadAt(proc.pos)
           read == [proc EXCEPT !.pos = proc.pos + Len(b), !.io = Len(b)]
<1>0. /\ proc \in Locals /\ proc.pc = "copy" /\ proc.start # None /\ proc.start \in Nat
      /\ proc.fd \in Inode /\ proc.pos \in Nat /\ proc.io \in Nat /\ out \in Seq(Byte)
      /\ proc.size \in Nat /\ proc.pc \in {"copy", "while", "poll"}
  BY DEF TailInvariant, TypeOK, Locals, StepsMatch, InFile, GlusterRead, At
<1>a. Len(data["old"]) \in Nat /\ data["old"] \in Seq(Byte)
  BY LenProperties DEF TailInvariant, TypeOK, Inode
<1>1. /\ b \in Seq(Byte) /\ Len(b) \in Nat
      /\ proc.pos <= Len(data[proc.fd]) =>
           /\ proc.pos + Len(b) <= Len(data[proc.fd])
           /\ b = SubSeq(data[proc.fd], proc.pos + 1, proc.pos + Len(b))
  BY <1>0, ReadType DEF TailInvariant, TypeOK
<1>2. grown => /\ proc.fd = "old" /\ proc.pos <= Len(data["old"])
               /\ proc.size <= Len(data["old"]) /\ proc.start <= proc.pos
  BY <1>0, TailAssumption DEF TailInvariant, PositionsInFile
<1>3. Local /\ UNCHANGED <<dir, data, grown>>
  BY DEF GlusterRead, Fails, Goes, Local
<1>4. /\ read \in Locals /\ read.start = proc.start /\ read.fd = proc.fd
      /\ read.pos = proc.pos + Len(b) /\ read.size = proc.size /\ read.pc = "copy"
  <2>1. proc.pos + Len(b) \in Nat
    BY <1>0, <1>1
  <2> HIDE DEF b
  <2> QED
    BY <1>0, <1>1, <2>1 DEF Locals
<1>5. grown => /\ proc.pos + Len(b) <= Len(data["old"])
               /\ b = SubSeq(data["old"], proc.pos + 1, proc.pos + Len(b))
               /\ proc.pos + Len(b) >= proc.pos
  BY <1>0, <1>1, <1>2
<1>6. CASE Fails("read", CopyDone(proc, proc.io)) \/ Goes(CopyDone(proc, proc.io))
  <2> DEFINE p == CopyDone(proc, proc.io)
  <2>1. /\ p \in Locals /\ p.start = proc.start /\ p.fd = proc.fd /\ p.pos = proc.pos
        /\ p.size = proc.size /\ p.pc \in {"while", "out"} /\ p.ret = proc.io
    <3>1. proc.io \in Int
      BY <1>0
    <3> QED
      BY <1>0, <3>1, CopyDoneType
  <2>2. proc' = p /\ UNCHANGED out
    BY <1>6 DEF Fails, Goes
  <2>a. p.ret # -1
    BY <1>0, <2>1
  <2> HIDE DEF p
  <2>3. StepsMatch' /\ (grown => PositionsInFile' /\ Pieces')
    BY <1>0, <1>2, <1>3, <2>1, <2>2, <2>a, FollowingMoves
  <2>4. CASE failed' = TRUE
    BY <1>0, <1>3, <2>1, <2>2, <2>3, <2>4, FailKeeps
  <2>5. CASE UNCHANGED failed
    <3>1. proc'.ret # -1
      BY <1>0, <2>1, <2>2
    <3> QED
      BY <1>3, <2>1, <2>2, <2>3, <2>5, <3>1, MoveKeeps
  <2> QED
    BY <1>6, <2>4, <2>5 DEF Fails, Goes
<1>7. CASE proc' = read /\ out' = out \o b /\ UNCHANGED failed
  <2> HIDE DEF read
  <2>1. StepsMatch' /\ (grown => PositionsInFile' /\ Pieces')
    BY <1>0, <1>2, <1>3, <1>4, <1>5, <1>7, FollowingMoves
  <2>2. TypeOK'
    <3>1. out \o b \in Seq(Byte)
      BY <1>0, <1>1, ConcatProperties
    <3> QED
      BY <1>3, <1>4, <1>7, <3>1 DEF TailInvariant, TypeOK, Local
  <2>3. ShownIsContiguous'
    <3> SUFFICES ASSUME grown, ~failed
                 PROVE  out \o b = SubSeq(data["old"], proc.start + 1, proc.pos + Len(b))
      BY <1>3, <1>4, <1>7 DEF ShownIsContiguous
    <3>1. out = SubSeq(data["old"], proc.start + 1, proc.pos)
      BY <1>0 DEF TailInvariant, ShownIsContiguous
    <3>2. /\ proc.start + 1 \in 1..(Len(data["old"]) + 1)
          /\ proc.pos \in ((proc.start + 1) - 1)..Len(data["old"])
          /\ proc.pos + Len(b) \in proc.pos..Len(data["old"])
      <4> HIDE DEF b
      <4>1. proc.start <= proc.pos /\ proc.pos <= Len(data["old"])
        BY <1>2
      <4>2. proc.pos + Len(b) <= Len(data["old"])
        BY <1>5
      <4>3. /\ proc.start \in Nat /\ proc.pos \in Nat
            /\ Len(b) \in Nat /\ Len(data["old"]) \in Nat
        BY <1>0, <1>1, <1>a
      <4> QED
        BY <4>1, <4>2, <4>3, Between
    <3>3. SubSeq(data["old"], proc.start + 1, proc.pos)
            \o SubSeq(data["old"], proc.pos + 1, proc.pos + Len(b))
          = SubSeq(data["old"], proc.start + 1, proc.pos + Len(b))
      <4> HIDE DEF b
      <4> QED
        BY <1>a, <3>2, ConcatAdjacentSubSeq
    <3> QED
      BY <1>5, <3>1, <3>3
  <2>4. NothingElseFails'
    BY <1>4, <1>7 DEF NothingElseFails, At
  <2> QED
    BY <1>3, <2>1, <2>2, <2>3, <2>4 DEF TailInvariant
<1>8. CASE /\ failed' = TRUE
           /\ proc' = CopyDone(read, -1)
           /\ \E n \in 0..(Len(b) - 1) : out' = out \o SubSeq(b, 1, n)
  <2> DEFINE p == CopyDone(read, -1)
  <2>1. /\ p \in Locals /\ p.start = proc.start /\ p.fd = proc.fd
        /\ p.pos = proc.pos + Len(b) /\ p.size = proc.size /\ p.pc = "out"
    <3>1. -1 \in Int
      OBVIOUS
    <3> HIDE DEF read
    <3> QED
      BY <1>4, <3>1, CopyDoneType
  <2>2. out' \in Seq(Byte)
    <3>1. PICK n \in 0..(Len(b) - 1) : out' = out \o SubSeq(b, 1, n)
      BY <1>8
    <3>2. SubSeq(b, 1, n) \in Seq(Byte)
      <4>1. \A i \in 1..n : b[i] \in Byte
        BY <1>1, LenProperties
      <4> QED
        BY <1>1, <4>1, SubSeqProperties
    <3> QED
      BY <1>0, <3>1, <3>2, ConcatProperties
  <2>3. proc' = p
    BY <1>8
  <2> HIDE DEF p
  <2>4. StepsMatch' /\ (grown => PositionsInFile' /\ Pieces')
    BY <1>0, <1>2, <1>3, <1>5, <2>1, <2>3, FollowingMoves
  <2> QED
    BY <1>3, <1>8, <2>1, <2>2, <2>3, <2>4, FailKeeps
<1> QED
  BY <1>6, <1>7, <1>8 DEF GlusterRead

LEMMA WhileKeeps ==
    ASSUME TailInvariant, While
    PROVE  TailInvariant'
<1> DEFINE p == [proc EXCEPT !.pc = IF keep_running THEN "poll" ELSE "out"]
<1>0. proc \in Locals /\ proc.pc = "while" /\ proc.pos \in Nat
  BY DEF TailInvariant, TypeOK, Locals, While, At
<1>1. proc' = p /\ Local /\ UNCHANGED <<dir, data, grown, out, failed>>
  BY DEF While, Goes, Local
<1>2. /\ p \in Locals /\ p.start = proc.start /\ p.fd = proc.fd /\ p.pos = proc.pos
      /\ p.size = proc.size /\ p.pc \in {"poll", "out"} /\ p.ret = proc.ret
  BY <1>0 DEF Locals
<1> HIDE DEF p
<1>3. proc.ret # -1
  BY <1>0 DEF TailInvariant, StepsMatch
<1>4. StepsMatch' /\ (grown => PositionsInFile' /\ Pieces')
  <2>1. proc.pc \in {"copy", "while", "poll"} /\ proc.pos >= proc.pos /\ p.ret # -1
    BY <1>0, <1>2, <1>3
  <2>2. grown => proc.pos <= Len(data["old"]) /\ proc.size <= Len(data["old"])
    BY DEF TailInvariant, PositionsInFile
  <2> QED
    BY <1>0, <1>1, <1>2, <2>1, <2>2, FollowingMoves
<1> QED
  BY <1>1, <1>2, <1>3, <1>4, MoveKeeps

(* A file that only grows has never become shorter than what was noted. *)
LEMMA PollKeeps ==
    ASSUME TailInvariant, Poll
    PROVE  TailInvariant'
<1> DEFINE again == [proc EXCEPT !.pc = "copy", !.io = 0, !.ret = 0]
<1>0. /\ proc \in Locals /\ proc.pc = "poll" /\ proc.pos \in Nat /\ proc.size \in Nat
      /\ failed \in BOOLEAN /\ proc.offset \in Int
  BY DEF TailInvariant, TypeOK, Locals, Poll, At
<1>1. grown => proc.pos <= Len(data["old"]) /\ proc.size <= Len(data["old"])
  BY DEF TailInvariant, PositionsInFile
<1>2. CASE Fails("stat", Err) \/ (dir = None /\ Goes(Err))
  <2>1. proc' = [proc EXCEPT !.pc = "out", !.ret = -1, !.offset = proc.offset]
    BY <1>0, <1>2 DEF Fails, Goes, Err, Locals
  <2>2. failed' \in BOOLEAN /\ (failed => failed') /\ Local /\ UNCHANGED out
    BY <1>0, <1>2 DEF Fails, Goes
  <2>3. failed' \/ dir = None
    BY <1>2 DEF Fails
  <2>4. proc.pc \in {"copy", "while", "poll"}
    BY <1>0
  <2> QED
    BY <1>0, <2>1, <2>2, <2>3, <2>4, ErrKeeps
<1>3. CASE \/ Goes([proc EXCEPT !.pc = "while", !.ret = 0])
           \/ Goes(again)
  <2>1. PICK p \in {[proc EXCEPT !.pc = "while", !.ret = 0], again} : proc' = p
    BY <1>3 DEF Goes
  <2>2. /\ p \in Locals /\ p.start = proc.start /\ p.fd = proc.fd /\ p.pos = proc.pos
        /\ p.size = proc.size /\ p.pc \in {"while", "copy"} /\ p.ret = 0
    <3> DEFINE w == [proc EXCEPT !.pc = "while", !.ret = 0]
    <3>0. 0 \in Nat /\ 0 \in Int
      OBVIOUS
    <3>1. /\ w \in Locals /\ w.start = proc.start /\ w.fd = proc.fd
          /\ w.pos = proc.pos /\ w.size = proc.size /\ w.pc = "while" /\ w.ret = 0
      BY <1>0, <3>0 DEF Locals
    <3>2. /\ again \in Locals /\ again.start = proc.start /\ again.fd = proc.fd
          /\ again.pos = proc.pos /\ again.size = proc.size /\ again.pc = "copy"
          /\ again.ret = 0
      BY <1>0, <3>0 DEF Locals
    <3>3. p = w \/ p = again
      OBVIOUS
    <3> HIDE DEF w, again
    <3> QED
      BY <3>1, <3>2, <3>3
  <2>3. Local /\ UNCHANGED <<dir, data, grown, out, failed>>
    BY <1>3 DEF Goes, Local
  <2>4. StepsMatch' /\ (grown => PositionsInFile' /\ Pieces')
    BY <1>0, <1>1, <2>1, <2>2, <2>3, FollowingMoves
  <2> QED
    BY <2>1, <2>2, <2>3, <2>4, MoveKeeps
<1>4. CASE /\ dir # None /\ Len(data[dir]) < proc.size
           /\ \/ Goes([again EXCEPT !.size = Len(data[dir]), !.pos = 0])
              \/ Fails("seek", [again EXCEPT !.size = Len(data[dir])])
  <2>0. Len(data[dir]) \in Nat
    BY <1>4, LenProperties DEF TailInvariant, TypeOK
  <2>1. ~grown
    <3>1. grown => dir = "old"
      BY <1>4 DEF TailInvariant, PositionsInFile
    <3> QED
      BY <1>0, <1>1, <1>4, <2>0, <3>1
  <2>2. PICK p \in {[again EXCEPT !.size = Len(data[dir]), !.pos = 0],
                    [again EXCEPT !.size = Len(data[dir])]} : proc' = p
    BY <1>4 DEF Goes, Fails
  <2>3. /\ p \in Locals /\ p.start = proc.start /\ p.fd = proc.fd
        /\ p.pc = "copy" /\ p.ret = 0
    <3> DEFINE n == Len(data[dir])
               u == [again EXCEPT !.size = n, !.pos = 0]
               v == [again EXCEPT !.size = n]
    <3>0. 0 \in Nat /\ 0 \in Int /\ n \in Nat
      BY <2>0
    <3>1. p = u \/ p = v
      OBVIOUS
    <3> HIDE DEF n
    <3>2. /\ u \in Locals /\ u.start = proc.start /\ u.fd = proc.fd
          /\ u.pc = "copy" /\ u.ret = 0
      BY <1>0, <3>0 DEF Locals
    <3>3. /\ v \in Locals /\ v.start = proc.start /\ v.fd = proc.fd
          /\ v.pc = "copy" /\ v.ret = 0
      BY <1>0, <3>0 DEF Locals
    <3> HIDE DEF u, v
    <3> QED
      BY <3>1, <3>2, <3>3
  <2>4. Local /\ UNCHANGED <<dir, data, grown, out>> /\ failed' \in BOOLEAN
    BY <1>0, <1>4 DEF Goes, Fails, Local
  <2>5. StepsMatch'
    BY <1>0, <2>1, <2>2, <2>3, <2>4, FollowingMoves
  <2>6. TypeOK'
    BY <2>2, <2>3, <2>4 DEF TailInvariant, TypeOK, Local
  <2>7. ShownIsContiguous' /\ NothingElseFails'
    BY <2>1, <2>4 DEF ShownIsContiguous, NothingElseFails
  <2> QED
    BY <2>1, <2>4, <2>5, <2>6, <2>7 DEF TailInvariant
<1> QED
  BY <1>2, <1>3, <1>4 DEF Poll

LEMMA OutKeeps ==
    ASSUME TailInvariant, Out
    PROVE  TailInvariant'
<1> DEFINE p == [proc EXCEPT !.pc = "done", !.handler = "default"]
<1>0. proc \in Locals /\ proc.pc = "out"
  BY DEF TailInvariant, TypeOK, Locals, Out, At
<1>1. /\ Local /\ UNCHANGED <<dir, data, argv, keep_running, changes, grown, out>>
      /\ failed' \in BOOLEAN /\ (failed => failed')
      /\ (proc' = p \/ proc' = [p EXCEPT !.ret = -1])
  <2>1. CASE Goes(p)
    BY <2>1 DEF Goes, Local, TailInvariant, TypeOK
  <2>2. CASE Fails("close", [p EXCEPT !.ret = -1])
    BY <2>2 DEF Fails, Local
  <2> QED
    BY <2>1, <2>2 DEF Out
<1>2. /\ proc' \in Locals /\ proc'.start = proc.start /\ proc'.pos = proc.pos
      /\ proc'.fd = proc.fd /\ proc'.size = proc.size /\ proc'.pc = "done"
  <2>1. -1 \in Int
    OBVIOUS
  <2>2. CASE proc' = p
    BY <1>0, <2>2 DEF Locals
  <2>3. CASE proc' = [p EXCEPT !.ret = -1]
    BY <1>0, <2>1, <2>3 DEF Locals
  <2> QED
    BY <1>1, <2>2, <2>3
<1>3. TypeOK'
  BY <1>1, <1>2 DEF TailInvariant, TypeOK
<1>4. StepsMatch'
  BY <1>1, <1>2 DEF TailInvariant, StepsMatch, InFile
<1>5. grown' => PositionsInFile' /\ Pieces'
  BY <1>1, <1>2 DEF TailInvariant, PositionsInFile, Pieces
<1>6. ShownIsContiguous'
  BY <1>1, <1>2 DEF TailInvariant, TypeOK, ShownIsContiguous
<1>7. NothingElseFails'
  BY <1>2 DEF NothingElseFails, At
<1> QED
  BY <1>3, <1>4, <1>5, <1>6, <1>7 DEF TailInvariant

LEMMA InterruptKeeps ==
    ASSUME TailInvariant, Interrupt
    PROVE  TailInvariant'
<1>0. proc \in Locals
  BY DEF TailInvariant, TypeOK
<1>1. /\ UNCHANGED <<dir, data, argv, out, changes, grown, failed>>
      /\ keep_running' \in BOOLEAN
  BY DEF Interrupt, TailInvariant, TypeOK
<1>2. CASE UNCHANGED proc
  <2>1. TypeOK'
    BY <1>1, <1>2 DEF TailInvariant, TypeOK
  <2>2. StepsMatch' /\ (grown' => PositionsInFile' /\ Pieces')
    BY <1>1, <1>2
       DEF TailInvariant, StepsMatch, PositionsInFile, Pieces, SeveralPieces
  <2>3. ShownIsContiguous' /\ NothingElseFails'
    BY <1>1, <1>2
       DEF TailInvariant, ShownIsContiguous, NothingElseFails, At, SeveralPieces
  <2> QED
    BY <2>1, <2>2, <2>3 DEF TailInvariant
<1>3. CASE proc' = [proc EXCEPT !.pc = "killed"]
  <2>0. /\ proc' \in Locals /\ proc'.start = proc.start /\ proc'.pos = proc.pos
        /\ proc'.fd = proc.fd /\ proc'.size = proc.size /\ proc'.pc = "killed"
    BY <1>0, <1>3 DEF Locals
  <2>1. TypeOK'
    BY <1>1, <2>0 DEF TailInvariant, TypeOK
  <2>2. StepsMatch' /\ (grown' => PositionsInFile' /\ Pieces')
    BY <1>1, <2>0 DEF TailInvariant, StepsMatch, InFile, PositionsInFile, Pieces
  <2>3. ShownIsContiguous' /\ NothingElseFails'
    BY <1>1, <2>0 DEF TailInvariant, ShownIsContiguous, NothingElseFails, At
  <2> QED
    BY <2>1, <2>2, <2>3 DEF TailInvariant
<1> QED
  BY <1>2, <1>3 DEF Interrupt

-----------------------------------------------------------------------------
(* The steps of the others. *)

(* What has been shown is still there when a byte is appended. *)
LEMMA AppendByteKeeps ==
    ASSUME TailInvariant, AppendByte
    PROVE  TailInvariant'
<1>0. /\ dir \in Inode /\ data \in [Inode -> Seq(Byte)] /\ proc \in Locals
      /\ UNCHANGED <<dir, argv, proc, out, keep_running, failed, grown>>
      /\ proc.pc \notin {"parse", "stat", "done", "killed"}
  BY DEF AppendByte, Change, TailInvariant, TypeOK
<1>1. PICK b \in Byte : data' = [data EXCEPT ![dir] = Append(@, b)]
  BY DEF AppendByte
<1>2. Append(data[dir], b) \in Seq(Byte)
  BY <1>0, AppendProperties
<1>3. TypeOK'
  <2>1. changes' \in Nat
    BY TailAssumption DEF AppendByte, Change, TailInvariant, TypeOK
  <2> QED
    BY <1>0, <1>1, <1>2, <2>1 DEF TailInvariant, TypeOK
<1>4. StepsMatch'
  BY <1>0 DEF TailInvariant, StepsMatch
<1>5. ASSUME grown
      PROVE  /\ data'["old"] = Append(data["old"], b)
             /\ Len(data["old"]) \in Nat /\ Len(data'["old"]) = Len(data["old"]) + 1
  <2>1. dir = "old"
    BY <1>0, <1>5, TailAssumption DEF TailInvariant, PositionsInFile
  <2> QED
    BY <1>0, <1>1, <2>1, AppendProperties, LenProperties DEF Inode
<1>a. grown /\ SeveralPieces => SeveralPieces'
  BY <1>0, <1>5, TailAssumption DEF SeveralPieces, Locals
<1>6. grown' => PositionsInFile' /\ Pieces'
  <2> SUFFICES ASSUME grown PROVE PositionsInFile' /\ Pieces'
    BY <1>0
  <2>1. PositionsInFile'
    BY <1>0, <1>5 DEF TailInvariant, PositionsInFile, Locals
  <2>3. proc.pc = "search_rest" => SeveralPieces'
    <3>1. proc.size <= Len(data["old"])
      BY DEF TailInvariant, PositionsInFile
    <3> QED
      BY <1>0, <1>5, <3>1 DEF SeveralPieces, Locals
  <2> QED
    BY <1>0, <1>a, <2>1, <2>3 DEF TailInvariant, Pieces
<1>7. ShownIsContiguous'
  <2> SUFFICES ASSUME grown, ~failed, proc.start # None
               PROVE  out = SubSeq(data'["old"], proc.start + 1, proc.pos)
    BY <1>0 DEF ShownIsContiguous
  <2>1. /\ proc.start \in Nat /\ proc.pos \in Nat /\ proc.start <= proc.pos
        /\ proc.pos <= Len(data["old"]) /\ data["old"] \in Seq(Byte)
    BY <1>0 DEF TailInvariant, PositionsInFile, Locals, Inode
  <2>2. out = SubSeq(data["old"], proc.start + 1, proc.pos)
    BY DEF TailInvariant, ShownIsContiguous
  <2>3. SubSeq(Append(data["old"], b), proc.start + 1, proc.pos)
        = SubSeq(data["old"], proc.start + 1, proc.pos)
    <3>1. CASE proc.start = proc.pos
      <4>1. SubSeq(data["old"], proc.start + 1, proc.pos) = << >>
        BY <2>1, <3>1, SubSeqEmpty
      <4>2. SubSeq(Append(data["old"], b), proc.start + 1, proc.pos) = << >>
        BY <2>1, <3>1, SubSeqEmpty
      <4> QED
        BY <4>1, <4>2
    <3>2. CASE proc.start < proc.pos
      <4>1. proc.start + 1 \in 1..Len(data["old"]) /\ proc.pos \in 1..Len(data["old"])
        BY <1>5, <2>1, <3>2
      <4>2. Append(data["old"], b) = data["old"] \o <<b>> /\ <<b>> \in Seq(Byte)
        BY <2>1, AppendIsConcat
      <4>3. SubSeq(data["old"] \o <<b>>, proc.start + 1, proc.pos)
            = SubSeq(data["old"], proc.start + 1, proc.pos)
        BY <2>1, <4>1, <4>2, SubSeqOfConcat1
      <4> QED
        BY <4>2, <4>3
    <3>3. proc.start = proc.pos \/ proc.start < proc.pos
      BY <2>1
    <3> QED
      BY <3>1, <3>2, <3>3
  <2> QED
    BY <1>5, <2>2, <2>3
<1>8. NothingElseFails'
  BY <1>0, <1>a DEF TailInvariant, NothingElseFails, At
<1> QED
  BY <1>3, <1>4, <1>6, <1>7, <1>8 DEF TailInvariant

(* After any other change nothing is claimed of the file. *)
LEMMA UngrownKeeps ==
    ASSUME TailInvariant, grown' = FALSE, dir' \in Inode \cup {None},
           data' \in [Inode -> Seq(Byte)], changes' \in Nat,
           UNCHANGED <<argv, proc, out, keep_running, failed>>
    PROVE  TailInvariant'
<1>1. TypeOK'
  BY DEF TailInvariant, TypeOK
<1>2. StepsMatch'
  BY DEF TailInvariant, StepsMatch
<1>3. ShownIsContiguous' /\ NothingElseFails'
  BY DEF ShownIsContiguous, NothingElseFails
<1> QED
  BY <1>1, <1>2, <1>3 DEF TailInvariant

LEMMA ChangesKeep ==
    ASSUME TailInvariant, TruncateTo \/ Replace \/ Remove
    PROVE  TailInvariant'
<1>0. /\ dir \in Inode \cup {None} /\ data \in [Inode -> Seq(Byte)]
      /\ grown' = FALSE /\ UNCHANGED <<argv, proc, out, keep_running, failed>>
  BY DEF TailInvariant, TypeOK, TruncateTo, Replace, Remove, Change
<1>1. changes' \in Nat
  BY TailAssumption
     DEF TailInvariant, TypeOK, TruncateTo, Replace, Remove, Change
<1>2. CASE TruncateTo
  <2>1. PICK n \in 0..(Len(data[dir]) - 1) : data' = [data EXCEPT ![dir] = SubSeq(@, 1, n)]
    BY <1>2 DEF TruncateTo
  <2>2. dir \in Inode /\ dir' = dir
    BY <1>0, <1>2 DEF TruncateTo
  <2>3. SubSeq(data[dir], 1, n) \in Seq(Byte)
    <3>1. \A i \in 1..n : data[dir][i] \in Byte
      BY <1>0, <2>2, LenProperties
    <3>2. Len(data[dir]) \in Nat
      BY <1>0, <2>2, LenProperties
    <3> QED
      BY <1>0, <2>2, <3>1, <3>2, SubSeqProperties
  <2> QED
    BY <1>0, <1>1, <2>1, <2>2, <2>3, UngrownKeeps
<1>3. CASE Replace
  <2>1. dir' \in Inode /\ data' \in [Inode -> Seq(Byte)]
    BY <1>0, <1>3, TailAssumption DEF Replace, Inode
  <2> QED
    BY <1>0, <1>1, <2>1, UngrownKeeps
<1>4. CASE Remove
  BY <1>0, <1>1, <1>4, UngrownKeeps DEF Remove
<1> QED
  BY <1>2, <1>3, <1>4

LEMMA RestKeeps ==
    ASSUME TailInvariant, UNCHANGED vars
    PROVE  TailInvariant'
<1>0. UNCHANGED <<dir, data, argv, proc, out, keep_running, changes, grown, failed>>
  BY DEF vars
<1>1. TypeOK' /\ StepsMatch' /\ (grown' => PositionsInFile' /\ Pieces')
  BY <1>0 DEF TailInvariant, TypeOK, StepsMatch, PositionsInFile, Pieces, SeveralPieces
<1>2. ShownIsContiguous' /\ NothingElseFails'
  BY <1>0 DEF TailInvariant, ShownIsContiguous, NothingElseFails, At, SeveralPieces
<1> QED
  BY <1>1, <1>2 DEF TailInvariant

-----------------------------------------------------------------------------
LEMMA TailInit == Init => TailInvariant
<1> SUFFICES ASSUME Init PROVE TailInvariant
  OBVIOUS
<1>1. -1 \in Int /\ << >> \in Seq(Byte) /\ Len(<< >>) = 0
  OBVIOUS
<1>2. PICK s \in (IF dir = None THEN {<< >>} ELSE StartData) :
        data = [i \in Inode |-> IF i = "old" THEN s ELSE << >>]
  BY DEF Init
<1>3. s \in Seq(Byte)
  BY <1>1, TailAssumption
<1>4. data \in [Inode -> Seq(Byte)] /\ data["old"] = s
  BY <1>1, <1>2, <1>3 DEF Inode
<1>5. proc = InitState
  BY DEF Init
<1>6. proc \in Locals
  BY <1>1, <1>5 DEF InitState, Locals
<1>7. TypeOK
  BY <1>1, <1>4, <1>6 DEF Init, TypeOK, Inode
<1>8. StepsMatch
  BY <1>5 DEF Init, InitState, StepsMatch, InFile
<1>9. PositionsInFile /\ Pieces
  <2>1. Len(data["old"]) \in Nat
    BY <1>3, <1>4, LenProperties
  <2> QED
    BY <1>5, <2>1 DEF Init, InitState, PositionsInFile, Pieces
<1>10. ShownIsContiguous /\ NothingElseFails
  BY <1>5 DEF InitState, ShownIsContiguous, NothingElseFails, At
<1> QED
  BY <1>7, <1>8, <1>9, <1>10 DEF TailInvariant

LEMMA TailKeeps == TailInvariant /\ [Next]_vars => TailInvariant'
<1> SUFFICES ASSUME TailInvariant, [Next]_vars PROVE TailInvariant'
  OBVIOUS
<1>1. CASE TailStep
  BY <1>1, ParseOptionsKeeps, StatKeeps, OpenKeeps, TailBytesKeeps, TailLinesKeeps,
     SearchBufferKeeps, SearchRestKeeps, FinishedKeeps, GlusterReadKeeps, WhileKeeps,
     PollKeeps, OutKeeps
     DEF TailStep
<1>2. CASE Interrupt
  BY <1>2, InterruptKeeps
<1>3. CASE OthersStep
  BY <1>3, AppendByteKeeps, ChangesKeep DEF OthersStep
<1>4. CASE UNCHANGED vars
  BY <1>4, RestKeeps
<1> QED
  BY <1>1, <1>2, <1>3, <1>4 DEF Next, Rest

(* gftail's types, positions and steps match, whatever the others do.      *)
THEOREM TailSafe == Spec => []TailInvariant
<1> QED
  BY TailInit, TailKeeps, PTL DEF Spec

(* What gftail shows of a file that only grows is one piece of it.         *)
THEOREM Contiguous == Spec => []ShownIsContiguous
<1>1. TailInvariant => ShownIsContiguous
  BY DEF TailInvariant
<1> QED
  BY <1>1, TailSafe, PTL

(* gftail of a file that only grows fails for the four named reasons only. *)
THEOREM FailsForAReason == Spec => []NothingElseFails
<1>1. TailInvariant => NothingElseFails
  BY DEF TailInvariant
<1> QED
  BY <1>1, TailSafe, PTL

-----------------------------------------------------------------------------
(* What ends the loops. *)

(* A read returns something if and only if there is something to read.     *)
LEMMA ReadAhead ==
    ASSUME data \in [Inode -> Seq(Byte)], proc.fd \in Inode, NEW o \in Nat
    PROVE  LET b == ReadAt(o)
               length == Len(data[proc.fd])
           IN  /\ length \in Nat /\ b \in Seq(Byte) /\ Len(b) \in Nat
               /\ b # << >> => o < length /\ 0 < Len(b) /\ o + Len(b) <= length
               /\ o < length => b # << >>
<1> DEFINE s == data[proc.fd]
           b == ReadAt(o)
<1>1. s \in Seq(Byte) /\ Len(s) \in Nat
  BY LenProperties
<1>2. b \in Seq(Byte) /\ Len(b) \in Nat /\ (o <= Len(s) => o + Len(b) <= Len(s))
  BY ReadType
<1>3. CASE o >= Len(s)
  <2> DEFINE n == Lesser(o + BufSize, Len(s))
  <2>1. n \in Nat /\ n <= o
    BY <1>1, <1>3, TailAssumption DEF Lesser
  <2>2. b = << >>
    BY <1>1, <2>1, SubSeqEmpty DEF ReadAt
  <2> QED
    BY <1>1, <1>2, <1>3, <2>2
<1>4. CASE o < Len(s)
  <2> DEFINE n == Lesser(o + BufSize, Len(s))
  <2>1. n \in Nat /\ n <= Len(s) /\ o + 1 <= n
    BY <1>1, <1>4, TailAssumption DEF Lesser
  <2>2. Len(SubSeq(s, o + 1, n)) = n - o
    BY <1>1, <2>1, SubSeqProperties
  <2>3. 0 < Len(b)
    BY <2>1, <2>2 DEF ReadAt
  <2>4. b # << >>
    BY <2>3, EmptySeq
  <2> QED
    BY <1>1, <1>2, <1>4, <2>3, <2>4
<1> QED
  BY <1>1, <1>3, <1>4

(* A turn of the copy reads on, or ends it; with nothing unread it ends.   *)
LEMMA CopyTurn ==
    ASSUME TailInvariant, GlusterRead
    PROVE  LET n == Len(data[proc.fd]) IN
           \/ /\ proc'.pc = "copy" /\ proc'.fd = proc.fd /\ UNCHANGED failed
              /\ proc.pos < n /\ proc.pos < proc'.pos /\ proc'.pos <= n
              /\ Len(out') = Len(out) + (proc'.pos - proc.pos)
           \/ /\ proc'.pc \in {"while", "out"} /\ (n <= proc.pos \/ failed')
              /\ ~failed' => proc'.pos = proc.pos /\ proc'.size = proc.size
<1> DEFINE b == ReadAt(proc.pos)
           n == Len(data[proc.fd])
           read == [proc EXCEPT !.pos = proc.pos + Len(b), !.io = Len(b)]
<1>1. /\ proc \in Locals /\ proc.pc = "copy" /\ proc.fd \in Inode /\ proc.pos \in Nat
      /\ proc.io \in Int /\ out \in Seq(Byte) /\ data \in [Inode -> Seq(Byte)]
  BY DEF TailInvariant, TypeOK, Locals, StepsMatch, InFile, GlusterRead, At
<1>2. /\ n \in Nat /\ b \in Seq(Byte) /\ Len(b) \in Nat
      /\ b # << >> => proc.pos < n /\ 0 < Len(b) /\ proc.pos + Len(b) <= n
      /\ proc.pos < n => b # << >>
  BY <1>1, ReadAhead
<1>3. ASSUME NEW p \in Locals, NEW r \in Int
      PROVE  /\ CopyDone(p, r).pc \in {"while", "out"}
             /\ CopyDone(p, r).pos = p.pos /\ CopyDone(p, r).size = p.size
  BY <1>3 DEF CopyDone, Locals
<1>4. CASE Fails("read", CopyDone(proc, proc.io))
  BY <1>1, <1>3, <1>4 DEF Fails
<1>5. CASE b = << >> /\ Goes(CopyDone(proc, proc.io))
  BY <1>1, <1>2, <1>3, <1>5 DEF Goes
<1>6. CASE b # << >> /\ proc' = read /\ out' = out \o b /\ UNCHANGED failed
  <2>1. Len(out \o b) = Len(out) + Len(b)
    BY <1>1, <1>2, ConcatProperties
  <2>2. /\ read.pc = "copy" /\ read.fd = proc.fd /\ read.pos = proc.pos + Len(b)
    <3> HIDE DEF b
    <3> QED
      BY <1>1 DEF Locals
  <2> HIDE DEF b, read
  <2> QED
    BY <1>1, <1>2, <1>6, <2>1, <2>2
<1>7. CASE failed' = TRUE /\ proc' = CopyDone(read, -1)
  <2>1. read \in Locals
    <3>1. proc.pos + Len(b) \in Nat
      BY <1>1, <1>2
    <3> HIDE DEF b
    <3> QED
      BY <1>1, <1>2, <3>1 DEF Locals
  <2>2. -1 \in Int
    OBVIOUS
  <2> HIDE DEF read
  <2> QED
    BY <1>3, <1>7, <2>1, <2>2
<1> QED
  BY <1>4, <1>5, <1>6, <1>7 DEF GlusterRead

(* Which statement a step leads to. *)
LEMMA Statements ==
    ASSUME TailInvariant, TailStep
    PROVE  \/ proc.pc = "parse" /\ proc'.pc \in {"stat", "done"}
           \/ proc.pc = "stat" /\ proc'.pc \in {"open", "out"}
           \/ proc.pc = "open" /\ proc'.pc \in {"tail_bytes", "tail_lines", "out"}
           \/ proc.pc \in {"tail_bytes", "finished"} /\ proc'.pc \in {"copy", "out"}
           \/ proc.pc = "tail_lines" /\ proc'.pc \in {"search", "finished"}
           \/ proc.pc = "search" /\ proc'.pc \in {"search_rest", "finished", "out"}
           \/ /\ proc.pc = "search" /\ proc'.pc = "search"
              /\ proc.offset - BufSize >= 0 /\ proc'.offset = proc.offset - BufSize
           \/ proc.pc = "search_rest" /\ proc'.pc \in {"finished", "out"}
           \/ proc.pc = "copy" /\ GlusterRead
           \/ proc.pc = "while" /\ While /\ proc'.pc \in {"poll", "out"}
           \/ proc.pc = "poll" /\ Poll /\ proc'.pc \in {"while", "copy", "out"}
           \/ proc.pc = "out" /\ proc'.pc = "done"
<1> USE DEF At
<1>0. proc \in Locals
  BY DEF TailInvariant, TypeOK
<1>a. ASSUME NEW o PROVE Err.pc = "out" /\ [Err EXCEPT !.offset = o].pc = "out"
  BY <1>0 DEF Err, Locals
<1>b. ASSUME NEW p PROVE (Goes(p) => proc' = p) /\ \A f : Fails(f, p) => proc' = p
  BY DEF Goes, Fails
<1>1. CASE ParseOptions
  BY <1>0, <1>1, <1>b DEF ParseOptions, Locals
<1>2. CASE Stat
  BY <1>0, <1>2, <1>a, <1>b DEF Stat, Locals
<1>3. CASE Open
  BY <1>0, <1>3, <1>a, <1>b DEF Open, Locals
<1>4. CASE TailBytes \/ Finished
  <2>1. ASSUME NEW o, SeekAndCopy(o) PROVE proc'.pc \in {"copy", "out"}
    BY <1>0, <1>a, <1>b, <2>1 DEF SeekAndCopy, Locals
  <2> QED
    BY <1>4, <2>1 DEF TailBytes, Finished
<1>5. CASE TailLines
  BY <1>0, <1>5, <1>b DEF TailLines, Locals
<1>6. CASE SearchBuffer
  <2> DEFINE b == ReadAt(proc.offset)
             rest == [proc EXCEPT !.pc = "search_rest", !.offset = proc.offset - Len(b),
                                  !.pos = proc.offset + Len(b), !.newlines = Counted(b)]
             turn == [proc EXCEPT !.offset = proc.offset - BufSize,
                                  !.newlines = Counted(b)]
  <2>1. proc.pc = "search"
    BY <1>6 DEF SearchBuffer
  <2>2. \/ proc' = Err
        \/ \E k : proc' = [proc EXCEPT !.pc = "finished", !.offset = proc.offset + k]
        \/ proc' = rest
        \/ proc.offset - BufSize >= 0 /\ proc' = turn
    BY <1>6, <1>b DEF SearchBuffer, Found
  <2>3. rest.pc = "search_rest" /\ turn.pc = "search"
        /\ turn.offset = proc.offset - BufSize
    BY <1>0, <2>1 DEF Locals
  <2>4. \A k : [proc EXCEPT !.pc = "finished", !.offset = proc.offset + k].pc = "finished"
    BY <1>0 DEF Locals
  <2> HIDE DEF rest, turn
  <2>5. CASE proc.offset - BufSize >= 0 /\ proc' = turn
    BY <2>1, <2>3, <2>5
  <2>6. CASE proc'.pc \in {"search_rest", "finished", "out"}
    BY <2>1, <2>6
  <2> QED
    BY <1>a, <2>2, <2>3, <2>4, <2>5, <2>6
<1>7. CASE SearchRest
  BY <1>0, <1>7, <1>a, <1>b DEF SearchRest, Found, Locals
<1>8. CASE GlusterRead
  BY <1>8 DEF GlusterRead
<1>9. CASE While
  BY <1>0, <1>9, <1>b DEF While, Locals
<1>10. CASE Poll
  BY <1>0, <1>10, <1>a, <1>b DEF Poll, Locals
<1>11. CASE Out
  BY <1>0, <1>11, <1>b DEF Out, Locals
<1> QED
  BY <1>1, <1>2, <1>3, <1>4, <1>5, <1>6, <1>7, <1>8, <1>9, <1>10, <1>11 DEF TailStep

(* Every step but the poll's is onward. *)
LEMMA StepsOnward ==
    ASSUME TailInvariant, TailStep
    PROVE  Onward \/ (At("poll") /\ proc'.pc \in {"while", "copy"})
<1>1. proc.offset \in Int /\ BufSize \in Nat \ {0}
  BY TailAssumption DEF TailInvariant, TypeOK, Locals
<1>2. CASE proc.pc = "search" /\ proc'.pc = "search"
  BY <1>1, <1>2, Statements DEF Onward, At, Order
<1>3. CASE proc.pc = "copy"
  <2>1. GlusterRead
    BY <1>3, Statements
  <2>2. CASE proc'.pc \in {"while", "out"}
    BY <1>3, <2>2 DEF Onward, Order
  <2> QED
    BY <1>3, <2>1, <2>2, CopyTurn DEF Onward, At
<1>4. CASE proc.pc # "copy" /\ ~(proc.pc = "search" /\ proc'.pc = "search")
  BY <1>4, Statements DEF Onward, At, Order
<1> QED
  BY <1>2, <1>3, <1>4

(* No loop but that of tail -f goes on for ever: the search steps back and *)
(* stays in the file, the copy reads on in what is there, and every other  *)
(* step leads to a later statement.                                        *)
THEOREM OnlyPollsGoBack == Spec => OnlyPollsRepeat
<1>1. TailInvariant /\ [Next]_vars
        => [TailStep => Onward \/ (At("poll") /\ proc'.pc \in {"while", "copy"})]_vars
  BY StepsOnward
<1> QED
  BY <1>1, TailSafe, PTL DEF Spec, OnlyPollsRepeat

(* What tail -f compares with is not ahead of what it has shown: a copy    *)
(* ends at the end of a file that was at least as long when it was polled. *)
LEMMA PollKnows ==
    ASSUME TailInvariant, PollNotAhead, [Next]_vars
    PROVE  PollNotAhead'
<1> SUFFICES ASSUME grown', ~failed', proc'.pc \in {"while", "poll"}
             PROVE  proc'.size <= proc'.pos
  BY DEF PollNotAhead
<1>0. proc \in Locals /\ proc.size \in Nat /\ proc.pos \in Nat /\ failed \in BOOLEAN
  BY DEF TailInvariant, TypeOK, Locals
<1>1. ASSUME UNCHANGED proc, grown, ~failed
      PROVE  proc'.size <= proc'.pos
  BY <1>1 DEF PollNotAhead
<1>2. CASE TailStep
  <2>1. grown /\ ~failed
    <3>a. Local => grown' = grown
      BY DEF Local
    <3>b. UNCHANGED failed => ~failed
      BY <1>0
    <3>1. ASSUME NEW p, NEW f PROVE Goes(p) \/ Fails(f, p) => grown /\ ~failed
      <4>1. Goes(p) => Local /\ UNCHANGED failed
        BY DEF Goes
      <4>2. Fails(f, p) => Local /\ failed' = TRUE
        BY DEF Fails
      <4> QED
        BY <3>a, <3>b, <4>1, <4>2, Zenon
    <3>2. ASSUME NEW o, SeekAndCopy(o) PROVE grown /\ ~failed
      BY <3>1, <3>2 DEF SeekAndCopy
    <3>3. CASE SearchBuffer \/ SearchRest
      BY <3>1, <3>3 DEF SearchBuffer, SearchRest, Found
    <3>4. CASE GlusterRead
      <4>1. \/ \E p, f : Goes(p) \/ Fails(f, p)
            \/ Local /\ UNCHANGED failed
            \/ Local /\ failed' = TRUE
        BY <3>4, Zenon DEF GlusterRead
      <4> QED
        BY <3>a, <3>b, <3>1, <4>1, Zenon
    <3>5. CASE Stat \/ Open \/ Poll \/ Out
      BY <3>1, <3>5 DEF Stat, Open, Poll, Out
    <3>6. CASE ParseOptions \/ TailLines \/ While
      BY <3>1, <3>6 DEF ParseOptions, TailLines, While
    <3> QED
      BY <1>2, <3>2, <3>3, <3>4, <3>5, <3>6 DEF TailStep, TailBytes, Finished
  <2>2. CASE While \/ Poll
    <3>1. proc.pc \in {"while", "poll"}
      BY <2>2 DEF While, Poll, At
    <3>2. proc'.size = proc.size /\ proc'.pos = proc.pos
      BY <1>0, <2>2 DEF While, Poll, Goes, Fails, Err, Locals
    <3> QED
      BY <2>1, <3>1, <3>2 DEF PollNotAhead
  <2>3. CASE GlusterRead
    <3>1. proc.pc = "copy"
      BY <2>3 DEF GlusterRead, At
    <3>2. proc.fd = "old" /\ proc.size <= Len(data["old"])
      BY <2>1, <3>1, TailAssumption DEF TailInvariant, PositionsInFile, StepsMatch, InFile
    <3>3. Len(data["old"]) \in Nat
      BY LenProperties DEF TailInvariant, TypeOK, Inode
    <3>4. Len(data["old"]) <= proc.pos /\ proc'.pos = proc.pos /\ proc'.size = proc.size
      BY <2>3, <3>2, CopyTurn
    <3> QED
      BY <1>0, <3>2, <3>3, <3>4
  <2> QED
    BY <1>2, <2>2, <2>3, Statements
<1>3. CASE Interrupt
  <2>1. UNCHANGED proc /\ grown /\ ~failed
    BY <1>0, <1>3 DEF Interrupt, Locals
  <2> QED
    BY <1>1, <2>1
<1>4. CASE OthersStep
  BY <1>1, <1>4 DEF OthersStep, AppendByte, TruncateTo, Replace, Remove, Change
<1>5. CASE UNCHANGED vars
  BY <1>1, <1>5 DEF vars
<1> QED
  BY <1>2, <1>3, <1>4, <1>5 DEF Next, Rest

(* As long as there is something gftail has not shown, the copy goes on    *)
(* and shows more, and a poll goes back to the copy.                       *)
LEMMA UnseenIsShown ==
    ASSUME TailInvariant, PollNotAhead, TailStep, Unseen, ~failed'
    PROVE  /\ At("copy") =>
                /\ proc'.pc = "copy" /\ proc.pos < proc'.pos
                /\ Len(out') = Len(out) + (proc'.pos - proc.pos)
           /\ At("poll") => proc'.pc = "copy" /\ proc'.pos = proc.pos
<1>0. /\ proc \in Locals /\ proc.size \in Nat /\ proc.pos \in Nat
      /\ Len(data["old"]) \in Nat /\ grown /\ ~failed /\ proc.pos < Len(data["old"])
  BY LenProperties DEF TailInvariant, TypeOK, Locals, Unseen, Inode
<1>1. CASE At("copy")
  <2>1. GlusterRead /\ proc.fd = "old"
    BY <1>0, <1>1, Statements, TailAssumption
    DEF At, TailInvariant, PositionsInFile, StepsMatch, InFile
  <2> QED
    BY <1>0, <1>1, <2>1, CopyTurn DEF At
<1>2. CASE At("poll")
  <2>1. Poll /\ dir = "old" /\ proc.size <= proc.pos
    BY <1>0, <1>2, Statements, TailAssumption
    DEF At, TailInvariant, PositionsInFile, StepsMatch, InFile, PollNotAhead
  <2>2. Len(data[dir]) > proc.size
    BY <1>0, <2>1
  <2>3. "old" # None
    BY TailAssumption DEF Inode
  <2>4. Goes([proc EXCEPT !.pc = "copy", !.io = 0, !.ret = 0])
    BY <1>0, <2>1, <2>2, <2>3 DEF Poll, Fails
  <2> QED
    BY <1>0, <1>2, <2>4 DEF Goes, At, Locals
<1> QED
  BY <1>1, <1>2 DEF At

(* tail -f of a file that only grows misses nothing, step by step: while a *)
(* byte is unseen every turn of the copy shows more and every poll goes    *)
(* back to the copy, where that has ended.                                 *)
THEOREM NoGrowthIsMissed == Spec => GrowthIsSeen
<1>1. Init => PollNotAhead
  BY DEF Init, InitState, PollNotAhead
<1>2. TailInvariant /\ PollNotAhead /\ [Next]_vars => PollNotAhead'
  BY PollKnows
<1>3. TailInvariant /\ PollNotAhead /\ [Next]_vars
        => [TailStep /\ Unseen /\ ~failed' =>
              /\ At("copy") =>
                   /\ proc'.pc = "copy" /\ proc.pos < proc'.pos
                   /\ Len(out') = Len(out) + (proc'.pos - proc.pos)
              /\ At("poll") => proc'.pc = "copy" /\ proc'.pos = proc.pos]_vars
  BY UnseenIsShown
<1> QED
  BY <1>1, <1>2, <1>3, TailSafe, PTL DEF Spec, GrowthIsSeen
=============================================================================
