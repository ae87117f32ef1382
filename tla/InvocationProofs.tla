-------------------------- MODULE InvocationProofs --------------------------
(***************************************************************************)
(* Proofs about Invocation: a command ends with every connection it made   *)
(* finalised, changes files only over connections that are ready, and      *)
(* changes only the files its operands name.                               *)
(***************************************************************************)
EXTENDS Invocation, TLAPS

USE ConnectionAssumption

-----------------------------------------------------------------------------
(* What the operands name. *)

(* The volume and the path of the place an operand names. *)
LEMMA NamedIs ==
    ASSUME argv \in Argv
    PROVE  /\ argv.src.path \in Path /\ CompletePath \in Path
           /\ Named(argv.src) = <<VolumeOf(argv.src), argv.src.path>>
           /\ Named(argv.dst) = <<VolumeOf(argv.dst), CompletePath>>
<1>1. argv.src.path \in Path /\ argv.dst \in Operand
    BY DEF Argv
<1>2. argv.dst.path \in Path \cup DirPath
    BY <1>1 DEF Operand
<1>5. \A x \in Path : x \notin DirPath
    BY Zenon
<1>3. argv.src.path \notin DirPath
    BY <1>1, <1>5
<1>4. CompletePath \in Path
    BY <1>1, <1>2 DEF CompletePath, IntoDirectory
<1> QED
    BY <1>1, <1>3, <1>4, Zenon DEF Named, CompletePath, IntoDirectory

(* Both operands of a command line name a place. *)
LEMMA NamedPlace ==
    ASSUME argv \in Argv
    PROVE  Named(argv.src) \in Place /\ Named(argv.dst) \in Place
<1>1. ASSUME NEW o \in Operand
      PROVE  VolumeOf(o) \in Volume \cup {Local}
  <2>1. argv.shell \in Volume \cup {None} /\ o.kind \in {"glfs", "file", "plain"}
        /\ (o.kind = "glfs" => o.vol \in Volume)
      BY DEF Argv, Operand
  <2> QED
      BY <2>1 DEF VolumeOf, InShell
<1>2. argv.src \in Operand /\ argv.dst \in Operand
    BY DEF Argv
<1>3. VolumeOf(argv.src) \in Volume \cup {Local} /\ VolumeOf(argv.dst) \in Volume \cup {Local}
    BY <1>1, <1>2
<1> QED
    BY <1>3, NamedIs DEF Place

(* The mode parse_options arrives at, seen from the kinds of the operands. *)
LEMMA ModeOfOperands ==
    ASSUME argv \in Argv, CommandLine(argv), ParsedMode # "none"
    PROVE  /\ ParsedMode \in Mode
           /\ ParsedMode \in {"LOCAL_TO_REMOTE", "LOCAL_TO_ESTABLISHED"} =>
                  argv.src.kind = (IF InShell THEN "file" ELSE "plain")
           /\ ParsedMode \in {"REMOTE_TO_LOCAL", "ESTABLISHED_TO_LOCAL"} =>
                  argv.dst.kind = (IF InShell THEN "file" ELSE "plain")
           /\ ParsedMode \in {"REMOTE_TO_LOCAL", "REMOTE_TO_ESTABLISHED", "REMOTE_TO_REMOTE"} =>
                  argv.src.kind = "glfs"
           /\ ParsedMode \in {"LOCAL_TO_REMOTE", "ESTABLISHED_TO_REMOTE", "REMOTE_TO_REMOTE"} =>
                  argv.dst.kind = "glfs"
           /\ ParsedMode \in {"ESTABLISHED_TO_ESTABLISHED", "ESTABLISHED_TO_LOCAL",
                              "ESTABLISHED_TO_REMOTE"} =>
                  InShell /\ argv.src.kind = "plain"
           /\ ParsedMode \in {"ESTABLISHED_TO_ESTABLISHED", "LOCAL_TO_ESTABLISHED",
                              "REMOTE_TO_ESTABLISHED"} =>
                  InShell /\ argv.dst.kind = "plain"
<1>1. argv.src \in Operand /\ argv.dst \in Operand
    BY DEF Argv
<1>2. /\ argv.src.kind \in {"glfs", "file", "plain"}
      /\ argv.dst.kind \in {"glfs", "file", "plain"}
    BY <1>1 DEF Operand
<1>3. ~InShell => argv.src.kind # "file" /\ argv.dst.kind # "file"
    BY DEF CommandLine, InShell
<1>4. CASE InShell
    BY <1>2, <1>4 DEF ParsedMode, GuessMode, CorrectMode, Mode
<1>5. CASE ~InShell
    BY <1>2, <1>3, <1>5 DEF ParsedMode, ModeAlone, Mode
<1> QED
    BY <1>4, <1>5

-----------------------------------------------------------------------------
(* The heart of OnlyNamedFilesChange: a transfer reads and writes the      *)
(* places its operands name.                                               *)
LEMMA TransferEnds ==
    ASSUME InvocationInvariant, pc \in {"operate", "remove"},
           argv.util \in TwoPaths, ~Renames
    PROVE  From = Named(argv.src) /\ To = Named(argv.dst)
<1>1. /\ argv \in Argv /\ CommandLine(argv)
      /\ mode = ParsedMode /\ ParsedMode # "none"
      /\ (NeedsDest => dest = "dest") /\ (NeedsSource => source # None)
    BY DEF InvocationInvariant, TypeOK, ModeMatches
<1>2. /\ source \in {None, "dest", "source"}
      /\ source = "source" <=> conn["source"].state # "none"
      /\ dest = "dest" => conn["dest"].state # "none"
      /\ source = "dest" => dest = "dest" /\ argv.src.vol = argv.dst.vol
    BY DEF InvocationInvariant, TypeOK, PointersMatch
<1>3. /\ conn["dest"].state # "none" => conn["dest"].vol = argv.dst.vol
      /\ conn["source"].state # "none" => conn["source"].vol = argv.src.vol
      /\ conn["shell"].vol = argv.shell
    BY DEF InvocationInvariant, ModeMatches, ConnectionsUsable
<1>4. source # None => conn[source].vol = argv.src.vol
    BY <1>2, <1>3
<1>5. dest = "dest" => conn[dest].vol = argv.dst.vol
    BY <1>2, <1>3
<1>6. ~InShell => argv.shell = None
    BY DEF InShell
<1>9. /\ Named(argv.src) = <<VolumeOf(argv.src), argv.src.path>>
      /\ Named(argv.dst) = <<VolumeOf(argv.dst), CompletePath>>
    BY <1>1, NamedIs
<1>7. From = Named(argv.src)
  <2>1. CASE FromLocal
    <3>1. argv.src.kind = (IF InShell THEN "file" ELSE "plain")
        BY <1>1, <2>1, ModeOfOperands DEF FromLocal
    <3> QED
        BY <2>1, <3>1, <1>9 DEF From, VolumeOf
  <2>2. CASE mode \in {"ESTABLISHED_TO_ESTABLISHED", "ESTABLISHED_TO_LOCAL",
                       "ESTABLISHED_TO_REMOTE"}
    <3>1. InShell /\ argv.src.kind = "plain"
        BY <1>1, <2>2, ModeOfOperands
    <3> QED
        BY <1>3, <2>2, <3>1, <1>9 DEF From, VolumeOf, FromLocal, FromHandle
  <2>3. CASE mode \in {"REMOTE_TO_LOCAL", "REMOTE_TO_ESTABLISHED", "REMOTE_TO_REMOTE"}
    <3>1. argv.src.kind = "glfs"
        BY <1>1, <2>3, ModeOfOperands
    <3>2. NeedsSource
        BY <2>3 DEF NeedsSource, Renames, TwoPaths
    <3> QED
        BY <1>1, <1>4, <2>3, <3>1, <3>2, <1>9 DEF From, VolumeOf, FromLocal, FromHandle
  <2> QED
      BY <1>1, <2>1, <2>2, <2>3, ModeOfOperands DEF Mode, FromLocal
<1>8. To = Named(argv.dst)
  <2>1. CASE ToLocal
    <3>1. argv.dst.kind = (IF InShell THEN "file" ELSE "plain")
        BY <1>1, <2>1, ModeOfOperands DEF ToLocal
    <3> QED
        BY <2>1, <3>1, <1>9 DEF To, VolumeOf
  <2>2. CASE mode \in {"ESTABLISHED_TO_ESTABLISHED", "LOCAL_TO_ESTABLISHED",
                       "REMOTE_TO_ESTABLISHED"}
    <3>1. InShell /\ argv.dst.kind = "plain"
        BY <1>1, <2>2, ModeOfOperands
    <3> QED
        BY <1>3, <2>2, <3>1, <1>9 DEF To, VolumeOf, ToLocal, ToHandle
  <2>3. CASE mode \in {"LOCAL_TO_REMOTE", "ESTABLISHED_TO_REMOTE", "REMOTE_TO_REMOTE"}
    <3>1. argv.dst.kind = "glfs"
        BY <1>1, <2>3, ModeOfOperands
    <3>2. NeedsDest
        BY <2>3 DEF NeedsDest
    <3> QED
        BY <1>1, <1>5, <2>3, <3>1, <3>2, <1>9 DEF To, VolumeOf, ToLocal, ToHandle
  <2> QED
      BY <1>1, <2>1, <2>2, <2>3, ModeOfOperands DEF Mode, ToLocal
<1> QED
    BY <1>7, <1>8

(* gfmv renames from its destination's volume: from the source it was      *)
(* given only when both are on that volume.                                *)
LEMMA RenameEnds ==
    ASSUME InvocationInvariant, At("operate"), Renames
    PROVE  /\ conn[ToHandle].vol = VolumeOf(argv.dst)
           /\ conn[ToHandle].vol = VolumeOf(argv.src) \/ MovesAcrossVolumes
           /\ conn[ToHandle].vol \in Volume
<1>1. /\ argv \in Argv /\ CommandLine(argv) /\ argv.util = "mv"
      /\ argv.util \in TwoPaths
    BY DEF InvocationInvariant, TypeOK, ModeMatches, Renames, TwoPaths
<1>2. mode = ParsedMode /\ ParsedMode # "none" /\ (NeedsDest => dest = "dest")
    BY <1>1 DEF InvocationInvariant, ModeMatches, At
<1>3. /\ dest = "dest" => conn["dest"].state # "none"
      /\ conn["dest"].state # "none" => conn["dest"].vol = argv.dst.vol
      /\ conn["shell"].vol = argv.shell
    BY DEF InvocationInvariant, PointersMatch, ModeMatches, ConnectionsUsable
<1>4. argv.src \in Operand /\ argv.dst \in Operand /\ argv.shell \in Volume \cup {None}
    BY <1>1 DEF Argv
<1>5. CASE mode = "ESTABLISHED_TO_ESTABLISHED"
  <2>1. InShell /\ argv.src.kind = "plain" /\ argv.dst.kind = "plain"
      BY <1>1, <1>2, <1>5, ModeOfOperands
  <2> QED
      BY <1>3, <1>4, <1>5, <2>1 DEF ToHandle, VolumeOf, InShell
<1>6. CASE mode = "REMOTE_TO_REMOTE"
  <2>1. argv.src.kind = "glfs" /\ argv.dst.kind = "glfs" /\ dest = "dest"
      BY <1>1, <1>2, <1>6, ModeOfOperands DEF NeedsDest
  <2>2. argv.src.vol \in Volume /\ argv.dst.vol \in Volume
      BY <1>4, <2>1 DEF Operand
  <2>3. /\ conn[ToHandle].vol = argv.dst.vol
        /\ VolumeOf(argv.dst) = argv.dst.vol /\ VolumeOf(argv.src) = argv.src.vol
      BY <1>3, <1>6, <2>1 DEF ToHandle, VolumeOf
  <2>4. Named(argv.src)[1] = argv.src.vol /\ Named(argv.dst)[1] = argv.dst.vol
      BY <1>1, <2>3, NamedIs
  <2> QED
      BY <1>1, <1>6, <2>2, <2>3, <2>4 DEF MovesAcrossVolumes
<1> QED
    BY <1>5, <1>6 DEF Renames

-----------------------------------------------------------------------------
(* The types of results. *)

(* A transfer has a number and a content for its destination. *)
LEMMA TransferTypes ==
    ASSUME files \in [Place -> Content], NEW from \in Place, NEW to \in Place,
           NEW t \in LocalToRemote(from, to) \cup RemoteToLocal(from, to)
                     \cup RemoteToRemote(from, to)
    PROVE  /\ t.ret \in Int /\ t.file \in Content
           /\ t.file \in {files[to], files[from], Part}
<1>1. /\ files[from] \in Content /\ files[to] \in Content
      /\ Part \in Content /\ LastWrite \subseteq Int /\ -1 \in Int
    BY DEF Content
<1>2. Created(to) \in {files[to], Part}
    BY DEF Created
<1>3. CASE t \in LocalToRemote(from, to)
    BY <1>1, <1>2, <1>3 DEF LocalToRemote, Result, If
<1>4. CASE t \in RemoteToLocal(from, to)
    BY <1>1, <1>2, <1>4 DEF RemoteToLocal, StatResult, Result, If
<1>5. CASE t \in RemoteToRemote(from, to)
    BY <1>1, <1>2, <1>5 DEF RemoteToRemote, StatResult, Result, If
<1> QED
    BY <1>3, <1>4, <1>5

(* So have the utilities with one operand; gfls leaves the file alone. *)
LEMMA OperandTypes ==
    ASSUME files \in [Place -> Content], argv.util \in OnePath, NEW p \in Place,
           NEW t \in OperandResults(p)
    PROVE  /\ t.ret \in Int /\ t.file \in Content
           /\ argv.util = "ls" => t.file = files[p]
<1>1. /\ files[p] \in Content /\ {None, Part, Stdin, Directory} \subseteq Content
      /\ LastWrite \subseteq Int /\ -1 \in Int
    BY DEF Content
<1>2. Created(p) \in Content
    BY <1>1 DEF Created
<1> DEFINE
           isCat == Runs({"cat"})
           isTail == Runs({"tail"})
           isLs == Runs({"ls"})
           isStat == Runs({"stat"})
           isRm == Runs({"rm", "rm_f"})
           isMkdir == Runs({"mkdir"})
           isRmdir == Runs({"rmdir", "rm_r"})
           isCreate == Runs({"mkdir_r", "rmdir_r"})
           isTouch == Runs({"touch"})
           isTruncate == Runs({"truncate"})
           isPut == Runs(Put)
<1>3. CASE argv.util = "cat"
  <2>0. /\ isCat /\ ~isTail /\ ~isLs /\ ~isStat /\ ~isRm
        /\ ~isMkdir /\ ~isRmdir /\ ~isCreate /\ ~isTouch /\ ~isTruncate /\ ~isPut
      BY <1>3 DEF Runs, Put
  <2>1. t \in GlusterGet(p)
      BY <2>0, Zenon DEF OperandResults
  <2>2. PICK r \in Int : t = Result(r, files[p])
      BY <1>1, <2>1 DEF GlusterGet, Answer, If
  <2> QED
      BY <1>1, <1>3, <2>2 DEF Result
<1>4. CASE argv.util = "tail"
  <2>0. /\ isTail /\ ~isCat /\ ~isLs /\ ~isStat /\ ~isRm
        /\ ~isMkdir /\ ~isRmdir /\ ~isCreate /\ ~isTouch /\ ~isTruncate /\ ~isPut
      BY <1>4 DEF Runs, Put
  <2>1. t \in Tail(p)
      BY <2>0, Zenon DEF OperandResults
  <2>2. PICK r \in Int : t = Result(r, files[p])
      BY <1>1, <2>1 DEF Tail, Answer, If
  <2> QED
      BY <1>1, <1>4, <2>2 DEF Result
<1>5. CASE argv.util = "ls"
  <2>0. /\ isLs /\ ~isCat /\ ~isTail /\ ~isStat /\ ~isRm
        /\ ~isMkdir /\ ~isRmdir /\ ~isCreate /\ ~isTouch /\ ~isTruncate /\ ~isPut
      BY <1>5 DEF Runs, Put
  <2>1. t \in Ls(p)
      BY <2>0, Zenon DEF OperandResults
  <2> QED
      BY <1>1, <1>5, <2>1 DEF Ls, Answer, Result, If
<1>6. CASE argv.util = "stat"
  <2>0. /\ isStat /\ ~isCat /\ ~isTail /\ ~isLs /\ ~isRm
        /\ ~isMkdir /\ ~isRmdir /\ ~isCreate /\ ~isTouch /\ ~isTruncate /\ ~isPut
      BY <1>6 DEF Runs, Put
  <2>1. t \in Stat(p)
      BY <2>0, Zenon DEF OperandResults
  <2> QED
      BY <1>1, <1>6, <2>1 DEF Stat, Answer, Result, If
<1>7. CASE argv.util \in {"rm", "rm_f"}
  <2>0. /\ isRm /\ ~isCat /\ ~isTail /\ ~isLs /\ ~isStat
        /\ ~isMkdir /\ ~isRmdir /\ ~isCreate /\ ~isTouch /\ ~isTruncate /\ ~isPut
      BY <1>7 DEF Runs, Put
  <2>1. t \in Rm(p)
      BY <2>0, Zenon DEF OperandResults
  <2> QED
      BY <1>1, <1>7, <2>1 DEF Rm, Answer, Result, If
<1>8. CASE argv.util = "mkdir"
  <2>0. /\ isMkdir /\ ~isCat /\ ~isTail /\ ~isLs /\ ~isStat
        /\ ~isRm /\ ~isRmdir /\ ~isCreate /\ ~isTouch /\ ~isTruncate /\ ~isPut
      BY <1>8 DEF Runs, Put
  <2>1. t \in Mkdir(p)
      BY <2>0, Zenon DEF OperandResults
  <2> QED
      BY <1>1, <1>8, <2>1 DEF Mkdir, Answer, Result, If
<1>9. CASE argv.util \in {"rmdir", "rm_r"}
  <2>0. /\ isRmdir /\ ~isCat /\ ~isTail /\ ~isLs /\ ~isStat
        /\ ~isRm /\ ~isMkdir /\ ~isCreate /\ ~isTouch /\ ~isTruncate /\ ~isPut
      BY <1>9 DEF Runs, Put
  <2>1. t \in Rmdir(p)
      BY <2>0, Zenon DEF OperandResults
  <2> QED
      BY <1>1, <1>9, <2>1 DEF Rmdir, Answer, Result, If
<1>10. CASE argv.util \in {"mkdir_r", "rmdir_r"}
  <2>0. /\ isCreate /\ ~isCat /\ ~isTail /\ ~isLs /\ ~isStat
        /\ ~isRm /\ ~isMkdir /\ ~isRmdir /\ ~isTouch /\ ~isTruncate /\ ~isPut
      BY <1>10 DEF Runs, Put
  <2>1. t \in CreatePath(p)
      BY <2>0, Zenon DEF OperandResults
  <2> QED
      BY <1>1, <1>10, <2>1 DEF CreatePath, Answer, Result, If
<1>11. CASE argv.util = "touch"
  <2>0. /\ isTouch /\ ~isCat /\ ~isTail /\ ~isLs /\ ~isStat
        /\ ~isRm /\ ~isMkdir /\ ~isRmdir /\ ~isCreate /\ ~isTruncate /\ ~isPut
      BY <1>11 DEF Runs, Put
  <2>1. t \in TouchWithFs(p)
      BY <2>0, Zenon DEF OperandResults
  <2> QED
      BY <1>1, <1>2, <1>11, <2>1 DEF TouchWithFs, Answer, Result, If
<1>12. CASE argv.util = "truncate"
  <2>0. /\ isTruncate /\ ~isCat /\ ~isTail /\ ~isLs /\ ~isStat
        /\ ~isRm /\ ~isMkdir /\ ~isRmdir /\ ~isCreate /\ ~isTouch /\ ~isPut
      BY <1>12 DEF Runs, Put
  <2>1. t \in Truncate(p)
      BY <2>0, Zenon DEF OperandResults
  <2> QED
      BY <1>1, <1>2, <1>12, <2>1 DEF Truncate, Answer, Result, If
<1>13. CASE argv.util \in Put
  <2>0. /\ isPut /\ ~isCat /\ ~isTail /\ ~isLs /\ ~isStat
        /\ ~isRm /\ ~isMkdir /\ ~isRmdir /\ ~isCreate /\ ~isTouch /\ ~isTruncate
      BY <1>13 DEF Runs, Put
  <2>1. t \in GlusterPut(p)
      BY <2>0, Zenon DEF OperandResults
  <2> QED
      BY <1>1, <1>2, <1>13, <2>1 DEF GlusterPut, Answer, Result, If, Put
<1> QED
    BY <1>3, <1>4, <1>5, <1>6, <1>7, <1>8, <1>9, <1>10, <1>11, <1>12, <1>13
    DEF OnePath, OnDirectories, Put

-----------------------------------------------------------------------------
(* The invariant, action by action.  argv never changes, and with it what *)
(* is defined from it.                                                     *)
LEMMA SameCommand ==
    ASSUME argv' = argv
    PROVE  InShell' = InShell /\ ParsedMode' = ParsedMode
BY Zenon DEF InShell, ParsedMode

(* What the calls do to the connection objects.                            *)

(* A call of gluster_getfs, whatever follows it. *)
LEMMA GetfsCalled ==
    ASSUME TypeOK, NEW h \in Handle, NEW v \in Volume \cup {None}, NEW next,
           GlusterGetfs(h, v, next)
    PROVE  /\ conn' \in [Handle -> Glfs]
           /\ conn'[h].vol = v /\ conn'[h].options = FALSE /\ conn'[h].finis = 0
           /\ \A g \in Handle : g # h => conn'[g] = conn[g]
           /\ \/ conn'[h].state = "up" /\ ret' = 0 /\ pc' = next
              \/ conn'[h].state = "made" /\ ret' = -1 /\ pc' = "fini_dest"
<1>1. conn \in [Handle -> Glfs]
    BY DEF TypeOK
<1>2. CASE /\ conn' = [conn EXCEPT ![h] = [vol |-> v, state |-> "up",
                                           options |-> FALSE, finis |-> 0]]
           /\ pc' = next /\ ret' = 0
  <2>1. [vol |-> v, state |-> "up", options |-> FALSE, finis |-> 0] \in Glfs
      BY DEF Glfs
  <2> QED
      BY <1>1, <1>2, <2>1
<1>3. CASE /\ conn' = [conn EXCEPT ![h] = [vol |-> v, state |-> "made",
                                           options |-> FALSE, finis |-> 0]]
           /\ pc' = "fini_dest" /\ ret' = -1
  <2>1. [vol |-> v, state |-> "made", options |-> FALSE, finis |-> 0] \in Glfs
      BY DEF Glfs
  <2> QED
      BY <1>1, <1>3, <2>1
<1> QED
    BY <1>2, <1>3 DEF GlusterGetfs, Fail

(* A call of apply_xlator_options, whatever follows it. *)
LEMMA OptionsCalled ==
    ASSUME TypeOK, NEW h \in Handle, NEW next, ApplyXlatorOptions(h, next)
    PROVE  /\ conn' \in [Handle -> Glfs]
           /\ conn'[h].vol = conn[h].vol /\ conn'[h].state = conn[h].state
           /\ conn'[h].finis = conn[h].finis
           /\ \A g \in Handle : g # h => conn'[g] = conn[g]
           /\ \/ conn'[h].options = TRUE /\ ret' = 0 /\ pc' = next
              \/ ret' = -1 /\ pc' = "fini_dest"
<1>1. conn \in [Handle -> Glfs]
    BY DEF TypeOK
<1>2. CASE conn' = [conn EXCEPT ![h].options = TRUE] /\ pc' = next /\ ret' = 0
  <2>1. conn' = [conn EXCEPT ![h] = [conn[h] EXCEPT !.options = TRUE]]
      BY <1>2
  <2>2. conn[h] \in Glfs
      BY <1>1
  <2>3. [conn[h] EXCEPT !.options = TRUE] \in Glfs
      BY <2>2 DEF Glfs
  <2>4. /\ [conn[h] EXCEPT !.options = TRUE].vol = conn[h].vol
        /\ [conn[h] EXCEPT !.options = TRUE].state = conn[h].state
        /\ [conn[h] EXCEPT !.options = TRUE].options = TRUE
        /\ [conn[h] EXCEPT !.options = TRUE].finis = conn[h].finis
      BY <2>2 DEF Glfs
  <2>5. conn'[h] = [conn[h] EXCEPT !.options = TRUE]
      BY <1>1, <2>1
  <2> QED
      BY <1>1, <1>2, <2>1, <2>3, <2>4, <2>5
<1>3. CASE conn' = conn /\ pc' = "fini_dest" /\ ret' = -1
    BY <1>1, <1>3
<1> QED
    BY <1>2, <1>3 DEF ApplyXlatorOptions, Fail

(* Nor does glfs_fini. *)
LEMMA Finalised ==
    ASSUME NEW c \in [Handle -> Glfs], NEW h \in Handle, c[h].finis \in 0..1, NEW d,
           d = [c EXCEPT ![h].finis = @ + 1]
    PROVE  /\ d \in [Handle -> Glfs]
           /\ d[h].vol = c[h].vol /\ d[h].state = c[h].state /\ d[h].options = c[h].options
           /\ d[h].finis = c[h].finis + 1
           /\ \A g \in Handle : g # h => d[g] = c[g]
<1> DEFINE n == c[h].finis + 1
<1>1. d = [c EXCEPT ![h] = [c[h] EXCEPT !.finis = n]]
    OBVIOUS
<1>2. c[h] \in Glfs /\ n \in 0..2
    OBVIOUS
<1> HIDE DEF n
<1>3. [c[h] EXCEPT !.finis = n] \in Glfs
    BY <1>2 DEF Glfs
<1>4. /\ [c[h] EXCEPT !.finis = n].vol = c[h].vol
      /\ [c[h] EXCEPT !.finis = n].state = c[h].state
      /\ [c[h] EXCEPT !.finis = n].options = c[h].options
      /\ [c[h] EXCEPT !.finis = n].finis = n
    BY <1>2 DEF Glfs
<1>5. d[h] = [c[h] EXCEPT !.finis = n]
    BY <1>1
<1> QED
    BY <1>1, <1>3, <1>4, <1>5 DEF n

(* The volume of an operand is None unless it is a URL. *)
LEMMA OperandVolume ==
    ASSUME argv \in Argv
    PROVE  argv.src.vol \in Volume \cup {None} /\ argv.dst.vol \in Volume \cup {None}
<1>1. argv.src \in Operand /\ argv.dst \in Operand
    BY DEF Argv
<1> QED
    BY <1>1 DEF Operand

(* parse_options of gfcp and gfmv: no connection yet. *)
LEMMA ParseOptionsKeeps ==
    ASSUME InvocationInvariant, ParseOptions
    PROVE  InvocationInvariant'
<1> USE DEF InvocationInvariant, At
<1>0. /\ pc = "parse" /\ argv.util \in TwoPaths
      /\ UNCHANGED <<argv, dest, source, conn, files>>
      /\ \/ pc' = "end" /\ mode' = mode /\ ret' \in Int
         \/ /\ mode' = ParsedMode /\ ParsedMode # "none" /\ ParsedMode \in Mode
            /\ ret' = 0 /\ pc' = FirstStep(ParsedMode)
  <2>1. ParsedMode # "none" => ParsedMode \in Mode
      BY ModeOfOperands DEF TypeOK, ModeMatches
  <2> QED
      BY <2>1 DEF ParseOptions, Fail
<1>6. FirstStep(ParsedMode) \in {"dest", "source", "operate"}
    BY Zenon DEF FirstStep
<1>7. FirstStep(ParsedMode) = "dest" =>
          ParsedMode \in {"LOCAL_TO_REMOTE", "REMOTE_TO_REMOTE", "ESTABLISHED_TO_REMOTE"}
    BY DEF FirstStep
<1>8. FirstStep(ParsedMode) = "source" =>
          ParsedMode \in {"REMOTE_TO_LOCAL", "REMOTE_TO_ESTABLISHED"}
    BY DEF FirstStep
<1>9. FirstStep(ParsedMode) = "operate" =>
          ParsedMode \notin {"LOCAL_TO_REMOTE", "REMOTE_TO_REMOTE", "ESTABLISHED_TO_REMOTE",
                             "REMOTE_TO_LOCAL", "REMOTE_TO_ESTABLISHED"}
    BY DEF FirstStep
<1>1. TypeOK'
    BY <1>0, <1>6 DEF TypeOK, PC, Mode
<1>2. PointersMatch'
    BY <1>0, <1>6 DEF PointersMatch, Releasing
<1>3. FinisMatch'
    BY <1>0 DEF PointersMatch, FinisMatch, Handle
<1>4. ConnectionsUsable'
    BY <1>0, <1>6, SameCommand DEF ConnectionsUsable, PointersMatch, Releasing, Handle
<1>5. ModeMatches'
    BY <1>0, <1>6, <1>7, <1>8, <1>9, SameCommand DEF ModeMatches, NeedsDest, NeedsSource
<1> QED
    BY <1>1, <1>2, <1>3, <1>4, <1>5

(* gluster_getfs of the destination. *)
LEMMA DestGetfsKeeps ==
    ASSUME InvocationInvariant, DestGetfs
    PROVE  InvocationInvariant'
<1> USE DEF InvocationInvariant, At
<1>0. /\ pc = "dest" /\ argv.util \in TwoPaths
      /\ UNCHANGED <<argv, mode, source, files>> /\ dest' = "dest"
      /\ conn' \in [Handle -> Glfs] /\ conn'["dest"].vol = argv.dst.vol
      /\ conn'["dest"].options = FALSE /\ conn'["dest"].finis = 0
      /\ \A g \in Handle : g # "dest" => conn'[g] = conn[g]
      /\ \/ conn'["dest"].state = "up" /\ ret' = 0 /\ pc' = "dest_options"
         \/ conn'["dest"].state = "made" /\ ret' = -1 /\ pc' = "fini_dest"
  <2>1. TypeOK /\ argv.dst.vol \in Volume \cup {None} /\ "dest" \in Handle
      BY OperandVolume DEF TypeOK, Handle
  <2>2. GlusterGetfs("dest", argv.dst.vol, "dest_options")
      BY DEF DestGetfs
  <2> QED
      BY <2>1, <2>2, GetfsCalled DEF DestGetfs
<1>1. TypeOK'
    BY <1>0 DEF TypeOK, PC, Mode
<1>2. PointersMatch'
    BY <1>0 DEF PointersMatch, Handle
<1>3. FinisMatch'
    BY <1>0 DEF FinisMatch, Handle
<1>4. ConnectionsUsable'
    BY <1>0, SameCommand DEF ConnectionsUsable, Handle
<1>5. ModeMatches'
    BY <1>0, SameCommand DEF ModeMatches, Handle, NeedsDest
<1> QED
    BY <1>1, <1>2, <1>3, <1>4, <1>5

(* gluster_getfs of the source. *)
LEMMA SourceGetfsKeeps ==
    ASSUME InvocationInvariant, SourceGetfs
    PROVE  InvocationInvariant'
<1> USE DEF InvocationInvariant, At
<1>0. /\ pc = "source"
      /\ UNCHANGED <<argv, mode, dest, files>> /\ source' = "source"
      /\ conn' \in [Handle -> Glfs] /\ conn'["source"].vol = argv.src.vol
      /\ conn'["source"].options = FALSE /\ conn'["source"].finis = 0
      /\ \A g \in Handle : g # "source" => conn'[g] = conn[g]
      /\ \/ conn'["source"].state = "up" /\ ret' = 0 /\ pc' = "source_options"
         \/ conn'["source"].state = "made" /\ ret' = -1 /\ pc' = "fini_dest"
  <2>1. TypeOK /\ argv.src.vol \in Volume \cup {None} /\ "source" \in Handle
      BY OperandVolume DEF TypeOK, Handle
  <2>2. GlusterGetfs("source", argv.src.vol, "source_options")
      BY DEF SourceGetfs
  <2> QED
      BY <2>1, <2>2, GetfsCalled DEF SourceGetfs
<1>1. TypeOK'
    BY <1>0 DEF TypeOK, PC, Mode
<1>2. PointersMatch'
    BY <1>0 DEF PointersMatch, ModeMatches, Releasing, Handle, TwoPaths, OnePath, OnDirectories
<1>3. FinisMatch'
    BY <1>0 DEF FinisMatch, Handle
<1>4. ConnectionsUsable'
    BY <1>0, SameCommand DEF ConnectionsUsable, Handle
<1>5. ModeMatches'
    BY <1>0, SameCommand DEF ModeMatches, Handle, NeedsDest, NeedsSource
<1> QED
    BY <1>1, <1>2, <1>3, <1>4, <1>5

(* gluster_getfs of a utility with one operand. *)
LEMMA GetfsKeeps ==
    ASSUME InvocationInvariant, Getfs
    PROVE  InvocationInvariant'
<1> USE DEF InvocationInvariant, At
<1>0. /\ pc = "dest" /\ argv.util \in OnePath
      /\ UNCHANGED <<argv, mode, source, files>> /\ dest' = "dest"
      /\ conn' \in [Handle -> Glfs] /\ conn'["dest"].vol = argv.dst.vol
      /\ conn'["dest"].options = FALSE /\ conn'["dest"].finis = 0
      /\ \A g \in Handle : g # "dest" => conn'[g] = conn[g]
      /\ \/ /\ conn'["dest"].state = "up" /\ ret' = 0
            /\ pc' = (IF argv.util = "ls" THEN "logging" ELSE "dest_options")
         \/ conn'["dest"].state = "made" /\ ret' = -1 /\ pc' = "fini_dest"
  <2>1. TypeOK /\ argv.dst.vol \in Volume \cup {None} /\ "dest" \in Handle
      BY OperandVolume DEF TypeOK, Handle
  <2>2. GlusterGetfs("dest", argv.dst.vol, (IF Runs({"ls"}) THEN "logging" ELSE "dest_options"))
      BY DEF Getfs
  <2> QED
      BY <2>1, <2>2, GetfsCalled DEF Getfs, Runs
<1>1. TypeOK'
    BY <1>0 DEF TypeOK, PC, Mode
<1>2. PointersMatch'
    BY <1>0 DEF PointersMatch, Handle
<1>3. FinisMatch'
    BY <1>0 DEF FinisMatch, Handle
<1>4. ConnectionsUsable'
    BY <1>0, SameCommand DEF ConnectionsUsable, Handle
<1>5. ModeMatches'
    BY <1>0, SameCommand DEF ModeMatches, Handle, NeedsDest
<1> QED
    BY <1>1, <1>2, <1>3, <1>4, <1>5

(* apply_xlator_options on the destination. *)
LEMMA DestOptionsKeeps ==
    ASSUME InvocationInvariant, DestOptions
    PROVE  InvocationInvariant'
<1> USE DEF InvocationInvariant, At
<1>0. /\ pc = "dest_options" /\ argv.util \in TwoPaths
      /\ UNCHANGED <<argv, mode, dest, source, files>>
      /\ conn' \in [Handle -> Glfs]
      /\ conn'["dest"].vol = conn["dest"].vol /\ conn'["dest"].state = conn["dest"].state
      /\ conn'["dest"].finis = conn["dest"].finis
      /\ \A g \in Handle : g # "dest" => conn'[g] = conn[g]
      /\ \/ /\ conn'["dest"].options = TRUE /\ ret' = 0
            /\ pc' = (IF mode = "REMOTE_TO_REMOTE" /\ argv.util = "cp"
                      THEN "share" ELSE "operate")
         \/ ret' = -1 /\ pc' = "fini_dest"
  <2>1. TypeOK /\ "dest" \in Handle
      BY DEF TypeOK, Handle
  <2>2. ApplyXlatorOptions("dest", (IF mode = "REMOTE_TO_REMOTE" /\ argv.util = "cp"
                                    THEN "share" ELSE "operate"))
      BY DEF DestOptions
  <2> QED
      BY <2>1, <2>2, OptionsCalled DEF DestOptions
<1>1. TypeOK'
    BY <1>0 DEF TypeOK, PC, Mode
<1>2. PointersMatch'
    BY <1>0 DEF PointersMatch, Handle
<1>3. FinisMatch'
    BY <1>0 DEF FinisMatch, Handle
<1>4. ConnectionsUsable'
    BY <1>0, SameCommand DEF ConnectionsUsable, PointersMatch, Handle
<1>5. ModeMatches'
    BY <1>0, SameCommand DEF ModeMatches, PointersMatch, Handle, NeedsDest, NeedsSource
<1> QED
    BY <1>1, <1>2, <1>3, <1>4, <1>5

(* apply_xlator_options on the source. *)
LEMMA SourceOptionsKeeps ==
    ASSUME InvocationInvariant, SourceOptions
    PROVE  InvocationInvariant'
<1> USE DEF InvocationInvariant, At
<1>0. /\ pc = "source_options"
      /\ UNCHANGED <<argv, mode, dest, source, files>>
      /\ conn' \in [Handle -> Glfs]
      /\ conn'["source"].vol = conn["source"].vol /\ conn'["source"].state = conn["source"].state
      /\ conn'["source"].finis = conn["source"].finis
      /\ \A g \in Handle : g # "source" => conn'[g] = conn[g]
      /\ \/ conn'["source"].options = TRUE /\ ret' = 0 /\ pc' = "operate"
         \/ ret' = -1 /\ pc' = "fini_dest"
  <2>1. TypeOK /\ "source" \in Handle
      BY DEF TypeOK, Handle
  <2>2. ApplyXlatorOptions("source", "operate")
      BY DEF SourceOptions
  <2> QED
      BY <2>1, <2>2, OptionsCalled DEF SourceOptions
<1>1. TypeOK'
    BY <1>0 DEF TypeOK, PC, Mode
<1>2. PointersMatch'
    BY <1>0 DEF PointersMatch, Handle
<1>3. FinisMatch'
    BY <1>0 DEF FinisMatch, Handle
<1>4. ConnectionsUsable'
    BY <1>0, SameCommand DEF ConnectionsUsable, Handle
<1>5. ModeMatches'
    BY <1>0, SameCommand DEF ModeMatches, PointersMatch, Handle, NeedsDest
<1> QED
    BY <1>1, <1>2, <1>3, <1>4, <1>5

(* apply_xlator_options of a utility with one operand. *)
LEMMA OptionsKeeps ==
    ASSUME InvocationInvariant, Options
    PROVE  InvocationInvariant'
<1> USE DEF InvocationInvariant, At
<1>0. /\ pc = "dest_options" /\ argv.util \in OnePath
      /\ UNCHANGED <<argv, mode, dest, source, files>>
      /\ conn' \in [Handle -> Glfs]
      /\ conn'["dest"].vol = conn["dest"].vol /\ conn'["dest"].state = conn["dest"].state
      /\ conn'["dest"].finis = conn["dest"].finis
      /\ \A g \in Handle : g # "dest" => conn'[g] = conn[g]
      /\ \/ conn'["dest"].options = TRUE /\ ret' = 0 /\ pc' = "logging"
         \/ ret' = -1 /\ pc' = "fini_dest"
         \/ ret' = ret /\ pc' = "undefined"
  <2>1. TypeOK /\ "dest" \in Handle
      BY DEF TypeOK, Handle
  <2>2. CASE ApplyXlatorOptions("dest", "logging")
      BY <2>1, <2>2, OptionsCalled DEF Options, Runs
  <2>3. CASE Undefined /\ UNCHANGED conn
      BY <2>1, <2>3 DEF Options, Undefined, Runs, TypeOK
  <2> QED
      BY <2>2, <2>3 DEF Options
<1>1. TypeOK'
    BY <1>0 DEF TypeOK, PC, Mode
<1>2. PointersMatch'
    BY <1>0 DEF PointersMatch, Handle
<1>3. FinisMatch'
    BY <1>0 DEF FinisMatch, Handle
<1>4. ConnectionsUsable'
    BY <1>0, SameCommand DEF ConnectionsUsable, Handle
<1>5. ModeMatches'
    BY <1>0, SameCommand DEF ModeMatches, Handle
<1> QED
    BY <1>1, <1>2, <1>3, <1>4, <1>5

(* The connection of both ends, or a second one. *)
LEMMA ShareKeeps ==
    ASSUME InvocationInvariant, Share
    PROVE  InvocationInvariant'
<1> USE DEF InvocationInvariant, At
<1>0. /\ pc = "share" /\ argv.util = "cp" /\ mode = "REMOTE_TO_REMOTE" /\ dest = "dest"
      /\ UNCHANGED <<argv, mode, dest, conn, files>>
      /\ \/ argv.src.vol = argv.dst.vol /\ source' = dest /\ ret' = 0 /\ pc' = "operate"
         \/ source' = source /\ ret' = ret /\ pc' = "source"
  <2>1. /\ pc = "share" /\ argv \in Argv /\ argv.util \in TwoPaths
        /\ ParsedMode = "REMOTE_TO_REMOTE" /\ CommandLine(argv)
      BY DEF Share, TypeOK, ModeMatches
  <2>2. argv.src.kind = "glfs" /\ argv.dst.kind = "glfs"
      BY <2>1, ModeOfOperands
  <2>3. argv.src \in Operand /\ argv.dst \in Operand
      BY <2>1 DEF Argv
  <2>4. argv.src.vol \in Host \X VolumeName /\ argv.dst.vol \in Host \X VolumeName
      BY <2>2, <2>3 DEF Operand, Volume
  <2>5. SameVolume(argv.src.vol, argv.dst.vol) => argv.src.vol = argv.dst.vol
      BY <2>4 DEF SameVolume
  <2> QED
      BY <2>1, <2>5 DEF Share, ModeMatches, PointersMatch
<1>1. TypeOK'
    BY <1>0 DEF TypeOK, PC, Mode
<1>2. PointersMatch'
    BY <1>0 DEF PointersMatch, Handle, OnePath, OnDirectories
<1>3. FinisMatch'
    BY <1>0 DEF FinisMatch
<1>4. ConnectionsUsable'
    BY <1>0, SameCommand DEF ConnectionsUsable, PointersMatch, Handle
<1>5. ModeMatches'
    BY <1>0, SameCommand DEF ModeMatches, Handle, NeedsSource
<1> QED
    BY <1>1, <1>2, <1>3, <1>4, <1>5

(* The early glfs_fini of a shared connection. *)
LEMMA FiniSharedKeeps ==
    ASSUME InvocationInvariant, FiniShared
    PROVE  InvocationInvariant'
<1> USE DEF InvocationInvariant, At
<1>0. /\ pc = "shared" /\ pc' = "fini_dest" /\ dest' = None /\ source' = None
      /\ UNCHANGED <<argv, mode, ret, files>>
      /\ conn' \in [Handle -> Glfs]
      /\ conn'["dest"].vol = conn["dest"].vol /\ conn'["dest"].state = conn["dest"].state
      /\ conn'["dest"].options = conn["dest"].options
      /\ conn'["dest"].finis = 1
      /\ \A g \in Handle : g # "dest" => conn'[g] = conn[g]
  <2>1. conn \in [Handle -> Glfs] /\ dest = "dest" /\ "dest" \in Handle
      BY DEF TypeOK, Handle, FiniShared, PointersMatch
  <2>2. conn["dest"].finis = 0
      BY <2>1 DEF FiniShared, FinisMatch, PointersMatch
  <2>3. conn' = [conn EXCEPT !["dest"].finis = @ + 1]
      BY <2>1 DEF FiniShared
  <2> QED
      BY <2>1, <2>2, <2>3, Finalised DEF FiniShared
<1>1. TypeOK'
    BY <1>0 DEF TypeOK, PC, Mode
<1>2. PointersMatch'
    BY <1>0 DEF PointersMatch, Releasing, Handle
<1>3. FinisMatch'
    BY <1>0 DEF PointersMatch, FinisMatch, Handle
<1>4. ConnectionsUsable'
    BY <1>0, SameCommand DEF ConnectionsUsable, Handle
<1>5. ModeMatches'
    BY <1>0, SameCommand DEF ModeMatches, Handle
<1> QED
    BY <1>1, <1>2, <1>3, <1>4, <1>5

(* glfs_fini (dest_fs). *)
LEMMA FiniDestKeeps ==
    ASSUME InvocationInvariant, FiniDest
    PROVE  InvocationInvariant'
<1> USE DEF InvocationInvariant, At
<1>0. /\ pc = "fini_dest" /\ pc' = (IF argv.util \in TwoPaths THEN "fini_source" ELSE "end")
      /\ UNCHANGED <<argv, mode, ret, dest, source, files>>
      /\ conn' \in [Handle -> Glfs]
      /\ conn'["dest"].vol = conn["dest"].vol /\ conn'["dest"].state = conn["dest"].state
      /\ conn'["dest"].options = conn["dest"].options
      /\ conn'["dest"].finis = (IF conn["dest"].state = "none" THEN 0 ELSE 1)
      /\ \A g \in Handle : g # "dest" => conn'[g] = conn[g]
  <2>1. /\ conn \in [Handle -> Glfs] /\ "dest" \in Handle
        /\ dest \in {None, "dest"} /\ pc = "fini_dest"
      BY DEF TypeOK, Handle, FiniDest
  <2>2. CASE dest = None
    <3>1. conn["dest"].finis = (IF conn["dest"].state = "none" THEN 0 ELSE 1)
        BY <2>1, <2>2 DEF FinisMatch
    <3> QED
        BY <2>1, <2>2, <3>1 DEF FiniDest
  <2>3. CASE dest = "dest"
    <3>1. conn["dest"].state # "none" /\ conn["dest"].finis = 0
        BY <2>1, <2>3 DEF FinisMatch, PointersMatch
    <3>2. conn' = [conn EXCEPT !["dest"].finis = @ + 1]
        BY <2>1, <2>3 DEF FiniDest, Handle
    <3> QED
        BY <2>1, <3>1, <3>2, Finalised DEF FiniDest
  <2> QED
      BY <2>1, <2>2, <2>3
<1>1. TypeOK'
    BY <1>0 DEF TypeOK, PC, Mode
<1>2. PointersMatch'
    BY <1>0 DEF PointersMatch, Releasing, Handle
<1>6. argv.util \notin TwoPaths => argv.util \in OnePath
    BY DEF TypeOK, Argv
<1>7. argv.util \notin TwoPaths => source = None /\ conn["source"].state = "none"
    BY <1>6 DEF PointersMatch, TypeOK, Handle
<1>3. FinisMatch'
    BY <1>0, <1>7 DEF FinisMatch, Handle
<1>4. ConnectionsUsable'
    BY <1>0, SameCommand DEF ConnectionsUsable, Handle
<1>5. ModeMatches'
    BY <1>0, SameCommand DEF ModeMatches, Handle
<1> QED
    BY <1>1, <1>2, <1>3, <1>4, <1>5

(* glfs_fini (source_fs), of the shared connection a second time. *)
LEMMA FiniSourceKeeps ==
    ASSUME InvocationInvariant, FiniSource
    PROVE  InvocationInvariant'
<1> USE DEF InvocationInvariant, At
<1>0. /\ pc = "fini_source" /\ pc' = "end"
      /\ UNCHANGED <<argv, mode, ret, dest, source, files>>
      /\ conn' \in [Handle -> Glfs] /\ conn'["shell"] = conn["shell"]
      /\ \A g \in Handle : /\ conn'[g].vol = conn[g].vol /\ conn'[g].state = conn[g].state
                           /\ conn'[g].options = conn[g].options
                           /\ conn'[g].finis = conn[g].finis + (IF g = source THEN 1 ELSE 0)
  <2>1. /\ conn \in [Handle -> Glfs] /\ "dest" \in Handle /\ "source" \in Handle
        /\ source \in {None, "dest", "source"} /\ pc = "fini_source" /\ None \notin Handle
        /\ \A g \in Handle : conn[g].finis \in Int
      BY DEF TypeOK, Handle, FiniSource, Glfs
  <2>2. CASE source = None
      BY <2>1, <2>2 DEF FiniSource, Handle
  <2>3. CASE source = "dest"
    <3>1. conn["dest"].finis \in 0..1
        BY <2>1, <2>3 DEF FinisMatch
    <3>2. conn' = [conn EXCEPT !["dest"].finis = @ + 1]
        BY <2>1, <2>3 DEF FiniSource
    <3> QED
        BY <2>1, <2>3, <3>1, <3>2, Finalised DEF FiniSource, Handle
  <2>4. CASE source = "source"
    <3>1. conn["source"].finis \in 0..1
        BY <2>1, <2>4 DEF FinisMatch
    <3>2. conn' = [conn EXCEPT !["source"].finis = @ + 1]
        BY <2>1, <2>4 DEF FiniSource
    <3> QED
        BY <2>1, <2>4, <3>1, <3>2, Finalised DEF FiniSource, Handle
  <2> QED
      BY <2>1, <2>2, <2>3, <2>4
<1>1. TypeOK'
    BY <1>0 DEF TypeOK, PC, Mode
<1>2. PointersMatch'
    BY <1>0 DEF PointersMatch, Releasing, Handle
<1>3. FinisMatch'
    BY <1>0 DEF PointersMatch, FinisMatch, Handle
<1>4. ConnectionsUsable'
    BY <1>0, SameCommand DEF ConnectionsUsable
<1>5. ModeMatches'
    BY <1>0 DEF ModeMatches, Handle
<1> QED
    BY <1>1, <1>2, <1>3, <1>4, <1>5

(* parse_options of a utility with one operand. *)
LEMMA ParseOperandKeeps ==
    ASSUME InvocationInvariant, ParseOperand
    PROVE  InvocationInvariant'
<1> USE DEF InvocationInvariant, At
<1>0. /\ pc = "parse" /\ argv.util \in OnePath
      /\ UNCHANGED <<argv, mode, dest, source, conn, files>> /\ ret' \in Int
      /\ pc' \in {"end", "undefined", "operate", "dest"}
  <2>1. pc = "parse" /\ UNCHANGED <<argv, mode, dest, source, conn, files>>
        /\ ret \in Int
      BY DEF ParseOperand, TypeOK
  <2>2. ASSUME NEW refused, ParseAs(refused)
        PROVE  ret' \in Int /\ pc' \in {"end", "operate", "dest"}
      BY <2>2 DEF ParseAs, Fail
  <2>3. CASE ParseCat \/ ParseTail \/ ParseRm \/ ParseMkdir \/ ParseRmdir
      BY <2>1, <2>2, <2>3
      DEF ParseCat, ParseTail, ParseRm, ParseMkdir, ParseRmdir, Runs, OnePath, OnDirectories
  <2>6. CASE ParseTouch \/ ParseTruncate \/ ParseLs
      BY <2>1, <2>2, <2>6 DEF ParseTouch, ParseTruncate, ParseLs, Runs, OnePath
  <2>4. CASE ParseStat
      BY <2>1, <2>2, <2>4 DEF ParseStat, Undefined, Runs, OnePath, OnDirectories
  <2>5. CASE ParsePut
      BY <2>1, <2>2, <2>5 DEF ParsePut, Undefined, Runs, Put, OnePath, OnDirectories
  <2> QED
      BY <2>1, <2>3, <2>4, <2>5, <2>6 DEF ParseOperand
<1>1. TypeOK'
    BY <1>0 DEF TypeOK, PC, Mode
<1>2. PointersMatch'
    BY <1>0 DEF PointersMatch, Releasing
<1>3. FinisMatch'
    BY <1>0 DEF PointersMatch, FinisMatch, Handle
<1>4. ConnectionsUsable'
    BY <1>0, SameCommand DEF ConnectionsUsable, PointersMatch, Releasing, Handle
<1>5. ModeMatches'
    BY <1>0 DEF ModeMatches, TwoPaths, OnePath, OnDirectories
<1> QED
    BY <1>1, <1>2, <1>3, <1>4, <1>5

(* glfs_set_logging. *)
LEMMA SetLoggingKeeps ==
    ASSUME InvocationInvariant, SetLogging
    PROVE  InvocationInvariant'
<1> USE DEF InvocationInvariant, At
<1>0. /\ pc = "logging" /\ UNCHANGED <<argv, mode, dest, source, conn, files>>
      /\ ret' \in Int /\ pc' \in {"operate", "fini_dest"}
    BY DEF SetLogging, Fail, TypeOK
<1>1. TypeOK'
    BY <1>0 DEF TypeOK, PC, Mode
<1>2. PointersMatch'
    BY <1>0 DEF PointersMatch, Releasing
<1>3. FinisMatch'
    BY <1>0 DEF FinisMatch
<1>4. ConnectionsUsable'
    BY <1>0, SameCommand DEF ConnectionsUsable, PointersMatch, ModeMatches, Handle
<1>5. ModeMatches'
    BY <1>0 DEF ModeMatches, TwoPaths, OnePath, OnDirectories
<1> QED
    BY <1>1, <1>2, <1>3, <1>4, <1>5

-----------------------------------------------------------------------------
(* The steps that change files. *)

(* The places of both operands exist. *)
LEMMA OperandPlaces ==
    ASSUME TypeOK
    PROVE  Named(argv.src) \in Place /\ Named(argv.dst) \in Place
<1>1. argv \in Argv /\ argv.src \in Operand /\ argv.dst \in Operand
    BY DEF TypeOK, Argv
<1> QED
    BY <1>1, NamedPlace

(* A transfer changes its destination, to what one end held or a part.     *)
LEMMA TransferDoes ==
    ASSUME InvocationInvariant, Transfer
    PROVE  /\ \E c \in {files[Named(argv.dst)], files[Named(argv.src)], Part} :
                 files' = [files EXCEPT ![Named(argv.dst)] = c]
           /\ ret' \in Int /\ pc' = AfterTransfer(ret')
<1>1. TypeOK /\ pc = "operate" /\ argv.util \in TwoPaths /\ ~Renames
    BY DEF InvocationInvariant, Transfer, At
<1>2. From = Named(argv.src) /\ To = Named(argv.dst)
    BY <1>1, TransferEnds
<1>3. From \in Place /\ To \in Place /\ files \in [Place -> Content]
    BY <1>1, <1>2, OperandPlaces DEF TypeOK
<1>4. PICK t \in TransferResults :
         files' = [files EXCEPT ![To] = t.file] /\ ret' = t.ret /\ pc' = AfterTransfer(t.ret)
    BY DEF Transfer
<1>5. t \in LocalToRemote(From, To) \cup RemoteToLocal(From, To) \cup RemoteToRemote(From, To)
    BY Zenon DEF TransferResults
<1>6. t.ret \in Int /\ t.file \in {files[To], files[From], Part}
    BY <1>3, <1>5, TransferTypes
<1> QED
    BY <1>2, <1>4, <1>6

(* What comes after a transfer. *)
LEMMA AfterTransferIs ==
    ASSUME NEW r \in Int
    PROVE  /\ AfterTransfer(r) \in {"shared", "remove", "fini_dest"}
           /\ AfterTransfer(r) = "shared" <=>
                 argv.util = "cp" /\ mode = "REMOTE_TO_REMOTE" /\ r # -1 /\ dest = source
           /\ AfterTransfer(r) = "remove" => argv.util = "mv" /\ (FromLocal \/ ToLocal)
<1> DEFINE first == argv.util = "cp" /\ mode = "REMOTE_TO_REMOTE" /\ r # -1 /\ dest = source
           second == argv.util = "mv" /\ (FromLocal \/ ToLocal)
<1>1. ~(first /\ second)
    OBVIOUS
<1>2. CASE first
  <2>1. AfterTransfer(r) = "shared"
      BY <1>1, <1>2, Zenon DEF AfterTransfer
  <2> QED
      BY <1>2, <2>1
<1>3. CASE second
  <2>1. AfterTransfer(r) = "remove"
      BY <1>1, <1>3, Zenon DEF AfterTransfer
  <2> QED
      BY <1>3, <2>1
<1>4. CASE ~first /\ ~second
  <2>1. AfterTransfer(r) = "fini_dest"
      BY <1>4, Zenon DEF AfterTransfer
  <2> QED
      BY <1>4, <2>1
<1> QED
    BY <1>2, <1>3, <1>4

(* The transfer functions of gfcp and gfmv. *)
LEMMA TransferKeeps ==
    ASSUME InvocationInvariant, Transfer
    PROVE  InvocationInvariant'
<1> USE DEF InvocationInvariant, At
<1>0. /\ pc = "operate" /\ argv.util \in TwoPaths
      /\ UNCHANGED <<argv, mode, dest, source, conn>>
      /\ files' \in [Place -> Content] /\ ret' \in Int
      /\ pc' \in {"shared", "remove", "fini_dest"}
      /\ pc' = "shared" <=>
            argv.util = "cp" /\ mode = "REMOTE_TO_REMOTE" /\ ret' # -1 /\ dest = source
      /\ pc' = "remove" => argv.util = "mv" /\ (FromLocal \/ ToLocal)
  <2>1. PICK c \in {files[Named(argv.dst)], files[Named(argv.src)], Part} :
           files' = [files EXCEPT ![Named(argv.dst)] = c]
      BY TransferDoes
  <2>2. /\ Named(argv.dst) \in Place /\ Named(argv.src) \in Place
        /\ files \in [Place -> Content] /\ Part \in Content
      BY OperandPlaces DEF TypeOK, Content
  <2>3. files' \in [Place -> Content]
      BY <2>1, <2>2
  <2>4. ret' \in Int /\ pc' = AfterTransfer(ret')
      BY TransferDoes
  <2> QED
      BY <2>3, <2>4, AfterTransferIs DEF Transfer
<1>1. TypeOK'
    BY <1>0 DEF TypeOK, PC, Mode
<1>6. mode = "REMOTE_TO_REMOTE" => dest = "dest"
    BY <1>0 DEF ModeMatches, NeedsDest
<1>2. PointersMatch'
    BY <1>0, <1>6 DEF PointersMatch, Releasing
<1>3. FinisMatch'
    BY <1>0 DEF FinisMatch
<1>4. ConnectionsUsable'
    BY <1>0, SameCommand DEF ConnectionsUsable
<1>5. ModeMatches'
    BY <1>0, SameCommand DEF ModeMatches, NeedsDest, NeedsSource, FromLocal, ToLocal
<1> QED
    BY <1>1, <1>2, <1>3, <1>4, <1>5

(* glfs_rename between the places of the operands, or on the volume of the *)
(* destination's alone.                                                    *)
LEMMA RenameDoes ==
    ASSUME InvocationInvariant, Rename
    PROVE  /\ files' \in [Place -> Content]
           /\ \/ MovesAcrossVolumes
              \/ \A p \in Place : files'[p] # files[p] => NamedChange(p)
<1>1. TypeOK /\ At("operate") /\ Renames /\ argv.util = "mv"
    BY DEF InvocationInvariant, Rename, Renames
<1> DEFINE old == <<conn[ToHandle].vol, argv.src.path>>
           new == <<conn[ToHandle].vol, argv.dst.path>>
<1>8. argv \in Argv /\ argv.src.path \in Path /\ CompletePath \in Path
    BY <1>1, NamedIs DEF TypeOK
<1>2. old = Named(argv.src) \/ MovesAcrossVolumes
    BY <1>1, <1>8, RenameEnds, NamedIs
<1>9. ~IntoDirectory => new = Named(argv.dst) /\ argv.dst.path \in Path
    BY <1>1, <1>8, RenameEnds, NamedIs DEF CompletePath
<1>3. conn[ToHandle].vol \in Volume
    BY <1>1, RenameEnds
<1>4. /\ old \in Place /\ (~IntoDirectory => new \in Place) /\ files \in [Place -> Content]
      /\ None \in Content /\ files[old] \in Content
    BY <1>1, <1>3, <1>8, <1>9 DEF TypeOK, Place, Content
<1>5. \/ files' = files
      \/ /\ old # new /\ ~IntoDirectory
         /\ files' = [files EXCEPT ![new] = files[old], ![old] = None]
    BY DEF Rename
<1> HIDE DEF old, new
<1>6. files' \in [Place -> Content]
    BY <1>4, <1>5
<1>7. ASSUME old = Named(argv.src), NEW p \in Place, files'[p] # files[p]
      PROVE  NamedChange(p)
    BY <1>1, <1>2, <1>4, <1>5, <1>7, <1>9 DEF NamedChange
<1> QED
    BY <1>2, <1>6, <1>7

(* glfs_rename of gfmv. *)
LEMMA RenameKeeps ==
    ASSUME InvocationInvariant, Rename
    PROVE  InvocationInvariant'
<1> USE DEF InvocationInvariant, At
<1>0. /\ pc = "operate" /\ argv.util = "mv" /\ pc' = "fini_dest" /\ ret' \in {0, -1}
      /\ UNCHANGED <<argv, mode, dest, source, conn>>
      /\ files' \in [Place -> Content]
    BY RenameDoes DEF Rename, Renames, Fail
<1>1. TypeOK'
    BY <1>0 DEF TypeOK, PC, Mode
<1>2. PointersMatch'
    BY <1>0 DEF PointersMatch, Releasing
<1>3. FinisMatch'
    BY <1>0 DEF FinisMatch
<1>4. ConnectionsUsable'
    BY <1>0, SameCommand DEF ConnectionsUsable
<1>5. ModeMatches'
    BY <1>0, SameCommand DEF ModeMatches
<1> QED
    BY <1>1, <1>2, <1>3, <1>4, <1>5

(* The removal of a source that was transferred. *)
LEMMA RmSourceDoes ==
    ASSUME InvocationInvariant, RmSource
    PROVE  /\ argv.util = "mv" /\ Named(argv.src) \in Place
           /\ files' = files \/ files' = [files EXCEPT ![Named(argv.src)] = None]
           /\ ret' \in {0, -1} /\ pc' = "fini_dest"
<1>1. TypeOK /\ pc = "remove" /\ argv.util = "mv" /\ argv.util \in TwoPaths
      /\ (FromLocal \/ ToLocal)
    BY DEF InvocationInvariant, RmSource, At, ModeMatches, TwoPaths
<1>2. ~Renames
    BY <1>1 DEF Renames, FromLocal, ToLocal
<1>3. From = Named(argv.src)
    BY <1>1, <1>2, TransferEnds
<1> QED
    BY <1>1, <1>3, OperandPlaces DEF RmSource, Fail

(* rm_local and rm_remote. *)
LEMMA RmSourceKeeps ==
    ASSUME InvocationInvariant, RmSource
    PROVE  InvocationInvariant'
<1> USE DEF InvocationInvariant, At
<1>0. /\ pc = "remove" /\ argv.util = "mv" /\ pc' = "fini_dest" /\ ret' \in {0, -1}
      /\ UNCHANGED <<argv, mode, dest, source, conn>>
      /\ files' \in [Place -> Content]
  <2>1. files \in [Place -> Content] /\ None \in Content
      BY DEF TypeOK, Content
  <2>2. files' = files \/ files' = [files EXCEPT ![Named(argv.src)] = None]
      BY RmSourceDoes
  <2>3. files' \in [Place -> Content]
      BY <2>1, <2>2
  <2> QED
      BY <2>3, RmSourceDoes DEF RmSource
<1>1. TypeOK'
    BY <1>0 DEF TypeOK, PC, Mode
<1>2. PointersMatch'
    BY <1>0 DEF PointersMatch, Releasing
<1>3. FinisMatch'
    BY <1>0 DEF FinisMatch
<1>4. ConnectionsUsable'
    BY <1>0, SameCommand DEF ConnectionsUsable
<1>5. ModeMatches'
    BY <1>0, SameCommand DEF ModeMatches
<1> QED
    BY <1>1, <1>2, <1>3, <1>4, <1>5

(* The work of a utility with one operand is on that operand. *)
LEMMA OperateDoes ==
    ASSUME InvocationInvariant, Operate
    PROVE  /\ argv.util \in OnePath /\ Named(argv.dst) \in Place
           /\ \E c \in Content : files' = [files EXCEPT ![Named(argv.dst)] = c]
           /\ argv.util = "ls" => files' = files
           /\ ret' \in Int
<1>1. /\ TypeOK /\ argv.util \in OnePath /\ Target \in Place
      /\ files \in [Place -> Content]
    BY OperandPlaces DEF InvocationInvariant, TypeOK, Operate, Runs, Target
<1>2. PICK t \in OperandResults(Target) :
         files' = [files EXCEPT ![Target] = t.file] /\ ret' = t.ret
    BY DEF Operate
<1>3. t.ret \in Int /\ t.file \in Content /\ (argv.util = "ls" => t.file = files[Target])
    BY <1>1, OperandTypes
<1> QED
    BY <1>1, <1>2, <1>3 DEF Target

(* The utilities with one operand. *)
LEMMA OperateKeeps ==
    ASSUME InvocationInvariant, Operate
    PROVE  InvocationInvariant'
<1> USE DEF InvocationInvariant, At
<1>0. /\ pc = "operate" /\ argv.util \in OnePath /\ pc' = "fini_dest" /\ ret' \in Int
      /\ UNCHANGED <<argv, mode, dest, source, conn>>
      /\ files' \in [Place -> Content]
  <2>1. files \in [Place -> Content]
      BY DEF TypeOK
  <2>2. files' \in [Place -> Content]
      BY <2>1, OperateDoes
  <2> QED
      BY <2>2, OperateDoes DEF Operate
<1>1. TypeOK'
    BY <1>0 DEF TypeOK, PC, Mode
<1>2. PointersMatch'
    BY <1>0 DEF PointersMatch, Releasing
<1>3. FinisMatch'
    BY <1>0 DEF FinisMatch
<1>4. ConnectionsUsable'
    BY <1>0, SameCommand DEF ConnectionsUsable
<1>5. ModeMatches'
    BY <1>0, SameCommand DEF ModeMatches
<1> QED
    BY <1>1, <1>2, <1>3, <1>4, <1>5

-----------------------------------------------------------------------------
(* The initial states, and any step. *)

(* No command has a connection before it has parsed its options.           *)
LEMMA InitKeeps ==
    ASSUME Init
    PROVE  InvocationInvariant
<1> DEFINE none == [vol |-> None, state |-> "none", options |-> FALSE, finis |-> 0]
           shell == [vol |-> argv.shell, state |-> "up", options |-> TRUE, finis |-> 0]
<1>1. /\ argv \in Argv /\ CommandLine(argv) /\ argv.shell \in Volume \cup {None}
      /\ pc = "parse" /\ mode = "none" /\ ret = -1 /\ dest = None /\ source = None
      /\ conn = [h \in Handle |-> IF h = "shell" /\ InShell THEN shell ELSE none]
    BY DEF Init, Argv
<1>2. none \in Glfs /\ shell \in Glfs
    BY <1>1 DEF Glfs
<1>3. /\ none.vol = None /\ none.state = "none" /\ none.options = FALSE /\ none.finis = 0
      /\ shell.vol = argv.shell /\ shell.state = "up" /\ shell.options = TRUE /\ shell.finis = 0
    OBVIOUS
<1>4. files \in [Place -> Content]
  <2>1. PICK src, dst, others, isDir \in BOOLEAN :
           /\ isDir => dst /\ Runs(OnDirectories)
           /\ files = [p \in Place |->
                         IF isDir /\ p = Named(argv.dst) THEN Directory
                         ELSE IF CASE p = Named(argv.dst) -> dst
                                   [] p = Named(argv.src) /\ p # Named(argv.dst) -> src
                                   [] OTHER -> others
                         THEN p ELSE None]
      BY Zenon DEF Init
  <2>2. \A p \in Place : p \in Content /\ None \in Content /\ Directory \in Content
      BY DEF Content
  <2> QED
      BY <2>1, <2>2, Zenon
<1> HIDE DEF none, shell
<1>5. /\ conn \in [Handle -> Glfs]
      /\ conn["dest"] = none /\ conn["source"] = none
      /\ conn["shell"] = (IF InShell THEN shell ELSE none)
    BY <1>1, <1>2 DEF Handle
<1>6. TypeOK
    BY <1>1, <1>4, <1>5 DEF TypeOK, PC, Mode
<1>7. PointersMatch
    BY <1>1, <1>3, <1>5 DEF PointersMatch, Releasing, Handle
<1>8. FinisMatch
    BY <1>1, <1>3, <1>5 DEF FinisMatch, At
<1>9. ConnectionsUsable
    BY <1>1, <1>3, <1>5 DEF ConnectionsUsable, InShell
<1>10. ModeMatches
    BY <1>1, <1>3, <1>5 DEF ModeMatches
<1> QED
    BY <1>6, <1>7, <1>8, <1>9, <1>10 DEF InvocationInvariant

(* Every step of a command keeps the invariant. *)
LEMMA NextKeeps ==
    ASSUME InvocationInvariant, [Next]_vars
    PROVE  InvocationInvariant'
<1>1. CASE CopyMoveStep
    BY <1>1, ParseOptionsKeeps, DestGetfsKeeps, DestOptionsKeeps, ShareKeeps,
       SourceGetfsKeeps, SourceOptionsKeeps, TransferKeeps, RenameKeeps,
       RmSourceKeeps, FiniSharedKeeps DEF CopyMoveStep
<1>2. CASE OneFileStep
    BY <1>2, ParseOperandKeeps, GetfsKeeps, OptionsKeeps, SetLoggingKeeps,
       OperateKeeps DEF OneFileStep
<1>3. CASE FiniDest
    BY <1>3, FiniDestKeeps
<1>4. CASE FiniSource
    BY <1>4, FiniSourceKeeps
<1>5. CASE UNCHANGED vars
  <2>1. /\ UNCHANGED <<argv, pc, mode, ret, dest, source, conn, files>>
        /\ InShell' = InShell /\ ParsedMode' = ParsedMode
      BY <1>5, SameCommand DEF vars
  <2>2. TypeOK'
      BY <2>1 DEF InvocationInvariant, TypeOK
  <2>3. PointersMatch'
      BY <2>1 DEF InvocationInvariant, PointersMatch, Releasing
  <2>4. FinisMatch'
      BY <2>1 DEF InvocationInvariant, FinisMatch, At
  <2>5. ConnectionsUsable'
      BY <2>1 DEF InvocationInvariant, ConnectionsUsable
  <2>6. ModeMatches'
      BY <2>1 DEF InvocationInvariant, ModeMatches, NeedsDest, NeedsSource, FromLocal, ToLocal
  <2> QED
      BY <2>2, <2>3, <2>4, <2>5, <2>6 DEF InvocationInvariant
<1> QED
    BY <1>1, <1>2, <1>3, <1>4, <1>5 DEF Next, Ended

(* The pointers, the objects, the mode and the step agree in every command *)
(* with every operand and every failure.                                   *)
THEOREM InvocationSafe == Spec => []InvocationInvariant
<1>1. Init => InvocationInvariant
    BY InitKeeps
<1>2. InvocationInvariant /\ [Next]_vars => InvocationInvariant'
    BY NextKeeps
<1> QED
    BY <1>1, <1>2, PTL DEF Spec

(* The gotos of every utility lead to the release of what it opened.       *)
THEOREM Released == Spec => []ConnectionsReleased
<1>1. ASSUME InvocationInvariant
      PROVE  ConnectionsReleased
  <2> USE <1>1 DEF InvocationInvariant
  <2>1. conn["shell"].finis = 0
      BY DEF FinisMatch
  <2>2. conn["source"].finis # 2
      BY DEF FinisMatch
  <2>3. conn["dest"].finis = 2 => FailedShared
      BY DEF FinisMatch, PointersMatch, FailedShared, Releasing, At, TypeOK
  <2>4. At("end") /\ conn["source"].state # "none" => conn["source"].finis > 0
      BY DEF FinisMatch
  <2>5. At("end") /\ conn["dest"].state # "none" => conn["dest"].finis > 0
      BY DEF FinisMatch, At
  <2> QED
      BY <2>1, <2>2, <2>3, <2>4, <2>5 DEF ConnectionsReleased
<1> QED
    BY <1>1, InvocationSafe, PTL

(* The steps that change files, and which of them gfls takes.              *)
LEMMA OnlyTheseChangeFiles ==
    ASSUME [Next]_vars, files' # files
    PROVE  Transfer \/ Rename \/ RmSource \/ Operate
BY DEF Next, CopyMoveStep, OneFileStep, ParseOptions, DestGetfs, DestOptions, Share,
       SourceGetfs, SourceOptions, FiniShared, ParseOperand, Getfs, Options, SetLogging,
       FiniDest, FiniSource, Ended, vars

(* No file changes before its connections are ready, or after they are     *)
(* released.                                                               *)
THEOREM Connected == Spec => ConnectedBeforeChange
<1>1. ASSUME InvocationInvariant, [Next]_vars, files' # files, NEW h \in Handle,
             conn[h].state # "none"
      PROVE  conn[h].state = "up" /\ conn[h].options /\ conn[h].finis = 0
  <2>1. pc \in {"operate", "remove"} /\ argv.util # "ls"
    <3>1. CASE Operate
        BY <1>1, <3>1, OperateDoes DEF Operate, At
    <3>2. CASE Transfer \/ Rename \/ RmSource
      <4>1. argv.util \in TwoPaths
          BY <1>1, <3>2, RmSourceDoes DEF Transfer, Rename, Renames, TwoPaths
      <4> QED
          BY <3>2, <4>1 DEF Transfer, Rename, RmSource, At, TwoPaths
    <3> QED
        BY <1>1, <3>1, <3>2, OnlyTheseChangeFiles
  <2>2. /\ conn["shell"].finis = 0
        /\ InShell => conn["shell"].state = "up" /\ conn["shell"].options
        /\ ~InShell => conn["shell"].state = "none"
      BY <1>1 DEF InvocationInvariant, FinisMatch, ConnectionsUsable
  <2>3. conn["source"].finis = 0 /\ (conn["source"].state # "none" =>
                                        conn["source"].state = "up" /\ conn["source"].options)
      BY <1>1, <2>1 DEF InvocationInvariant, FinisMatch, ConnectionsUsable, At
  <2>4. conn["dest"].state # "none" => conn["dest"].state = "up" /\ conn["dest"].options
      BY <1>1, <2>1 DEF InvocationInvariant, ConnectionsUsable
  <2>5. conn["dest"].state # "none" => conn["dest"].finis = 0
      BY <1>1, <2>1 DEF InvocationInvariant, FinisMatch, PointersMatch, Releasing, At
  <2> QED
      BY <1>1, <2>2, <2>3, <2>4, <2>5 DEF Handle
<1>2. InvocationInvariant /\ [Next]_vars =>
         [files' # files => \A h \in Handle : conn[h].state # "none" =>
              conn[h].state = "up" /\ conn[h].options /\ conn[h].finis = 0]_vars
    BY <1>1
<1> QED
    BY <1>2, InvocationSafe, PTL DEF Spec, ConnectedBeforeChange

(* For any set of hosts, volumes and paths, any operands and any mode,     *)
(* gfcp and the others change the files they name.                         *)
THEOREM NamedFiles == Spec => OnlyNamedFilesChange
<1>1. ASSUME InvocationInvariant, [Next]_vars, ~MovesAcrossVolumes, NEW p \in Place,
             files'[p] # files[p]
      PROVE  NamedChange(p)
  <2>1. TypeOK /\ files \in [Place -> Content]
      BY <1>1 DEF InvocationInvariant, TypeOK
  <2>2. Named(argv.src) \in Place /\ Named(argv.dst) \in Place
      BY <2>1, OperandPlaces
  <2>3. CASE Transfer
    <3>1. PICK c \in {files[Named(argv.dst)], files[Named(argv.src)], Part} :
             files' = [files EXCEPT ![Named(argv.dst)] = c]
        BY <1>1, <2>3, TransferDoes
    <3> QED
        BY <1>1, <2>1, <2>2, <3>1 DEF NamedChange
  <2>4. CASE Rename
      BY <1>1, <2>4, RenameDoes
  <2>5. CASE RmSource
    <3>1. argv.util = "mv" /\ files' = [files EXCEPT ![Named(argv.src)] = None]
        BY <1>1, <2>5, RmSourceDoes
    <3> QED
        BY <1>1, <2>1, <2>2, <3>1 DEF NamedChange
  <2>6. CASE Operate
    <3>1. argv.util \notin TwoPaths
        BY <1>1, <2>6, OperateDoes DEF OnePath, OnDirectories, TwoPaths
    <3>2. PICK c \in Content : files' = [files EXCEPT ![Named(argv.dst)] = c]
        BY <1>1, <2>6, OperateDoes
    <3> QED
        BY <1>1, <2>1, <2>2, <3>1, <3>2 DEF NamedChange
  <2> QED
      BY <1>1, <2>3, <2>4, <2>5, <2>6, OnlyTheseChangeFiles
<1>2. InvocationInvariant /\ [Next]_vars =>
         [MovesAcrossVolumes \/ \A p \in Place : files'[p] # files[p] => NamedChange(p)]_vars
    BY <1>1
<1> QED
    BY <1>2, InvocationSafe, PTL DEF Spec, OnlyNamedFilesChange

-----------------------------------------------------------------------------
(* ZeroMeansDone: a result that is not -1 is that of work that was done.   *)

(* What each utility has to show for it. *)
LEMMA DoneIs ==
    ASSUME NEW util, NEW md, NEW now, NEW src
    PROVE
    /\ util \in {"rm", "rm_f", "rm_r", "rmdir"} => DoneFor(util, md, now, src) = (now = None)
    /\ util \in {"cat", "tail", "ls", "stat", "mkdir_r", "rmdir_r"} =>
          DoneFor(util, md, now, src) = (now # None)
    /\ util = "mkdir" => DoneFor(util, md, now, src) = (now = Directory)
    /\ util = "truncate" => DoneFor(util, md, now, src) = (now = Part)
    /\ util \in Put => DoneFor(util, md, now, src) = (now \in {Stdin, Part})
    /\ util = "cp" /\ md = "LOCAL_TO_REMOTE" =>
          DoneFor(util, md, now, src) = (now \in {src, Part})
    /\ util \in {"mv", "touch"} \/ (util = "cp" /\ md # "LOCAL_TO_REMOTE") =>
          DoneFor(util, md, now, src)
<1> DEFINE gone == util \in {"rm", "rm_f", "rm_r", "rmdir"}
           there == util \in {"cat", "tail", "ls", "stat", "mkdir_r", "rmdir_r"}
           mkdir == util = "mkdir"
           truncate == util = "truncate"
           put == util \in Put
           copied == util = "cp" /\ md = "LOCAL_TO_REMOTE"
<1>0. DoneFor(util, md, now, src) =
          (CASE gone -> now = None
             [] there -> now # None
             [] mkdir -> now = Directory
             [] truncate -> now = Part
             [] put -> now \in {Stdin, Part}
             [] copied -> now \in {src, Part}
             [] OTHER -> TRUE)
    BY DEF DoneFor
<1>1. CASE gone
  <2>1. ~there /\ ~mkdir /\ ~truncate /\ ~put /\ ~copied
      BY <1>1 DEF Put
  <2>2. DoneFor(util, md, now, src) = (now = None)
      BY <1>0, <1>1, <2>1, Zenon
  <2> QED
      BY <1>1, <2>1, <2>2
<1>2. CASE there
  <2>1. ~gone /\ ~mkdir /\ ~truncate /\ ~put /\ ~copied
      BY <1>2 DEF Put
  <2>2. DoneFor(util, md, now, src) = (now # None)
      BY <1>0, <1>2, <2>1, Zenon
  <2> QED
      BY <1>2, <2>1, <2>2
<1>3. CASE mkdir
  <2>1. ~gone /\ ~there /\ ~truncate /\ ~put /\ ~copied
      BY <1>3 DEF Put
  <2>2. DoneFor(util, md, now, src) = (now = Directory)
      BY <1>0, <1>3, <2>1, Zenon
  <2> QED
      BY <1>3, <2>1, <2>2
<1>4. CASE truncate
  <2>1. ~gone /\ ~there /\ ~mkdir /\ ~put /\ ~copied
      BY <1>4 DEF Put
  <2>2. DoneFor(util, md, now, src) = (now = Part)
      BY <1>0, <1>4, <2>1, Zenon
  <2> QED
      BY <1>4, <2>1, <2>2
<1>5. CASE put
  <2>1. ~gone /\ ~there /\ ~mkdir /\ ~truncate /\ ~copied
      BY <1>5 DEF Put
  <2>2. DoneFor(util, md, now, src) = (now \in {Stdin, Part})
      BY <1>0, <1>5, <2>1, Zenon
  <2> QED
      BY <1>5, <2>1, <2>2 DEF Put
<1>6. CASE copied
  <2>1. ~gone /\ ~there /\ ~mkdir /\ ~truncate /\ ~put
      BY <1>6 DEF Put
  <2>2. DoneFor(util, md, now, src) = (now \in {src, Part})
      BY <1>0, <1>6, <2>1, Zenon
  <2> QED
      BY <1>6, <2>1, <2>2
<1>7. CASE ~gone /\ ~there /\ ~mkdir /\ ~truncate /\ ~put /\ ~copied
  <2>1. DoneFor(util, md, now, src)
      BY <1>0, <1>7, Zenon
  <2> QED
      BY <1>7, <2>1
<1> QED
    BY <1>1, <1>2, <1>3, <1>4, <1>5, <1>6, <1>7

(* Done is about the command line, the mode and the files. *)
LEMMA SameDone ==
    ASSUME argv' = argv, mode' = mode, files' = files
    PROVE  Done' = Done
BY Zenon DEF Done, Named, VolumeOf, InShell

(* The utilities with one operand, outside the shell: what they leave at   *)
(* the path when their result is not -1.                                   *)
LEMMA OperandSays ==
    ASSUME files \in [Place -> Content], argv.util \in OnePath, argv.util # "touch",
           ~InShell, argv.util = "ls" => ~MissingOperand(LsOptions),
           NEW p \in Place, NEW t \in OperandResults(p), t.ret # -1
    PROVE  /\ argv.util \in {"rm", "rm_f", "rm_r", "rmdir"} => t.file = None
           /\ argv.util \in {"cat", "tail", "ls", "stat", "mkdir_r", "rmdir_r"} => t.file # None
           /\ argv.util = "mkdir" => t.file = Directory
           /\ argv.util = "truncate" => t.file = Part
           /\ argv.util \in Put => t.file \in {Stdin, Part}
<1> DEFINE
           isCat == Runs({"cat"})
           isTail == Runs({"tail"})
           isLs == Runs({"ls"})
           isStat == Runs({"stat"})
           isRm == Runs({"rm", "rm_f"})
           isMkdir == Runs({"mkdir"})
           isRmdir == Runs({"rmdir", "rm_r"})
           isCreate == Runs({"mkdir_r", "rmdir_r"})
           isTruncate == Runs({"truncate"})
           isPut == Runs(Put)
           isTouch == Runs({"touch"})
<1>1. None # Directory /\ None # Part /\ None # Stdin
    BY ConnectionAssumption
<1>2. CASE argv.util \in {"cat"}
  <2>1. /\ isCat /\ ~isTail /\ ~isLs /\ ~isStat /\ ~isRm
        /\ ~isMkdir /\ ~isRmdir /\ ~isCreate /\ ~isTruncate /\ ~isPut /\ ~isTouch
      BY <1>2 DEF Runs, Put
  <2>2. t \in GlusterGet(p)
      BY <2>1, Zenon DEF OperandResults
  <2> QED
      BY <1>1, <1>2, <2>2 DEF GlusterGet, Answer, Result, If, Missing, Runs, Put
<1>3. CASE argv.util \in {"tail"}
  <2>1. /\ isTail /\ ~isCat /\ ~isLs /\ ~isStat /\ ~isRm
        /\ ~isMkdir /\ ~isRmdir /\ ~isCreate /\ ~isTruncate /\ ~isPut /\ ~isTouch
      BY <1>3 DEF Runs, Put
  <2>2. t \in Tail(p)
      BY <2>1, Zenon DEF OperandResults
  <2> QED
      BY <1>1, <1>3, <2>2 DEF Tail, Answer, Result, If, Missing, Runs, Put
<1>4. CASE argv.util \in {"ls"}
  <2>1. /\ isLs /\ ~isCat /\ ~isTail /\ ~isStat /\ ~isRm
        /\ ~isMkdir /\ ~isRmdir /\ ~isCreate /\ ~isTruncate /\ ~isPut /\ ~isTouch
      BY <1>4 DEF Runs, Put
  <2>2. t \in Ls(p)
      BY <2>1, Zenon DEF OperandResults
  <2> QED
      BY <1>1, <1>4, <2>2 DEF Ls, Answer, Result, If, Missing, Runs, Put
<1>5. CASE argv.util \in {"stat"}
  <2>1. /\ isStat /\ ~isCat /\ ~isTail /\ ~isLs /\ ~isRm
        /\ ~isMkdir /\ ~isRmdir /\ ~isCreate /\ ~isTruncate /\ ~isPut /\ ~isTouch
      BY <1>5 DEF Runs, Put
  <2>2. t \in Stat(p)
      BY <2>1, Zenon DEF OperandResults
  <2> QED
      BY <1>1, <1>5, <2>2 DEF Stat, Answer, Result, If, Missing, Runs, Put
<1>6. CASE argv.util \in {"rm", "rm_f"}
  <2>1. /\ isRm /\ ~isCat /\ ~isTail /\ ~isLs /\ ~isStat
        /\ ~isMkdir /\ ~isRmdir /\ ~isCreate /\ ~isTruncate /\ ~isPut /\ ~isTouch
      BY <1>6 DEF Runs, Put
  <2>2. t \in Rm(p)
      BY <2>1, Zenon DEF OperandResults
  <2> QED
      BY <1>1, <1>6, <2>2 DEF Rm, Answer, Result, If, Missing, Runs, Put
<1>7. CASE argv.util \in {"mkdir"}
  <2>1. /\ isMkdir /\ ~isCat /\ ~isTail /\ ~isLs /\ ~isStat
        /\ ~isRm /\ ~isRmdir /\ ~isCreate /\ ~isTruncate /\ ~isPut /\ ~isTouch
      BY <1>7 DEF Runs, Put
  <2>2. t \in Mkdir(p)
      BY <2>1, Zenon DEF OperandResults
  <2> QED
      BY <1>1, <1>7, <2>2 DEF Mkdir, Answer, Result, If, Missing, Runs, Put
<1>8. CASE argv.util \in {"rmdir", "rm_r"}
  <2>1. /\ isRmdir /\ ~isCat /\ ~isTail /\ ~isLs /\ ~isStat
        /\ ~isRm /\ ~isMkdir /\ ~isCreate /\ ~isTruncate /\ ~isPut /\ ~isTouch
      BY <1>8 DEF Runs, Put
  <2>2. t \in Rmdir(p)
      BY <2>1, Zenon DEF OperandResults
  <2> QED
      BY <1>1, <1>8, <2>2 DEF Rmdir, Answer, Result, If, Missing, Runs, Put
<1>9. CASE argv.util \in {"mkdir_r", "rmdir_r"}
  <2>1. /\ isCreate /\ ~isCat /\ ~isTail /\ ~isLs /\ ~isStat
        /\ ~isRm /\ ~isMkdir /\ ~isRmdir /\ ~isTruncate /\ ~isPut /\ ~isTouch
      BY <1>9 DEF Runs, Put
  <2>2. t \in CreatePath(p)
      BY <2>1, Zenon DEF OperandResults
  <2> QED
      BY <1>1, <1>9, <2>2 DEF CreatePath, Answer, Result, If, Missing, Runs, Put
<1>10. CASE argv.util \in {"truncate"}
  <2>1. /\ isTruncate /\ ~isCat /\ ~isTail /\ ~isLs /\ ~isStat
        /\ ~isRm /\ ~isMkdir /\ ~isRmdir /\ ~isCreate /\ ~isPut /\ ~isTouch
      BY <1>10 DEF Runs, Put
  <2>2. t \in Truncate(p)
      BY <2>1, Zenon DEF OperandResults
  <2> QED
      BY <1>1, <1>10, <2>2 DEF Truncate, Answer, Result, If, Missing, Runs, Put
<1>11. CASE argv.util \in Put
  <2>1. /\ isPut /\ ~isCat /\ ~isTail /\ ~isLs /\ ~isStat
        /\ ~isRm /\ ~isMkdir /\ ~isRmdir /\ ~isCreate /\ ~isTruncate /\ ~isTouch
      BY <1>11 DEF Runs, Put
  <2>2. t \in GlusterPut(p)
      BY <2>1, Zenon DEF OperandResults
  <2> QED
      BY <1>1, <1>11, <2>2 DEF GlusterPut, Answer, Result, If, Missing, Runs, Put
<1> QED
    BY <1>2, <1>3, <1>4, <1>5, <1>6, <1>7, <1>8, <1>9, <1>10, <1>11
    DEF OnePath, OnDirectories, Put

(* Where the work is done: the result is that of the work.                 *)
LEMMA OperateResult ==
    ASSUME InvocationInvariant, ResultsMatch, Operate
    PROVE  ResultsMatch'
<1>1. /\ TypeOK /\ pc = "operate" /\ pc' = "fini_dest" /\ argv.util \in OnePath
      /\ UNCHANGED <<argv, mode>> /\ Named(argv.dst) \in Place
      /\ files \in [Place -> Content]
    BY OperandPlaces DEF InvocationInvariant, TypeOK, Operate, Runs, At
<1>2. PICK t \in OperandResults(Named(argv.dst)) :
         files' = [files EXCEPT ![Named(argv.dst)] = t.file] /\ ret' = t.ret
    BY DEF Operate, Target
<1>3. argv.util \notin TwoPaths
    BY <1>1 DEF OnePath, OnDirectories, TwoPaths
<1>4. ASSUME ~InShell, argv.opt # "--help", t.ret # -1
      PROVE  Done'
  <2> DEFINE d == Named(argv.dst)
  <2>1. files'[d] = t.file
      BY <1>1, <1>2
  <2>2. d' = d /\ argv' = argv
      BY <1>1, Zenon DEF Named, VolumeOf, InShell
  <2>3. CASE argv.util # "touch"
    <3>1. argv.util = "ls" => ~MissingOperand(LsOptions)
        BY <1>1, <1>4 DEF ResultsMatch
    <3>2. /\ argv.util \in {"rm", "rm_f", "rm_r", "rmdir"} => t.file = None
          /\ argv.util \in {"cat", "tail", "ls", "stat", "mkdir_r", "rmdir_r"} => t.file # None
          /\ argv.util = "mkdir" => t.file = Directory
          /\ argv.util = "truncate" => t.file = Part
          /\ argv.util \in Put => t.file \in {Stdin, Part}
        BY <1>1, <1>2, <1>4, <2>3, <3>1, OperandSays
    <3>4. Done' = DoneFor(argv'.util, mode', files'[d'], Named(argv.src)')
        BY DEF Done
    <3>3. /\ argv'.util \in {"rm", "rm_f", "rm_r", "rmdir"} => Done' = (files'[d'] = None)
          /\ argv'.util \in {"cat", "tail", "ls", "stat", "mkdir_r", "rmdir_r"} =>
                Done' = (files'[d'] # None)
          /\ argv'.util = "mkdir" => Done' = (files'[d'] = Directory)
          /\ argv'.util = "truncate" => Done' = (files'[d'] = Part)
          /\ argv'.util \in Put => Done' = (files'[d'] \in {Stdin, Part})
        BY <3>4, DoneIs
    <3> HIDE DEF d
    <3> QED
        BY <1>1, <2>1, <2>2, <2>3, <3>2, <3>3 DEF OnePath, OnDirectories, Put
  <2>4. CASE argv.util = "touch"
    <3>1. argv'.util = "touch" => Done'
        BY DoneIs DEF Done
    <3> QED
        BY <1>1, <2>4, <3>1
  <2> QED
      BY <2>3, <2>4
<1>5. InShell' = InShell
    BY <1>1, SameCommand
<1> QED
    BY <1>1, <1>2, <1>3, <1>4, <1>5 DEF ResultsMatch

(* A transfer from a local file has left the data of its source, or a part *)
(* of it: no other transfer's result is relied upon.                       *)
LEMMA TransferResult ==
    ASSUME InvocationInvariant, ResultsMatch, Transfer
    PROVE  ResultsMatch'
<1>1. /\ TypeOK /\ pc = "operate" /\ argv.util \in TwoPaths /\ ~Renames
      /\ UNCHANGED <<argv, mode>> /\ files \in [Place -> Content]
      /\ Named(argv.src) \in Place /\ Named(argv.dst) \in Place
    BY OperandPlaces DEF InvocationInvariant, TypeOK, Transfer, At
<1>2. From = Named(argv.src) /\ To = Named(argv.dst)
    BY <1>1, TransferEnds
<1>3. PICK t \in TransferResults :
         files' = [files EXCEPT ![To] = t.file] /\ ret' = t.ret /\ pc' = AfterTransfer(t.ret)
    BY DEF Transfer
<1>4. pc' \in {"shared", "remove", "fini_dest"} /\ argv.util \notin OnePath
    BY <1>1, TransferDoes, AfterTransferIs DEF OnePath, OnDirectories, TwoPaths
<1>5. ASSUME t.ret # -1
      PROVE  Done'
  <2>1. CASE argv.util = "cp" /\ mode = "LOCAL_TO_REMOTE"
    <3> DEFINE d == Named(argv.dst)
               s == Named(argv.src)
    <3>1. t \in LocalToRemote(From, To)
        BY <2>1, Zenon DEF TransferResults, FromLocal
    <3>2. files[s] \in {s, None}
        BY <1>1, <2>1 DEF ResultsMatch
    <3>3. t.file \in {s, Part}
        BY <1>2, <1>5, <3>1, <3>2 DEF LocalToRemote, Result, If
    <3>4. files'[d] = t.file
        BY <1>1, <1>2, <1>3
    <3>5. d' = d /\ s' = s /\ argv' = argv /\ mode' = mode
        BY <1>1, Zenon DEF Named, VolumeOf, InShell
    <3>7. Done' = DoneFor(argv'.util, mode', files'[d'], s')
        BY DEF Done
    <3>6. argv'.util = "cp" /\ mode' = "LOCAL_TO_REMOTE" => Done' = (files'[d'] \in {s', Part})
        BY <3>7, DoneIs
    <3> HIDE DEF d, s
    <3> QED
        BY <2>1, <3>3, <3>4, <3>5, <3>6
  <2>2. CASE argv.util = "mv" \/ mode # "LOCAL_TO_REMOTE"
    <3>1. argv'.util = "mv" \/ (argv'.util = "cp" /\ mode' # "LOCAL_TO_REMOTE") => Done'
        BY DoneIs DEF Done
    <3> QED
        BY <1>1, <2>2, <3>1 DEF TwoPaths
  <2> QED
      BY <1>1, <2>1, <2>2 DEF TwoPaths
<1> QED
    BY <1>1, <1>3, <1>4, <1>5 DEF ResultsMatch, OnePath

(* Every step keeps what is behind ZeroMeansDone. *)
LEMMA ResultsKept ==
    ASSUME InvocationInvariant, ResultsMatch, [Next]_vars
    PROVE  ResultsMatch'
<1>1. CASE Operate
    BY <1>1, OperateResult
<1>2. CASE Transfer
    BY <1>2, TransferResult
<1>3. CASE Rename \/ RmSource
  <2>1. argv.util = "mv" /\ argv' = argv /\ pc' = "fini_dest"
      BY <1>3, RmSourceDoes DEF Rename, Renames, RmSource, Fail
  <2>2. argv'.util = "mv" => Done'
      BY DoneIs DEF Done
  <2> QED
      BY <2>1, <2>2 DEF ResultsMatch, TwoPaths
<1>4. CASE FiniShared
  <2>1. /\ argv.util = "cp" /\ mode = "REMOTE_TO_REMOTE"
        /\ argv' = argv /\ mode' = mode /\ pc' = "fini_dest"
      BY <1>4 DEF FiniShared, At, InvocationInvariant, PointersMatch
  <2>2. argv'.util = "cp" /\ mode' # "LOCAL_TO_REMOTE" => Done'
      BY DoneIs DEF Done
  <2> QED
      BY <2>1, <2>2 DEF ResultsMatch, TwoPaths
<1>5. CASE FiniDest \/ FiniSource \/ UNCHANGED vars
  <2>1. /\ UNCHANGED <<argv, mode, files, ret>> /\ Done' = Done /\ InShell' = InShell
        /\ MissingOperand(LsOptions)' = MissingOperand(LsOptions)
        /\ pc' = pc \/ (pc \in {"fini_dest", "fini_source"} /\ pc' \in {"fini_source", "end"})
      BY <1>5, SameDone, SameCommand DEF FiniDest, FiniSource, At, vars, MissingOperand, LsOptions,
         OptionTable
  <2> QED
      BY <2>1 DEF ResultsMatch
<1>6. CASE ParseOptions \/ DestGetfs \/ DestOptions \/ Share \/ SourceGetfs \/ SourceOptions
  <2>1. /\ UNCHANGED <<argv, files>> /\ argv.util \in TwoPaths
        /\ pc \in {"parse", "dest", "dest_options", "share", "source", "source_options"}
      BY <1>6 DEF ParseOptions, DestGetfs, DestOptions, Share, SourceGetfs, SourceOptions,
         At, InvocationInvariant, ModeMatches
  <2>2. \/ pc' \notin {"fini_dest", "fini_source", "end"}
        \/ ret' = -1 \/ argv.opt = "--help"
      BY <1>6 DEF ParseOptions, DestGetfs, DestOptions, Share, SourceGetfs, SourceOptions,
         GlusterGetfs, ApplyXlatorOptions, Fail, FirstStep
  <2> QED
      BY <2>1, <2>2 DEF ResultsMatch, TwoPaths
<1>7. CASE ParseOperand \/ Getfs \/ Options \/ SetLogging
  <2>1. UNCHANGED <<argv, files>> /\ argv.util \notin TwoPaths /\ InShell' = InShell
        /\ MissingOperand(LsOptions)' = MissingOperand(LsOptions)
      BY <1>7, SameCommand DEF ParseOperand, Getfs, Options, SetLogging, Runs, TwoPaths, OnePath,
         OnDirectories, Put, MissingOperand, LsOptions, OptionTable, InvocationInvariant,
         ModeMatches, At, ParseCat, ParseTail, ParseRm, ParseMkdir, ParseRmdir, ParseTouch,
         ParseTruncate, ParseLs, ParseStat, ParsePut
  <2>2. \/ pc' \notin {"fini_dest", "fini_source", "end"}
        \/ ret' = -1 \/ argv.opt = "--help"
      BY <1>7 DEF ParseOperand, Getfs, Options, SetLogging, GlusterGetfs, ApplyXlatorOptions, Fail,
         ParseAs, Undefined, ParseCat, ParseTail, ParseRm, ParseMkdir, ParseRmdir, ParseTouch,
         ParseTruncate, ParseLs, ParseStat, ParsePut
  <2>3. ASSUME argv.util = "ls", ~InShell, pc' \in {"dest", "dest_options", "logging", "operate"}
        PROVE  ~MissingOperand(LsOptions)
    <3>1. CASE ParseOperand
      <4>1. ParseAs(Refused(LsOptions))
          BY <2>3, <3>1 DEF ParseOperand, Runs, Put, ParseCat, ParseTail, ParseRm, ParseMkdir,
             ParseRmdir, ParseTouch, ParseTruncate, ParseLs, ParseStat, ParsePut
      <4> QED
          BY <2>3, <4>1 DEF ParseAs, Refused, Fail
    <3>2. CASE Getfs \/ Options \/ SetLogging
      <4>1. pc \in {"dest", "dest_options", "logging"}
          BY <3>2 DEF Getfs, Options, SetLogging, At
      <4> QED
          BY <2>3, <4>1 DEF ResultsMatch
    <3> QED
        BY <1>7, <3>1, <3>2
  <2> QED
      BY <2>1, <2>2, <2>3 DEF ResultsMatch
<1> QED
    BY <1>1, <1>2, <1>3, <1>4, <1>5, <1>6, <1>7 DEF Next, CopyMoveStep, OneFileStep, Ended

(* ResultsMatch holds in every state: a utility that is on its way out     *)
(* with another result than -1 has done what it was for, and a transfer    *)
(* has changed no file before its operation.                               *)
THEOREM ResultsKnown == Spec => []ResultsMatch
<1>1. ASSUME Init
      PROVE  ResultsMatch
  <2>1. ASSUME argv.util \in TwoPaths, NEW p \in Place
        PROVE  files[p] \in {p, None}
    <3>1. PICK src, dst, others, isDir \in BOOLEAN :
             /\ isDir => dst /\ Runs(OnDirectories)
             /\ files = [x \in Place |->
                           IF isDir /\ x = Named(argv.dst) THEN Directory
                           ELSE IF CASE x = Named(argv.dst) -> dst
                                     [] x = Named(argv.src) /\ x # Named(argv.dst) -> src
                                     [] OTHER -> others
                           THEN x ELSE None]
        BY <1>1, Zenon DEF Init
    <3>2. ~isDir
        BY <2>1, <3>1 DEF Runs, OnDirectories, TwoPaths
    <3> QED
        BY <3>1, <3>2, Zenon
  <2>2. pc = "parse"
      BY <1>1 DEF Init
  <2> QED
      BY <2>1, <2>2 DEF ResultsMatch
<1>2. InvocationInvariant /\ ResultsMatch /\ [Next]_vars => ResultsMatch'
    BY ResultsKept
<1> QED
    BY <1>1, <1>2, InvocationSafe, PTL DEF Spec

(* Exit status 0 is for work that was done, by the utilities Done is about,*)
(* whatever the operands and the calls that failed on the way.             *)
THEOREM ZeroIsDone == Spec => []ZeroMeansDone
<1>1. InvocationInvariant /\ ResultsMatch => ZeroMeansDone
    BY DEF ResultsMatch, ZeroMeansDone, At, ExitStatus
<1> QED
    BY <1>1, InvocationSafe, ResultsKnown, PTL
=============================================================================
