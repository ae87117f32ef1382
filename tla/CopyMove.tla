------------------------------ MODULE CopyMove ------------------------------
(***************************************************************************)
(* gfcp and gfmv: which ends a transfer has, the connections it needs, and *)
(* what is done over them.  A transfer is one step here, with the outcomes *)
(* that module Cp has call by call; a source holds data, and is at least   *)
(* as long as what its destination held.                                   *)
(***************************************************************************)
EXTENDS Connection

(* parse_options with a connection: a guess from the source, which the     *)
(* destination then corrects.                                              *)
GuessMode(s) ==
    CASE s.kind = "glfs" -> "REMOTE_TO_ESTABLISHED"
      [] s.kind = "file" -> "LOCAL_TO_ESTABLISHED"
      [] s.kind = "plain" -> "ESTABLISHED_TO_REMOTE"

CorrectModeDestOnly(m, d) ==    \* mutant: the guess is kept for file:// too
    CASE d.kind = "plain" /\ m = "ESTABLISHED_TO_REMOTE" -> "ESTABLISHED_TO_ESTABLISHED"
      [] d.kind = "file" /\ m = "REMOTE_TO_ESTABLISHED" -> "REMOTE_TO_LOCAL"
      [] d.kind = "glfs" /\ m = "REMOTE_TO_ESTABLISHED" -> "REMOTE_TO_REMOTE"
      [] d.kind = "glfs" /\ m = "LOCAL_TO_ESTABLISHED" -> "LOCAL_TO_REMOTE"
      [] OTHER -> m

CorrectMode(m, d) ==
    CASE d.kind = "plain" ->
           IF m = "ESTABLISHED_TO_REMOTE" THEN "ESTABLISHED_TO_ESTABLISHED" ELSE m
      [] d.kind = "file" ->
           (CASE m = "REMOTE_TO_ESTABLISHED" -> "REMOTE_TO_LOCAL"
              [] m = "ESTABLISHED_TO_REMOTE" -> "ESTABLISHED_TO_LOCAL"
              [] OTHER -> "none")           \* unknown transfer mode
      [] d.kind = "glfs" ->
           (CASE m = "REMOTE_TO_ESTABLISHED" -> "REMOTE_TO_REMOTE"
              [] m = "LOCAL_TO_ESTABLISHED" -> "LOCAL_TO_REMOTE"
              [] OTHER -> m)

(* Without one: what is no glfs:// URL is local.  Two local ends are an    *)
(* error.                                                                  *)
ModeAlone(s, d) ==
    CASE s.kind = "glfs" /\ d.kind = "glfs" -> "REMOTE_TO_REMOTE"
      [] s.kind = "glfs" /\ d.kind # "glfs" -> "REMOTE_TO_LOCAL"
      [] s.kind # "glfs" /\ d.kind = "glfs" -> "LOCAL_TO_REMOTE"
      [] OTHER -> "none"

ParsedMode ==
    IF InShell THEN CorrectMode(GuessMode(argv.src), argv.dst)
               ELSE ModeAlone(argv.src, argv.dst)

(* The first connection a mode opens; the ESTABLISHED modes without REMOTE *)
(* open none.                                                              *)
FirstStep(m) ==
    CASE m \in {"LOCAL_TO_REMOTE", "REMOTE_TO_REMOTE", "ESTABLISHED_TO_REMOTE"} -> "dest"
      [] m \in {"REMOTE_TO_LOCAL", "REMOTE_TO_ESTABLISHED"} -> "source"
      [] OTHER -> "operate"

(* The same function in both utilities; "-d" is missing from their short   *)
(* options.  do_cp, do_mv: -2, for --help, is success unless there is a    *)
(* connection.                                                             *)
ParseOptions ==
    /\ At("parse") /\ argv.util \in TwoPaths
    /\ IF argv.opt = "--help"
       THEN ret' = (IF InShell THEN -2 ELSE 0) /\ pc' = "end" /\ UNCHANGED mode
       ELSE IF Refused(OptionTable(2, 2, {"-d"})) \/ argv.src = argv.dst \/ ParsedMode = "none"
       THEN Fail("end") /\ UNCHANGED mode
       ELSE mode' = ParsedMode /\ ret' = 0 /\ pc' = FirstStep(ParsedMode)
    /\ UNCHANGED <<argv, dest, source, conn, files>>

-----------------------------------------------------------------------------
DestGetfs ==
    /\ At("dest") /\ argv.util \in TwoPaths
    /\ dest' = "dest"
    /\ GlusterGetfs("dest", argv.dst.vol, "dest_options")
    /\ UNCHANGED <<argv, mode, source, files>>

(* gfmv between two URLs uses the destination's connection only. *)
DestOptions ==
    /\ At("dest_options") /\ argv.util \in TwoPaths
    /\ ApplyXlatorOptions("dest", IF mode = "REMOTE_TO_REMOTE" /\ argv.util = "cp"
                                  THEN "share" ELSE "operate")
    /\ UNCHANGED <<argv, mode, dest, source, files>>

SameVolumeNameOnly(s, d) == s[2] = d[2]     \* mutant: hosts are not compared

(* strcmp of the hosts and of the volume names. *)
SameVolume(s, d) == s[1] = d[1] /\ s[2] = d[2]

Share ==
    /\ At("share")
    /\ IF SameVolume(argv.src.vol, argv.dst.vol)
       THEN source' = dest /\ pc' = "operate" /\ ret' = 0
       ELSE pc' = "source" /\ UNCHANGED <<source, ret>>
    /\ UNCHANGED <<argv, mode, dest, conn, files>>

SourceGetfs ==
    /\ At("source")
    /\ source' = "source"
    /\ GlusterGetfs("source", argv.src.vol, "source_options")
    /\ UNCHANGED <<argv, mode, dest, files>>

SourceOptions ==
    /\ At("source_options")
    /\ ApplyXlatorOptions("source", "operate")
    /\ UNCHANGED <<argv, mode, dest, source, files>>

-----------------------------------------------------------------------------
(* Where the transfer functions read and write: the path of the operand,   *)
(* on the connection they are given.  complete_path makes the destination  *)
(* of a directory.                                                         *)
IntoDirectory == argv.dst.path \in DirPath
CompletePath == IF IntoDirectory THEN Entry[argv.dst.path, argv.src.path] ELSE argv.dst.path
FromLocal == mode \in {"LOCAL_TO_REMOTE", "LOCAL_TO_ESTABLISHED"}
ToLocal == mode \in {"REMOTE_TO_LOCAL", "ESTABLISHED_TO_LOCAL"}
FromHandle ==
    IF mode \in {"ESTABLISHED_TO_ESTABLISHED", "ESTABLISHED_TO_LOCAL",
                 "ESTABLISHED_TO_REMOTE"} THEN "shell" ELSE source
ToHandle ==
    IF mode \in {"ESTABLISHED_TO_ESTABLISHED", "LOCAL_TO_ESTABLISHED",
                 "REMOTE_TO_ESTABLISHED"} THEN "shell" ELSE dest
From == <<IF FromLocal THEN Local ELSE conn[FromHandle].vol, argv.src.path>>
To == <<IF ToLocal THEN Local ELSE conn[ToHandle].vol, CompletePath>>

Result(r, c) == [ret |-> r, file |-> c]
Created(p) == IF files[p] = None THEN Part ELSE files[p]
StatResult(to) == IF files[to] = None /\ ~IntoDirectory THEN -1 ELSE 0
If(f, results) == IF f \in Fault THEN results ELSE {}

(* The destination is created before the lock is asked for.  An error in   *)
(* the copy loop is not told from success.                                 *)
LocalToRemote(from, to) ==
    IF files[from] = None THEN {Result(-1, files[to])}
    ELSE {Result(0, files[from])}
         \cup If("request", {Result(-1, files[to]), Result(-1, Created(to))})
         \cup If("io", {Result(0, Part)})

(* ret starts as stat (local_path), stays so when a file cannot be opened, *)
(* and ends as what the last write returned.                               *)
RemoteToLocal(from, to) ==
    LET stat == StatResult(to)
    IN  IF files[from] = None THEN {Result(stat, files[to])}
        ELSE {Result(k, files[from]) : k \in LastWrite}
             \cup If("request", {Result(stat, files[to]), Result(-1, files[to]),
                                 Result(-1, Created(to))})
             \cup If("io", {Result(-1, Part), Result(0, Created(to))}
                           \cup {Result(k, Part) : k \in LastWrite})

(* The same, with glfs_lstat of the destination, and no lock.  A file that *)
(* is copied onto itself keeps its data.                                   *)
RemoteToRemote(from, to) ==
    LET stat == StatResult(to)
    IN  IF files[from] = None THEN {Result(stat, files[to])}
        ELSE {Result(k, files[from]) : k \in LastWrite}
             \cup If("request", {Result(stat, files[to]), Result(-1, files[to])})
             \cup If("io", {Result(-1, Created(to)),
                            Result(-1, IF from = to THEN files[to] ELSE Part)})

TransferResults ==
    IF FromLocal THEN LocalToRemote(From, To)
    ELSE IF ToLocal THEN RemoteToLocal(From, To)
    ELSE RemoteToRemote(From, To)

(* gfmv renames between two paths of ctx->fs, and between any two URLs.    *)
Renames == argv.util = "mv"
           /\ mode \in {"ESTABLISHED_TO_ESTABLISHED", "REMOTE_TO_REMOTE"}

(* gfcp finalises a connection that both ends share as soon as it has      *)
(* succeeded; gfmv removes a source after a transfer from or to a local    *)
(* file, whatever the transfer returned.                                   *)
AfterTransfer(r) ==
    CASE argv.util = "cp" /\ mode = "REMOTE_TO_REMOTE" /\ r # -1 /\ dest = source -> "shared"
      [] argv.util = "mv" /\ (FromLocal \/ ToLocal) -> "remove"
      [] OTHER -> "fini_dest"

Transfer ==
    /\ At("operate") /\ argv.util \in TwoPaths /\ ~Renames
    /\ \E t \in TransferResults :
         /\ files' = [files EXCEPT ![To] = t.file]
         /\ ret' = t.ret
         /\ pc' = AfterTransfer(t.ret)
    /\ UNCHANGED <<argv, mode, dest, source, conn>>

(* glfs_rename (fs, source path, dest path): both on one connection.  The  *)
(* path of a directory is not completed, and no file can be renamed to it. *)
Rename ==
    /\ At("operate") /\ Renames
    /\ LET old == <<conn[ToHandle].vol, argv.src.path>>
           new == <<conn[ToHandle].vol, argv.dst.path>>
       IN  \/ /\ files[old] # None /\ ~IntoDirectory
              /\ files' = IF old = new THEN files
                          ELSE [files EXCEPT ![new] = files[old], ![old] = None]
              /\ ret' = 0 /\ pc' = "fini_dest"
           \/ /\ files[old] = None \/ IntoDirectory \/ "request" \in Fault
              /\ Fail("fini_dest") /\ UNCHANGED files
    /\ UNCHANGED <<argv, mode, dest, source, conn>>

(* rm_local, rm_remote. *)
RmSource ==
    /\ At("remove")
    /\ \/ /\ files[From] # None
          /\ files' = [files EXCEPT ![From] = None]
          /\ ret' = 0 /\ pc' = "fini_dest"
       \/ /\ files[From] = None \/ "request" \in Fault
          /\ Fail("fini_dest") /\ UNCHANGED files
    /\ UNCHANGED <<argv, mode, dest, source, conn>>

FiniShared ==
    /\ At("shared")
    /\ conn' = [conn EXCEPT ![dest].finis = @ + 1]
    /\ dest' = None /\ source' = None
    /\ pc' = "fini_dest"
    /\ UNCHANGED <<argv, mode, ret, files>>

CopyMoveStep ==
    \/ ParseOptions \/ DestGetfs \/ DestOptions
    \/ Share \/ SourceGetfs \/ SourceOptions
    \/ Transfer \/ Rename \/ RmSource
    \/ FiniShared
=============================================================================
