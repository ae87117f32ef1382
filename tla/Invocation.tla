----------------------------- MODULE Invocation -----------------------------
(***************************************************************************)
(* Any one command of the utilities, alone or in a connected shell.        *)
(***************************************************************************)
EXTENDS OneFile

(* A file:// operand is only known in the shell, where gfput is not and    *)
(* the operand of a utility that has one is a path.                        *)
CommandLine(a) ==
    /\ a.util \in OnePath => a.src = a.dst
    /\ a.shell = None => a.src.kind # "file" /\ a.dst.kind # "file"
    /\ a.shell # None => a.util \notin Put /\ (a.util \in OnePath => a.dst.kind = "plain")

Init ==
    /\ argv \in Argv /\ CommandLine(argv)
    /\ pc = "parse" /\ mode = "none" /\ ret = -1
    /\ dest = None /\ source = None
    /\ conn = [h \in Handle |->
                  IF h = "shell" /\ InShell
                  THEN [vol |-> argv.shell, state |-> "up", options |-> TRUE, finis |-> 0]
                  ELSE [vol |-> None, state |-> "none", options |-> FALSE, finis |-> 0]]
    /\ \E src, dst, others, isDir \in BOOLEAN :
         /\ isDir => dst /\ Runs(OnDirectories)
         /\ files = [p \in Place |->
                        IF isDir /\ p = Named(argv.dst) THEN Directory
                        ELSE IF CASE p = Named(argv.dst) -> dst
                                  [] p = Named(argv.src) /\ p # Named(argv.dst) -> src
                                  [] OTHER -> others
                        THEN p ELSE None]

Ended == pc \in {"end", "undefined"} /\ UNCHANGED vars

Next == CopyMoveStep \/ OneFileStep \/ FiniDest \/ FiniSource \/ Ended

Spec == Init /\ [][Next]_vars

-----------------------------------------------------------------------------
(* Between two volumes gfmv renames on the destination's alone. *)
MovesAcrossVolumes ==
    argv.util = "mv" /\ Named(argv.src)[1] # Named(argv.dst)[1]
    /\ mode = "REMOTE_TO_REMOTE"

(* The changes a command may make: its destination, to what its source     *)
(* holds or the part of it that got through; and the source of a move,     *)
(* which goes.                                                             *)
NamedChange(p) ==
    \/ /\ p = Named(argv.dst)
       /\ argv.util \in TwoPaths => files'[p] \in {files[Named(argv.src)], Part}
    \/ argv.util = "mv" /\ p = Named(argv.src) /\ files'[p] = None

(* Whatever kinds of operand a command has, with or without a connection   *)
(* of the shell, the mode parse_options arrives at and the connections     *)
(* opened for it lead to the files the operands name, and to no other.     *)
OnlyNamedFilesChange ==
    [][MovesAcrossVolumes \/ \A p \in Place : files'[p] # files[p] => NamedChange(p)]_vars

(* A file changes only when every connection of the command is up, has the *)
(* translator options of the command line, and has not been finalised.     *)
ConnectedBeforeChange ==
    [][files' # files =>
          \A h \in Handle : conn[h].state # "none" =>
              conn[h].state = "up" /\ conn[h].options /\ conn[h].finis = 0]_vars

(* The transfer that fails over a connection which both ends share. *)
FailedShared ==
    argv.util = "cp" /\ mode = "REMOTE_TO_REMOTE" /\ ret = -1 /\ source = "dest"

(* Every way out, early or late, finalises the connections the command has *)
(* opened, once unless gfcp fails over a shared one, and never that of the *)
(* shell.                                                                  *)
ConnectionsReleased ==
    /\ conn["shell"].finis = 0
    /\ \A h \in {"dest", "source"} : conn[h].finis = 2 => FailedShared
    /\ At("end") => \A h \in {"dest", "source"} :
                        conn[h].state # "none" => conn[h].finis > 0

(* What a command that succeeds has done, for those whose result is that   *)
(* of what they do: not a copy from a volume, a move or gftouch.           *)
DoneFor(util, md, now, src) ==
    CASE util \in {"rm", "rm_f", "rm_r", "rmdir"} -> now = None
      [] util \in {"cat", "tail", "ls", "stat", "mkdir_r", "rmdir_r"} -> now # None
      [] util = "mkdir" -> now = Directory
      [] util = "truncate" -> now = Part
      [] util \in Put -> now \in {Stdin, Part}
      [] util = "cp" /\ md = "LOCAL_TO_REMOTE" -> now \in {src, Part}
      [] OTHER -> TRUE
Done == DoneFor(argv.util, mode, files[Named(argv.dst)], Named(argv.src))

(* Exit status 0 is for commands that have done their work: the results of *)
(* parsing, connecting, options and operation all reach it, though each    *)
(* utility has its own chain of gotos and its own idea of ret.             *)
ZeroMeansDone ==
    At("end") /\ ~InShell /\ argv.opt # "--help" /\ ExitStatus = 0 => Done

-----------------------------------------------------------------------------
(* The inductive invariant behind ConnectionsReleased,                     *)
(* ConnectedBeforeChange and OnlyNamedFilesChange.                         *)

(* A pointer leads to an object that was made; source_fs is dest_fs only   *)
(* in a gfcp on one volume, and past the release only if it has failed.    *)
Releasing == pc \in {"fini_dest", "fini_source", "end"}
PointersMatch ==
    /\ dest = "dest" => conn["dest"].state # "none"
    /\ dest = None /\ conn["dest"].state # "none" => Releasing /\ source = None
    /\ source = "source" <=> conn["source"].state # "none"
    /\ source = "dest" => /\ dest = "dest"
                          /\ argv.util = "cp" /\ mode = "REMOTE_TO_REMOTE"
                          /\ argv.src.vol = argv.dst.vol
                          /\ pc \in {"operate", "shared"} \/ (Releasing /\ ret = -1)
    /\ pc \in {"parse", "dest"} => dest = None
    /\ pc \in {"parse", "dest", "dest_options", "share", "source"} => source = None
    /\ pc \in {"dest_options", "share", "logging"} => dest = "dest"
    /\ pc = "source_options" => source = "source"
    /\ pc = "shared" => source = "dest" /\ ret # -1
    /\ argv.util \in OnePath => source = None

(* How often each object has been finalised, at each step. *)
FinisMatch ==
    /\ conn["shell"].finis = 0
    /\ conn["source"].finis =
           IF At("end") /\ conn["source"].state # "none" THEN 1 ELSE 0
    /\ conn["dest"].finis =
           IF conn["dest"].state = "none" THEN 0
           ELSE IF At("end") /\ source = "dest" THEN 2
           ELSE IF pc \in {"end", "fini_source"} \/ dest = None THEN 1 ELSE 0

(* At the step that uses it, a connection is up and has its options. *)
ConnectionsUsable ==
    /\ conn["shell"].vol = argv.shell
    /\ InShell => conn["shell"].state = "up" /\ conn["shell"].options
    /\ ~InShell => conn["shell"].state = "none"
    /\ pc = "dest_options" => conn["dest"].state = "up"
    /\ pc = "source_options" => conn["source"].state = "up"
    /\ pc \in {"share", "source", "source_options", "logging", "operate", "remove"}
       /\ conn["dest"].state # "none" =>
               conn["dest"].state = "up" /\ (conn["dest"].options \/ argv.util = "ls")
    /\ pc \in {"operate", "remove"} /\ conn["source"].state # "none" =>
               conn["source"].state = "up" /\ conn["source"].options

(* The connections are those of the operands, and the mode has the ones it *)
(* needs.                                                                  *)
NeedsDest == mode \in {"LOCAL_TO_REMOTE", "REMOTE_TO_REMOTE", "ESTABLISHED_TO_REMOTE"}
NeedsSource ==
    \/ mode \in {"REMOTE_TO_LOCAL", "REMOTE_TO_ESTABLISHED"}
    \/ mode = "REMOTE_TO_REMOTE" /\ argv.util = "cp"
ModeMatches ==
    /\ CommandLine(argv)
    /\ conn["dest"].state # "none" => conn["dest"].vol = argv.dst.vol
    /\ conn["source"].state # "none" => conn["source"].vol = argv.src.vol
    /\ pc \in {"share", "source", "source_options", "shared", "remove"} =>
           argv.util \in TwoPaths
    /\ pc = "logging" => argv.util \in OnePath
    /\ argv.util \in TwoPaths /\ pc \notin {"parse", "end", "undefined"} =>
           /\ mode = ParsedMode /\ mode # "none"
           /\ pc \in {"dest", "dest_options", "share"} => NeedsDest
           /\ pc = "share" => argv.util = "cp" /\ mode = "REMOTE_TO_REMOTE"
           /\ pc \in {"source", "source_options"} =>
                  NeedsSource /\ (NeedsDest => dest = "dest")
           /\ pc \in {"operate", "remove"} =>
                  (NeedsDest => dest = "dest") /\ (NeedsSource => source # None)
           /\ pc = "remove" => argv.util = "mv" /\ (FromLocal \/ ToLocal)

(* The inductive invariant behind ZeroMeansDone: files are as they were    *)
(* until the work on them, a gfls that works has its operand, and behind   *)
(* the work a result that is not -1 is that of work that was done.         *)
ResultsMatch ==
    /\ pc \in {"fini_dest", "fini_source", "end"} /\ ~InShell /\ argv.opt # "--help"
       /\ ret # -1 => Done
    /\ argv.util = "ls" /\ ~InShell
       /\ pc \in {"dest", "dest_options", "logging", "operate"} => ~MissingOperand(LsOptions)
    /\ argv.util \in TwoPaths
       /\ pc \in {"parse", "dest", "dest_options", "share", "source", "source_options",
                  "operate"} =>
           \A p \in Place : files[p] \in {p, None}

InvocationInvariant ==
    TypeOK /\ PointersMatch /\ FinisMatch /\ ConnectionsUsable /\ ModeMatches

=============================================================================
