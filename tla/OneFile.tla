------------------------------ MODULE OneFile ------------------------------
(***************************************************************************)
(* The utilities with one operand: gfcat, gftail, gfls, gfstat, gfrm (rm_f *)
(* with -f, rm_r with -r), gfmkdir and gfrmdir (mkdir_r, rmdir_r with -r), *)
(* gftouch, gftruncate, and gfput (put_f with -f), which has a main of its *)
(* own.  The operand is argv.dst, the connection dest.  As in CopyMove,    *)
(* the work on the file is one step and data is not empty.                 *)
(***************************************************************************)
EXTENDS CopyMove

Runs(u) == argv.util \in u
Put == {"put", "put_f"}

(* parse_options: in the shell the operand is a path of ctx->fs, otherwise *)
(* it must be a URL.                                                       *)
ParseAs(refused) ==
    IF argv.opt = "--help" THEN ret' = (IF InShell THEN -2 ELSE 0) /\ pc' = "end"
    ELSE IF refused \/ (~InShell /\ argv.dst.kind # "glfs") THEN Fail("end")
    ELSE ret' = 0 /\ pc' = IF InShell THEN "operate" ELSE "dest"

Words ==                                \* -f and -r are words, too
    IF Runs({"rm_f", "rm_r", "put_f", "mkdir_r", "rmdir_r"}) THEN 3 ELSE 2
Undefined == pc' = "undefined" /\ UNCHANGED ret

ParseCat == Runs({"cat"}) /\ ParseAs(Refused(OptionTable(2, 2, {})))
ParseTail == Runs({"tail"}) /\ ParseAs(Refused(OptionTable(6, 2, {})))
ParseRm == Runs({"rm", "rm_f", "rm_r"}) /\ ParseAs(Refused(OptionTable(3, Words, {"-d"})))
ParseMkdir == Runs({"mkdir", "mkdir_r"}) /\ ParseAs(Refused(OptionTable(3, Words, {})))
ParseRmdir == Runs({"rmdir", "rmdir_r"}) /\ ParseAs(Refused(OptionTable(3, Words, {})))
ParseTouch == Runs({"touch"}) /\ ParseAs(Refused(OptionTable(3, 2, {})))

(* --size and its number are two more words. *)
ParseTruncate == Runs({"truncate"}) /\ ParseAs(Refused(OptionTable(3, 4, {})))

(* gfls has no translator options.  In the shell it does without an        *)
(* operand, and lists the current directory.                               *)
LsOptions == OptionTable(4, 2, {"-o"})
ParseLs ==
    /\ Runs({"ls"})
    /\ ParseAs(IF InShell THEN argv.opt \in LsOptions.refused ELSE Refused(LsOptions))

(* The long option of gfstat has no argument, and strtoport reads it. *)
ParseStat ==
    /\ Runs({"stat"})
    /\ IF argv.opt = "--port" THEN Undefined
       ELSE ParseAs(Refused(OptionTable(3, 2, {"-d"})))

(* The list that -o appends to is never initialised. *)
ParsePut ==
    /\ Runs(Put)
    /\ \/ ParseAs(Refused(OptionTable(5, Words, {})))
       \/ argv.opt = "-o" /\ "heap" \in Fault /\ Undefined

ParseOperand ==
    /\ At("parse")
    /\ \/ ParseCat \/ ParseTail \/ ParseRm \/ ParseMkdir \/ ParseRmdir
       \/ ParseTouch \/ ParseTruncate \/ ParseLs \/ ParseStat \/ ParsePut
    /\ UNCHANGED <<argv, mode, dest, source, conn, files>>

(* cat_without_context, rm_without_context and so on, and main of gfput. *)
Getfs ==
    /\ At("dest") /\ Runs(OnePath)
    /\ dest' = "dest"
    /\ GlusterGetfs("dest", argv.dst.vol,
                    IF Runs({"ls"}) THEN "logging" ELSE "dest_options")
    /\ UNCHANGED <<argv, mode, source, files>>

(* gfput applies its list whatever it holds. *)
Options ==
    /\ At("dest_options") /\ Runs(OnePath)
    /\ \/ ApplyXlatorOptions("dest", "logging")
       \/ Runs(Put) /\ "heap" \in Fault /\ Undefined /\ UNCHANGED conn
    /\ UNCHANGED <<argv, mode, dest, source, files>>

SetLogging ==
    /\ At("logging")
    /\ \/ pc' = "operate" /\ UNCHANGED ret
       \/ argv.opt = "-d" /\ "logging" \in Fault /\ Fail("fini_dest")
    /\ UNCHANGED <<argv, mode, dest, source, conn, files>>

-----------------------------------------------------------------------------
(* The file the utility works on. *)
Target == Named(argv.dst)
Answer(r, p) == {Result(r, files[p])}
Missing(p) == files[p] = None

(* gluster_get of gfcat: it sets ret to 0 when gluster_read returned       *)
(* anything but -1, as it does after a failed read, too.                   *)
GlusterGet(p) ==
    IF Missing(p) THEN Answer(-1, p)
    ELSE Answer(0, p)
         \cup If("request", Answer(-1, p))
         \cup If("io", Answer(-1, p) \cup Answer(0, p))

(* tail of gftail, without -f: its result is what the last write returned, *)
(* and a read that fails only ends the copy.                               *)
Tail(p) ==
    IF Missing(p) THEN Answer(-1, p)
    ELSE {Result(k, files[p]) : k \in LastWrite \cup {0}}
         \cup If("request", Answer(-1, p)) \cup If("io", Answer(-1, p))

(* do_stat *)
Stat(p) ==
    IF Missing(p) THEN Answer(-1, p)
    ELSE Answer(0, p) \cup If("request", Answer(-1, p))

(* do_ls: with --port in the shell it is the current directory that is     *)
(* listed.                                                                 *)
Ls(p) ==
    IF Missing(p) /\ ~MissingOperand(LsOptions) THEN Answer(-1, p)
    ELSE Answer(0, p) \cup If("request", Answer(-1, p))

RmIgnoringAll(p) ==         \* mutant: -f ignores every error, not only ENOENT
    IF Missing(p) THEN Answer(IF Runs({"rm_f"}) THEN 0 ELSE -1, p)
    ELSE {Result(0, None)}
         \cup If("request", Answer(IF Runs({"rm_f"}) THEN 0 ELSE -1, p))

Rm(p) ==
    IF Missing(p) THEN Answer(IF Runs({"rm_f"}) THEN 0 ELSE -1, p)
    ELSE {Result(0, None)} \cup If("request", Answer(-1, p))

(* mkdir_with_fs and rmdir_with_fs, and rm of a directory. *)
Mkdir(p) ==
    IF Missing(p) THEN {Result(0, Directory)} \cup If("request", Answer(-1, p))
    ELSE Answer(-1, p)

Rmdir(p) ==
    IF files[p] = Directory THEN {Result(0, None)} \cup If("request", Answer(-1, p))
    ELSE Answer(-1, p)

(* gluster_create_path, which gfmkdir -r and gfrmdir -r both call.  What is *)
(* there, of any kind, is a success.  The shell gives the path as it was    *)
(* typed, and without a slash at its end the last component is left out.    *)
CreatePath(p) ==
    {Result(0, IF Missing(p) THEN Directory ELSE files[p])}
    \cup (IF InShell THEN Answer(0, p) ELSE {})
    \cup If("request", Answer(-1, p))

(* touch_with_fs returns a variable it has not set. *)
TouchWithFs(p) ==
    UNION { {Result(r, Created(p))} \cup If("request", Answer(r, p)) : r \in {-1, 0, 1} }

(* The file is created if it cannot be found, locked and unlocked, and     *)
(* truncated.                                                              *)
Truncate(p) ==
    {Result(0, Part)} \cup If("request", Answer(-1, p) \cup {Result(-1, Created(p))})

(* gluster_put, on the data of standard input.  Any failure of glfs_lstat  *)
(* is taken for a missing file.                                            *)
GlusterPut(p) ==
    LET refused == ~Missing(p) /\ Runs({"put"})
    IN  (IF refused THEN Answer(-1, p) ELSE {})
        \cup IF refused /\ "request" \notin Fault THEN {}
             ELSE {Result(0, Stdin)}
                  \cup If("request", Answer(-1, p) \cup {Result(-1, Created(p))})
                  \cup If("io", {Result(0, Part)})

OperandResults(p) ==
    CASE Runs({"cat"}) -> GlusterGet(p)
      [] Runs({"tail"}) -> Tail(p)
      [] Runs({"ls"}) -> Ls(p)
      [] Runs({"stat"}) -> Stat(p)
      [] Runs({"rm", "rm_f"}) -> Rm(p)
      [] Runs({"mkdir"}) -> Mkdir(p)
      [] Runs({"rmdir", "rm_r"}) -> Rmdir(p)
      [] Runs({"mkdir_r", "rmdir_r"}) -> CreatePath(p)
      [] Runs({"touch"}) -> TouchWithFs(p)
      [] Runs({"truncate"}) -> Truncate(p)
      [] Runs(Put) -> GlusterPut(p)

Operate ==
    /\ At("operate") /\ Runs(OnePath)
    /\ \E t \in OperandResults(Target) :
         /\ files' = [files EXCEPT ![Target] = t.file]
         /\ ret' = t.ret
    /\ pc' = "fini_dest"
    /\ UNCHANGED <<argv, mode, dest, source, conn>>

OneFileStep == ParseOperand \/ Getfs \/ Options \/ SetLogging \/ Operate
=============================================================================
