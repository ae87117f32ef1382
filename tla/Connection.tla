----------------------------- MODULE Connection -----------------------------
(***************************************************************************)
(* One command, from its command line to its exit status: the libgfapi     *)
(* connections it opens, uses and finalises, and the files it changes.     *)
(* Nothing else runs; what utilities do to each other is in Utilities.     *)
(* A step is a call that can fail.  Memory does not run out.               *)
(***************************************************************************)
EXTENDS Integers, FiniteSets

CONSTANTS
    Host, VolumeName,   \* the two parts of a URL that select a volume
    Path,               \* the paths of files
    DirPath,            \* the paths of directories, which every volume has
    Entry,              \* Entry[d, p]: the base name of p in the directory d
    Local,              \* the local file system
    None,               \* no volume, no connection, no file
    Part,               \* what is left of data that was cut short
    Stdin,              \* the data gfput reads
    Directory,          \* what is at the path of a directory
    LastWrite,          \* what the last write of a transfer may return
    Fault               \* the calls that may fail

Volume == Host \X VolumeName
Place == (Volume \cup {Local}) \X Path
Content ==              \* p: the data that was at p at first
    Place \cup {None, Part, Stdin, Directory}

TwoPaths == {"cp", "mv"}
OnDirectories == {"mkdir", "mkdir_r", "rmdir", "rmdir_r", "rm_r"}
OnePath == {"cat", "tail", "ls", "stat", "rm", "rm_f", "touch", "truncate", "put", "put_f"}
               \cup OnDirectories

(* A command line has one option at most, or one that is refused.          *)
Option == {"none", "-o", "-d", "--port", "--help", "invalid"}
Operand == [kind : {"glfs"}, vol : Volume, path : Path \cup DirPath]
           \cup [kind : {"file", "plain"}, vol : {None}, path : Path \cup DirPath]

Mode == {"none",
         "ESTABLISHED_TO_ESTABLISHED", "ESTABLISHED_TO_LOCAL",
         "ESTABLISHED_TO_REMOTE", "LOCAL_TO_ESTABLISHED", "LOCAL_TO_REMOTE",
         "REMOTE_TO_ESTABLISHED", "REMOTE_TO_LOCAL", "REMOTE_TO_REMOTE"}

Handle == {"shell", "dest", "source"}
PC == {"parse", "dest", "dest_options", "share", "source", "source_options",
       "logging", "operate", "remove", "shared", "fini_dest", "fini_source",
       "end", "undefined"}

ASSUME ConnectionAssumption ==
    /\ None \notin Volume \cup Place \cup Handle \cup {Part, Stdin, Directory}
    /\ Local \notin Volume
    /\ Path \cap DirPath = {}
    /\ Entry \in [DirPath \X Path -> Path]
    /\ LastWrite \subseteq Nat \ {0}
    /\ Fault \subseteq {"getfs", "apply", "logging", "request", "io", "heap"}

VARIABLES
    argv,           \* the command line; argv.shell is the volume of ctx->fs
    pc,
    mode,           \* state->mode of gfcp and gfmv
    ret,
    dest, source,   \* dest_fs and source_fs; dest is fs in the others
    conn,           \* the glfs_t objects: ctx->fs and the command's own
    files

vars == <<argv, pc, mode, ret, dest, source, conn, files>>

Argv == [util : TwoPaths \cup OnePath, shell : Volume \cup {None},
         opt : Option, src : {o \in Operand : o.path \in Path}, dst : Operand]
Glfs == [vol : Volume \cup {None}, state : {"none", "made", "up"},
         options : BOOLEAN, finis : 0..2]

TypeOK ==
    /\ argv \in Argv
    /\ pc \in PC
    /\ mode \in Mode
    /\ ret \in Int
    /\ dest \in {None, "dest"}
    /\ source \in {None, "dest", "source"}
    /\ conn \in [Handle -> Glfs]
    /\ files \in [Place -> Content]

At(l) == pc = l
InShell == argv.shell # None
Fail(l) == pc' = l /\ ret' = -1

-----------------------------------------------------------------------------
(* The place an operand names; in the shell a plain path is on ctx->fs.    *)
(* For a directory it is the entry with the base name of the source.       *)
VolumeOf(o) ==
    CASE o.kind = "glfs" -> o.vol
      [] o.kind = "file" -> Local
      [] o.kind = "plain" -> IF InShell THEN argv.shell ELSE Local
Named(o) ==
    <<VolumeOf(o), IF o.path \in DirPath THEN Entry[o.path, argv.src.path] ELSE o.path>>

(* What parse_options of a utility makes of the one option.                *)
(* option_index, which is only set by a long option and is its place in    *)
(* long_options, is taken for the number of words the options have in      *)
(* argv: argc - option_index < operands + 1.                               *)
OptionTable(port, words, refused) ==
    [port |-> port, words |-> words, refused |-> refused \cup {"invalid"}]
MissingOperand(t) == argv.opt = "--port" /\ t.words < t.port
Refused(t) == argv.opt \in t.refused \/ MissingOperand(t)

-----------------------------------------------------------------------------
GlusterGetfsUnchecked(h, v, next) ==    \* mutant: the result is ignored
    /\ \E s \in {"up", "made"} :
         conn' = [conn EXCEPT ![h] = [vol |-> v, state |-> s,
                                      options |-> FALSE, finis |-> 0]]
    /\ pc' = next /\ ret' = 0

(* gluster_getfs leaves the object behind when it fails. *)
GlusterGetfs(h, v, next) ==
    LET object(s) == [vol |-> v, state |-> s, options |-> FALSE, finis |-> 0]
    IN  \/ /\ conn' = [conn EXCEPT ![h] = object("up")]
           /\ pc' = next /\ ret' = 0
        \/ /\ "getfs" \in Fault
           /\ conn' = [conn EXCEPT ![h] = object("made")]
           /\ Fail("fini_dest")

ApplyXlatorOptions(h, next) ==
    \/ /\ conn' = [conn EXCEPT ![h].options = TRUE]
       /\ pc' = next /\ ret' = 0
    \/ /\ "apply" \in Fault /\ argv.opt = "-o"
       /\ Fail("fini_dest") /\ UNCHANGED conn

FiniDestUnlessFailed ==     \* mutant: only the successful path releases
    /\ At("fini_dest")
    /\ IF dest = None \/ ret = -1 THEN UNCHANGED conn
                      ELSE conn' = [conn EXCEPT ![dest].finis = @ + 1]
    /\ pc' = IF argv.util \in TwoPaths THEN "fini_source" ELSE "end"
    /\ UNCHANGED <<argv, mode, ret, dest, source, files>>

(* out: if (dest_fs) glfs_fini (dest_fs), and then the source's. *)
FiniDest ==
    /\ At("fini_dest")
    /\ IF dest = None THEN UNCHANGED conn
                      ELSE conn' = [conn EXCEPT ![dest].finis = @ + 1]
    /\ pc' = IF argv.util \in TwoPaths THEN "fini_source" ELSE "end"
    /\ UNCHANGED <<argv, mode, ret, dest, source, files>>

FiniSource ==
    /\ At("fini_source")
    /\ IF source = None THEN UNCHANGED conn
                        ELSE conn' = [conn EXCEPT ![source].finis = @ + 1]
    /\ pc' = "end"
    /\ UNCHANGED <<argv, mode, ret, dest, source, files>>

(* main: -1 is EXIT_FAILURE, and exit keeps eight bits of the rest. *)
ExitStatus == IF ret = -1 THEN 1 ELSE ret % 256
=============================================================================
