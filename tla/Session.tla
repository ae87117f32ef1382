------------------------------ MODULE Session -------------------------------
(***************************************************************************)
(* The shell, gfcli: its context (struct cli_context), the commands that   *)
(* change it, and SIGINT, which may arrive between any two steps.  A step  *)
(* that calls into libgfapi ends when the call has taken effect and before *)
(* its result is stored, so that an interrupt can fall in between.         *)
(*                                                                         *)
(* A use of memory that was freed has no defined outcome: the step goes to *)
(* "undefined", where the model says nothing more, and misused records     *)
(* what was used.  Commands that leave the context alone are not steps.    *)
(***************************************************************************)
EXTENDS Integers, Sequences

CONSTANTS
    Conn,       \* the connections gluster_getfs may make, each at most once
    Path,       \* what flock is asked to lock, after format_file_path
    Fault,      \* the calls that may fail
    None

VARIABLES
    ctx,            \* struct cli_context
    conn,           \* each connection: unused, open, finalised, or lost
    call,           \* the command being executed and its locals
    handler,        \* the disposition of SIGINT: cleanup, follow, default
    keep_running,   \* glfs-tail.c
    interrupted,    \* the step at which sig_handler ran, or None
    misused         \* what was used after it was freed, or None

memory == <<ctx, conn>>
signals == <<handler, keep_running, interrupted>>
vars == <<memory, call, signals, misused>>

Command == {"connect", "disconnect", "quit", "flock", "tail", "tail_f",
            "exit", "signal"}
Step == {"prompt", "getfs", "apply", "options", "list", "closing", "fini",
         "forget", "attach", "applied", "quit", "leaving", "lookup", "lock",
         "read", "following", "finish", "exited", "killed", "undefined"}
Stopped == {"exited", "killed", "undefined"}
Resource == {"options", "list", "descriptor", "connection", "context"}

ASSUME SessionAssumption ==
    /\ None \notin Conn \cup Step \cup Resource
    /\ Fault \subseteq {"getfs", "apply", "fini", "malloc", "open", "tail"}

Node == [path : Path, conn : Conn, status : {"open", "closed", "freed"}]
Context ==
    [fs : Conn \cup {None}, conn_str : Conn \cup {None}, flist : Seq(Node),
     xlators : {"none", "live", "freed", "gone"}, freed : BOOLEAN]
Call ==
    [pc : Step, cmd : Command, startup : BOOLEAN, new : Conn \cup {None},
     before : Conn \cup {None}, walk : Nat \ {0}, ret : {0, -1}]

TypeOK ==
    /\ ctx \in Context
    /\ conn \in [Conn -> {"unused", "open", "finalised", "lost"}]
    /\ call \in Call
    /\ handler \in {"cleanup", "follow", "default"}
    /\ keep_running \in BOOLEAN
    /\ interrupted \in Step \cup {None}
    /\ misused \in Resource \cup {None}

(* main and parse_options: with or without translator options, with or     *)
(* without an attempt to connect.  (Whether the URL is looked at depends   *)
(* on option_index, so every combination can be had.)                      *)
Init ==
    /\ \E o \in {"none", "live"} :
         ctx = [fs |-> None, conn_str |-> None, flist |-> << >>,
                xlators |-> o, freed |-> FALSE]
    /\ conn = [c \in Conn |-> "unused"]
    /\ \E s \in BOOLEAN :
         call = [pc |-> IF s THEN "getfs" ELSE "prompt", cmd |-> "connect",
                 startup |-> s, new |-> None, before |-> None, walk |-> 1,
                 ret |-> 0]
    /\ handler = "cleanup"
    /\ keep_running = TRUE
    /\ interrupted = None
    /\ misused = None

At(l) == call.pc = l
Goto(l) == call' = [call EXCEPT !.pc = l]
Cleaning == call.cmd \in {"exit", "signal"}     \* cleanup, not cli_disconnect

Misuse(what) ==
    Goto("undefined") /\ misused' = what /\ UNCHANGED <<memory, signals>>

-----------------------------------------------------------------------------
(* start_shell: a line is typed, or the input ends (exit). *)
FirstStepQuitsAtOnce(k) ==      \* mutant: quit without cli_disconnect
    CASE k = "connect" -> "getfs"
      [] k \in {"disconnect", "exit"} -> "options"
      [] k = "quit" -> "quit"
      [] k = "flock" -> "lookup"
      [] k \in {"tail", "tail_f"} -> "read"

FirstStep(k) ==
    CASE k = "connect" -> "getfs"
      [] k \in {"disconnect", "quit", "exit"} -> "options"
      [] k = "flock" -> "lookup"
      [] k \in {"tail", "tail_f"} -> "read"

Typed(k) ==
    /\ At("prompt")
    /\ call' = [call EXCEPT !.pc = FirstStep(k), !.cmd = k,
                            !.before = ctx.fs, !.ret = 0]
    /\ UNCHANGED <<memory, signals, misused>>

-----------------------------------------------------------------------------
(* cli_connect.  A failure leaves it before anything else is done; at      *)
(* startup parse_options then exits without cleanup.                       *)
ConnectFailed ==
    call' = [call EXCEPT !.pc = IF call.startup THEN "exited" ELSE "prompt",
                         !.new = None]

ParseUrlFails ==
    /\ At("getfs") /\ ConnectFailed
    /\ UNCHANGED <<memory, signals, misused>>

GlusterGetfsIntoContext(c) ==   \* mutant: gluster_getfs (&ctx->fs, url)
    /\ At("getfs") /\ conn[c] = "unused"
    /\ ctx' = [ctx EXCEPT !.fs = c]
    /\ \/ /\ conn' = [conn EXCEPT ![c] = "open"]
          /\ call' = [call EXCEPT !.pc = "apply", !.new = c]
       \/ /\ "getfs" \in Fault
          /\ conn' = [conn EXCEPT ![c] = "lost"]
          /\ ConnectFailed
    /\ UNCHANGED <<signals, misused>>

(* gluster_getfs: on failure *fs is set and nobody finalises it. *)
GlusterGetfs(c) ==
    /\ At("getfs") /\ conn[c] = "unused"
    /\ \/ /\ conn' = [conn EXCEPT ![c] = "open"]
          /\ call' = [call EXCEPT !.pc = "apply", !.new = c]
       \/ /\ "getfs" \in Fault
          /\ conn' = [conn EXCEPT ![c] = "lost"]
          /\ ConnectFailed
    /\ UNCHANGED <<ctx, signals, misused>>

(* apply_xlator_options on the command's own options. *)
ApplyXlatorOptions ==
    /\ At("apply")
    /\ \/ Goto("options") /\ UNCHANGED conn
       \/ /\ "apply" \in Fault
          /\ conn' = [conn EXCEPT ![call.new] = "lost"]
          /\ ConnectFailed
    /\ UNCHANGED <<ctx, signals, misused>>

(* The new connection becomes the session's; without memory for its name   *)
(* the shell quits.                                                        *)
Attach ==
    /\ At("attach")
    /\ \/ /\ ctx' = [ctx EXCEPT !.fs = call.new, !.conn_str = call.new]
          /\ call' = [call EXCEPT !.pc = IF call.startup THEN "applied" ELSE "prompt",
                                  !.new = None]
       \/ /\ "malloc" \in Fault
          /\ ctx' = [ctx EXCEPT !.fs = call.new]
          /\ call' = [call EXCEPT !.pc = "options", !.cmd = "quit", !.new = None]
    /\ UNCHANGED <<conn, signals, misused>>

(* parse_options applies the options of the command line after cli_connect,*)
(* which has freed them in cli_disconnect.                                 *)
StartupOptions ==
    /\ At("applied")
    /\ \/ /\ ctx.xlators = "none"
          /\ call' = [call EXCEPT !.pc = "prompt", !.startup = FALSE]
          /\ UNCHANGED <<memory, signals, misused>>
       \/ ctx.xlators # "none" /\ Misuse("options")

CliConnect ==
    ParseUrlFails \/ (\E c \in Conn : GlusterGetfs(c)) \/ ApplyXlatorOptions
    \/ Attach \/ StartupOptions
-----------------------------------------------------------------------------
(* cli_disconnect, and cleanup, which releases the same things at the end  *)
(* of main and in sig_handler: the translator options, the flock           *)
(* descriptors one by one, the connection.  free_xlator_options leaves the *)
(* pointer it was given; the list of descriptors keeps its nodes.          *)
FreeOptions ==
    /\ At("options") /\ ~ctx.freed /\ ctx.xlators \in {"none", "live"}
    /\ ctx' = [ctx EXCEPT !.xlators = IF Cleaning THEN "gone"
                                      ELSE IF @ = "live" THEN "freed" ELSE @]
    /\ call' = [call EXCEPT !.pc = "list", !.walk = 1]
    /\ UNCHANGED <<conn, signals, misused>>

UseFreedOptions ==
    /\ At("options")
    /\ \/ ctx.freed /\ Misuse("context")
       \/ ~ctx.freed /\ ctx.xlators \in {"freed", "gone"} /\ Misuse("options")

(* One node: glfs_close, then fd = NULL and free. *)
CloseNode ==
    /\ At("list") /\ call.walk <= Len(ctx.flist)
    /\ LET node == ctx.flist[call.walk] IN
         \/ /\ node.status = "open"
            /\ ctx' = [ctx EXCEPT !.flist[call.walk].status = "closed"]
            /\ Goto("closing") /\ UNCHANGED <<conn, signals, misused>>
         \/ node.status = "closed" /\ Misuse("descriptor")
         \/ node.status = "freed" /\ Misuse("list")

FreeNode ==
    /\ At("closing")
    /\ ctx' = [ctx EXCEPT !.flist[call.walk].status = "freed"]
    /\ call' = [call EXCEPT !.pc = "list", !.walk = @ + 1]
    /\ UNCHANGED <<conn, signals, misused>>

EndOfListEarly ==               \* mutant: the last node is not reached
    /\ At("list") /\ call.walk >= Len(ctx.flist)
    /\ Goto(IF ctx.fs = None THEN "forget" ELSE "fini")
    /\ UNCHANGED <<memory, signals, misused>>

EndOfList ==
    /\ At("list") /\ call.walk > Len(ctx.flist)
    /\ Goto(IF ctx.fs = None THEN "forget" ELSE "fini")
    /\ UNCHANGED <<memory, signals, misused>>

(* glfs_fini may report a failure; the connection is gone all the same. *)
Fini ==
    /\ At("fini") /\ conn[ctx.fs] = "open"
    /\ conn' = [conn EXCEPT ![ctx.fs] = "finalised"]
    /\ \E r \in IF "fini" \in Fault THEN {0, -1} ELSE {0} :
         call' = [call EXCEPT !.pc = "forget", !.ret = r]
    /\ UNCHANGED <<ctx, signals, misused>>

UseFinalised == At("fini") /\ conn[ctx.fs] # "open" /\ Misuse("connection")

(* The pointers are cleared and the caller goes on: cli_connect attaches   *)
(* the new connection, or loses it if glfs_fini failed; cleanup frees the  *)
(* context.                                                                *)
AfterReleaseReturns ==          \* mutant: sig_handler does not exit
    CASE call.cmd = "disconnect" -> "prompt"
      [] call.cmd = "connect" -> "attach"
      [] call.cmd = "quit" -> "quit"
      [] call.cmd = "exit" -> "leaving"
      [] call.cmd = "signal" -> "prompt"

AfterRelease ==
    CASE call.cmd = "disconnect" -> "prompt"
      [] call.cmd = "connect" -> "attach"
      [] call.cmd = "quit" -> "quit"
      [] Cleaning -> "leaving"

ForgetKeepsName ==              \* mutant: conn_str is freed but kept
    /\ At("forget")
    /\ ctx' = IF Cleaning THEN [ctx EXCEPT !.fs = None, !.freed = TRUE]
                          ELSE [ctx EXCEPT !.fs = None]
    /\ IF call.cmd = "connect" /\ call.ret = -1
         THEN conn' = [conn EXCEPT ![call.new] = "lost"] /\ ConnectFailed
         ELSE Goto(AfterRelease) /\ UNCHANGED conn
    /\ UNCHANGED <<signals, misused>>

ForgetKeepsFs ==                \* mutant: ctx->fs is kept if glfs_fini failed
    /\ At("forget")
    /\ ctx' = IF Cleaning THEN [ctx EXCEPT !.fs = None, !.freed = TRUE]
                          ELSE [ctx EXCEPT !.conn_str = None,
                                           !.fs = IF call.ret = -1 THEN @ ELSE None]
    /\ IF call.cmd = "connect" /\ call.ret = -1
         THEN conn' = [conn EXCEPT ![call.new] = "lost"] /\ ConnectFailed
         ELSE Goto(AfterRelease) /\ UNCHANGED conn
    /\ UNCHANGED <<signals, misused>>

Forget ==
    /\ At("forget")
    /\ ctx' = IF Cleaning THEN [ctx EXCEPT !.fs = None, !.freed = TRUE]
                          ELSE [ctx EXCEPT !.fs = None, !.conn_str = None]
    /\ IF call.cmd = "connect" /\ call.ret = -1
         THEN conn' = [conn EXCEPT ![call.new] = "lost"] /\ ConnectFailed
         ELSE Goto(AfterRelease) /\ UNCHANGED conn
    /\ UNCHANGED <<signals, misused>>

(* handle_quit after cli_disconnect. *)
FreeContext ==
    /\ At("quit")
    /\ ctx' = [ctx EXCEPT !.xlators = "gone", !.freed = TRUE]
    /\ Goto("leaving")
    /\ UNCHANGED <<conn, signals, misused>>

(* exit: its handlers flush the output. *)
Exit == At("leaving") /\ Goto("exited") /\ UNCHANGED <<memory, signals, misused>>

Release ==
    FreeOptions \/ UseFreedOptions \/ CloseNode \/ FreeNode \/ EndOfList
    \/ Fini \/ UseFinalised \/ Forget \/ FreeContext \/ Exit

-----------------------------------------------------------------------------
(* flock: a path that is in the list keeps its descriptor, any other is    *)
(* opened and appended.  The lock is then asked for on the descriptor.     *)
HoldsAtHead(p) ==               \* mutant: only the first node is compared
    ctx.flist # << >> /\ ctx.flist[1].path = p

Holds(p) == \E i \in DOMAIN ctx.flist : ctx.flist[i].path = p
NodeFor(p) == [path |-> p, conn |-> ctx.fs, status |-> "open"]

QueryFd(p) ==
    /\ At("lookup") /\ Holds(p)
    /\ ctx.flist[1].status = "open"
    /\ Goto("lock") /\ UNCHANGED <<memory, signals, misused>>

QueryFreed ==
    /\ At("lookup") /\ ctx.flist # << >> /\ ctx.flist[1].status = "freed"
    /\ Misuse("list")

OpenAndStore(p) ==
    /\ At("lookup") /\ ~Holds(p)
    /\ ctx.flist # << >> => ctx.flist[1].status = "open"
    /\ \/ /\ ctx' = [ctx EXCEPT !.flist = Append(@, NodeFor(p))]
          /\ Goto("lock")
       \/ "open" \in Fault /\ Goto("prompt") /\ UNCHANGED ctx
    /\ UNCHANGED <<conn, signals, misused>>

(* gluster_lock answers, or blocks for as long as another holds the lock.  *)
LockAnswers == At("lock") /\ Goto("prompt") /\ UNCHANGED <<memory, signals, misused>>

Lookup == (\E p \in Path : QueryFd(p) \/ OpenAndStore(p)) \/ QueryFreed

-----------------------------------------------------------------------------
(* tail: what there is, and with -f what is appended until the interrupt.  *)
(* keep_running is never set again, and the handler that was there before  *)
(* is not put back.                                                        *)
TailRead ==
    /\ At("read")
    /\ \/ call.cmd = "tail" /\ Goto("finish") /\ UNCHANGED handler
       \/ call.cmd = "tail_f" /\ handler' = "follow" /\ Goto("following")
       \/ "tail" \in Fault /\ Goto("finish") /\ UNCHANGED handler
    /\ UNCHANGED <<memory, keep_running, interrupted, misused>>

FollowStopsInverted ==          \* mutant: while (!keep_running)
    /\ At("following") /\ keep_running
    /\ Goto("finish") /\ UNCHANGED <<memory, signals, misused>>

FollowStops ==
    /\ At("following") /\ ~keep_running
    /\ Goto("finish") /\ UNCHANGED <<memory, signals, misused>>

FollowFails ==
    /\ At("following") /\ "tail" \in Fault
    /\ Goto("finish") /\ UNCHANGED <<memory, signals, misused>>

TailFinish ==
    /\ At("finish")
    /\ handler' = "default" /\ Goto("prompt")
    /\ UNCHANGED <<memory, keep_running, interrupted, misused>>

DoTail == TailRead \/ FollowStops \/ TailFinish

-----------------------------------------------------------------------------
(* SIGINT.  sig_handler runs cleanup on whatever it finds, with SIGINT     *)
(* itself held back until it exits.                                        *)
Interrupt ==
    /\ call.pc \notin Stopped /\ call.cmd # "signal"
    /\ \/ /\ handler = "cleanup"
          /\ call' = [call EXCEPT !.pc = "options", !.cmd = "signal"]
          /\ interrupted' = call.pc
          /\ UNCHANGED keep_running
       \/ /\ handler = "follow"
          /\ keep_running' = FALSE
          /\ UNCHANGED <<call, interrupted>>
       \/ /\ handler = "default"
          /\ Goto("killed")
          /\ UNCHANGED <<keep_running, interrupted>>
    /\ UNCHANGED <<memory, handler, misused>>

Ended == call.pc \in Stopped /\ UNCHANGED vars

ShellStep == CliConnect \/ Release \/ Lookup \/ DoTail

Next ==
    ShellStep \/ LockAnswers \/ FollowFails \/ Interrupt \/ Ended
    \/ Typed("connect") \/ Typed("disconnect") \/ Typed("quit")
    \/ (ctx.fs # None /\ Typed("flock"))
    \/ Typed("tail") \/ Typed("tail_f") \/ Typed("exit")

(* The shell runs unless it waits for a line, for a lock of somebody else, *)
(* or for more of the file it follows.                                     *)
Spec == Init /\ [][Next]_vars /\ WF_vars(ShellStep)

-----------------------------------------------------------------------------
(* The prompt names the connection that commands will use, and it is open. *)
PromptTruthful ==
    At("prompt") =>
        /\ ctx.conn_str = ctx.fs
        /\ ctx.fs # None => conn[ctx.fs] = "open"

(* connect takes the old connection down only once the new one is up: a    *)
(* connect that fails leaves the session and its locks, unless the failure *)
(* was in closing the old connection.                                      *)
FailedConnectKeepsSession ==
    At("prompt") /\ call.cmd = "connect" /\ call.ret = 0 /\ call.before # None =>
        \/ /\ ctx.fs = call.before /\ conn[ctx.fs] = "open"
           /\ \A i \in DOMAIN ctx.flist :
                 ctx.flist[i].conn = ctx.fs => ctx.flist[i].status = "open"
        \/ /\ ctx.fs \notin {None, call.before} /\ conn[ctx.fs] = "open"
           /\ conn[call.before] = "finalised"

(* No connection is finalised while a lock descriptor on it is open, by    *)
(* whichever way it is left.                                               *)
DescriptorsCloseFirst ==
    \A i \in DOMAIN ctx.flist :
        ctx.flist[i].status = "open" => conn[ctx.flist[i].conn] = "open"

(* However the process exits, no connection the session ever used is left  *)
(* open: only the one a connect was still setting up can be.               *)
CleanExit ==
    At("exited") => \A c \in Conn : conn[c] = "open" => c = call.new

(* A connection, a descriptor or the context is released twice only when   *)
(* an interrupt fell between a release and the store that records it.      *)
ReleasedTwiceOnlyByInterrupt ==
    /\ misused = "descriptor" => interrupted = "closing"
    /\ misused = "connection" => interrupted = "forget"
    /\ misused = "context" => interrupted = "leaving"

(* A path has one descriptor, so unlocking it unlocks what was locked. *)
OneDescriptorPerPath ==
    \A i, j \in DOMAIN ctx.flist :
        ctx.flist[i].path = ctx.flist[j].path => i = j

(* The shell always comes back to waiting for somebody else, or stops: no  *)
(* command hangs, and an interrupt ends the loop of tail -f.               *)
Waiting ==
    \/ call.pc \in {"prompt", "lock"} \cup Stopped
    \/ At("following") /\ keep_running
CommandsEnd == []<>Waiting

(* sig_handler runs to the exit whatever it interrupted. *)
InterruptEnds == interrupted # None ~> call.pc \in Stopped

(* Why: each step of the shell is to a later statement of its command, or  *)
(* to a later node of the list it releases; connect comes twice through    *)
(* the release if it becomes a quit, and sig_handler has one of its own.   *)
Order == [getfs |-> 9, apply |-> 8, options |-> 7, list |-> 6, closing |-> 6, fini |-> 5,
          forget |-> 4, attach |-> 3, applied |-> 2, quit |-> 2, leaving |-> 1,
          lookup |-> 3, read |-> 3, following |-> 2, finish |-> 1,
          prompt |-> 0, lock |-> 0, exited |-> 0, killed |-> 0, undefined |-> 0]
StatementsLeft(k) == Order[k.pc] + (IF k.cmd = "connect" THEN 8 ELSE 0)
Forward ==
    \/ StatementsLeft(call') < StatementsLeft(call)
    \/ /\ call'.cmd = call.cmd
       /\ call.walk \in DOMAIN ctx.flist /\ Len(ctx'.flist) = Len(ctx.flist)
       /\ \/ At("list") /\ call'.pc = "closing" /\ call'.walk = call.walk
          \/ At("closing") /\ call'.pc = "list" /\ call'.walk = call.walk + 1
StepsGoForward == [][ShellStep => Forward]_vars

(* The inductive invariant behind the safety properties above.  The step   *)
(* and the command go together, and sig_handler runs to its exit.          *)
Releasing == {"options", "list", "closing", "fini", "forget"}
Running == call.pc \notin Stopped /\ call.cmd # "signal"
StepsMatch ==
    /\ call.pc \in {"getfs", "apply", "attach", "applied"} => call.cmd = "connect"
    /\ call.pc \in {"lookup", "lock"} => call.cmd = "flock"
    /\ call.pc \in {"read", "following", "finish"} => call.cmd \in {"tail", "tail_f"}
    /\ call.pc \in Releasing =>
         call.cmd \in {"connect", "disconnect", "quit", "exit", "signal"}
    /\ At("prompt") =>
         ~call.startup /\ call.cmd \in {"connect", "disconnect", "flock", "tail", "tail_f"}
    /\ At("quit") => call.cmd = "quit"
    /\ At("leaving") => call.cmd \in {"quit", "exit", "signal"}
    /\ call.cmd = "signal" => call.pc \in Releasing \cup {"leaving"} \cup Stopped
    /\ interrupted # None <=> call.cmd = "signal"
    /\ call.startup => call.cmd \in {"connect", "quit", "signal"}

(* Only what the context names, or a connect is setting up, is open. *)
ConnectionsOwned ==
    /\ \A c \in Conn : conn[c] = "open" => c \in {ctx.fs, call.new}
    /\ ctx.fs # None /\ conn[ctx.fs] # "open" =>
         /\ conn[ctx.fs] = "finalised"
         /\ At("forget") \/ At("killed") \/ interrupted = "forget"
    /\ call.new # None => conn[call.new] = "open" /\ call.new # ctx.fs
    /\ Running =>
         (call.new # None <=>
            call.cmd = "connect" /\ call.pc \in {"apply", "attach"} \cup Releasing)
    /\ At("fini") => ctx.fs # None
    /\ At("forget") /\ ctx.fs # None => conn[ctx.fs] = "finalised"
    /\ call.pc \in {"attach", "quit", "leaving", "exited"} => ctx.fs = None
    /\ call.pc \in {"getfs", "apply"} /\ call.startup => ctx.fs = None

Named ==
    Running /\ call.cmd \notin {"quit", "exit"} /\ ~At("forget") =>
        ctx.conn_str = ctx.fs

(* Open descriptors are the session's, and those behind the release are    *)
(* not open.                                                               *)
Descriptors ==
    /\ \A i \in DOMAIN ctx.flist :
         LET node == ctx.flist[i] IN
           /\ node.status = "open" =>
                /\ node.conn = ctx.fs /\ ctx.fs # None /\ conn[ctx.fs] = "open"
                /\ ~(call.pc \in {"list", "closing"} /\ i < call.walk)
                /\ call.pc \notin {"fini", "forget"}
           /\ node.status = "closed" =>
                (At("closing") /\ i = call.walk) \/ At("killed") \/ interrupted = "closing"
    /\ At("closing") => call.walk \in DOMAIN ctx.flist
    /\ At("closing") => ctx.flist[call.walk].status = "closed"
    /\ At("lookup") => ctx.fs # None

FreedLast == ctx.freed => call.pc \in {"leaving"} \cup Stopped \/ interrupted = "leaving"

SessionInvariant ==
    /\ TypeOK /\ StepsMatch /\ ConnectionsOwned /\ Named /\ Descriptors
    /\ FreedLast /\ OneDescriptorPerPath /\ ReleasedTwiceOnlyByInterrupt

(* The inductive invariant behind FailedConnectKeepsSession: a connect     *)
(* keeps the old connection until it forgets it, which is then finalised,  *)
(* and the descriptors of the session's connection are open but while they *)
(* are being released.                                                     *)
Lists == {"list", "closing", "fini", "forget"}
ConnectMatches ==
    /\ \A i \in DOMAIN ctx.flist :
         LET node == ctx.flist[i] IN
           /\ conn[node.conn] # "unused" /\ node.conn # call.new
           /\ Running /\ call.pc \notin Lists /\ node.conn = ctx.fs => node.status = "open"
    /\ call.startup => call.before = None
    /\ At("applied") => call.startup
    /\ Running /\ call.cmd = "connect" /\ call.before # None =>
         /\ call.pc \in {"getfs", "apply", "options"} \cup Lists => ctx.fs = call.before
         /\ At("attach") => conn[call.before] = "finalised"
         /\ At("prompt") /\ call.ret = 0 =>
              \/ ctx.fs = call.before
              \/ ctx.fs \notin {None, call.before} /\ conn[call.before] = "finalised"

(* Each node of the list of descriptors is released once ("Traverse        *)
(* fd_list and cleanup each entry").                                       *)
ListReleasedOnce == misused # "list"
=============================================================================
