---------------------------- MODULE SessionProofs ----------------------------
(***************************************************************************)
(* The safety of the shell session, for any connections, paths and failing *)
(* calls: SessionInvariant is inductive.  One lemma per action of Session; *)
(* in each, the types come first, then what does not mention the list of   *)
(* descriptors, then the list.  ConnectMatches and StepsGoForward follow.  *)
(***************************************************************************)
EXTENDS Session, TLAPS

USE DEF At, Goto, memory, signals, Stopped, Running, Releasing

(* Options freed before are used: the outcome is undefined, the state kept. *)
LEMMA UseFreedOptionsKeeps ==
    ASSUME SessionInvariant, UseFreedOptions
    PROVE  SessionInvariant'
<1>1. TypeOK'
  BY SMTT(20) DEF SessionInvariant, TypeOK, UseFreedOptions, Misuse, Call, Step, Resource
<1>2. (StepsMatch /\ ConnectionsOwned /\ Named /\ FreedLast /\ ReleasedTwiceOnlyByInterrupt)'
  BY SessionAssumption, SMTT(20) DEF SessionInvariant, TypeOK, StepsMatch,
                                     ConnectionsOwned, Named, Descriptors, FreedLast,
                                     OneDescriptorPerPath, ReleasedTwiceOnlyByInterrupt,
                                     UseFreedOptions, Misuse, Call, Cleaning, Step
<1>3. (Descriptors /\ OneDescriptorPerPath)'
  BY SessionAssumption, SMTT(20) DEF SessionInvariant, TypeOK, StepsMatch,
                                     ConnectionsOwned, Named, Descriptors, FreedLast,
                                     OneDescriptorPerPath, ReleasedTwiceOnlyByInterrupt,
                                     UseFreedOptions, Misuse, Call, Cleaning, Step
<1> QED BY <1>1, <1>2, <1>3 DEF SessionInvariant

(* Every node has been visited, so no descriptor is open. *)
LEMMA EndOfListKeeps ==
    ASSUME SessionInvariant, EndOfList
    PROVE  SessionInvariant'
<1>1. TypeOK'
  BY SMTT(20) DEF SessionInvariant, TypeOK, EndOfList, Misuse, Call, Step, Resource
<1>2. (StepsMatch /\ ConnectionsOwned /\ Named /\ FreedLast /\ ReleasedTwiceOnlyByInterrupt)'
  BY SessionAssumption, SMTT(20) DEF SessionInvariant, TypeOK, StepsMatch,
                                     ConnectionsOwned, Named, Descriptors, FreedLast,
                                     OneDescriptorPerPath, ReleasedTwiceOnlyByInterrupt,
                                     EndOfList, Misuse, Call, Cleaning, Step
<1>3. (Descriptors /\ OneDescriptorPerPath)'
  BY SessionAssumption, SMTT(20) DEF SessionInvariant, TypeOK, StepsMatch,
                                     ConnectionsOwned, Named, Descriptors, FreedLast,
                                     OneDescriptorPerPath, ReleasedTwiceOnlyByInterrupt,
                                     EndOfList, Misuse, Call, Cleaning, Step
<1> QED BY <1>1, <1>2, <1>3 DEF SessionInvariant

(* Only an interrupt inside glfs_fini leads here. *)
LEMMA UseFinalisedKeeps ==
    ASSUME SessionInvariant, UseFinalised
    PROVE  SessionInvariant'
<1>1. TypeOK'
  BY SMTT(20) DEF SessionInvariant, TypeOK, UseFinalised, Misuse, Call, Step, Resource
<1>2. (StepsMatch /\ ConnectionsOwned /\ Named /\ FreedLast /\ ReleasedTwiceOnlyByInterrupt)'
  BY SessionAssumption, SMTT(20) DEF SessionInvariant, TypeOK, StepsMatch,
                                     ConnectionsOwned, Named, Descriptors, FreedLast,
                                     OneDescriptorPerPath, ReleasedTwiceOnlyByInterrupt,
                                     UseFinalised, Misuse, Call, Cleaning, Step
<1>3. (Descriptors /\ OneDescriptorPerPath)'
  BY SessionAssumption, SMTT(20) DEF SessionInvariant, TypeOK, StepsMatch,
                                     ConnectionsOwned, Named, Descriptors, FreedLast,
                                     OneDescriptorPerPath, ReleasedTwiceOnlyByInterrupt,
                                     UseFinalised, Misuse, Call, Cleaning, Step
<1> QED BY <1>1, <1>2, <1>3 DEF SessionInvariant

(* The exit leaves no connection in the context. *)
LEMMA ExitKeeps ==
    ASSUME SessionInvariant, Exit
    PROVE  SessionInvariant'
<1>1. TypeOK'
  BY SMTT(20) DEF SessionInvariant, TypeOK, Exit, Misuse, Call, Step, Resource
<1>2. (StepsMatch /\ ConnectionsOwned /\ Named /\ FreedLast /\ ReleasedTwiceOnlyByInterrupt)'
  BY SessionAssumption, SMTT(20) DEF SessionInvariant, TypeOK, StepsMatch,
                                     ConnectionsOwned, Named, Descriptors, FreedLast,
                                     OneDescriptorPerPath, ReleasedTwiceOnlyByInterrupt,
                                     Exit, Misuse, Call, Cleaning, Step
<1>3. (Descriptors /\ OneDescriptorPerPath)'
  BY SessionAssumption, SMTT(20) DEF SessionInvariant, TypeOK, StepsMatch,
                                     ConnectionsOwned, Named, Descriptors, FreedLast,
                                     OneDescriptorPerPath, ReleasedTwiceOnlyByInterrupt,
                                     Exit, Misuse, Call, Cleaning, Step
<1> QED BY <1>1, <1>2, <1>3 DEF SessionInvariant

(* flock on a path that has a descriptor. *)
LEMMA QueryFdKeeps ==
    ASSUME SessionInvariant, NEW p \in Path, QueryFd(p)
    PROVE  SessionInvariant'
<1>1. TypeOK'
  BY SMTT(20) DEF SessionInvariant, TypeOK, QueryFd, Misuse, Call, Step, Resource
<1>2. (StepsMatch /\ ConnectionsOwned /\ Named /\ FreedLast /\ ReleasedTwiceOnlyByInterrupt)'
  BY SessionAssumption, SMTT(20) DEF SessionInvariant, TypeOK, StepsMatch,
                                     ConnectionsOwned, Named, Descriptors, FreedLast,
                                     OneDescriptorPerPath, ReleasedTwiceOnlyByInterrupt,
                                     QueryFd, Misuse, Call, Cleaning, Step
<1>3. (Descriptors /\ OneDescriptorPerPath)'
  BY SessionAssumption, SMTT(20) DEF SessionInvariant, TypeOK, StepsMatch,
                                     ConnectionsOwned, Named, Descriptors, FreedLast,
                                     OneDescriptorPerPath, ReleasedTwiceOnlyByInterrupt,
                                     QueryFd, Misuse, Call, Cleaning, Step
<1> QED BY <1>1, <1>2, <1>3 DEF SessionInvariant

(* flock after a disconnect that freed the list. *)
LEMMA QueryFreedKeeps ==
    ASSUME SessionInvariant, QueryFreed
    PROVE  SessionInvariant'
<1>1. TypeOK'
  BY SMTT(20) DEF SessionInvariant, TypeOK, QueryFreed, Misuse, Call, Step, Resource
<1>2. (StepsMatch /\ ConnectionsOwned /\ Named /\ FreedLast /\ ReleasedTwiceOnlyByInterrupt)'
  BY SessionAssumption, SMTT(20) DEF SessionInvariant, TypeOK, StepsMatch,
                                     ConnectionsOwned, Named, Descriptors, FreedLast,
                                     OneDescriptorPerPath, ReleasedTwiceOnlyByInterrupt,
                                     QueryFreed, Misuse, Call, Cleaning, Step
<1>3. (Descriptors /\ OneDescriptorPerPath)'
  BY SessionAssumption, SMTT(20) DEF SessionInvariant, TypeOK, StepsMatch,
                                     ConnectionsOwned, Named, Descriptors, FreedLast,
                                     OneDescriptorPerPath, ReleasedTwiceOnlyByInterrupt,
                                     QueryFreed, Misuse, Call, Cleaning, Step
<1> QED BY <1>1, <1>2, <1>3 DEF SessionInvariant

(* The answer to a lock request. *)
LEMMA LockAnswersKeeps ==
    ASSUME SessionInvariant, LockAnswers
    PROVE  SessionInvariant'
<1>1. TypeOK'
  BY SMTT(20) DEF SessionInvariant, TypeOK, LockAnswers, Misuse, Call, Step, Resource
<1>2. (StepsMatch /\ ConnectionsOwned /\ Named /\ FreedLast /\ ReleasedTwiceOnlyByInterrupt)'
  BY SessionAssumption, SMTT(20) DEF SessionInvariant, TypeOK, StepsMatch,
                                     ConnectionsOwned, Named, Descriptors, FreedLast,
                                     OneDescriptorPerPath, ReleasedTwiceOnlyByInterrupt,
                                     LockAnswers, Misuse, Call, Cleaning, Step
<1>3. (Descriptors /\ OneDescriptorPerPath)'
  BY SessionAssumption, SMTT(20) DEF SessionInvariant, TypeOK, StepsMatch,
                                     ConnectionsOwned, Named, Descriptors, FreedLast,
                                     OneDescriptorPerPath, ReleasedTwiceOnlyByInterrupt,
                                     LockAnswers, Misuse, Call, Cleaning, Step
<1> QED BY <1>1, <1>2, <1>3 DEF SessionInvariant

(* tail reads what there is. *)
LEMMA TailReadKeeps ==
    ASSUME SessionInvariant, TailRead
    PROVE  SessionInvariant'
<1>1. TypeOK'
  BY SMTT(20) DEF SessionInvariant, TypeOK, TailRead, Misuse, Call, Step, Resource
<1>2. (StepsMatch /\ ConnectionsOwned /\ Named /\ FreedLast /\ ReleasedTwiceOnlyByInterrupt)'
  BY SessionAssumption, SMTT(20) DEF SessionInvariant, TypeOK, StepsMatch,
                                     ConnectionsOwned, Named, Descriptors, FreedLast,
                                     OneDescriptorPerPath, ReleasedTwiceOnlyByInterrupt,
                                     TailRead, Misuse, Call, Cleaning, Step
<1>3. (Descriptors /\ OneDescriptorPerPath)'
  BY SessionAssumption, SMTT(20) DEF SessionInvariant, TypeOK, StepsMatch,
                                     ConnectionsOwned, Named, Descriptors, FreedLast,
                                     OneDescriptorPerPath, ReleasedTwiceOnlyByInterrupt,
                                     TailRead, Misuse, Call, Cleaning, Step
<1> QED BY <1>1, <1>2, <1>3 DEF SessionInvariant

(* The loop of tail -f ends after an interrupt. *)
LEMMA FollowStopsKeeps ==
    ASSUME SessionInvariant, FollowStops
    PROVE  SessionInvariant'
<1>1. TypeOK'
  BY SMTT(20) DEF SessionInvariant, TypeOK, FollowStops, Misuse, Call, Step, Resource
<1>2. (StepsMatch /\ ConnectionsOwned /\ Named /\ FreedLast /\ ReleasedTwiceOnlyByInterrupt)'
  BY SessionAssumption, SMTT(20) DEF SessionInvariant, TypeOK, StepsMatch,
                                     ConnectionsOwned, Named, Descriptors, FreedLast,
                                     OneDescriptorPerPath, ReleasedTwiceOnlyByInterrupt,
                                     FollowStops, Misuse, Call, Cleaning, Step
<1>3. (Descriptors /\ OneDescriptorPerPath)'
  BY SessionAssumption, SMTT(20) DEF SessionInvariant, TypeOK, StepsMatch,
                                     ConnectionsOwned, Named, Descriptors, FreedLast,
                                     OneDescriptorPerPath, ReleasedTwiceOnlyByInterrupt,
                                     FollowStops, Misuse, Call, Cleaning, Step
<1> QED BY <1>1, <1>2, <1>3 DEF SessionInvariant

(* The loop of tail -f ends on an error. *)
LEMMA FollowFailsKeeps ==
    ASSUME SessionInvariant, FollowFails
    PROVE  SessionInvariant'
<1>1. TypeOK'
  BY SMTT(20) DEF SessionInvariant, TypeOK, FollowFails, Misuse, Call, Step, Resource
<1>2. (StepsMatch /\ ConnectionsOwned /\ Named /\ FreedLast /\ ReleasedTwiceOnlyByInterrupt)'
  BY SessionAssumption, SMTT(20) DEF SessionInvariant, TypeOK, StepsMatch,
                                     ConnectionsOwned, Named, Descriptors, FreedLast,
                                     OneDescriptorPerPath, ReleasedTwiceOnlyByInterrupt,
                                     FollowFails, Misuse, Call, Cleaning, Step
<1>3. (Descriptors /\ OneDescriptorPerPath)'
  BY SessionAssumption, SMTT(20) DEF SessionInvariant, TypeOK, StepsMatch,
                                     ConnectionsOwned, Named, Descriptors, FreedLast,
                                     OneDescriptorPerPath, ReleasedTwiceOnlyByInterrupt,
                                     FollowFails, Misuse, Call, Cleaning, Step
<1> QED BY <1>1, <1>2, <1>3 DEF SessionInvariant

(* tail leaves the default disposition of SIGINT. *)
LEMMA TailFinishKeeps ==
    ASSUME SessionInvariant, TailFinish
    PROVE  SessionInvariant'
<1>1. TypeOK'
  BY SMTT(20) DEF SessionInvariant, TypeOK, TailFinish, Misuse, Call, Step, Resource
<1>2. (StepsMatch /\ ConnectionsOwned /\ Named /\ FreedLast /\ ReleasedTwiceOnlyByInterrupt)'
  BY SessionAssumption, SMTT(20) DEF SessionInvariant, TypeOK, StepsMatch,
                                     ConnectionsOwned, Named, Descriptors, FreedLast,
                                     OneDescriptorPerPath, ReleasedTwiceOnlyByInterrupt,
                                     TailFinish, Misuse, Call, Cleaning, Step
<1>3. (Descriptors /\ OneDescriptorPerPath)'
  BY SessionAssumption, SMTT(20) DEF SessionInvariant, TypeOK, StepsMatch,
                                     ConnectionsOwned, Named, Descriptors, FreedLast,
                                     OneDescriptorPerPath, ReleasedTwiceOnlyByInterrupt,
                                     TailFinish, Misuse, Call, Cleaning, Step
<1> QED BY <1>1, <1>2, <1>3 DEF SessionInvariant

(* What cleanup, handle_quit and cli_disconnect store in the context. *)
LEMMA ContextFreed ==
    ASSUME ctx \in Context
    PROVE  /\ [ctx EXCEPT !.xlators = "gone", !.freed = TRUE] \in Context
           /\ [ctx EXCEPT !.fs = None, !.freed = TRUE] \in Context
           /\ [ctx EXCEPT !.fs = None, !.conn_str = None] \in Context
  BY DEF Context

(* handle_quit frees the context after the disconnect. *)
LEMMA FreeContextKeeps ==
    ASSUME SessionInvariant, FreeContext
    PROVE  SessionInvariant'
<1>1. ctx' \in Context /\ call' \in Call
  BY ContextFreed DEF SessionInvariant, TypeOK, FreeContext, Call, Step
<1>2. TypeOK'
  BY <1>1 DEF SessionInvariant, TypeOK, FreeContext
<1>3. (StepsMatch /\ ConnectionsOwned /\ Named /\ FreedLast /\ ReleasedTwiceOnlyByInterrupt)'
  BY SMTT(20) DEF SessionInvariant, TypeOK, StepsMatch, ConnectionsOwned, Named,
                  Descriptors, FreedLast, OneDescriptorPerPath,
                  ReleasedTwiceOnlyByInterrupt, FreeContext, Context, Call
<1>4. (Descriptors /\ OneDescriptorPerPath)'
  BY SMTT(20) DEF SessionInvariant, TypeOK, StepsMatch, ConnectionsOwned, Named,
                  Descriptors, FreedLast, OneDescriptorPerPath,
                  ReleasedTwiceOnlyByInterrupt, FreeContext, Context, Call
<1> QED BY <1>2, <1>3, <1>4 DEF SessionInvariant

(* A line is typed at the prompt. *)
LEMMA TypedKeeps ==
    ASSUME SessionInvariant, NEW k \in Command \ {"signal"}, Typed(k),
           k = "flock" => ctx.fs # None
    PROVE  SessionInvariant'
<1>1. FirstStep(k) \in {"getfs", "options", "lookup", "read"}
  BY DEF FirstStep, Command
<1>2. TypeOK'
  <2>1. FirstStep(k) \in Step /\ ctx.fs \in Conn \cup {None}
    BY <1>1 DEF SessionInvariant, TypeOK, Context, Step
  <2>2. call' \in Call
    BY <2>1 DEF SessionInvariant, TypeOK, Typed, Call
  <2> QED BY <2>2 DEF SessionInvariant, TypeOK, Typed
<1>3. (StepsMatch /\ ConnectionsOwned /\ Named /\ FreedLast /\ ReleasedTwiceOnlyByInterrupt)'
  BY SMTT(20) DEF SessionInvariant, TypeOK, StepsMatch, ConnectionsOwned, Named,
                  Descriptors, FreedLast, OneDescriptorPerPath,
                  ReleasedTwiceOnlyByInterrupt, Typed, FirstStep, Call, Command
<1>4. (Descriptors /\ OneDescriptorPerPath)'
  BY SMTT(20) DEF SessionInvariant, TypeOK, StepsMatch, ConnectionsOwned, Named,
                  Descriptors, FreedLast, OneDescriptorPerPath,
                  ReleasedTwiceOnlyByInterrupt, Typed, FirstStep, Call, Command
<1> QED BY <1>2, <1>3, <1>4 DEF SessionInvariant

(* Where a connect that failed goes, and what it leaves in its locals. *)
LEMMA ConnectFailedEnds ==
    ASSUME call \in Call, ConnectFailed
    PROVE  /\ call' \in Call /\ call'.new = None /\ call'.cmd = call.cmd
           /\ call'.startup = call.startup /\ call'.walk = call.walk
           /\ (call'.pc = "exited" /\ call.startup) \/ (call'.pc = "prompt" /\ ~call.startup)
<1>1. CASE call.startup
  <2>1. call' = [call EXCEPT !.pc = "exited", !.new = None]
    BY <1>1 DEF ConnectFailed
  <2>2. call' \in Call
    BY <2>1 DEF Call, Step
  <2>3. call'.new = None /\ call'.cmd = call.cmd /\ call'.walk = call.walk
        /\ call'.pc = "exited" /\ call'.startup = call.startup
    BY <2>1 DEF Call
  <2> QED BY <1>1, <2>2, <2>3
<1>2. CASE ~call.startup
  <2>1. call' = [call EXCEPT !.pc = "prompt", !.new = None]
    BY <1>2 DEF ConnectFailed
  <2>2. call' \in Call
    BY <2>1 DEF Call, Step
  <2>3. call'.new = None /\ call'.cmd = call.cmd /\ call'.walk = call.walk
        /\ call'.pc = "prompt" /\ call'.startup = call.startup
    BY <2>1 DEF Call
  <2> QED BY <1>2, <2>2, <2>3
<1> QED BY <1>1, <1>2

(* connect with a bad URL or bad options. *)
LEMMA ParseUrlFailsKeeps ==
    ASSUME SessionInvariant, ParseUrlFails
    PROVE  SessionInvariant'
<1>1. call' \in Call /\ call'.new = None /\ call'.cmd = call.cmd
      /\ call'.startup = call.startup /\ call'.walk = call.walk
      /\ ((call'.pc = "exited" /\ call.startup) \/ (call'.pc = "prompt" /\ ~call.startup))
  BY ConnectFailedEnds DEF SessionInvariant, TypeOK, ParseUrlFails
<1>2. TypeOK'
  BY <1>1 DEF SessionInvariant, TypeOK, ParseUrlFails
<1>3. (StepsMatch /\ ConnectionsOwned /\ Named /\ FreedLast /\ ReleasedTwiceOnlyByInterrupt)'
  BY <1>1, SMTT(20) DEF SessionInvariant, TypeOK, StepsMatch, ConnectionsOwned, Named,
                        Descriptors, FreedLast, OneDescriptorPerPath,
                        ReleasedTwiceOnlyByInterrupt, ParseUrlFails
<1>4. (Descriptors /\ OneDescriptorPerPath)'
  BY <1>1, SMTT(20) DEF SessionInvariant, TypeOK, StepsMatch, ConnectionsOwned, Named,
                        Descriptors, FreedLast, OneDescriptorPerPath,
                        ReleasedTwiceOnlyByInterrupt, ParseUrlFails
<1> QED BY <1>2, <1>3, <1>4 DEF SessionInvariant

(* The new connection is nobody's yet, or lost. *)
LEMMA GlusterGetfsKeeps ==
    ASSUME SessionInvariant, NEW c \in Conn, GlusterGetfs(c)
    PROVE  SessionInvariant'
<1>0. UNCHANGED <<ctx, handler, keep_running, interrupted, misused>>
      /\ call.pc = "getfs" /\ conn[c] = "unused"
  BY DEF GlusterGetfs
<1>1. UNCHANGED <<ctx, handler, keep_running, interrupted, misused>>
      /\ call.pc = "getfs" /\ call.cmd = "connect" /\ conn[c] = "unused" /\ ctx.fs # c
      /\ call.new = None /\ interrupted = None
  BY <1>0, SessionAssumption DEF SessionInvariant, StepsMatch, ConnectionsOwned
<1>2. CASE conn' = [conn EXCEPT ![c] = "open"]
           /\ call' = [call EXCEPT !.pc = "apply", !.new = c]
  <2>1. TypeOK'
    BY <1>1, <1>2 DEF SessionInvariant, TypeOK, Call, Step
  <2>2. (StepsMatch /\ ConnectionsOwned /\ Named /\ FreedLast /\ ReleasedTwiceOnlyByInterrupt)'
    BY <1>1, <1>2, SessionAssumption, SMTT(20)
       DEF SessionInvariant, TypeOK, StepsMatch, ConnectionsOwned, Named, Descriptors,
           FreedLast, OneDescriptorPerPath, ReleasedTwiceOnlyByInterrupt, Call
  <2>3. (Descriptors /\ OneDescriptorPerPath)'
    BY <1>1, <1>2, SMTT(20) DEF SessionInvariant, TypeOK, StepsMatch, ConnectionsOwned,
                                Named, Descriptors, FreedLast, OneDescriptorPerPath,
                                ReleasedTwiceOnlyByInterrupt, Call
  <2> QED BY <2>1, <2>2, <2>3 DEF SessionInvariant
<1>3. CASE conn' = [conn EXCEPT ![c] = "lost"] /\ ConnectFailed
  <2>1. call' \in Call /\ call'.new = None /\ call'.cmd = call.cmd
        /\ call'.startup = call.startup /\ call'.walk = call.walk
        /\ ((call'.pc = "exited" /\ call.startup) \/ (call'.pc = "prompt" /\ ~call.startup))
    BY <1>3, ConnectFailedEnds DEF SessionInvariant, TypeOK
  <2>2. TypeOK'
    BY <1>1, <1>3, <2>1 DEF SessionInvariant, TypeOK
  <2>3. (StepsMatch /\ ConnectionsOwned /\ Named /\ FreedLast /\ ReleasedTwiceOnlyByInterrupt)'
    BY <1>1, <1>3, <2>1, SMTT(20) DEF SessionInvariant, TypeOK, StepsMatch,
                                      ConnectionsOwned, Named, Descriptors, FreedLast,
                                      OneDescriptorPerPath, ReleasedTwiceOnlyByInterrupt
  <2>4. (Descriptors /\ OneDescriptorPerPath)'
    BY <1>1, <1>3, <2>1, SMTT(20) DEF SessionInvariant, TypeOK, StepsMatch,
                                      ConnectionsOwned, Named, Descriptors, FreedLast,
                                      OneDescriptorPerPath, ReleasedTwiceOnlyByInterrupt
  <2> QED BY <2>2, <2>3, <2>4 DEF SessionInvariant
<1> QED BY <1>2, <1>3 DEF GlusterGetfs

(* The options of connect are applied to the new connection, or it is lost. *)
LEMMA ApplyXlatorOptionsKeeps ==
    ASSUME SessionInvariant, ApplyXlatorOptions
    PROVE  SessionInvariant'
<1>1. UNCHANGED <<ctx, handler, keep_running, interrupted, misused>>
      /\ call.pc = "apply" /\ call.cmd = "connect"
      /\ call.new \in Conn /\ call.new # ctx.fs /\ interrupted = None
  BY DEF SessionInvariant, TypeOK, Call, StepsMatch, ConnectionsOwned, ApplyXlatorOptions
<1>2. CASE Goto("options") /\ UNCHANGED conn
  <2>1. TypeOK'
    BY <1>1, <1>2 DEF SessionInvariant, TypeOK, Call, Step
  <2>2. (StepsMatch /\ ConnectionsOwned /\ Named /\ FreedLast /\ ReleasedTwiceOnlyByInterrupt)'
    BY <1>1, <1>2, SessionAssumption, SMTT(20)
       DEF SessionInvariant, TypeOK, StepsMatch, ConnectionsOwned, Named, Descriptors,
           FreedLast, OneDescriptorPerPath, ReleasedTwiceOnlyByInterrupt, Call
  <2>3. (Descriptors /\ OneDescriptorPerPath)'
    BY <1>1, <1>2, SMTT(20) DEF SessionInvariant, TypeOK, StepsMatch, ConnectionsOwned,
                                Named, Descriptors, FreedLast, OneDescriptorPerPath,
                                ReleasedTwiceOnlyByInterrupt, Call
  <2> QED BY <2>1, <2>2, <2>3 DEF SessionInvariant
<1>3. CASE conn' = [conn EXCEPT ![call.new] = "lost"] /\ ConnectFailed
  <2>1. call' \in Call /\ call'.new = None /\ call'.cmd = call.cmd
        /\ call'.startup = call.startup /\ call'.walk = call.walk
        /\ ((call'.pc = "exited" /\ call.startup) \/ (call'.pc = "prompt" /\ ~call.startup))
    BY <1>3, ConnectFailedEnds DEF SessionInvariant, TypeOK
  <2>2. TypeOK'
    BY <1>1, <1>3, <2>1 DEF SessionInvariant, TypeOK
  <2>3. (StepsMatch /\ ConnectionsOwned /\ Named /\ FreedLast /\ ReleasedTwiceOnlyByInterrupt)'
    BY <1>1, <1>3, <2>1, SMTT(20) DEF SessionInvariant, TypeOK, StepsMatch,
                                      ConnectionsOwned, Named, Descriptors, FreedLast,
                                      OneDescriptorPerPath, ReleasedTwiceOnlyByInterrupt
  <2>4. (Descriptors /\ OneDescriptorPerPath)'
    BY <1>1, <1>3, <2>1, SMTT(20) DEF SessionInvariant, TypeOK, StepsMatch,
                                      ConnectionsOwned, Named, Descriptors, FreedLast,
                                      OneDescriptorPerPath, ReleasedTwiceOnlyByInterrupt
  <2> QED BY <2>2, <2>3, <2>4 DEF SessionInvariant
<1> QED BY <1>2, <1>3 DEF ApplyXlatorOptions

(* The new connection becomes the session's; the context has none before. *)
LEMMA AttachKeeps ==
    ASSUME SessionInvariant, Attach
    PROVE  SessionInvariant'
<1>1. UNCHANGED <<conn, handler, keep_running, interrupted, misused>>
      /\ call.pc = "attach" /\ call.cmd = "connect" /\ ctx.fs = None
      /\ call.new \in Conn /\ conn[call.new] = "open" /\ interrupted = None
  BY DEF SessionInvariant, TypeOK, Call, StepsMatch, ConnectionsOwned, Attach
<1>2. CASE /\ ctx' = [ctx EXCEPT !.fs = call.new, !.conn_str = call.new]
           /\ call' = [call EXCEPT !.pc = IF call.startup THEN "applied" ELSE "prompt",
                                   !.new = None]
  <2>1. PICK l \in {"applied", "prompt"} :
          call' = [call EXCEPT !.pc = l, !.new = None] /\ (l = "applied" <=> call.startup)
    BY <1>2
  <2>2. TypeOK'
    <3>1. call' \in Call
      BY <2>1 DEF SessionInvariant, TypeOK, Call, Step
    <3>2. ctx' \in Context
      BY <1>1, <1>2 DEF SessionInvariant, TypeOK, Context
    <3> QED BY <1>1, <3>1, <3>2 DEF SessionInvariant, TypeOK
  <2>3. (StepsMatch /\ ConnectionsOwned /\ Named /\ FreedLast /\ ReleasedTwiceOnlyByInterrupt)'
    BY <1>1, <1>2, <2>1, SMTT(20) DEF SessionInvariant, TypeOK, StepsMatch,
                                      ConnectionsOwned, Named, Descriptors, FreedLast,
                                      OneDescriptorPerPath, ReleasedTwiceOnlyByInterrupt,
                                      Call, Context
  <2>4. (Descriptors /\ OneDescriptorPerPath)'
    BY <1>1, <1>2, <2>1, SMTT(20) DEF SessionInvariant, TypeOK, StepsMatch,
                                      ConnectionsOwned, Named, Descriptors, FreedLast,
                                      OneDescriptorPerPath, ReleasedTwiceOnlyByInterrupt,
                                      Call, Context
  <2> QED BY <2>2, <2>3, <2>4 DEF SessionInvariant
<1>3. CASE /\ ctx' = [ctx EXCEPT !.fs = call.new]
           /\ call' = [call EXCEPT !.pc = "options", !.cmd = "quit", !.new = None]
  <2>1. TypeOK'
    <3>1. call' \in Call
      BY <1>3 DEF SessionInvariant, TypeOK, Call, Step, Command
    <3>2. ctx' \in Context
      BY <1>1, <1>3 DEF SessionInvariant, TypeOK, Context
    <3> QED BY <1>1, <3>1, <3>2 DEF SessionInvariant, TypeOK
  <2>2. (StepsMatch /\ ConnectionsOwned /\ Named /\ FreedLast /\ ReleasedTwiceOnlyByInterrupt)'
    BY <1>1, <1>3, SMTT(20) DEF SessionInvariant, TypeOK, StepsMatch, ConnectionsOwned,
                                Named, Descriptors, FreedLast, OneDescriptorPerPath,
                                ReleasedTwiceOnlyByInterrupt, Call, Context
  <2>3. (Descriptors /\ OneDescriptorPerPath)'
    BY <1>1, <1>3, SMTT(20) DEF SessionInvariant, TypeOK, StepsMatch, ConnectionsOwned,
                                Named, Descriptors, FreedLast, OneDescriptorPerPath,
                                ReleasedTwiceOnlyByInterrupt, Call, Context
  <2> QED BY <2>1, <2>2, <2>3 DEF SessionInvariant
<1> QED BY <1>2, <1>3 DEF Attach

(* The options of the command line are applied after the connect. *)
LEMMA StartupOptionsKeeps ==
    ASSUME SessionInvariant, StartupOptions
    PROVE  SessionInvariant'
<1>1. CASE ctx.xlators = "none" /\ call' = [call EXCEPT !.pc = "prompt", !.startup = FALSE]
           /\ UNCHANGED <<memory, signals, misused>>
  <2>1. TypeOK'
    BY <1>1 DEF SessionInvariant, TypeOK, Call, Step
  <2>2. (StepsMatch /\ ConnectionsOwned /\ Named /\ FreedLast /\ ReleasedTwiceOnlyByInterrupt)'
    BY <1>1, SMTT(20) DEF SessionInvariant, TypeOK, StepsMatch, ConnectionsOwned, Named,
                          Descriptors, FreedLast, OneDescriptorPerPath,
                          ReleasedTwiceOnlyByInterrupt, StartupOptions, Call
  <2>3. (Descriptors /\ OneDescriptorPerPath)'
    BY <1>1, SMTT(20) DEF SessionInvariant, TypeOK, StepsMatch, ConnectionsOwned, Named,
                          Descriptors, FreedLast, OneDescriptorPerPath,
                          ReleasedTwiceOnlyByInterrupt, StartupOptions, Call
  <2> QED BY <2>1, <2>2, <2>3 DEF SessionInvariant
<1>2. CASE Misuse("options")
  <2>1. TypeOK'
    BY <1>2 DEF SessionInvariant, TypeOK, Misuse, Call, Step, Resource
  <2>2. (StepsMatch /\ ConnectionsOwned /\ Named /\ FreedLast /\ ReleasedTwiceOnlyByInterrupt)'
    BY <1>2, SMTT(20) DEF SessionInvariant, TypeOK, StepsMatch, ConnectionsOwned, Named,
                          Descriptors, FreedLast, OneDescriptorPerPath,
                          ReleasedTwiceOnlyByInterrupt, StartupOptions, Misuse, Call
  <2>3. (Descriptors /\ OneDescriptorPerPath)'
    BY <1>2, SMTT(20) DEF SessionInvariant, TypeOK, StepsMatch, ConnectionsOwned, Named,
                          Descriptors, FreedLast, OneDescriptorPerPath,
                          ReleasedTwiceOnlyByInterrupt, StartupOptions, Misuse, Call
  <2> QED BY <2>1, <2>2, <2>3 DEF SessionInvariant
<1> QED BY <1>1, <1>2 DEF StartupOptions

(* The release starts with the translator options. *)
LEMMA FreeOptionsKeeps ==
    ASSUME SessionInvariant, FreeOptions
    PROVE  SessionInvariant'
<1>1. PICK x \in {"none", "freed", "gone"} : ctx' = [ctx EXCEPT !.xlators = x]
  BY DEF FreeOptions, SessionInvariant, TypeOK, Context
<1>2. TypeOK'
  <2>1. ctx' \in Context
    BY <1>1 DEF SessionInvariant, TypeOK, Context
  <2>3. call' = [call EXCEPT !.pc = "list", !.walk = 1] /\ 1 \in Nat \ {0}
    BY DEF FreeOptions
  <2>2. call' \in Call
    BY <2>3 DEF SessionInvariant, TypeOK, Call, Step
  <2> QED BY <2>1, <2>2 DEF SessionInvariant, TypeOK, FreeOptions
<1>3. (StepsMatch /\ ConnectionsOwned /\ Named /\ FreedLast /\ ReleasedTwiceOnlyByInterrupt)'
  BY <1>1, SMTT(20) DEF SessionInvariant, TypeOK, StepsMatch, ConnectionsOwned, Named,
                        Descriptors, FreedLast, OneDescriptorPerPath,
                        ReleasedTwiceOnlyByInterrupt, FreeOptions, Call, Context
<1>4. (Descriptors /\ OneDescriptorPerPath)'
  BY <1>1, SMTT(20) DEF SessionInvariant, TypeOK, StepsMatch, ConnectionsOwned, Named,
                        Descriptors, FreedLast, OneDescriptorPerPath,
                        ReleasedTwiceOnlyByInterrupt, FreeOptions, Call, Context
<1> QED BY <1>2, <1>3, <1>4 DEF SessionInvariant

(* No descriptor is open when the connection is finalised. *)
LEMMA FiniKeeps ==
    ASSUME SessionInvariant, Fini
    PROVE  SessionInvariant'
<1>1. PICK r \in {0, -1} : call' = [call EXCEPT !.pc = "forget", !.ret = r]
  BY DEF Fini
<1>0. ctx.fs \in Conn
  BY DEF Fini, SessionInvariant, TypeOK, Context, ConnectionsOwned
<1>2. TypeOK'
  BY <1>1 DEF SessionInvariant, TypeOK, Fini, Call, Step
<1>3. (StepsMatch /\ ConnectionsOwned /\ Named /\ FreedLast /\ ReleasedTwiceOnlyByInterrupt)'
  BY <1>0, <1>1, SMTT(20) DEF SessionInvariant, TypeOK, StepsMatch, ConnectionsOwned,
                              Named, Descriptors, FreedLast, OneDescriptorPerPath,
                              ReleasedTwiceOnlyByInterrupt, Fini, Call
<1>4. (Descriptors /\ OneDescriptorPerPath)'
  BY <1>1, SMTT(20) DEF SessionInvariant, TypeOK, StepsMatch, ConnectionsOwned, Named,
                        Descriptors, FreedLast, OneDescriptorPerPath,
                        ReleasedTwiceOnlyByInterrupt, Fini, Call
<1> QED BY <1>2, <1>3, <1>4 DEF SessionInvariant

(* The context gives up its connection, which is finalised. *)
LEMMA ForgetKeeps ==
    ASSUME SessionInvariant, Forget
    PROVE  SessionInvariant'
<1>1. UNCHANGED <<handler, keep_running, interrupted, misused>> /\ call.pc = "forget"
      /\ call.cmd \in {"connect", "disconnect", "quit", "exit", "signal"}
  BY DEF SessionInvariant, StepsMatch, Forget
<1>2. ctx' \in Context /\ ctx'.fs = None /\ ctx'.flist = ctx.flist
      /\ (call.cmd \in {"connect", "disconnect"} => ctx'.conn_str = None)
      /\ (ctx'.freed => ctx.freed \/ Cleaning)
  BY <1>1 DEF SessionInvariant, TypeOK, Context, Forget, Cleaning
<1>3. CASE call.cmd = "connect" /\ call.ret = -1
  <2>1. conn' = [conn EXCEPT ![call.new] = "lost"] /\ ConnectFailed
    BY <1>3 DEF Forget
  <2>2. call' \in Call /\ call'.new = None /\ call'.cmd = call.cmd
        /\ call'.startup = call.startup /\ call'.walk = call.walk
        /\ ((call'.pc = "exited" /\ call.startup) \/ (call'.pc = "prompt" /\ ~call.startup))
    BY <2>1, ConnectFailedEnds DEF SessionInvariant, TypeOK
  <2>3. TypeOK'
    BY <1>1, <1>2, <2>1, <2>2 DEF SessionInvariant, TypeOK
  <2>4. (StepsMatch /\ ConnectionsOwned /\ Named /\ FreedLast /\ ReleasedTwiceOnlyByInterrupt)'
    BY <1>1, <1>2, <1>3, <2>1, <2>2, SMTT(20)
       DEF SessionInvariant, TypeOK, StepsMatch, ConnectionsOwned, Named, Descriptors,
           FreedLast, OneDescriptorPerPath, ReleasedTwiceOnlyByInterrupt, Cleaning
  <2>5. (Descriptors /\ OneDescriptorPerPath)'
    BY <1>1, <1>2, <1>3, <2>1, <2>2, SMTT(20)
       DEF SessionInvariant, TypeOK, StepsMatch, ConnectionsOwned, Named, Descriptors,
           FreedLast, OneDescriptorPerPath, ReleasedTwiceOnlyByInterrupt
  <2> QED BY <2>3, <2>4, <2>5 DEF SessionInvariant
<1>4. CASE ~(call.cmd = "connect" /\ call.ret = -1)
  <2>1. UNCHANGED conn /\ call' = [call EXCEPT !.pc = AfterRelease]
    BY <1>4 DEF Forget
  <2>2. AfterRelease =
          IF call.cmd = "disconnect" THEN "prompt" ELSE IF call.cmd = "connect" THEN "attach"
          ELSE IF call.cmd = "quit" THEN "quit" ELSE "leaving"
    BY <1>1 DEF AfterRelease, Cleaning
  <2>3. TypeOK'
    BY <1>1, <1>2, <2>1, <2>2 DEF SessionInvariant, TypeOK, Call, Step
  <2>4. (StepsMatch /\ ConnectionsOwned /\ Named /\ FreedLast /\ ReleasedTwiceOnlyByInterrupt)'
    BY <1>1, <1>2, <2>1, <2>2, SMTT(20) DEF SessionInvariant, TypeOK, StepsMatch,
                                            ConnectionsOwned, Named, Descriptors,
                                            FreedLast, OneDescriptorPerPath,
                                            ReleasedTwiceOnlyByInterrupt, Cleaning, Call
  <2>5. (Descriptors /\ OneDescriptorPerPath)'
    BY <1>1, <1>2, <2>1, <2>2, SMTT(20) DEF SessionInvariant, TypeOK, StepsMatch,
                                            ConnectionsOwned, Named, Descriptors,
                                            FreedLast, OneDescriptorPerPath,
                                            ReleasedTwiceOnlyByInterrupt, Call
  <2> QED BY <2>3, <2>4, <2>5 DEF SessionInvariant
<1> QED BY <1>3, <1>4

(* SIGINT at any step, under each of the three dispositions. *)
LEMMA InterruptKeeps ==
    ASSUME SessionInvariant, Interrupt
    PROVE  SessionInvariant'
<1>1. UNCHANGED <<ctx, conn, handler, misused>> /\ call.pc \notin Stopped /\ call.cmd # "signal"
      /\ interrupted = None /\ None \notin {"closing", "forget", "leaving"}
  BY SessionAssumption DEF Interrupt, SessionInvariant, StepsMatch, Step
<1>2. CASE /\ call' = [call EXCEPT !.pc = "options", !.cmd = "signal"]
           /\ interrupted' = call.pc /\ UNCHANGED keep_running
  <2>1. call' \in Call /\ call.pc \in Step /\ call.pc # None
    BY <1>2, SessionAssumption DEF SessionInvariant, TypeOK, Call, Step, Command
  <2>2. TypeOK'
    BY <1>1, <1>2, <2>1 DEF SessionInvariant, TypeOK
  <2>3. (StepsMatch /\ ConnectionsOwned /\ Named /\ FreedLast /\ ReleasedTwiceOnlyByInterrupt)'
    BY <1>1, <1>2, <2>1, SMTT(20) DEF SessionInvariant, TypeOK, StepsMatch,
                                      ConnectionsOwned, Named, Descriptors, FreedLast,
                                      OneDescriptorPerPath, ReleasedTwiceOnlyByInterrupt,
                                      Call
  <2>4. (Descriptors /\ OneDescriptorPerPath)'
    BY <1>1, <1>2, <2>1, SMTT(20) DEF SessionInvariant, TypeOK, StepsMatch,
                                      ConnectionsOwned, Named, Descriptors, FreedLast,
                                      OneDescriptorPerPath, ReleasedTwiceOnlyByInterrupt,
                                      Call
  <2> QED BY <2>2, <2>3, <2>4 DEF SessionInvariant
<1>3. CASE keep_running' = FALSE /\ UNCHANGED <<call, interrupted>>
  <2>1. TypeOK'
    BY <1>1, <1>3 DEF SessionInvariant, TypeOK
  <2>2. (StepsMatch /\ ConnectionsOwned /\ Named /\ FreedLast /\ ReleasedTwiceOnlyByInterrupt)'
    BY <1>1, <1>3 DEF SessionInvariant, TypeOK, StepsMatch, ConnectionsOwned, Named,
                      Descriptors, FreedLast, OneDescriptorPerPath,
                      ReleasedTwiceOnlyByInterrupt
  <2>3. (Descriptors /\ OneDescriptorPerPath)'
    BY <1>1, <1>3 DEF SessionInvariant, TypeOK, StepsMatch, ConnectionsOwned, Named,
                      Descriptors, FreedLast, OneDescriptorPerPath,
                      ReleasedTwiceOnlyByInterrupt
  <2> QED BY <2>1, <2>2, <2>3 DEF SessionInvariant
<1>4. CASE Goto("killed") /\ UNCHANGED <<keep_running, interrupted>>
  <2>1. TypeOK'
    BY <1>1, <1>4 DEF SessionInvariant, TypeOK, Call, Step
  <2>2. (StepsMatch /\ ConnectionsOwned /\ Named /\ FreedLast /\ ReleasedTwiceOnlyByInterrupt)'
    BY <1>1, <1>4, SMTT(20) DEF SessionInvariant, TypeOK, StepsMatch, ConnectionsOwned,
                                Named, Descriptors, FreedLast, OneDescriptorPerPath,
                                ReleasedTwiceOnlyByInterrupt, Call
  <2>3. (Descriptors /\ OneDescriptorPerPath)'
    BY <1>1, <1>4, SMTT(20) DEF SessionInvariant, TypeOK, StepsMatch, ConnectionsOwned,
                                Named, Descriptors, FreedLast, OneDescriptorPerPath,
                                ReleasedTwiceOnlyByInterrupt, Call
  <2> QED BY <2>1, <2>2, <2>3 DEF SessionInvariant
<1> QED BY <1>2, <1>3, <1>4 DEF Interrupt

(* What a change of the status of one node leaves alone. *)
LEMMA NodeChanges ==
    ASSUME ctx \in Context, NEW w \in DOMAIN ctx.flist,
           NEW s \in {"open", "closed", "freed"},
           ctx' = [ctx EXCEPT !.flist[w].status = s]
    PROVE  /\ ctx' \in Context /\ DOMAIN ctx'.flist = DOMAIN ctx.flist
           /\ \A i \in DOMAIN ctx.flist :
                /\ ctx'.flist[i].path = ctx.flist[i].path
                /\ ctx'.flist[i].conn = ctx.flist[i].conn
                /\ ctx'.flist[i].status = IF i = w THEN s ELSE ctx.flist[i].status
           /\ ctx'.fs = ctx.fs /\ ctx'.conn_str = ctx.conn_str /\ ctx'.freed = ctx.freed
<1> DEFINE f == [ctx.flist EXCEPT ![w].status = s]
<1>1. ctx' = [ctx EXCEPT !.flist = f]
  OBVIOUS
<1>2. ctx.flist \in Seq(Node) /\ \A i \in DOMAIN ctx.flist : ctx.flist[i] \in Node
  BY DEF Context
<1>3. f \in Seq(Node) /\ DOMAIN f = DOMAIN ctx.flist
  BY <1>2 DEF Node
<1>4. \A i \in DOMAIN ctx.flist :
         /\ f[i].path = ctx.flist[i].path
         /\ f[i].conn = ctx.flist[i].conn
         /\ f[i].status = IF i = w THEN s ELSE ctx.flist[i].status
  BY <1>2 DEF Node
<1> HIDE DEF f
<1>5. ctx'.flist = f /\ ctx' \in Context /\ ctx'.fs = ctx.fs
      /\ ctx'.conn_str = ctx.conn_str /\ ctx'.freed = ctx.freed
  BY <1>1, <1>3 DEF Context
<1> QED BY <1>3, <1>4, <1>5

(* One descriptor is closed; a node seen twice is one an interrupt left. *)
LEMMA CloseNodeKeeps ==
    ASSUME SessionInvariant, CloseNode
    PROVE  SessionInvariant'
<1>1. call.walk \in DOMAIN ctx.flist /\ call.pc = "list" /\ ctx \in Context
  BY DEF CloseNode, SessionInvariant, TypeOK, Call, Context
<1>2. CASE /\ ctx.flist[call.walk].status = "open"
           /\ ctx' = [ctx EXCEPT !.flist[call.walk].status = "closed"]
           /\ Goto("closing") /\ UNCHANGED <<conn, signals, misused>>
  <2> DEFINE w == call.walk
             n == ctx'
  <2>1. /\ n \in Context /\ DOMAIN n.flist = DOMAIN ctx.flist
        /\ \A i \in DOMAIN ctx.flist :
             /\ n.flist[i].path = ctx.flist[i].path
             /\ n.flist[i].conn = ctx.flist[i].conn
             /\ n.flist[i].status = IF i = w THEN "closed" ELSE ctx.flist[i].status
        /\ n.fs = ctx.fs /\ n.conn_str = ctx.conn_str /\ n.freed = ctx.freed
    BY <1>1, <1>2, NodeChanges
  <2>2. call' \in Call /\ call'.pc = "closing" /\ call'.cmd = call.cmd /\ call'.new = call.new
        /\ call'.startup = call.startup /\ call'.walk = w
    BY <1>2 DEF SessionInvariant, TypeOK, Call, Step
  <2>3. TypeOK'
    BY <1>2, <2>1, <2>2 DEF SessionInvariant, TypeOK
  <2>4. (StepsMatch /\ ConnectionsOwned /\ Named /\ FreedLast /\ ReleasedTwiceOnlyByInterrupt)'
    BY <1>1, <1>2, <2>1, <2>2, SMTT(20) DEF SessionInvariant, TypeOK, StepsMatch,
                                            ConnectionsOwned, Named, Descriptors,
                                            FreedLast, OneDescriptorPerPath,
                                            ReleasedTwiceOnlyByInterrupt
  <2>5. Descriptors'
    <3>1. \A i \in DOMAIN n.flist :
            /\ n.flist[i].status = "open" =>
                 /\ ctx.flist[i].status = "open" /\ n.flist[i].conn = ctx.fs
                 /\ ctx.fs # None /\ conn[ctx.fs] = "open" /\ ~(i < w)
            /\ n.flist[i].status = "closed" => i = w \/ interrupted = "closing"
      BY <1>1, <2>1 DEF SessionInvariant, Descriptors
    <3>2. n.flist[w].status = "closed" /\ w \in DOMAIN n.flist
      BY <1>1, <2>1
    <3> QED BY <1>2, <2>1, <2>2, <3>1, <3>2 DEF Descriptors
  <2>6. OneDescriptorPerPath'
    BY <2>1 DEF SessionInvariant, OneDescriptorPerPath
  <2> QED BY <2>3, <2>4, <2>5, <2>6 DEF SessionInvariant
<1>3. CASE ctx.flist[call.walk].status = "closed" /\ Misuse("descriptor")
  <2>1. interrupted = "closing"
    BY <1>1, <1>3 DEF SessionInvariant, Descriptors
  <2>2. TypeOK'
    BY <1>3 DEF SessionInvariant, TypeOK, Misuse, Call, Step, Resource
  <2>3. (StepsMatch /\ ConnectionsOwned /\ Named /\ FreedLast /\ ReleasedTwiceOnlyByInterrupt)'
    BY <1>1, <1>3, <2>1, SMTT(20) DEF SessionInvariant, TypeOK, StepsMatch,
                                      ConnectionsOwned, Named, Descriptors, FreedLast,
                                      OneDescriptorPerPath, ReleasedTwiceOnlyByInterrupt,
                                      Misuse, Call
  <2>4. (Descriptors /\ OneDescriptorPerPath)'
    BY <1>3, <2>1, SMTT(20) DEF SessionInvariant, TypeOK, StepsMatch, ConnectionsOwned,
                                Named, Descriptors, FreedLast, OneDescriptorPerPath,
                                ReleasedTwiceOnlyByInterrupt, Misuse, Call
  <2> QED BY <2>2, <2>3, <2>4 DEF SessionInvariant
<1>4. CASE ctx.flist[call.walk].status = "freed" /\ Misuse("list")
  <2>1. TypeOK'
    BY <1>4 DEF SessionInvariant, TypeOK, Misuse, Call, Step, Resource
  <2>2. (StepsMatch /\ ConnectionsOwned /\ Named /\ FreedLast /\ ReleasedTwiceOnlyByInterrupt)'
    BY <1>1, <1>4, SMTT(20) DEF SessionInvariant, TypeOK, StepsMatch, ConnectionsOwned,
                                Named, Descriptors, FreedLast, OneDescriptorPerPath,
                                ReleasedTwiceOnlyByInterrupt, Misuse, Call
  <2>3. (Descriptors /\ OneDescriptorPerPath)'
    BY <1>1, <1>4, SMTT(20) DEF SessionInvariant, TypeOK, StepsMatch, ConnectionsOwned,
                                Named, Descriptors, FreedLast, OneDescriptorPerPath,
                                ReleasedTwiceOnlyByInterrupt, Misuse, Call
  <2> QED BY <2>1, <2>2, <2>3 DEF SessionInvariant
<1> QED BY <1>2, <1>3, <1>4 DEF CloseNode

(* The node that was closed is freed and the walk goes on. *)
LEMMA FreeNodeKeeps ==
    ASSUME SessionInvariant, FreeNode
    PROVE  SessionInvariant'
<1>1. call.walk \in DOMAIN ctx.flist /\ call.pc = "closing" /\ ctx \in Context
      /\ ctx' = [ctx EXCEPT !.flist[call.walk].status = "freed"]
  BY DEF FreeNode, SessionInvariant, TypeOK, Descriptors
<1> DEFINE w == call.walk
           n == ctx'
<1>2. /\ n \in Context /\ DOMAIN n.flist = DOMAIN ctx.flist
      /\ \A i \in DOMAIN ctx.flist :
           /\ n.flist[i].path = ctx.flist[i].path
           /\ n.flist[i].conn = ctx.flist[i].conn
           /\ n.flist[i].status = IF i = w THEN "freed" ELSE ctx.flist[i].status
      /\ n.fs = ctx.fs /\ n.conn_str = ctx.conn_str /\ n.freed = ctx.freed
  BY <1>1, NodeChanges
<1>3. call' \in Call /\ call'.pc = "list" /\ call'.cmd = call.cmd /\ call'.new = call.new
      /\ call'.startup = call.startup /\ call'.walk = w + 1 /\ w \in Nat
  <2>1. call' = [call EXCEPT !.pc = "list", !.walk = call.walk + 1]
    BY DEF FreeNode
  <2>2. call.walk \in Nat \ {0} /\ call.walk + 1 \in Nat \ {0}
    BY DEF SessionInvariant, TypeOK, Call
  <2> QED BY <2>1, <2>2 DEF SessionInvariant, TypeOK, Call, Step
<1>4. TypeOK'
  BY <1>2, <1>3 DEF SessionInvariant, TypeOK, FreeNode
<1>5. (StepsMatch /\ ConnectionsOwned /\ Named /\ FreedLast /\ ReleasedTwiceOnlyByInterrupt)'
  BY <1>1, <1>2, <1>3, SMTT(20) DEF SessionInvariant, TypeOK, StepsMatch,
                                    ConnectionsOwned, Named, Descriptors, FreedLast,
                                    OneDescriptorPerPath, ReleasedTwiceOnlyByInterrupt,
                                    FreeNode
<1>6. Descriptors'
  <2>1. \A i \in DOMAIN ctx.flist : i \in Nat
    BY <1>1 DEF Context
  <2>2. \A i \in DOMAIN n.flist :
          n.flist[i].status = "open" =>
            /\ n.flist[i].conn = ctx.fs /\ ctx.fs # None /\ conn[ctx.fs] = "open"
            /\ ~(i < w) /\ i # w
    BY <1>1, <1>2 DEF SessionInvariant, Descriptors
  <2>3. \A i \in DOMAIN n.flist : n.flist[i].status = "closed" => interrupted = "closing"
    BY <1>1, <1>2 DEF SessionInvariant, Descriptors
  <2>4. UNCHANGED <<conn, interrupted>>
    BY DEF FreeNode
  <2> QED BY <1>2, <1>3, <2>1, <2>2, <2>3, <2>4 DEF Descriptors
<1>7. OneDescriptorPerPath'
  BY <1>2 DEF SessionInvariant, OneDescriptorPerPath
<1> QED BY <1>4, <1>5, <1>6, <1>7 DEF SessionInvariant

(* A new descriptor is appended for a path that has none. *)
LEMMA OpenAndStoreKeeps ==
    ASSUME SessionInvariant, NEW p \in Path, OpenAndStore(p)
    PROVE  SessionInvariant'
<1>1. UNCHANGED <<conn, signals, misused>> /\ call.pc = "lookup" /\ call.cmd = "flock"
      /\ ctx.fs \in Conn /\ conn[ctx.fs] = "open" /\ ctx \in Context /\ ~Holds(p)
  <2>1. interrupted # "forget"
    BY SessionAssumption DEF OpenAndStore, SessionInvariant, StepsMatch, Step
  <2> QED BY <2>1 DEF OpenAndStore, SessionInvariant, TypeOK, Context, StepsMatch,
             ConnectionsOwned, Descriptors
<1>2. CASE ctx' = [ctx EXCEPT !.flist = Append(@, NodeFor(p))] /\ Goto("lock")
  <2> DEFINE f == Append(ctx.flist, NodeFor(p))
             k == Len(ctx.flist)
  <2>1. ctx.flist \in Seq(Node) /\ NodeFor(p) \in Node
    BY <1>1 DEF Context, Node, NodeFor
  <2>2. /\ f \in Seq(Node) /\ DOMAIN f = 1 .. k + 1 /\ DOMAIN ctx.flist = 1 .. k /\ k \in Nat
        /\ f[k + 1] = NodeFor(p)
        /\ \A i \in DOMAIN ctx.flist : f[i] = ctx.flist[i]
    BY <2>1
  <2>3. NodeFor(p).path = p /\ NodeFor(p).conn = ctx.fs /\ NodeFor(p).status = "open"
    BY DEF NodeFor
  <2>4. ctx' = [ctx EXCEPT !.flist = f]
    BY <1>2
  <2> HIDE DEF f, k
  <2>5. ctx'.flist = f /\ ctx' \in Context /\ ctx'.fs = ctx.fs
        /\ ctx'.conn_str = ctx.conn_str /\ ctx'.freed = ctx.freed
    BY <1>1, <2>2, <2>4 DEF Context
  <2>6. call' \in Call /\ call'.pc = "lock" /\ call'.cmd = call.cmd /\ call'.new = call.new
        /\ call'.startup = call.startup /\ call'.walk = call.walk
    BY <1>2 DEF SessionInvariant, TypeOK, Call, Step
  <2>7. TypeOK'
    BY <1>1, <2>5, <2>6 DEF SessionInvariant, TypeOK
  <2>8. (StepsMatch /\ ConnectionsOwned /\ Named /\ FreedLast /\ ReleasedTwiceOnlyByInterrupt)'
    BY <1>1, <2>5, <2>6, SMTT(20) DEF SessionInvariant, TypeOK, StepsMatch,
                                      ConnectionsOwned, Named, Descriptors, FreedLast,
                                      OneDescriptorPerPath, ReleasedTwiceOnlyByInterrupt
  <2>9. \A i \in 1 .. k + 1 : i \in 1 .. k \/ i = k + 1
    BY <2>2
  <2>10. Descriptors'
    BY <1>1, <2>2, <2>3, <2>5, <2>6, <2>9, SMTT(20) DEF SessionInvariant, Descriptors
  <2>11. OneDescriptorPerPath'
    BY <1>1, <2>2, <2>3, <2>5, <2>9, SMTT(20)
       DEF SessionInvariant, OneDescriptorPerPath, Holds
  <2> QED BY <2>7, <2>8, <2>10, <2>11 DEF SessionInvariant
<1>3. CASE Goto("prompt") /\ UNCHANGED ctx
  <2>1. TypeOK'
    BY <1>1, <1>3 DEF SessionInvariant, TypeOK, Call, Step
  <2>2. (StepsMatch /\ ConnectionsOwned /\ Named /\ FreedLast /\ ReleasedTwiceOnlyByInterrupt)'
    BY <1>1, <1>3, SMTT(20) DEF SessionInvariant, TypeOK, StepsMatch, ConnectionsOwned,
                                Named, Descriptors, FreedLast, OneDescriptorPerPath,
                                ReleasedTwiceOnlyByInterrupt, Call
  <2>3. (Descriptors /\ OneDescriptorPerPath)'
    BY <1>1, <1>3, SMTT(20) DEF SessionInvariant, TypeOK, StepsMatch, ConnectionsOwned,
                                Named, Descriptors, FreedLast, OneDescriptorPerPath,
                                ReleasedTwiceOnlyByInterrupt, Call
  <2> QED BY <2>1, <2>2, <2>3 DEF SessionInvariant
<1> QED BY <1>2, <1>3 DEF OpenAndStore

-----------------------------------------------------------------------------
(* The shell starts with an empty context. *)
LEMMA InitKeeps == Init => SessionInvariant
<1> SUFFICES ASSUME Init PROVE SessionInvariant
  OBVIOUS
<1>1. << >> \in Seq(Node)
  OBVIOUS
<1>2. PICK o \in {"none", "live"} :
        ctx = [fs |-> None, conn_str |-> None, flist |-> << >>,
               xlators |-> o, freed |-> FALSE]
  BY DEF Init
<1>3. PICK s \in BOOLEAN :
        call = [pc |-> IF s THEN "getfs" ELSE "prompt", cmd |-> "connect",
                startup |-> s, new |-> None, before |-> None, walk |-> 1, ret |-> 0]
  BY DEF Init
<1>4. TypeOK
  BY <1>1, <1>2, <1>3 DEF Init, TypeOK, Context, Call, Step, Command
<1>5. (StepsMatch /\ ConnectionsOwned /\ Named /\ FreedLast /\ ReleasedTwiceOnlyByInterrupt)
  BY <1>2, <1>3, SessionAssumption DEF Init, StepsMatch, ConnectionsOwned, Named,
     FreedLast, ReleasedTwiceOnlyByInterrupt, Resource
<1>6. (Descriptors /\ OneDescriptorPerPath)
  BY <1>2, <1>3 DEF Descriptors, OneDescriptorPerPath
<1> QED BY <1>4, <1>5, <1>6 DEF SessionInvariant

(* Every step keeps the invariant. *)
LEMMA NextKeeps == SessionInvariant /\ [Next]_vars => SessionInvariant'
<1> SUFFICES ASSUME SessionInvariant, [Next]_vars PROVE SessionInvariant'
  OBVIOUS
<1>1. CASE CliConnect
  BY <1>1, ParseUrlFailsKeeps, GlusterGetfsKeeps, ApplyXlatorOptionsKeeps, AttachKeeps,
     StartupOptionsKeeps DEF CliConnect
<1>2. CASE Release
  BY <1>2, FreeOptionsKeeps, UseFreedOptionsKeeps, CloseNodeKeeps, FreeNodeKeeps,
     EndOfListKeeps, FiniKeeps, UseFinalisedKeeps, ForgetKeeps, FreeContextKeeps,
     ExitKeeps DEF Release
<1>3. CASE Lookup
  BY <1>3, QueryFdKeeps, OpenAndStoreKeeps, QueryFreedKeeps DEF Lookup
<1>4. CASE DoTail
  BY <1>4, TailReadKeeps, FollowStopsKeeps, TailFinishKeeps DEF DoTail
<1>5. CASE LockAnswers \/ FollowFails \/ Interrupt
  BY <1>5, LockAnswersKeeps, FollowFailsKeeps, InterruptKeeps
<1>6. ASSUME NEW k \in Command \ {"signal"}, Typed(k), k = "flock" => ctx.fs # None
      PROVE  SessionInvariant'
  BY <1>6, TypedKeeps
<1>7. CASE Ended \/ UNCHANGED vars
  BY <1>7 DEF Ended, vars, SessionInvariant, TypeOK, StepsMatch, ConnectionsOwned, Named,
              Descriptors, FreedLast, OneDescriptorPerPath, ReleasedTwiceOnlyByInterrupt
<1> QED BY <1>1, <1>2, <1>3, <1>4, <1>5, <1>6, <1>7 DEF Next, ShellStep, Command

(* The inductive invariant of the session. *)
THEOREM SessionSafe == Spec => []SessionInvariant
<1>1. Init => SessionInvariant
  BY InitKeeps
<1>2. SessionInvariant /\ [Next]_vars => SessionInvariant'
  BY NextKeeps
<1> QED BY <1>1, <1>2, PTL DEF Spec

(* The prompt names the connection commands will use, and it is open. *)
THEOREM TruthfulPrompt == Spec => []PromptTruthful
<1>1. SessionInvariant => PromptTruthful
  BY SessionAssumption DEF SessionInvariant, StepsMatch, ConnectionsOwned, Named,
                           PromptTruthful, Step
<1> QED BY <1>1, SessionSafe, PTL

(* No connection is finalised while a lock descriptor on it is open. *)
THEOREM DescriptorsFirst == Spec => []DescriptorsCloseFirst
<1>1. SessionInvariant => DescriptorsCloseFirst
  BY DEF SessionInvariant, Descriptors, DescriptorsCloseFirst
<1> QED BY <1>1, SessionSafe, PTL

(* The process never exits with a connection of the session open. *)
THEOREM ExitIsClean == Spec => []CleanExit
<1>1. SessionInvariant => CleanExit
  BY SessionAssumption DEF SessionInvariant, ConnectionsOwned, CleanExit
<1> QED BY <1>1, SessionSafe, PTL

(* A path has one descriptor. *)
THEOREM OneDescriptor == Spec => []OneDescriptorPerPath
<1>1. SessionInvariant => OneDescriptorPerPath
  BY DEF SessionInvariant
<1> QED BY <1>1, SessionSafe, PTL

(* Only an interrupt inside a release makes the shell release a descriptor,*)
(* a connection or its context a second time.                              *)
THEOREM ReleasedOnce == Spec => []ReleasedTwiceOnlyByInterrupt
<1>1. SessionInvariant => ReleasedTwiceOnlyByInterrupt
  BY DEF SessionInvariant
<1> QED BY <1>1, SessionSafe, PTL

-----------------------------------------------------------------------------
(* FailedConnectKeepsSession: what a connect keeps of the old session.     *)
LEMMA ConnectTypes ==
    ASSUME SessionInvariant
    PROVE  /\ ctx \in Context /\ call \in Call
           /\ conn \in [Conn -> {"unused", "open", "finalised", "lost"}]
           /\ \A i \in DOMAIN ctx.flist :
                ctx.flist[i] \in Node /\ ctx.flist[i].conn \in Conn /\ ctx.flist[i].conn # None
<1>1. ctx \in Context /\ call \in Call
      /\ conn \in [Conn -> {"unused", "open", "finalised", "lost"}]
  BY DEF SessionInvariant, TypeOK
<1>2. ctx.flist \in Seq(Node)
  BY <1>1 DEF Context
<1>3. \A i \in DOMAIN ctx.flist : ctx.flist[i] \in Node
  BY <1>2
<1>4. \A i \in DOMAIN ctx.flist : ctx.flist[i].conn \in Conn
  BY <1>3 DEF Node
<1> QED BY <1>1, <1>3, <1>4, SessionAssumption

(* Steps that change neither the context nor the connections. *)
LEMMA LocalConnectKept ==
    ASSUME SessionInvariant, ConnectMatches, UNCHANGED <<ctx, conn>>,
           \/ ParseUrlFails \/ StartupOptions \/ UseFreedOptions \/ EndOfList
           \/ UseFinalised \/ Exit \/ (\E p \in Path : QueryFd(p) \/ OpenAndStore(p))
           \/ QueryFreed \/ DoTail \/ LockAnswers \/ FollowFails \/ Interrupt
           \/ (\E k \in Command \ {"signal"} : Typed(k)) \/ CloseNode \/ UNCHANGED vars
    PROVE  ConnectMatches'
<1>0. /\ call \in Call
      /\ \A i \in DOMAIN ctx.flist : ctx.flist[i].conn \in Conn /\ ctx.flist[i].conn # None
  BY ConnectTypes
<1>1. CASE ParseUrlFails
  <2>1. /\ call'.new = None /\ call'.cmd = call.cmd /\ call'.startup = call.startup
        /\ call'.before = call.before /\ call'.ret = call.ret /\ call.pc = "getfs"
        /\ ((call'.pc = "exited" /\ call.startup) \/ (call'.pc = "prompt" /\ ~call.startup))
    BY <1>0, <1>1, ConnectFailedEnds DEF ParseUrlFails, ConnectFailed, Call
  <2> QED BY <1>0, <1>1, <2>1 DEF ConnectMatches, Lists, SessionInvariant, StepsMatch
<1>2. CASE \E k \in Command \ {"signal"} : Typed(k)
  <2>1. PICK k \in Command \ {"signal"} : Typed(k)
    BY <1>2
  <2>2. /\ call'.pc = FirstStep(k) /\ call'.cmd = k /\ call'.before = ctx.fs
        /\ call'.startup = call.startup /\ call'.new = call.new /\ call.pc = "prompt"
    BY <1>0, <2>1 DEF Typed, Call
  <2>3. FirstStep(k) \in {"getfs", "options", "lookup", "read"}
    BY DEF FirstStep, Command
  <2>4. ~call.startup /\ call.cmd # "signal"
    BY <2>2 DEF SessionInvariant, StepsMatch
  <2> QED BY <1>0, <2>2, <2>3, <2>4 DEF ConnectMatches, Lists
<1>3. CASE StartupOptions
  <2>1. /\ call.pc = "applied" /\ call'.pc \in {"prompt", "undefined"}
        /\ call'.startup \in {FALSE, call.startup} /\ call'.new = call.new
        /\ call'.before = call.before /\ call'.cmd = call.cmd
    BY <1>0, <1>3 DEF StartupOptions, Misuse, Call
  <2> QED BY <1>0, <2>1 DEF ConnectMatches, Lists
<1>4. CASE Interrupt
  <2>1. /\ call'.new = call.new /\ call'.startup = call.startup /\ call'.before = call.before
        /\ call' = call \/ call'.cmd = "signal" \/ call'.pc = "killed"
        /\ call'.pc \in {call.pc, "options", "killed"}
    BY <1>0, <1>4 DEF Interrupt, Call
  <2> QED BY <1>0, <2>1 DEF ConnectMatches, Lists
<1>5. CASE UNCHANGED vars
  BY <1>5 DEF ConnectMatches, Lists, vars
<1>6. CASE \/ UseFreedOptions \/ EndOfList \/ UseFinalised \/ Exit \/ QueryFreed \/ DoTail
           \/ LockAnswers \/ FollowFails \/ CloseNode
           \/ \E p \in Path : QueryFd(p) \/ OpenAndStore(p)
  <2>1. /\ call'.new = call.new /\ call'.startup = call.startup /\ call'.before = call.before
        /\ call'.cmd = call.cmd /\ call'.ret = call.ret
    <3>1. call' = [call EXCEPT !.pc = call'.pc]
      BY <1>0, <1>6 DEF UseFreedOptions, EndOfList, UseFinalised, Exit, QueryFreed, DoTail,
         LockAnswers, FollowFails, CloseNode, QueryFd, OpenAndStore, Misuse, TailRead,
         FollowStops, TailFinish, Call
    <3> QED BY <1>0, <3>1 DEF Call
  <2>2. \/ call'.pc \in {"undefined", "exited"}
        \/ call'.pc \in {"forget", "fini", "closing"} /\ call.pc = "list"
        \/ /\ call.pc \in {"lookup", "lock", "read", "following", "finish"}
           /\ call'.pc \in {"lock", "prompt", "following", "finish"}
    BY <1>0, <1>6 DEF UseFreedOptions, EndOfList, UseFinalised, Exit, QueryFreed, DoTail,
         LockAnswers, FollowFails, CloseNode, QueryFd, OpenAndStore, Misuse, TailRead,
         FollowStops, TailFinish, Call
  <2>3. call.pc \in {"lookup", "lock", "read", "following", "finish"} => call.cmd # "connect"
    BY DEF SessionInvariant, StepsMatch
  <2> QED BY <1>0, <2>1, <2>2, <2>3 DEF ConnectMatches, Lists
<1> QED BY <1>1, <1>2, <1>3, <1>4, <1>5, <1>6

(* A connect that asks for the new connection or applies its options.      *)
LEMMA GettingConnectKept ==
    ASSUME SessionInvariant, ConnectMatches,
           (\E c \in Conn : GlusterGetfs(c)) \/ ApplyXlatorOptions
    PROVE  ConnectMatches'
<1>0. /\ call \in Call /\ conn \in [Conn -> {"unused", "open", "finalised", "lost"}]
      /\ \A i \in DOMAIN ctx.flist : ctx.flist[i].conn \in Conn /\ ctx.flist[i].conn # None
  BY ConnectTypes
<1>1. ctx' = ctx /\ call.pc \in {"getfs", "apply"} /\ call.cmd = "connect"
  BY DEF GlusterGetfs, ApplyXlatorOptions, SessionInvariant, StepsMatch
<1>2. PICK c \in Conn :
        /\ conn' = conn \/ conn' = [conn EXCEPT ![c] = "open"]
                        \/ conn' = [conn EXCEPT ![c] = "lost"]
        /\ \A i \in DOMAIN ctx.flist : ctx.flist[i].conn # c
        /\ call'.new \in {None, call.new, c}
  <2>1. CASE \E c \in Conn : GlusterGetfs(c)
    <3>1. PICK c \in Conn : GlusterGetfs(c)
      BY <2>1
    <3>2. conn[c] = "unused" /\ (conn' = [conn EXCEPT ![c] = "open"]
                                 \/ conn' = [conn EXCEPT ![c] = "lost"])
      BY <3>1 DEF GlusterGetfs
    <3>3. call'.new \in {None, c}
      BY <1>0, <3>1, ConnectFailedEnds DEF GlusterGetfs, Call
    <3> QED BY <3>2, <3>3 DEF ConnectMatches
  <2>2. CASE ApplyXlatorOptions
    <3>1. call.pc = "apply" /\ (conn' = conn \/ conn' = [conn EXCEPT ![call.new] = "lost"])
      BY <2>2 DEF ApplyXlatorOptions
    <3>2. call.new \in Conn
      BY <1>0, <1>1, <3>1 DEF SessionInvariant, StepsMatch, ConnectionsOwned, Call
    <3>3. call'.new \in {None, call.new}
      BY <1>0, <2>2, ConnectFailedEnds DEF ApplyXlatorOptions, Call
    <3> QED BY <3>1, <3>2, <3>3 DEF ConnectMatches
  <2> QED BY <2>1, <2>2
<1>3. /\ call'.cmd = call.cmd /\ call'.startup = call.startup /\ call'.before = call.before
      /\ call'.pc \in {"apply", "options", "exited", "prompt"}
  <2>1. CASE ConnectFailed
    <3>1. call'.before = call.before
      BY <1>0, <2>1 DEF ConnectFailed, Call
    <3> QED BY <1>0, <2>1, <3>1, ConnectFailedEnds
  <2>2. CASE ~ConnectFailed
    BY <1>0, <2>2 DEF GlusterGetfs, ApplyXlatorOptions, Call
  <2> QED BY <2>1, <2>2
<1>4. \A i \in DOMAIN ctx.flist : conn'[ctx.flist[i].conn] = conn[ctx.flist[i].conn]
  BY <1>0, <1>2
<1>5. /\ call.before # None => ctx.fs = call.before
      /\ \A i \in DOMAIN ctx.flist : ctx.flist[i].conn = ctx.fs => ctx.flist[i].status = "open"
  BY <1>1 DEF ConnectMatches, Lists
<1>6. \A i \in DOMAIN ctx'.flist :
        /\ conn'[ctx'.flist[i].conn] # "unused" /\ ctx'.flist[i].conn # call'.new
        /\ ctx'.flist[i].conn = ctx'.fs => ctx'.flist[i].status = "open"
  BY <1>0, <1>1, <1>2, <1>4, <1>5 DEF ConnectMatches
<1> QED BY <1>1, <1>3, <1>5, <1>6 DEF ConnectMatches, Lists

(* The session takes the new connection when the old one is forgotten.     *)
LEMMA AttachConnectKept ==
    ASSUME SessionInvariant, ConnectMatches, Attach
    PROVE  ConnectMatches'
<1>0. /\ ctx \in Context /\ call \in Call
      /\ \A i \in DOMAIN ctx.flist : ctx.flist[i].conn \in Conn /\ ctx.flist[i].conn # None
  BY ConnectTypes
<1>1. conn' = conn /\ call.pc = "attach" /\ call.cmd = "connect"
  BY DEF Attach, SessionInvariant, StepsMatch
<1>2. call.new # None /\ conn[call.new] = "open"
  BY <1>1 DEF SessionInvariant, StepsMatch, ConnectionsOwned
<1>3. /\ ctx'.flist = ctx.flist /\ ctx'.fs = call.new /\ call'.new = None
      /\ call'.startup = call.startup /\ call'.before = call.before
      /\ \/ call'.cmd = "quit" /\ call'.pc = "options"
         \/ call'.cmd = "connect" /\ call'.pc \in {"prompt", "applied"}
            /\ (call'.pc = "applied" => call.startup)
  BY <1>0, <1>1 DEF Attach, Context, Call
<1>4. call.before # None => conn[call.before] = "finalised" /\ call.before # call.new
  BY <1>1, <1>2 DEF ConnectMatches
<1> QED BY <1>0, <1>1, <1>2, <1>3, <1>4 DEF ConnectMatches, Lists

(* The release: the options, the list of descriptors, the connection.      *)
LEMMA ReleaseConnectKept ==
    ASSUME SessionInvariant, ConnectMatches,
           FreeOptions \/ CloseNode \/ FreeNode \/ Fini
    PROVE  ConnectMatches'
<1>0. /\ ctx \in Context /\ call \in Call
      /\ conn \in [Conn -> {"unused", "open", "finalised", "lost"}]
      /\ \A i \in DOMAIN ctx.flist : ctx.flist[i].conn \in Conn /\ ctx.flist[i].conn # None
  BY ConnectTypes
<1>1. /\ call'.new = call.new /\ call'.cmd = call.cmd /\ call'.startup = call.startup
      /\ call'.before = call.before /\ call.pc \in {"options"} \cup Lists
      /\ call'.pc \in Lists \cup {"undefined"}
  <2>1. CASE FreeOptions
    BY <1>0, <2>1 DEF FreeOptions, Lists, Call
  <2>4. CASE Fini
    <3>1. PICK r \in {0, -1} : call' = [call EXCEPT !.pc = "forget", !.ret = r]
      BY <2>4, Zenon DEF Fini
    <3> QED BY <1>0, <2>4, <3>1 DEF Fini, Lists, Call
  <2>2. CASE FreeNode
    BY <1>0, <2>2 DEF FreeNode, Lists, Call
  <2>3. CASE CloseNode
    BY <1>0, <2>3 DEF CloseNode, Misuse, Lists, Call
  <2> QED BY <2>1, <2>2, <2>3, <2>4
<1>2. /\ DOMAIN ctx'.flist = DOMAIN ctx.flist /\ ctx'.fs = ctx.fs
      /\ \A i \in DOMAIN ctx.flist : ctx'.flist[i].conn = ctx.flist[i].conn
  <2>1. CASE FreeOptions \/ Fini
    BY <1>0, <2>1 DEF FreeOptions, Fini, Context
  <2>2. CASE CloseNode
    <3>1. call.walk \in DOMAIN ctx.flist
      BY <1>0, <2>2 DEF CloseNode, Call, Context
    <3>2. CASE ctx' = [ctx EXCEPT !.flist[call.walk].status = "closed"]
      BY <1>0, <3>1, <3>2, NodeChanges
    <3> QED BY <2>2, <3>2 DEF CloseNode, Misuse
  <2>3. CASE FreeNode
    <3>1. call.walk \in DOMAIN ctx.flist
      BY <2>3 DEF FreeNode, SessionInvariant, Descriptors
    <3> QED BY <1>0, <2>3, <3>1, NodeChanges DEF FreeNode
  <2> QED BY <2>1, <2>2, <2>3
<1>3. \A c \in Conn : conn'[c] = "unused" => conn[c] = "unused"
  BY <1>0 DEF FreeOptions, CloseNode, FreeNode, Fini, Misuse
<1>4. \A i \in DOMAIN ctx'.flist :
        conn'[ctx'.flist[i].conn] # "unused" /\ ctx'.flist[i].conn # call'.new
  BY <1>0, <1>1, <1>2, <1>3 DEF ConnectMatches
<1>5. call.cmd = "connect" /\ call.cmd # "signal" /\ call.before # None => ctx.fs = call.before
  BY <1>1 DEF ConnectMatches, Lists
<1> QED BY <1>1, <1>2, <1>4, <1>5 DEF ConnectMatches, Lists

(* The old connection is forgotten.                                        *)
LEMMA ForgetConnectKept ==
    ASSUME SessionInvariant, ConnectMatches, Forget
    PROVE  ConnectMatches'
<1>0. /\ ctx \in Context /\ call \in Call
      /\ conn \in [Conn -> {"unused", "open", "finalised", "lost"}]
      /\ \A i \in DOMAIN ctx.flist : ctx.flist[i].conn \in Conn /\ ctx.flist[i].conn # None
  BY ConnectTypes
<1>1. /\ ctx'.flist = ctx.flist /\ ctx'.fs = None /\ call.pc = "forget"
  BY <1>0 DEF Forget, Context
<1>2. call.cmd \in {"connect", "disconnect", "quit", "exit", "signal"}
  BY <1>1 DEF SessionInvariant, StepsMatch
<1>3. CASE call.cmd = "connect" /\ call.ret = -1
  <2>1. conn' = [conn EXCEPT ![call.new] = "lost"] /\ ConnectFailed
    BY <1>3 DEF Forget
  <2>2. call'.before = call.before /\ call'.ret = -1
    BY <1>0, <1>3, <2>1 DEF ConnectFailed, Call
  <2>3. /\ call'.new = None /\ call'.startup = call.startup
        /\ call'.pc \in {"exited", "prompt"}
    BY <1>0, <2>1, ConnectFailedEnds
  <2>4. \A c \in Conn : conn'[c] = "unused" => conn[c] = "unused"
    BY <1>0, <2>1
  <2>5. call'.ret # 0
    BY <2>2
  <2> QED BY <1>0, <1>1, <2>2, <2>3, <2>4, <2>5 DEF ConnectMatches, Lists
<1>4. CASE ~(call.cmd = "connect" /\ call.ret = -1)
  <2>1. conn' = conn /\ call' = [call EXCEPT !.pc = AfterRelease]
    BY <1>4 DEF Forget
  <2>2. AfterRelease = CASE call.cmd = "disconnect" -> "prompt"
                         [] call.cmd = "connect" -> "attach"
                         [] call.cmd = "quit" -> "quit"
                         [] call.cmd = "exit" -> "leaving"
                         [] call.cmd = "signal" -> "leaving"
    BY <1>2 DEF AfterRelease, Cleaning
  <2>3. /\ call'.pc = AfterRelease /\ call'.new = call.new /\ call'.cmd = call.cmd
        /\ call'.startup = call.startup /\ call'.before = call.before
    BY <1>0, <2>1 DEF Call
  <2>4. /\ call.cmd = "connect" => call'.pc = "attach"
        /\ call'.pc \in {"prompt", "attach", "quit", "leaving"}
    BY <1>2, <2>2, <2>3
  <2>5. call.cmd = "connect" /\ call.before # None => conn[call.before] = "finalised"
    BY <1>1 DEF SessionInvariant, ConnectionsOwned, ConnectMatches, Lists
  <2> QED BY <1>0, <1>1, <2>1, <2>3, <2>4, <2>5 DEF ConnectMatches, Lists
<1> QED BY <1>3, <1>4

(* flock appends a descriptor of the session's connection; quit frees the  *)
(* context.                                                                *)
LEMMA FlockConnectKept ==
    ASSUME SessionInvariant, ConnectMatches,
           FreeContext \/ \E p \in Path : OpenAndStore(p)
    PROVE  ConnectMatches'
<1>0. /\ ctx \in Context /\ call \in Call
      /\ conn \in [Conn -> {"unused", "open", "finalised", "lost"}]
      /\ \A i \in DOMAIN ctx.flist : ctx.flist[i].conn \in Conn /\ ctx.flist[i].conn # None
  BY ConnectTypes
<1>1. CASE FreeContext
  <2>1. /\ ctx'.flist = ctx.flist /\ ctx'.fs = ctx.fs /\ conn' = conn /\ call.pc = "quit"
        /\ call' = [call EXCEPT !.pc = "leaving"]
    BY <1>0, <1>1 DEF FreeContext, Context
  <2>2. /\ call'.pc = "leaving" /\ call'.new = call.new /\ call'.cmd = call.cmd
        /\ call'.startup = call.startup /\ call'.before = call.before
    BY <1>0, <2>1 DEF Call
  <2> QED BY <1>0, <2>1, <2>2 DEF ConnectMatches, Lists
<1>2. CASE \E p \in Path : OpenAndStore(p)
  <2>1. PICK p \in Path : OpenAndStore(p)
    BY <1>2
  <2>2. /\ conn' = conn /\ call.pc = "lookup" /\ call.cmd = "flock"
        /\ call'.pc \in {"lock", "prompt"} /\ call'.new = call.new /\ call'.cmd = call.cmd
        /\ call'.startup = call.startup /\ call'.before = call.before
    BY <1>0, <2>1 DEF OpenAndStore, Call, SessionInvariant, StepsMatch
  <2>3. call.new = None /\ ctx.fs # None /\ conn[ctx.fs] # "unused"
    BY <2>2 DEF SessionInvariant, StepsMatch, ConnectionsOwned, Descriptors
  <2>4. ctx'.fs = ctx.fs
        /\ \A i \in DOMAIN ctx'.flist :
             \/ i \in DOMAIN ctx.flist /\ ctx'.flist[i] = ctx.flist[i]
             \/ ctx'.flist[i] = NodeFor(p)
    <3>1. CASE ctx' = [ctx EXCEPT !.flist = Append(@, NodeFor(p))]
      <4>1. ctx'.fs = ctx.fs /\ ctx'.flist = Append(ctx.flist, NodeFor(p))
            /\ ctx.flist \in Seq(Node)
        BY <1>0, <3>1 DEF Context
      <4>2. NodeFor(p) \in Node
        BY <1>0, <2>1, <2>3 DEF NodeFor, Node, Context
      <4> HIDE DEF NodeFor
      <4> QED BY <4>1, <4>2
    <3> QED BY <2>1, <3>1 DEF OpenAndStore
  <2>5. NodeFor(p).conn = ctx.fs /\ NodeFor(p).status = "open"
    BY DEF NodeFor
  <2>6. \A i \in DOMAIN ctx'.flist :
          /\ conn'[ctx'.flist[i].conn] # "unused" /\ ctx'.flist[i].conn # call'.new
          /\ ctx'.flist[i].conn = ctx'.fs => ctx'.flist[i].status = "open"
    BY <1>0, <2>2, <2>3, <2>4, <2>5 DEF ConnectMatches, Lists
  <2> QED BY <2>2, <2>4, <2>6 DEF ConnectMatches, Lists
<1> QED BY <1>1, <1>2

LEMMA ConnectKept ==
    ASSUME SessionInvariant, ConnectMatches, [Next]_vars
    PROVE  ConnectMatches'
<1>1. CASE UNCHANGED vars
  BY <1>1, LocalConnectKept DEF vars
<1>2. CASE (\E c \in Conn : GlusterGetfs(c)) \/ ApplyXlatorOptions
  BY <1>2, GettingConnectKept
<1>3. CASE Attach
  BY <1>3, AttachConnectKept
<1>4. CASE FreeOptions \/ CloseNode \/ FreeNode \/ Fini
  BY <1>4, ReleaseConnectKept
<1>5. CASE Forget
  BY <1>5, ForgetConnectKept
<1>6. CASE FreeContext \/ \E p \in Path : OpenAndStore(p)
  BY <1>6, FlockConnectKept
<1>7. CASE ParseUrlFails \/ StartupOptions
  BY <1>7, LocalConnectKept DEF ParseUrlFails, StartupOptions, Misuse
<1>8. CASE UseFreedOptions \/ EndOfList \/ UseFinalised \/ Exit
  BY <1>8, LocalConnectKept DEF UseFreedOptions, EndOfList, UseFinalised, Exit, Misuse
<1>9. CASE (\E p \in Path : QueryFd(p)) \/ QueryFreed \/ LockAnswers \/ FollowFails \/ Interrupt
  BY <1>9, LocalConnectKept DEF QueryFd, QueryFreed, LockAnswers, FollowFails, Interrupt, Misuse
<1>10. CASE DoTail
  BY <1>10, LocalConnectKept DEF DoTail, TailRead, FollowStops, TailFinish
<1>11. CASE \E k \in Command \ {"signal"} : Typed(k)
  BY <1>11, LocalConnectKept DEF Typed
<1>12. Next => \/ ShellStep \/ LockAnswers \/ FollowFails \/ Interrupt \/ UNCHANGED vars
               \/ \E k \in Command \ {"signal"} : Typed(k)
  BY DEF Next, Ended, Command
<1> QED BY <1>1, <1>2, <1>3, <1>4, <1>5, <1>6, <1>7, <1>8, <1>9, <1>10, <1>11, <1>12
        DEF ShellStep, CliConnect, Release, Lookup

(* ConnectMatches holds in every state: while a connect runs the context   *)
(* names the old connection until that is finalised, and no descriptor of  *)
(* the list was opened on the new one.                                     *)
THEOREM ConnectKnown == Spec => []ConnectMatches
<1>1. Init => ConnectMatches
  BY DEF Init, ConnectMatches, Lists
<1>2. SessionInvariant /\ ConnectMatches /\ [Next]_vars => ConnectMatches'
  BY ConnectKept
<1> QED BY <1>1, <1>2, SessionSafe, PTL DEF Spec

(* A connect that fails leaves the session and its locks as they were,     *)
(* unless the failure was in closing the old connection.                   *)
THEOREM FailedConnect == Spec => []FailedConnectKeepsSession
<1>1. SessionInvariant /\ ConnectMatches => FailedConnectKeepsSession
  <2> SUFFICES ASSUME SessionInvariant, ConnectMatches, call.pc = "prompt",
                      call.cmd = "connect", call.ret = 0, call.before # None
               PROVE  \/ /\ ctx.fs = call.before /\ conn[ctx.fs] = "open"
                         /\ \A i \in DOMAIN ctx.flist :
                              ctx.flist[i].conn = ctx.fs => ctx.flist[i].status = "open"
                      \/ /\ ctx.fs \notin {None, call.before} /\ conn[ctx.fs] = "open"
                         /\ conn[call.before] = "finalised"
    BY DEF FailedConnectKeepsSession
  <2>1. ctx.fs # None => conn[ctx.fs] = "open"
    BY SessionAssumption DEF SessionInvariant, StepsMatch, ConnectionsOwned, Step
  <2> QED BY <2>1 DEF ConnectMatches, Lists
<1> QED BY <1>1, SessionSafe, ConnectKnown, PTL

-----------------------------------------------------------------------------
(* Each step of the shell goes forward. *)

LEMMA OrderInts == \A l \in Step : Order[l] \in Int
BY DEF Order, Step

LEMMA LaterStatement ==
    ASSUME TypeOK, call'.cmd = call.cmd, call'.pc \in Step,
           Order[call'.pc] < Order[call.pc]
    PROVE  Forward
<1>1. call.pc \in Step
  BY DEF TypeOK, Call
<1>2. Order[call.pc] \in Int /\ Order[call'.pc] \in Int
  BY <1>1, OrderInts
<1> DEFINE n == IF call.cmd = "connect" THEN 8 ELSE 0
<1>3. n \in Int /\ n = (IF call'.cmd = "connect" THEN 8 ELSE 0)
  OBVIOUS
<1> HIDE DEF n
<1>4. Order[call'.pc] + n < Order[call.pc] + n
  BY <1>2, <1>3
<1> QED
  BY <1>3, <1>4 DEF Forward, StatementsLeft, n

LEMMA GotoForward ==
    ASSUME TypeOK, NEW l \in Step, Goto(l), Order[l] < Order[call.pc]
    PROVE  Forward
<1>1. call'.cmd = call.cmd /\ call'.pc = l
  BY DEF TypeOK, Call
<1> QED
  BY <1>1, LaterStatement

LEMMA MisuseForward ==
    ASSUME TypeOK, NEW w, Misuse(w), call.pc \in Releasing \cup {"applied", "lookup"}
    PROVE  Forward
<1>1. "undefined" \in Step /\ Order["undefined"] < Order[call.pc]
  BY DEF Order, Step
<1> QED
  BY <1>1, GotoForward DEF Misuse

LEMMA ConnectFailedForward ==
    ASSUME TypeOK, ConnectFailed, call.pc \in {"getfs", "apply", "forget"}
    PROVE  Forward
<1>1. call'.cmd = call.cmd /\ call'.pc \in {"exited", "prompt"}
  BY DEF ConnectFailed, TypeOK, Call
<1>2. call'.pc \in Step /\ Order[call'.pc] < Order[call.pc]
  BY <1>1 DEF Order, Step
<1> QED
  BY <1>1, <1>2, LaterStatement

LEMMA ConnectForward ==
    ASSUME SessionInvariant, CliConnect
    PROVE  Forward
<1>0. TypeOK /\ StepsMatch
  BY DEF SessionInvariant
<1>1. CASE ParseUrlFails
  BY <1>0, <1>1, ConnectFailedForward DEF ParseUrlFails
<1>2. CASE \E c \in Conn : GlusterGetfs(c)
  <2>1. At("getfs")
    BY <1>2 DEF GlusterGetfs
  <2>2. CASE ConnectFailed
    BY <1>0, <2>1, <2>2, ConnectFailedForward
  <2>3. CASE \E c \in Conn : call' = [call EXCEPT !.pc = "apply", !.new = c]
    <3>1. call'.cmd = call.cmd /\ call'.pc = "apply"
      BY <1>0, <2>3 DEF TypeOK, Call
    <3> QED
      BY <1>0, <2>1, <3>1, LaterStatement DEF Order, Step
  <2> QED
    BY <1>2, <2>2, <2>3 DEF GlusterGetfs
<1>3. CASE ApplyXlatorOptions
  <2>1. At("apply")
    BY <1>3 DEF ApplyXlatorOptions
  <2>2. CASE ConnectFailed
    BY <1>0, <2>1, <2>2, ConnectFailedForward
  <2>3. CASE Goto("options")
    BY <1>0, <2>1, <2>3, GotoForward DEF Order, Step
  <2> QED
    BY <1>3, <2>2, <2>3 DEF ApplyXlatorOptions
<1>4. CASE Attach
  <2>1. call.pc = "attach" /\ call.cmd = "connect"
    BY <1>0, <1>4 DEF Attach, StepsMatch
  <2>2. CASE call' = [call EXCEPT !.pc = IF call.startup THEN "applied" ELSE "prompt",
                                  !.new = None]
    <3>1. call'.cmd = call.cmd /\ call'.pc \in {"applied", "prompt"}
      BY <1>0, <2>2 DEF TypeOK, Call
    <3> QED
      BY <1>0, <2>1, <3>1, LaterStatement DEF Order, Step
  <2>3. CASE call' = [call EXCEPT !.pc = "options", !.cmd = "quit", !.new = None]
    <3>1. call'.cmd = "quit" /\ call'.pc = "options"
      BY <1>0, <2>3 DEF TypeOK, Call
    <3>2. StatementsLeft(call') = 7 /\ StatementsLeft(call) = 11
      BY <2>1, <3>1 DEF StatementsLeft, Order
    <3> QED
      BY <3>2 DEF Forward
  <2> QED
    BY <1>4, <2>2, <2>3 DEF Attach
<1>5. CASE StartupOptions
  <2>1. call.pc = "applied"
    BY <1>5 DEF StartupOptions
  <2>2. CASE call' = [call EXCEPT !.pc = "prompt", !.startup = FALSE]
    <3>1. call'.cmd = call.cmd /\ call'.pc = "prompt"
      BY <1>0, <2>2 DEF TypeOK, Call
    <3> QED
      BY <1>0, <2>1, <3>1, LaterStatement DEF Order, Step
  <2>3. CASE Misuse("options")
    BY <1>0, <2>1, <2>3, MisuseForward
  <2> QED
    BY <1>5, <2>2, <2>3 DEF StartupOptions
<1> QED
  BY <1>1, <1>2, <1>3, <1>4, <1>5 DEF CliConnect

LEMMA ReleaseForward ==
    ASSUME SessionInvariant, Release
    PROVE  Forward
<1>0. TypeOK /\ StepsMatch /\ Descriptors
  BY DEF SessionInvariant
<1>1. CASE FreeOptions
  <2>1. call'.cmd = call.cmd /\ call'.pc = "list" /\ call.pc = "options"
    BY <1>0, <1>1 DEF FreeOptions, TypeOK, Call
  <2> QED
    BY <1>0, <2>1, LaterStatement DEF Order, Step
<1>2. CASE UseFreedOptions \/ UseFinalised
  <2>1. call.pc \in {"options", "fini"} /\ \E w : Misuse(w)
    BY <1>2 DEF UseFreedOptions, UseFinalised
  <2> QED
    BY <1>0, <2>1, MisuseForward
<1>3. CASE CloseNode
  <2>1. call.pc = "list" /\ call.walk <= Len(ctx.flist)
    BY <1>3 DEF CloseNode
  <2>2. CASE \E w : Misuse(w)
    BY <1>0, <2>1, <2>2, MisuseForward
  <2>3. CASE ctx' = [ctx EXCEPT !.flist[call.walk].status = "closed"] /\ Goto("closing")
    <3>1. call.walk \in Nat \ {0} /\ ctx.flist \in Seq(Node)
      BY <1>0 DEF TypeOK, Call, Context
    <3>2. call.walk \in DOMAIN ctx.flist
      BY <2>1, <3>1
    <3>3. /\ call'.pc = "closing" /\ call'.cmd = call.cmd /\ call'.walk = call.walk
      BY <1>0, <2>3 DEF TypeOK, Call
    <3>4. ctx'.flist = [ctx.flist EXCEPT ![call.walk].status = "closed"]
      BY <1>0, <2>3 DEF TypeOK, Context
    <3>5. Len(ctx'.flist) = Len(ctx.flist)
      BY <3>1, <3>4
    <3> QED
      BY <2>1, <3>2, <3>3, <3>5 DEF Forward
  <2> QED
    BY <1>3, <2>2, <2>3 DEF CloseNode
<1>4. CASE FreeNode
  <2>1. call.pc = "closing" /\ call.walk \in DOMAIN ctx.flist
    BY <1>0, <1>4 DEF FreeNode, Descriptors
  <2>2. /\ call'.pc = "list" /\ call'.cmd = call.cmd /\ call'.walk = call.walk + 1
    BY <1>0, <1>4 DEF FreeNode, TypeOK, Call
  <2>3. ctx'.flist = [ctx.flist EXCEPT ![call.walk].status = "freed"]
    BY <1>0, <1>4 DEF FreeNode, TypeOK, Context
  <2>4. Len(ctx'.flist) = Len(ctx.flist)
    BY <1>0, <2>3 DEF TypeOK, Context
  <2> QED
    BY <2>1, <2>2, <2>4 DEF Forward
<1>5. CASE EndOfList
  <2>1. call.pc = "list" /\ (Goto("forget") \/ Goto("fini"))
    BY <1>5 DEF EndOfList
  <2>2. "forget" \in Step /\ "fini" \in Step
        /\ Order["forget"] < Order["list"] /\ Order["fini"] < Order["list"]
    BY DEF Order, Step
  <2> QED
    BY <1>0, <2>1, <2>2, GotoForward
<1>6. CASE Fini
  <2>1. call'.cmd = call.cmd /\ call'.pc = "forget" /\ call.pc = "fini"
    BY <1>0, <1>6 DEF Fini, TypeOK, Call
  <2> QED
    BY <1>0, <2>1, LaterStatement DEF Order, Step
<1>7. CASE Forget
  <2>1. call.pc = "forget"
    BY <1>7 DEF Forget
  <2>2. CASE ConnectFailed
    BY <1>0, <2>1, <2>2, ConnectFailedForward
  <2>3. CASE Goto(AfterRelease)
    <3>1. AfterRelease \in {"prompt", "attach", "quit", "leaving"}
      BY <1>0, <2>1 DEF AfterRelease, StepsMatch, Cleaning
    <3>2. AfterRelease \in Step /\ Order[AfterRelease] < Order[call.pc]
      BY <2>1, <3>1 DEF Order, Step
    <3> QED
      BY <1>0, <2>3, <3>2, GotoForward
  <2> QED
    BY <1>7, <2>2, <2>3 DEF Forget
<1>8. CASE FreeContext
  BY <1>0, <1>8, GotoForward DEF FreeContext, Order, Step
<1>9. CASE Exit
  BY <1>0, <1>9, GotoForward DEF Exit, Order, Step
<1> QED
  BY <1>1, <1>2, <1>3, <1>4, <1>5, <1>6, <1>7, <1>8, <1>9 DEF Release

LEMMA LookupForward ==
    ASSUME SessionInvariant, Lookup
    PROVE  Forward
<1>0. TypeOK
  BY DEF SessionInvariant
<1>1. call.pc = "lookup"
  BY DEF Lookup, QueryFd, OpenAndStore, QueryFreed
<1>2. Goto("lock") \/ Goto("prompt") \/ Misuse("list")
  BY DEF Lookup, QueryFd, OpenAndStore, QueryFreed
<1>3. "lock" \in Step /\ "prompt" \in Step
      /\ Order["lock"] < Order["lookup"] /\ Order["prompt"] < Order["lookup"]
  BY DEF Order, Step
<1> QED
  BY <1>0, <1>1, <1>2, <1>3, GotoForward, MisuseForward

LEMMA TailForward ==
    ASSUME SessionInvariant, DoTail
    PROVE  Forward
<1>0. TypeOK
  BY DEF SessionInvariant
<1>1. \/ call.pc = "read" /\ (Goto("finish") \/ Goto("following"))
      \/ call.pc = "following" /\ Goto("finish")
      \/ call.pc = "finish" /\ Goto("prompt")
  BY DEF DoTail, TailRead, FollowStops, TailFinish
<1>2. /\ {"following", "finish", "prompt"} \subseteq Step
      /\ Order["finish"] < Order["read"] /\ Order["following"] < Order["read"]
      /\ Order["finish"] < Order["following"] /\ Order["prompt"] < Order["finish"]
  BY DEF Order, Step
<1> QED
  BY <1>0, <1>1, <1>2, GotoForward

(* No step of the shell is taken back: the commands, the release of the    *)
(* list and sig_handler, wherever the interrupt fell, only go forward      *)
(* (StepsGoForward), and so come to their end if they are run.             *)
THEOREM AlwaysForward == Spec => StepsGoForward
<1>1. SessionInvariant /\ [Next]_vars => [ShellStep => Forward]_vars
  BY ConnectForward, ReleaseForward, LookupForward, TailForward DEF ShellStep
<1> QED
  BY <1>1, SessionSafe, PTL DEF Spec, StepsGoForward
=============================================================================
