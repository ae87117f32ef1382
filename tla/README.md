# glusterfs-coreutils in TLA+

glusterfs-coreutils is a set of small utilities (`gfcp`, `gfput`, `gfcat`, `gftail`, `gfrm`, ...)
that work on files of a Gluster volume through libgfapi, and a shell, `gfcli`, that runs the same
utilities over a connection it keeps. All of them are one program, `src/src/glfs-cli.c`, that looks
at the name it was started with; `gfput` is a program of its own.

This directory models what happens in that program between its calls to libgfapi and to the
operating system: what several utilities do to each other on one file, what makers and removers of
directories do to each other on one path, what `gftail` shows of a file that others change, what a
shell session does to its connection, and how one command gets from its arguments to its exit
status. TLC checks the models on small instances, TLAPS proves the central invariants for all of
them.

* [The system](#the-system): its parts, their state and operations, what is hard about them
* [The modules](#the-modules): what models what, and how state and actions correspond to the code
* [The runs](#the-runs): what each checks, the bounds, the fairness
* [Where code and documentation disagree](#where-code-and-documentation-disagree)
* [The proofs](#the-proofs)
* [What is not modelled](#what-is-not-modelled)
* [The plan](#the-plan)

Run a model with `tlc -config everything.cfg Utilities.tla`, a proof with `tlapm UtilitiesProofs.tla`.

## The system

| Part | Source | State it keeps | Operations | What makes it correct |
|---|---|---|---|---|
| transfer helpers | `glfs-util.c` | a descriptor, its offset, a 64 KiB buffer | `gluster_lock` (try or wait), `gluster_write`, `gluster_read`, `gluster_getfs`, `apply_xlator_options`, `gluster_create_path`, `gluster_parse_url` | what was read is written, once and in order; errors are not taken for the end of the data |
| `gfput` | `glfs-put.c` | `append`, `overwrite`, `parents` | look, make the path, create, lock, seek or truncate, copy standard input | an existing file is only replaced with `-f`; appends never lose data |
| `gfcp`, `gfmv` | `glfs-cp.c`, `glfs-mv.c` | the transfer mode, up to two connections | local to remote, remote to local, remote to remote; complete a directory with a name; rename; remove the source | the right files on the right volumes; a source is removed after it was copied |
| `gfcat` | `glfs-cat.c` | a read lock during the copy | open, lock, copy to standard output | a reader sees one content |
| `gftruncate` | `glfs-truncate.c` | the size | find or create, lock, unlock, truncate | the size asked for, nobody else disturbed |
| `gfrm`, `gftouch`, `gfls`, `gfstat` | one file each | options | one request each | exit status tells what happened |
| `gfmkdir`, `gfrmdir` | one file each | options | make or remove one directory, or make a whole path | a path is made although others make the same one |
| `gftail` | `glfs-tail.c` | the length it compares with, the offset, `keep_running` | search for the last lines or bytes, copy, then follow | each byte once and in order, the right lines, ends on SIGINT |
| shell | `glfs-cli.c`, `glfs-cli-commands.c` | `ctx`: the connection, its name, translator options, the list of locked files | `connect`, `disconnect`, `quit`, the utilities, SIGINT | the prompt is true; what was opened is released once, in order |
| `flock` | `glfs-flock.c` | `ctx->flist`: a descriptor for each locked path | lock, unlock | a path has one descriptor, closed before the connection |
| `clear` | `glfs-clear.c` | none | terminal output | not modelled |

They interact in three ways. *Utilities share files and directories of a volume*: different
processes, and the only thing between them is a POSIX lock on the whole file, tried and not waited
for, which a process loses with its descriptor or its connection; directories have no lock at all.
*The shell's commands share `ctx`*: they run one after the other in one process. *SIGINT* interrupts
a shell anywhere and runs `cleanup` on what it finds, or makes `tail -f` stop, or kills the process,
depending on which handler is installed.

What is hard to test here: the interleavings of two utilities on one path (check then create, create
then lock, lock then truncate, transfer then remove); `mkdir` of one component after another while
others make and remove the same ones; a utility cut short in its copy loop by an error or a signal;
a descriptor's offset that is stale after somebody else's truncation; a backward search across
buffers in a file whose length was read earlier; a poll of a length that changes twice between two
polls; a failure between two connections, each with a `goto` of its own; a `connect` that fails after
the old connection has gone; sequences of shell commands that leave pointers behind; an interrupt
inside a release; eight transfer modes guessed in two steps from two operands. `PROJECT.json` lists
them under "hazards", each at its line and with the properties that would show it going wrong.

## The modules

### Utilities on one path

```
Volume <- GlfsUtil <- Put, Cp <- Mv, Cat, Truncate, Rm <- Utilities <- Transfers <- MCTransfers
                                                              |           |
                                                     UtilitiesProofs   AtomicFile (refined)
                                                              |           |
                                                  TransfersProofs <- TransfersTheorems
```

Any number of processes (`Client`), each one utility (`proc[c].op`) at one statement (`proc[c].pc`),
on one path of one volume. `put_f` and `put_a` are `gfput -f` and `-a`; `cp_in`, `cp_out` and
`mv_in`, `mv_out` are `gfcp` and `gfmv` to and from the volume; `rr_in`, `rr_out` the two ends of a
`remote_to_remote`; `trunc`, `trunc_sh` `gftruncate` alone and in the shell.

| Module | Models | State and actions |
|---|---|---|
| `Volume` | the volume as libgfapi shows it (external) | `dir` (the inode at the path), `data` (blocks of an inode), `lock` (who locks it), `proc` (locals of each utility: descriptor, offset, buffer, `ret`); opening, creating, unlinking, writing at an offset, a signal |
| `GlfsUtil` | `glfs-util.c` | the lock request and the four halves of the two copy loops, a call each |
| `Put`, `Cp`, `Mv`, `Cat`, `Truncate`, `Rm` | the utility's own function | an action for each call of `gluster_put`, `local_to_remote`, `remote_to_local`, `remote_to_remote`, `gluster_get`, `truncate_without_context`, `rm`, with its error path |
| `Utilities` | processes of an operating system | `Init` picks any job for each, `Next` runs any of them; the lock discipline |
| `Transfers` | what transfers promise about data | a history variable, `stable`: the data of an inode when it was last unlocked |
| `AtomicFile` | the abstract specification: a file that readers, writers and appenders use in one step each | `acted`, `entry`, `val` |

Data is a sequence of blocks that say who wrote them and which block of his source they are, so a
mixture, a hole or a loss shows. A chunk of the copy loop is up to `Chunk` blocks and a write may be
short. Every call named in `Fault` may fail. `TransfersAreAtomic` is the refinement: locked
transfers, each of a dozen calls, implement `AtomicFile` under the mapping in `Transfers` - a
transfer acts when it closes the path. `DataInvariant` is what each process knows of the file at each
of its steps (`Untouched`, `Writing`, `Reading`, `Stored`, `Fetched`), and whose blocks cannot be in
it (`Traceless`).

### Directories

```
Tree <- Directories <- MCDirectories
  ^          |    |
PathService  |  DirectoriesProofs
  (refined by)
```

| Module | Models | State and actions |
|---|---|---|
| `Tree` | a volume's tree (external) | `Trees`, the well-formed ones, and when `glfs_mkdir`, `glfs_rmdir`, `glfs_unlink` and `glfs_creat` succeed |
| `Directories` | `gluster_create_path`, and `gfmkdir`, `gfrmdir`, `gfrm` and `gfput -r` up to the file, each in a process of its own | `tree`, `cmd[c]` (the command line), `proc[c]` (statement, component, `ret`); `Make` and `Stat` are the two calls of the loop, for one component each; `Mkdir`, `Rmdir`, `Rm`, `Lstat`, `Creat` the others; `Kill` a signal anywhere |
| `PathService` | the abstract specification: commands that are answered once, in the step in which what was asked for is done or is the case | `tree`, `task`, `answer`; `Accept`, `MakeOne`, `Succeed`, `Fail` |

`disturbed` and `failed` are history variables: something on a process's path was removed, one of
its calls failed for a reason from outside. `KeepsPromise` is the refinement, with `answer` read off
`pc` and `ret`. `DirsOf` says which components get a slash after them, which is what the loop looks
for: all of a URL, all but the last of a path given in the shell.

### gftail

`Tail` (with `MCTail`, `TailProofs`, `TailSearchProofs`) is one `gftail` and a file that other processes append to,
truncate, replace and remove. `proc` has the locals (`size`, `offset`, the descriptor's position
`pos`, `newlines`), `out` is standard output. `ParseOptions`, `Stat`, `Open`, `TailBytes`,
`TailLines`, `SearchBuffer` (one turn of the loop), `SearchRest` (the read after it), `Finished`,
`GlusterRead` (one turn of the copy), `While`, `Poll`, `Out` are the statements in between two
changes of the file; `Interrupt` is SIGINT. `Hit` is the place in a buffer, read backwards, at which
the count of newlines reaches the number of lines; its reference, `LastLines`, is written from the
starts of the lines of the whole file. An offset is an `off_t` that the code keeps in an `int`:
`AsInt` is that conversion, with the width `IntBits`.

### The shell session

`Session` (with `SessionProofs`) is one process: `ctx` (`fs`, `conn_str`, `flist`, the options, and
whether it was freed), `conn` (what has become of each connection), `call` (the command and the
statement it is at), the handler of SIGINT. `connect`, `disconnect`, `quit`, `flock`, `tail`, the end
of input and `sig_handler` are chains of actions with the code's statements as `pc`; `Interrupt` is
enabled between any two. Using what was freed or finalised has no defined outcome: such a step ends
the model in `undefined`, and `misused` names what was used.

### One command

```
Connection <- CopyMove <- OneFile <- Invocation <- MCInvocation
                                          |
                                   InvocationProofs
```

`Invocation` is one command from its arguments (`argv`: utility, operands, one option, connected
shell or not) to its exit status, over any number of volumes: parsing, `gluster_getfs`, translator
options, logging, the work on the file, `glfs_fini`. `Connection` has the connection objects
(`conn`), the pointers to them (`dest`, `source`: `dest_fs`, `source_fs` or `fs`) and what every
utility does with them; `CopyMove` the modes of `gfcp` and `gfmv`, which connection each end uses
and `complete_path`; `OneFile` the other eleven, with and without `-r` and `-f`. `files` says for
each place which data it holds, or `Directory`; an operand may be the path of a file or of a
directory, and `Entry` is the path that a directory and the name of a source make. A transfer is one
step here, with the outcomes `Cp` shows it has, and so is the making of a path, with those of
`Directories`.

### What the abstractions leave out

A URL is a record of its kind, volume and path (`gluster_parse_url` splits it); paths are compared,
and taken apart into components in `Tree` only; a block stands for any number of bytes, but a byte of
`Tail` for one. In `Invocation` a source is never a directory, never empty and at least as long as
the file it replaces; `Cp` and `Put` have the other lengths, call by call. The value of an
uninitialised variable (`gftouch`'s `ret`, `gfput`'s list of options) is any outcome the build could
produce. In `Tail` a `glfs_read` fills the buffer unless the file ends, which `tail_lines` takes for
granted; short reads and writes are in `GlfsUtil`. `gfput -a` keeps the `off_t` of `glfs_lseek` in an
`int` and compares it with -1 (`glfs-put.c:253`): a length that becomes -1 there is one of the
failures that `seek` in `Fault` stands for.

## The runs

| Run | Instance | Shows |
|---|---|---|
| `everything` | any two of 13 utilities, every call may fail, signals; sources of none or two blocks, short reads and writes | `LockInvariant`, `DataPhaseLocked`, `LocksAreReleased`, `DataPhaseExclusive`: data is touched under the lock only, and no path out keeps a lock; `Termination`: nobody waits for anybody, a short write makes progress, and both copy loops end |
| `atomic` | three locking utilities, failing anywhere before the copy loop | `TransfersAreAtomic`, and success means the data is where it should be (`SuccessMeansStored`, `SuccessMeansFetched`), without holes (`NoHoles`), and without a trace of who was refused (`RefusedLeavesNoTrace`) |
| `torn` | two locking utilities cut short anywhere by errors and signals, sources of 0 to 2 blocks | `DataInvariant`, what is left is a prefix (`TransfersAreAtomic` with `Torn`), `AppendKeepsData`, `OriginalKept`, and rivals are not all refused (`SomeoneSucceeds`) |
| `directories` | three processes, eight command lines, one branch of three directories, every call may fail, signals | `DirectoriesInvariant`, `MakersDoNotCollide`: `-r` fails only for a removal or a call that failed; `KeepsPromise`: every command is answered, with a success that is true at that moment |
| `tail` | every `-c`, `-n`, `-f` of files of up to two and a half buffers, others append, truncate, replace, remove, every call may fail, SIGINT | `TailInvariant`, `ShownIsContiguous`; `SearchInvariant` and `SearchIsRight`, the place that is searched for and shown from; `NothingElseFails`, `FollowCatchesUp` |
| `session` | three connections, two locked paths, every call may fail, SIGINT anywhere | `SessionInvariant` and `ConnectMatches`, the prompt is true, failed connects keep the session, descriptors close first, clean exit, double releases only where an interrupt falls into one, commands and interrupts end |
| `invocation` | thirteen utilities, four volumes (two hosts, two names), two files and two directories on each, every pair of operands, every call may fail | `InvocationInvariant` and `ResultsMatch`, `OnlyNamedFilesChange`, `ConnectedBeforeChange`, `ConnectionsReleased`, `ZeroMeansDone` |
| `write_error`, `mv_loses`, `list_released`, `tail_lines`, `mkdir_success` | as above, cut down | one refuted claim each, see below |

**Bounds.** *Utilities*: two or three processes, because a lock has one owner and the hazards are
between an owner, a rival and one who comes in between. In `atomic` and `torn`, up to two blocks in
chunks of two, with short writes, so that a transfer can be cut before, inside and after a write;
`torn` has empty sources, too. The file at the path is as long as a source or shorter; a local file
that a copy replaces is absent, because the code does not truncate it (see below) and what is left of
it is no hazard between processes. `everything` has all utilities and all faults at once, and
sources of none or two blocks: two blocks are read in one turn of the loop or in two, and a buffer
of two is written at once or by a short write and another. `atomic` and `torn` split the calls that fail, because a transfer that is
cut short has weaker promises.

*Directories*: a path of three components has a first, a last and one in between; three processes
are a maker, another and a remover. The command lines are makers of all, of a part and of one
directory, removers of two of them and two writers of files, and the trees at the start are nothing,
a directory, all three, or a file in the way. A `gfrmdir -r` makes its path as a `gfmkdir -r` does
and is left to the proofs.

*Tail*: a buffer of two bytes (`BufSize`) and files of up to five have all relations of a length to
a buffer: less, equal, a multiple, and not. Files of seven and nine bytes have the offsets at which
an `int` of three bits (`IntBits`) is -1 or wraps; the one of seven is all newlines, so that the
search adds up what it finds in several buffers. Others append up to `MaxChanges` bytes, and a
truncation, replacement or removal counts for `Weight` of them: this bounds what others do and
nothing gftail does.

*Session*: three connections are the old one, the new one and one more after a failure; two paths
are one that is in `flist` and one that is not. The number of connections of a session (`Conn`) is a
counter the code does not have; it bounds how often a session connects.

*Invocation*: two hosts and two volume names make volumes that differ in one part only, which is
what `SameVolume` compares; two paths make a source, a destination and, with four volumes, files
nobody named; two directories make one whose entry is the source's own path and one whose entry is
another. Symmetry is used for hosts and volume names here and for processes in `atomic` and `torn`,
where no liveness is checked.

**Fairness.** `Utilities` assumes weak fairness of each process (`UtilityStep(c)`): its calls return,
and the operating system keeps running it; the lock is tried with `F_SETLK`, so no call waits for
another utility. `Directories` assumes the same (`Step(c)`), and shows with it that its commands are
answered, which is the fairness of `PathService`. `Tail` assumes it of `TailStep`: the `usleep`
between two polls ends. `Session` assumes weak fairness of `ShellStep`: the shell runs unless it
waits for a line, for a lock of somebody else (`LockAnswers`) or for more of the file it follows.
The user (`Start`, `Typed`, `Interrupt`), signals, other processes and failures are never assumed to
come. `Invocation` has no liveness property.

**Mutants.** Each property of a passing run has a mutated definition (commented `mutant` in the
modules, paired in `PROJECT.json`) that stands for a plausible bug, under which the run fails: a lock
whose result is ignored, a truncation before the lock, an `EEXIST` taken for an error, a poll that
rewinds, a mode that is not corrected, a host that is not compared, `-f` that ignores every error,
and so on.

## Where code and documentation disagree

Each of the first five has a run whose counterexample shows it, and an entry under "findings".

1. Errors of the copy loop are reported as success: only the value 0 of `gluster_write` is a failure,
   and it returns -1 (`write_error`, `glfs-put.c:270`).
2. `gfmv` removes its source whatever the transfer returned: in the run another `gfmv` owns the
   lock of the destination, the transfer is refused, and the local file is removed all the same
   (`mv_loses`, `glfs-mv.c:779`).
3. `disconnect` frees the list of locked files and keeps the pointer (`list_released`,
   `glfs-cli-commands.c:163`).
4. `gftail -n` of a file longer than a buffer and not a multiple of it does not search the start of
   the file: the read after the loop goes on where the last one ended (`tail_lines`,
   `glfs-tail.c:391`).
5. `gfmkdir -r` succeeds without making its directory when a file is in the way, and in the shell
   when the path does not end in a slash (`mkdir_success`, `glfs-util.c:315`).

Others were met on the way; the models have the behaviour, and the properties are stated around it:

* A plain `gfput` checks with `glfs_lstat` and creates without `O_EXCL`: two of them overwrite each
  other (`glfs-put.c:227`). Any failure of the `glfs_lstat` is taken for a missing file.
* `gfmv` between two volumes renames on the destination's (`glfs-mv.c:825`). A destination that is a
  directory is not completed for a rename, which then fails.
* A complete `gfcp` to a local file, and a complete `gftail`, exit with the size of their last
  write, modulo 256 (`glfs-cp.c:641`). `gftail` does not report a read that fails.
* `gftruncate` truncates by path after it has given the lock back, so the file changes while `gfcat`
  reads it (`glfs-truncate.c:373`, against the comment at `glfs-cat.c:76`).
* `tail -f` notes a length again only when it has become less (`glfs-tail.c:494`): a file that is
  truncated and grows beyond its old length between two polls is not shown from its start, and one
  that is replaced is polled by its new length and read by its old data. A last line without a
  newline is shown on top of the lines asked for. An `off_t` is kept in an `int` and compared with
  -1, so at some offsets beyond 2^31 a seek that succeeded counts as failed.
* `tail` leaves SIGINT at its default: the next interrupt kills the shell with its connection open
  (`glfs-tail.c:513`, against the comment at `glfs-cli.c:396`). `keep_running` is never set again,
  so a second `tail -f` stops at once. SIGINT inside a release makes `cleanup` release again.
* `gfrmdir -r` makes the directories of its path, as `gfmkdir -r` does, and removes none.
* `gfcp` to a local file does not truncate it (`glfs-cp.c:629`), and reports success when the source
  cannot be opened and the destination, a file or a directory, exists (`glfs-cp.c:623`). Between two
  volumes it takes no lock and truncates nothing (`glfs-cp.c:694`). An empty source counts as a
  failure.
* A failed read is not told from the end of the data (`glfs-util.c:405`).
* `gfcp` that fails over a connection shared by both ends finalises it twice (`glfs-cp.c:827`, 841).
* `gfmv` from the shell's volume to a URL, or the reverse, copies and keeps the source
  (`glfs-mv.c:884`, 904).
* `option_index` is compared with `argc` as if it counted words: `gfrm --port N URL` lacks an
  operand, and so do `gftouch`, `gfls` and `gfput`. `gfcli -o KEY=VALUE URL` applies the list it has
  just freed (`glfs-cli.c:334`). `gfstat --port` has no argument to read. `-d` is documented but
  missing from the short options of `gfcp`, `gfmv`, `gfrm` and `gfstat`.
* `gfput` never initialises its translator options (`glfs-put.c:192`), `gftouch` never sets its
  result (`glfs-touch.c:226`).

## The proofs

| Theorem | Of | Says |
|---|---|---|
| `LockDiscipline`, `Types` | `Utilities` | `LockInvariant`, the inductive invariant, and the types |
| `LockedData`, `LocksReleased`, `MutualExclusion` | `Utilities` | the three properties that follow from it |
| `AlwaysForward` | `Utilities`, `Directories`, `Session` (one each) | `StepsGoForward`: each step is to a later statement or a further turn of a loop that has an end |
| `DataKnown` | `Transfers` | `DataInvariant`, the inductive invariant about data |
| `Atomicity` | `Transfers` | `TransfersAreAtomic`: the locking utilities implement `AtomicFile` |
| `SuccessStores`, `SuccessFetches`, `HolesNever`, `RefusalsAreTraceless`, `AppendsOnlyExtend`, `OriginalSurvives`, `RivalsSucceed` | `Transfers` | each of the other properties of its two runs |
| `WorkIsFixed` | `Transfers` | `NobodyAddsWork`: what the owner of a lock has to copy does not grow |
| `DirectoriesSafe`, `NoCollision` | `Directories` | `DirectoriesInvariant`, the inductive invariant, and `MakersDoNotCollide` |
| `Implements` | `Directories` | its initial states and steps are those of `PathService` |
| `TailSafe`, `Contiguous`, `FailsForAReason` | `Tail` | `TailInvariant`, the inductive invariant, `ShownIsContiguous` and `NothingElseFails` |
| `SearchCounts`, `SearchFindsTheLines`, `ShowsTheRightEnd` | `Tail` | `SearchInvariant`, the inductive invariant of the search; `SearchIsRight`; `ShowsTheEnd`: a file that does not change is shown from the right place to its end |
| `OnlyPollsGoBack`, `NoGrowthIsMissed` | `Tail` | `OnlyPollsRepeat`, what ends its loops; `GrowthIsSeen`, the steps by which `-f` catches up |
| `SessionSafe` | `Session` | `SessionInvariant`, the inductive invariant |
| `TruthfulPrompt`, `DescriptorsFirst`, `ExitIsClean`, `OneDescriptor`, `ReleasedOnce` | `Session` | the properties that follow from it |
| `ConnectKnown`, `FailedConnect` | `Session` | `ConnectMatches`, the inductive invariant of a connect, and `FailedConnectKeepsSession` |
| `InvocationSafe` | `Invocation` | `InvocationInvariant`, the inductive invariant |
| `Released`, `Connected`, `NamedFiles` | `Invocation` | a state property and two action properties that follow from it |
| `ResultsKnown`, `ZeroIsDone` | `Invocation` | `ResultsMatch`, the inductive invariant about `ret`, and `ZeroMeansDone` |

They hold for any number of processes, lengths, chunk and buffer sizes, connections, paths, trees,
hosts and volumes and any set of failing calls. The assumptions are those of the modules, which TLC
evaluates in the runs: `VolumeAssumption`, `TreeAssumption`, `DirectoriesAssumption`,
`TailAssumption`, `SessionAssumption`, `ConnectionAssumption` - the null value is none of the others,
lengths are numbers, paths come with their ancestors, the failing calls are calls that can fail.

*Utilities.* `DataPhaseLocked` alone is not inductive: the step into the data phase must own the lock
of the inode its descriptor is on, so descriptors must be open where they are used
(`DescriptorsOpen`), and nobody else may close a lock away, so every lock must belong to a process
that is between its lock and its close (`LocksAreReleased`). A step changes one process; the proof
is a lemma for each function of the code (`PutNext`, `CpNext`, ...), on top of two that say what a
step of one process does to the invariant of the others.

*Steps go forward.* A proof cannot say that a utility ends, but it can say what ends it: no step is
to an earlier statement (`Order` numbers them), and a turn of a loop uses up something that is
there. In `Utilities` this is what the copy reads from, and then the buffer: a short write leaves
less of it, and nothing is read before it is empty. That it has an end from the start needs
`NobodyAddsWork`, too, which holds where everybody locks the path; a `gftruncate` or a copy between
two volumes may make a file longer while `gfcat` reads it. In `Directories` a turn goes from `mkdir`
to `stat` of a component or on to the next, of which there are `DirsOf`, whatever others remove
behind it. In `Session` it is a node of the list of descriptors, which no release makes longer; a
`connect` that finds no memory for the name becomes a `quit` and releases once more. An interrupt
starts a chain of its own, which goes forward as well, wherever it fell.

*Transfers.* These theorems say what they need of the constants: only utilities that lock the path
run (`Job \subseteq Locker`: with `gftruncate`, `gfrm` and copies between volumes they need
not hold), the local destinations do not exist at first (`OldLen = {}`), and for some properties that
certain calls do not fail - those the corresponding finding is about. `TransfersProofs` first sorts
the actions of all utilities into seventeen kinds by what they do to the file and to what the
process holds (`TransferStep`; `Steps` shows there are no others), so that everything after it is
about a lock, a buffer and an offset and no longer about `gfput` or `gfcp`. The argument is then the
one for a lock: only its owner changes the data (`Footprint`), so what another process knows stays
true (`OthersProgress`), and the owner's knowledge follows it through its own loop (`OwnProgress`).
In the loop of a writer the file is the committed content, or nothing, followed by a prefix of the
source, the offset is its end, and the buffer is the next part of the source (`Writing`); that a
short write keeps this is the one step about sequences. `stable` changes only when a transfer ends,
and `Outcome` says what it can be then, which gives `Atomicity` its three actions. `RivalsSucceed`
needs a second invariant: once somebody has been refused there is a process past its lock, which
only a signal can stop (`Contest`).

*Directories.* A maker that nobody has disturbed has directories at all components behind `next`,
and finds in `Stat` what `Make` has collided with (`PathStands`). That another process keeps this is
the heart of the proof: it may only make what was missing, and what it removes disturbs those whose
path it is on. `StepsMatch` ties statements to command lines. `Implements` needs the same facts: the
step that ends the loop makes or sees the last component, so its success is about that moment, and
no other step of the loop does more than make one directory on the path.

*Tail.* While the file has only grown, everything gftail has noted - the length, its position, the
offset it will seek to - is at most the length now (`PositionsInFile`), because a length and a read
only come from earlier states. What it has shown is then one piece when the copy starts where it
seeks to and a poll continues where the copy has stopped. A negative offset can only come from
stepping back in a search of several pieces (`Pieces`), which is why `NothingElseFails` can name its
reasons.

The search is about a file that does not change (`NotChanged`). The loop counts newlines backwards
over buffers, while `LastLines` is defined by the starts of lines from the front. `SearchInvariant`
brings them together: at the head of the loop the newlines behind the buffer have been counted, each
once, and the length is the offset plus a whole number of buffers (`Searching`), so the place where
the loop stops is the newline with the right number of newlines from it on (`PlaceRight`). Where the
search stops short of the start of the file, finding 4, it only promises what the whole buffers hold
(`WholeBuffers`). That this newline is the one before the last lines would be an induction over the
file; instead, no two newlines have equally many after them (`CountsDiffer`), so the newline that
`LastLines` chooses and the one that was found are the same. `ShowsTheEnd` puts it together with
`ShownIsContiguous`: it starts at the right place, is in one piece, and ends with the file.

`OnlyPollsRepeat` needs no assumption about others: a search steps back by a buffer, a copy reads on
in what is there at that moment. `GrowthIsSeen` needs that the length a poll compares with is never
ahead of what the copy has shown (`PollNotAhead`), which is so as long as the file only grows and
nothing fails.

*Session.* That the prompt is true depends on the pointers being cleared together, on which command
may be at which statement (`StepsMatch`), on what may still be open (`ConnectionsOwned`), and on the
list being walked from the front (`Descriptors`). Interrupts can fall between any two statements,
so each part says what holds when `sig_handler` has taken over. For `FailedConnect` one has to follow
a `connect`: its old connection is the session's until it is forgotten and is finalised then, and a
new connection is one that no descriptor in the list was opened on (`ConnectMatches`).

*Invocation.* `NamedFiles` rests on `TransferEnds`: the connection a transfer function is given, and
the path of the operand, are the place the operand names, in each of the eight modes. For that the
mode must be the one `parse_options` derives from the operands (`ModeMatches`), the pointers must
lead to objects that were made for those operands (`PointersMatch`), and the shared connection must
be of one volume. `Released` needs `FinisMatch`, how often each object has been finalised at each
step; `Connected` needs `ConnectionsUsable`. `ZeroIsDone` follows `ret` on its way to the exit
status: once the operation has returned 0 what it was for is done, no later step changes the file,
and no way around the operation leaves `ret` at 0 (`ResultsMatch`). A copy from a volume, a move and
`gftouch` are not in `Done`: their exit status says nothing, see above.

**Only model-checked**: liveness (`Termination`, `CommandsEnd`, `InterruptEnds`, `FollowCatchesUp`,
and that commands are answered in `KeepsPromise`). That each step on the way is one forward is
proved (`AlwaysForward`, `OnlyPollsGoBack`, `NoGrowthIsMissed`); that a step can always be taken, is
taken, and that going forward ends is left to TLC, because neither ENABLED nor an induction over the
steps is within the prover's reach. **Only proved**: `StepsGoForward`, `NobodyAddsWork`,
`OnlyPollsRepeat`, `GrowthIsSeen` and `ShowsTheEnd` are in no run; they hold on the instances of the
runs of their modules, too, if they are named there (`NobodyAddsWork` in `torn` and `atomic`).

## What is not modelled

Running out of memory (but where the shell survives it); what is printed and how; recursion of
`gfls`; `parse_size` of `gftruncate`, a function of a string with undefined results where its buffers
are too short; `-p` of `gftouch` against other processes; the state of `getopt` that a shell command
leaves to the next one; `clear`. `PROJECT.json` says for each component what is in and what is not.

## The plan

1. *Utilities on one path*: modelled, checked; lock discipline, atomicity and all other safety
   properties proved, and that their steps go forward.
2. *Shell session*: modelled, checked, proved, `FailedConnectKeepsSession` and `StepsGoForward` too.
3. *One command*: modelled with directories, `tail`, `mkdir` and `rmdir`; checked, proved,
   `ZeroMeansDone` too.
4. *Tail*: modelled, checked, safety proved, the search for the last lines included.
5. *Directories*: modelled, checked, proved to implement `PathService` but for its fairness.
6. Left: `strtoport` and the sizes of `gftruncate` as functions with the width of their types; a
   session and a file in one model, for a `flock` that outlives the commands it was taken for.
