-------------------------------- MODULE Tail --------------------------------
(***************************************************************************)
(* gftail (glfs-tail.c): one process that shows the end of a file and then *)
(* follows it, while other processes append to the file, truncate it,      *)
(* remove it or put another one in its place.                              *)
(***************************************************************************)
EXTENDS Integers, FiniteSets, Sequences

CONSTANTS
    BufSize,    \* BUFSIZE, in bytes
    IntBits,    \* the width of an int
    Number,     \* the arguments of -c and -n that are numbers
    StartData,  \* what the file may hold when gftail is started
    NewData,    \* what a file that replaces it may hold
    MaxChanges, \* bound: the bytes others append
    Weight,     \* bound: the appends that a change of another kind counts for
    Others,     \* what other processes do to the file
    Fault,      \* the calls that may fail
    None        \* no file, no number, no option

Inode == {"old", "new"}         \* the file at first, and what replaces it
Byte == {"nl", "x"}             \* a newline, any other byte
OtherJob == {"append", "truncate", "replace", "remove"}
FaultPoint == {"stat", "open", "seek", "read", "write", "close"}

ASSUME TailAssumption ==
    /\ BufSize \in Nat \ {0}
    /\ IntBits \in Nat \ {0}
    /\ Number \subseteq Int
    /\ StartData \subseteq Seq(Byte) /\ NewData \subseteq Seq(Byte)
    /\ MaxChanges \in Nat /\ Weight \in Nat \ {0}
    /\ Others \subseteq OtherJob
    /\ Fault \subseteq FaultPoint
    /\ None \notin Int \cup Inode \cup {"c", "n"}

VARIABLES
    dir,            \* the file the path names, if any
    data,           \* the bytes of each file
    argv,           \* gftail's options
    proc,           \* gftail's locals and the statement it is at
    out,            \* what it has written to standard output
    keep_running,   \* the static flag of that name
    changes,        \* how often others have changed the file
    grown,          \* history: they have only appended
    failed          \* history: a call has failed for a reason outside gftail

vars == <<dir, data, argv, proc, out, keep_running, changes, grown, failed>>

(* Options are -c or -n with a number, or with a word that is none. *)
Arguments ==
    [option : {"c", "n"}, number : Number \cup {None}, follow : BOOLEAN]
        \cup [option : {None}, number : {None}, follow : BOOLEAN]

InitState ==
    [pc |-> "parse", mode |-> "LINES", number |-> 10, fd |-> None, pos |-> 0,
     size |-> 0, offset |-> 0, newlines |-> 0, start |-> None, io |-> 0,
     ret |-> -1, handler |-> "default"]

(* keep_running, which only tail -f reads, is 0 in a shell in which one    *)
(* was interrupted.                                                        *)
Init ==
    /\ dir \in {"old", None}
    /\ \E s \in IF dir = None THEN {<< >>} ELSE StartData :
          data = [i \in Inode |-> IF i = "old" THEN s ELSE << >>]
    /\ argv \in Arguments
    /\ proc = InitState
    /\ out = << >>
    /\ keep_running \in (IF argv.follow THEN BOOLEAN ELSE {TRUE})
    /\ changes = 0
    /\ grown = TRUE
    /\ failed = FALSE

-----------------------------------------------------------------------------
Lesser(a, b) == IF a < b THEN a ELSE b
Greater(a, b) == IF a < b THEN b ELSE a

(* The value of an off_t that is stored in an int. *)
AsInt(x) == ((x + 2 ^ (IntBits - 1)) % 2 ^ IntBits) - 2 ^ (IntBits - 1)

(* A helper's answer: -1 for anything that is not an int of at least 0. *)
Strtoint(s) == IF s = None \/ s < 0 \/ s >= 2 ^ (IntBits - 1) THEN -1 ELSE s

At(pc) == proc.pc = pc

(* Only gftail's own state changes. *)
Local == UNCHANGED <<dir, data, argv, keep_running, changes, grown>>

(* The call f may fail; gftail then goes on as p says. *)
Fails(f, p) ==
    /\ f \in Fault
    /\ failed' = TRUE
    /\ proc' = p
    /\ Local /\ UNCHANGED out

Goes(p) == proc' = p /\ Local /\ UNCHANGED <<out, failed>>

Err == [proc EXCEPT !.pc = "out", !.ret = -1]           \* goto err

ParseOptions ==
    /\ At("parse")
    /\ LET n == Strtoint(argv.number) IN
       Goes(IF argv.option = None THEN [proc EXCEPT !.pc = "stat"]
            ELSE IF n = -1 THEN [proc EXCEPT !.pc = "done"]
            ELSE [proc EXCEPT !.pc = "stat", !.number = n,
                              !.mode = IF argv.option = "c" THEN "BYTES" ELSE "LINES"])

Stat ==
    /\ At("stat")
    /\ \/ Fails("stat", Err)
       \/ dir = None /\ Goes(Err)
       \/ dir # None /\ Goes([proc EXCEPT !.pc = "open", !.size = Len(data[dir])])

Open ==
    /\ At("open")
    /\ \/ Fails("open", Err)
       \/ dir = None /\ Goes(Err)
       \/ /\ dir # None
          /\ Goes([proc EXCEPT !.fd = dir,
                     !.pc = IF proc.mode = "BYTES" THEN "tail_bytes" ELSE "tail_lines"])

(* glfs_lseek to offset o and the test of its result, an off_t in an int: *)
(* then the copy from there.                                              *)
SeekAndCopy(o) ==
    \/ Fails("seek", Err)
    \/ (o < 0 \/ AsInt(o) = -1) /\ Goes([Err EXCEPT !.offset = o])
    \/ /\ o >= 0 /\ AsInt(o) # -1
       /\ Goes([proc EXCEPT !.pc = "copy", !.offset = o, !.pos = o, !.start = o,
                            !.io = 0])

TailBytesUnclamped ==           \* mutant: more bytes than there are
    At("tail_bytes") /\ SeekAndCopy(proc.size + proc.number)

TailBytes == At("tail_bytes") /\ SeekAndCopy(Greater(proc.size - proc.number, 0))

-----------------------------------------------------------------------------
(* tail_lines: the search for the newline before the last lines. *)

StartOffset == Greater(proc.size - BufSize, 0)
TailLines ==
    /\ At("tail_lines")
    /\ Goes(IF proc.number = 0
            THEN [proc EXCEPT !.pc = "finished", !.offset = proc.size]
            ELSE [proc EXCEPT !.pc = "search", !.offset = StartOffset])

(* glfs_read at o gives a whole buffer, or all that is left of the file:   *)
(* tail_lines takes this for granted, and other short reads are left out.  *)
ReadAt(o) == SubSeq(data[proc.fd], o + 1, Lesser(o + BufSize, Len(data[proc.fd])))

Newlines(b) == {k \in DOMAIN b : b[k] = "nl"}

HitShort(b) ==                  \* mutant: the newline number lines
    {k \in Newlines(b) :
        proc.newlines + Cardinality({j \in Newlines(b) : j >= k}) = proc.number}

(* The place in b, read backwards, of the newline number lines + 1. *)
Hit(b) ==
    {k \in Newlines(b) :
        proc.newlines + Cardinality({j \in Newlines(b) : j >= k}) = proc.number + 1}
Found(b, o) ==
    \E k \in Hit(b) : Goes([proc EXCEPT !.pc = "finished", !.offset = o + k])

CountedHere(b) ==               \* mutant: each buffer starts from 0 again
    Cardinality(Newlines(b))
Counted(b) == proc.newlines + Cardinality(Newlines(b))

(* One turn of the loop; the last one reads the start of the file, or what *)
(* is left before the buffers are whole, and steps back one buffer more.   *)
SearchBuffer ==
    /\ At("search")
    /\ LET o == proc.offset
           b == ReadAt(o) IN
       \/ Fails("seek", Err)
       \/ AsInt(o) = -1 /\ Goes(Err)
       \/ AsInt(o) # -1 /\ Fails("read", Err)
       \/ AsInt(o) # -1 /\ Found(b, o)
       \/ /\ AsInt(o) # -1 /\ Hit(b) = {}
          /\ \/ /\ o - BufSize < 0
                /\ Goes([proc EXCEPT !.pc = "search_rest", !.offset = o - Len(b),
                                     !.pos = o + Len(b), !.newlines = Counted(b)])
             \/ /\ o - BufSize >= 0
                /\ Goes([proc EXCEPT !.offset = o - BufSize, !.newlines = Counted(b)])

SearchRestUnclamped ==          \* mutant: the offset may stay negative
    /\ At("search_rest")
    /\ LET b == ReadAt(proc.pos) IN
       \/ Fails("read", Err)
       \/ Found(b, proc.offset)
       \/ Hit(b) = {} /\ Goes([proc EXCEPT !.pc = "finished"])

(* The read after the loop is from where the last one has ended. *)
SearchRest ==
    /\ At("search_rest")
    /\ LET b == ReadAt(proc.pos) IN
       \/ Fails("read", Err)
       \/ Found(b, proc.offset)
       \/ /\ Hit(b) = {}
          /\ Goes([proc EXCEPT !.pc = "finished",
                     !.offset = IF Counted(b) < proc.number THEN 0
                                ELSE Greater(proc.offset, 0)])

Finished == At("finished") /\ SeekAndCopy(proc.offset)

-----------------------------------------------------------------------------
(* gluster_read: its result is what the last write returned, or 0. *)
CopyDone(p, r) ==
    IF r = -1 THEN [p EXCEPT !.pc = "out", !.ret = -1]
    ELSE IF argv.follow THEN [p EXCEPT !.pc = "while", !.ret = r, !.handler = "int"]
    ELSE [p EXCEPT !.pc = "out", !.ret = r]

GlusterRead ==
    /\ At("copy")
    /\ LET b == ReadAt(proc.pos)
           read == [proc EXCEPT !.pos = proc.pos + Len(b), !.io = Len(b)] IN
       \/ Fails("read", CopyDone(proc, proc.io))
       \/ b = << >> /\ Goes(CopyDone(proc, proc.io))
       \/ /\ b # << >>
          /\ proc' = read
          /\ out' = out \o b
          /\ Local /\ UNCHANGED failed
       \/ /\ "write" \in Fault /\ b # << >>
          /\ failed' = TRUE
          /\ proc' = CopyDone(read, -1)
          /\ \E n \in 0..(Len(b) - 1) : out' = out \o SubSeq(b, 1, n)
          /\ Local

While ==
    /\ At("while")
    /\ Goes([proc EXCEPT !.pc = IF keep_running THEN "poll" ELSE "out"])

PollOnLoss ==                   \* mutant: growth is taken for no change
    /\ At("poll")
    /\ \/ Fails("stat", Err)
       \/ dir = None /\ Goes(Err)
       \/ /\ dir # None /\ Len(data[dir]) >= proc.size
          /\ Goes([proc EXCEPT !.pc = "while", !.ret = 0])
       \/ /\ dir # None /\ Len(data[dir]) < proc.size
          /\ Goes([proc EXCEPT !.pc = "copy", !.io = 0, !.ret = 0, !.pos = 0,
                               !.size = Len(data[dir])])

PollFromStart ==                \* mutant: every change of length rewinds
    /\ At("poll")
    /\ \/ Fails("stat", Err)
       \/ dir = None /\ Goes(Err)
       \/ /\ dir # None /\ Len(data[dir]) = proc.size
          /\ Goes([proc EXCEPT !.pc = "while", !.ret = 0])
       \/ /\ dir # None /\ Len(data[dir]) # proc.size
          /\ Goes([proc EXCEPT !.pc = "copy", !.io = 0, !.ret = 0, !.pos = 0,
                               !.size = Len(data[dir])])

(* One poll: the length is of what the path names, the data of what was    *)
(* opened.  The length is noted again only when it has become less.        *)
Poll ==
    /\ At("poll")
    /\ LET again == [proc EXCEPT !.pc = "copy", !.io = 0, !.ret = 0] IN
       \/ Fails("stat", Err)
       \/ dir = None /\ Goes(Err)
       \/ /\ dir # None
          /\ \/ /\ Len(data[dir]) = proc.size
                /\ Goes([proc EXCEPT !.pc = "while", !.ret = 0])
             \/ /\ Len(data[dir]) > proc.size
                /\ Goes(again)
             \/ /\ Len(data[dir]) < proc.size
                /\ \/ Goes([again EXCEPT !.size = Len(data[dir]), !.pos = 0])
                   \/ Fails("seek", [again EXCEPT !.size = Len(data[dir])])

Out ==
    /\ At("out")
    /\ LET p == [proc EXCEPT !.pc = "done", !.handler = "default"] IN
       \/ proc.fd # None /\ Fails("close", [p EXCEPT !.ret = -1])
       \/ Goes(p)

(* int_handler, or the default disposition. *)
Interrupt ==
    /\ proc.pc \notin {"done", "killed"}
    /\ \/ proc.handler = "int" /\ keep_running' = FALSE /\ UNCHANGED proc
       \/ /\ proc.handler = "default"
          /\ proc' = [proc EXCEPT !.pc = "killed"]
          /\ UNCHANGED keep_running
    /\ UNCHANGED <<dir, data, argv, out, changes, grown, failed>>

TailStep ==
    ParseOptions \/ Stat \/ Open \/ TailBytes \/ TailLines \/ SearchBuffer
    \/ SearchRest \/ Finished \/ GlusterRead \/ While \/ Poll \/ Out

-----------------------------------------------------------------------------
(* The other processes.  A change before the first stat is another initial *)
(* state, and one after the end changes nothing.                           *)

Change(job, growing) ==
    /\ job \in Others
    /\ proc.pc \notin {"parse", "stat", "done", "killed"}
    /\ changes < MaxChanges
    /\ changes' = changes + (IF growing THEN 1 ELSE Weight)
    /\ grown' = (grown /\ growing)
    /\ UNCHANGED <<argv, proc, out, keep_running, failed>>

AppendByte ==
    /\ Change("append", TRUE)
    /\ dir # None /\ UNCHANGED dir
    /\ \E b \in Byte : data' = [data EXCEPT ![dir] = Append(@, b)]

TruncateTo ==
    /\ Change("truncate", FALSE)
    /\ dir # None /\ UNCHANGED dir
    /\ \E n \in 0..(Len(data[dir]) - 1) : data' = [data EXCEPT ![dir] = SubSeq(@, 1, n)]

Replace ==
    /\ Change("replace", FALSE)
    /\ dir # "new" /\ dir' = "new"
    /\ \E s \in NewData : data' = [data EXCEPT !["new"] = s]

Remove ==
    /\ Change("remove", FALSE)
    /\ dir = "old" /\ dir' = None
    /\ UNCHANGED data

OthersStep == AppendByte \/ TruncateTo \/ Replace \/ Remove

Ended == proc.pc \in {"done", "killed"}
Rest == Ended /\ UNCHANGED vars

Next == TailStep \/ Interrupt \/ OthersStep \/ Rest

(* gftail's calls return and the operating system keeps running it. *)
Spec == Init /\ [][Next]_vars /\ WF_vars(TailStep)

-----------------------------------------------------------------------------
Following == proc.handler = "int" /\ proc.pc \in {"while", "poll", "copy"}

Locals ==
    [pc : {"parse", "stat", "open", "tail_bytes", "tail_lines", "search", "search_rest",
           "finished", "copy", "while", "poll", "out", "done", "killed"},
     mode : {"BYTES", "LINES"}, number : Nat, fd : Inode \cup {None}, pos : Nat,
     size : Nat, offset : Int, newlines : Nat, start : Nat \cup {None}, io : Nat,
     ret : Int, handler : {"default", "int"}]

TypeOK ==
    /\ dir \in Inode \cup {None}
    /\ data \in [Inode -> Seq(Byte)]
    /\ argv \in Arguments
    /\ proc \in Locals
    /\ out \in Seq(Byte)
    /\ keep_running \in BOOLEAN /\ changes \in Nat /\ grown \in BOOLEAN /\ failed \in BOOLEAN

(* What gftail shows of a file that only grows is one piece of it, from    *)
(* the place it chose to where it is: each byte once, in order, whatever   *)
(* is appended between two reads, two polls or a length and a read.        *)
ShownIsContiguous ==
    grown /\ ~failed /\ proc.start # None
        => out = SubSeq(data["old"], proc.start + 1, proc.pos)

(* The reference for tail_lines: a line starts at offset 0 and after each  *)
(* newline but a final one; the last k lines start at the k-th from the    *)
(* end, or at 0 if there are fewer.                                        *)
LineStarts(s) == {j \in 0..(Len(s) - 1) : j = 0 \/ s[j] = "nl"}
LastLines(s, k) ==
    IF k = 0 THEN Len(s)
    ELSE IF Cardinality(LineStarts(s)) <= k THEN 0
    ELSE CHOOSE j \in LineStarts(s) : Cardinality({i \in LineStarts(s) : i >= j}) = k

(* A last line without its newline is shown on top of the lines asked for. *)
Unterminated(s) == s # << >> /\ s[Len(s)] # "nl"
LinesShown(s, k) == IF Unterminated(s) /\ k # 0 THEN k + 1 ELSE k

(* What the loop sees is the file's last whole buffers, or a short file.   *)
WholeBuffers(s) ==
    IF Len(s) <= BufSize THEN s
    ELSE SubSeq(s, (Len(s) % BufSize) + 1, Len(s))

NotChanged == grown /\ Len(data["old"]) = proc.size

(* tail_lines is about to copy and the file is still what stat has seen. *)
Chosen ==
    /\ At("copy") /\ proc.handler = "default" /\ proc.mode = "LINES"
    /\ NotChanged /\ proc.pos = proc.start

(* tail_lines has chosen a place, and the newline it looks for is where it *)
(* looks: in a whole buffer, or in the only one.                           *)
Placed == NotChanged /\ proc.mode = "LINES" /\ proc.start # None
Findable(s, n) ==
    Len(s) <= BufSize \/ n < Cardinality(Newlines(WholeBuffers(s))) \/ n = 0

(* tail_lines finds the start of the last lines, across buffers, when the  *)
(* newline before them is in a whole buffer or there is only one buffer.   *)
SearchIsRight ==
    LET s == data["old"] IN
    Placed /\ Findable(s, proc.number)
        => proc.start = LastLines(s, LinesShown(s, proc.number))

(* gftail of a file that only grows fails for a call that failed, an       *)
(* argument, an offset that is -1 as an int, and the step back beyond the  *)
(* start of a file that tail_lines reads in more than one piece, because   *)
(* it is longer than a buffer or grows between two reads.                  *)
SeveralPieces == Len(data["old"]) > BufSize \/ Len(data["old"]) > proc.size
NothingElseFails ==
    At("out") /\ proc.ret = -1 /\ grown /\ ~failed
        => \/ dir = None
           \/ proc.offset >= 0 /\ AsInt(proc.offset) = -1
           \/ proc.mode = "LINES" /\ proc.offset < 0 /\ SeveralPieces

(* tail -f shows every byte that is appended to a file that only grows,    *)
(* unless it is interrupted or something fails: no appended byte stays     *)
(* unseen because of the length the poll compares with.                    *)
FollowCatchesUp ==
    Following /\ grown
        ~> (proc.pos = Len(data["old"]) \/ ~grown \/ ~keep_running \/ failed
              \/ proc.pc \in {"out", "done"})

(* The inductive invariant behind ShownIsContiguous and NothingElseFails:  *)
(* in a file that only grows, what gftail is going to seek to or read from *)
(* was there when it looked, and an offset before the start of the file    *)
(* comes from a search in several pieces.                                  *)
InFile == {"tail_bytes", "tail_lines", "search", "search_rest", "finished", "copy",
           "while", "poll"}
PositionsInFile ==
    LET length == Len(data["old"]) IN
    /\ dir = "old" \/ (dir = None /\ proc.fd = None)
    /\ proc.fd \in {"old", None}
    /\ proc.size <= length /\ proc.pos <= length
    /\ proc.pc \in {"search", "finished"} => proc.offset <= length
    /\ proc.start # None => proc.start <= proc.pos

Pieces ==
    LET length == Len(data["old"]) IN
    /\ proc.pc = "search" /\ proc.size <= BufSize => proc.offset = 0
    /\ proc.pc = "search_rest" /\ ~SeveralPieces => proc.pos = length
    /\ proc.pc = "finished" /\ proc.offset < 0 => SeveralPieces

StepsMatch ==
    /\ proc.pc = "tail_bytes" => proc.mode = "BYTES"
    /\ proc.pc \in {"tail_lines", "search", "search_rest", "finished"} =>
         proc.mode = "LINES"
    /\ proc.pc \in InFile => proc.fd # None
    /\ proc.pc = "search" => proc.offset >= 0
    /\ proc.pc = "search_rest" => proc.offset <= proc.pos
    /\ proc.pc \in {"copy", "while", "poll"} => proc.start # None
    /\ proc.start # None => proc.pc \in {"copy", "while", "poll", "out", "done", "killed"}
    /\ proc.pc \in {"while", "poll"} => proc.ret # -1
    /\ proc.start = None => out = << >>

TailInvariant ==
    /\ TypeOK /\ StepsMatch
    /\ grown => PositionsInFile /\ Pieces
    /\ ShownIsContiguous /\ NothingElseFails

(* The copy has ended. *)
ShownAll == proc.start # None /\ proc.pc \in {"while", "poll", "out", "done"}

NewlinesIn(s, p, q) == {k \in Newlines(s) : p <= k /\ k <= q}

(* The place the search ends with is the end, the newline with n after it, *)
(* or, if there is none where it looks, any place in a file of several     *)
(* buffers and 0 in a file of one.                                         *)
PlaceRight(s, n, x) ==
    \/ n = 0 /\ x = Len(s)
    \/ n # 0 /\ x \in Newlines(s) /\ Cardinality(NewlinesIn(s, x, Len(s))) = n + 1
    \/ /\ n # 0 /\ Cardinality(Newlines(WholeBuffers(s))) <= n
       /\ Len(s) <= BufSize => x = 0

(* At the head of the loop the buffers after this one have been counted,   *)
(* down to its end, and hold no more newlines than lines were asked for.   *)
Searching(s, size) ==
    LET end == Lesser(proc.offset + BufSize, size) IN
    /\ proc.number # 0 /\ proc.newlines <= proc.number
    /\ proc.newlines = Cardinality(NewlinesIn(s, end + 1, size))
    /\ size > BufSize => \E q \in 0..size : size = proc.offset + BufSize * q

(* The inductive invariant behind SearchIsRight and ShowsTheEnd: what the  *)
(* search and the copy know of a file that has not changed since its       *)
(* length was read.  After the loop all whole buffers have been counted;   *)
(* the place that was found stays the one to start from; when the copy has *)
(* ended everything after it is shown.                                     *)
SearchInvariant ==
    LET s == data["old"] IN
    /\ proc.pc \in {"parse", "stat", "open", "tail_lines"} => proc.newlines = 0
    /\ NotChanged =>
         /\ At("search") => Searching(s, Len(s))
         /\ At("search_rest") =>
              /\ proc.number # 0
              /\ Cardinality(Newlines(WholeBuffers(s))) <= proc.number
              /\ Len(s) <= BufSize => proc.offset <= 0
         /\ At("finished") => PlaceRight(s, proc.number, proc.offset)
    /\ Placed => PlaceRight(s, proc.number, proc.start)
    /\ proc.mode = "BYTES" /\ NotChanged /\ proc.start # None
         => proc.start = Greater(Len(s) - proc.number, 0)
    /\ NotChanged /\ ~failed /\ ShownAll => proc.pos = Len(s)

(* gftail shows the last lines or bytes of a file that does not change,    *)
(* all of them and nothing else, once its copy has ended without a failure *)
(* (and goes on showing just that while it follows).                       *)
ShowsTheEnd ==
    LET s == data["old"] IN
    NotChanged /\ ~failed /\ ShownAll =>
        /\ proc.mode = "BYTES" =>
             out = SubSeq(s, Greater(Len(s) - proc.number, 0) + 1, Len(s))
        /\ proc.mode = "LINES" /\ Findable(s, proc.number) =>
             out = SubSeq(s, LastLines(s, LinesShown(s, proc.number)) + 1, Len(s))

(* What ends gftail's loops.  A step leaves the statement it is at for a   *)
(* later one, or a turn of the search steps back in the file and stays in  *)
(* it, or a turn of the copy reads on in what is there.  Only the poll of  *)
(* tail -f goes back, to the copy or to the test of keep_running.          *)
Order ==
    [parse |-> 11, stat |-> 10, open |-> 9, tail_bytes |-> 8, tail_lines |-> 8,
     search |-> 7, search_rest |-> 6, finished |-> 5, copy |-> 4, while |-> 3,
     poll |-> 2, out |-> 1, done |-> 0, killed |-> 0]
Onward ==
    \/ Order[proc'.pc] < Order[proc.pc]
    \/ /\ At("search") /\ proc'.pc = "search"
       /\ 0 <= proc'.offset /\ proc'.offset < proc.offset
    \/ /\ At("copy") /\ proc'.pc = "copy" /\ proc'.fd = proc.fd
       /\ proc.pos < proc'.pos /\ proc'.pos <= Len(data[proc.fd])
OnlyPollsRepeat ==
    [][TailStep => Onward \/ (At("poll") /\ proc'.pc \in {"while", "copy"})]_vars

(* The steps by which tail -f catches up with a file that only grows: as   *)
(* long as there is something it has not shown, the copy does not end and  *)
(* shows more of it, and a poll notices and goes on where the copy has     *)
(* ended.  The length a poll compares with is never ahead of the copy.     *)
Unseen == grown /\ ~failed /\ proc.pos < Len(data["old"])
GrowthIsSeen ==
    [][TailStep /\ Unseen /\ ~failed' =>
         /\ At("copy") =>
              /\ proc'.pc = "copy" /\ proc.pos < proc'.pos
              /\ Len(out') = Len(out) + (proc'.pos - proc.pos)
         /\ At("poll") => proc'.pc = "copy" /\ proc'.pos = proc.pos]_vars
PollNotAhead ==
    grown /\ ~failed /\ proc.pc \in {"while", "poll"} => proc.size <= proc.pos

(* "Output the last K lines" (glfs-tail.c, usage): of a file that is not   *)
(* changed and ends in a newline, no less is shown than the lines asked    *)
(* for.  Refuted by a run of its own.                                      *)
NoLineIsMissing ==
    Chosen /\ ~Unterminated(data["old"])
        => proc.start <= LastLines(data["old"], proc.number)
=============================================================================
