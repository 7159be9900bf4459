------------------------------ MODULE LogIngest ------------------------------
(***************************************************************************)
(* One log on its way into the evidence: a daemon writes it and logrotate  *)
(* turns it over, while `tick`, the TUI and `batch` each read it from the  *)
(* stored cursor, a bounded piece at a time, and store what they found in  *)
(* several transactions.  A line is its number, in the order of writing; a *)
(* file is an inode with the lines in it.  A journal is a file that only   *)
(* grows and is never rotated.                                             *)
(***************************************************************************)
EXTENDS Naturals, FiniteSets, Sequences, SequencesExt

CONSTANTS
    Readers,      \* processes that read the log
    Inodes,       \* inode numbers the filesystem hands out, and hands out again
    NoFile,       \* nothing has this name
    NoCursor,     \* no cursor
    Kinds,        \* the kinds of host a behaviour may be about
    MaxLines,     \* lines written in a behaviour
    OldLines,     \* of those, written before the first read can look back to
    MaxTurns,     \* rotations in a behaviour
    Budget,       \* lines one request takes: MAX_CHUNK
    JournalBudget, \* and entries of a journal, which are of another size
    Chunk         \* rows one transaction stores: INGEST_CHUNK

\* A kind of host says whether journald holds the log, how logrotate turns it
\* over, what goes wrong there (see the guards that name each fault), whether
\* the readers take turns, and how many requests a pass makes (MAX_REQUESTS).
FaultKinds == {"crash", "unreadable", "late", "mid", "slow", "outpaced", "between"}

ASSUME ConstantsAssumption ==
    /\ \A k \in Kinds :
        /\ k.journal \in BOOLEAN /\ k.alone \in BOOLEAN
        /\ k.rotations \subseteq {"rename", "copytruncate"}
        /\ k.faults \subseteq FaultKinds /\ k.requests \in Nat \ {0}
    /\ MaxLines \in Nat /\ OldLines \in 0 .. MaxLines /\ MaxTurns \in Nat
    /\ {Budget, JournalBudget, Chunk} \subseteq Nat \ {0}
    /\ NoFile \notin Inodes
    /\ NoCursor \notin [ino : Inodes, at : Nat, head : Seq(Nat)]

VARIABLES
    kind,      \* the kind of host it is
    content,   \* content[i]: the lines in the file with inode i
    live,      \* the inode the log's name leads to
    old,       \* the inode of its rotated copy, <path>.1
    fd,        \* the inode the daemon writes to
    written,   \* how many lines have been written
    turns,     \* how many rotations there were
    cursor,    \* the stored cursor: keys::log_cursor
    counted,   \* counted[l]: how often line l was added to the evidence
    pc,        \* pc[r]: the step reader r is at
    job,       \* job[r]: what it has in memory
    crashed    \* lines a reader that was killed had claimed and not stored

host == <<kind, content, live, old, fd, written, turns>>
vars == <<host, cursor, counted, pc, job, crashed>>

Lines == 1 .. MaxLines
Labels == {"idle", "read", "copies", "newest", "claim", "store"}

\* The digest of a file's first bytes (HEAD_BYTES) covers its first line.
HeadAt(i, at) == IF at = 0 THEN <<>> ELSE SubSeq(content[i], 1, 1)

Cursors == [ino : Inodes, at : 0 .. MaxLines, head : BoundedSeq(Lines, 1)]

CursorAt(i, at) == [ino |-> i, at |-> at, head |-> HeadAt(i, at)]

\* What a pass remembers: the cursor as stored when it was planned, where it
\* got to, how often it found each line, whether there is more, and how many
\* requests it has made.
NoJob == [from |-> NoCursor, to |-> NoCursor, found |-> [l \in Lines |-> 0],
          more |-> FALSE, asked |-> 0]

Rows(r) == {l \in Lines : job[r].found[l] > 0}

\* Some file with inode i still has the start the cursor saw, and is as long.
Follows(c, i) ==
    /\ i # NoFile /\ c.ino = i
    /\ c.at <= Len(content[i]) /\ IsPrefix(c.head, content[i])

Took(i, at, most) ==
    SubSeq(content[i], at + 1,
           IF at + most < Len(content[i]) THEN at + most ELSE Len(content[i]))

-----------------------------------------------------------------------------
(* The host: the daemon that writes the log, and logrotate.                *)

\* The old lines are in the log, or in a copy of it.
HostInit ==
    /\ kind \in Kinds
    /\ written = OldLines /\ turns = 0
    /\ live \in Inodes /\ fd = live
    /\ old \in {NoFile} \union (IF kind.journal THEN {} ELSE Inodes \ {live})
    /\ content = [i \in Inodes |->
                    IF i = (IF old = NoFile THEN live ELSE old)
                      THEN [k \in 1 .. OldLines |-> k] ELSE <<>>]

\* A line is one write, to the file the daemon has open.  "late": between a
\* rotation and the signal to reopen, it still writes to the rotated file.
\* "between": it writes between the two journalctl runs of a first read.
Write ==
    /\ written < MaxLines
    /\ "between" \in kind.faults \/ \A r \in Readers : pc[r] # "newest"
    /\ fd = live \/ "late" \in kind.faults
    /\ written' = written + 1
    /\ content' = [content EXCEPT ![fd] = Append(@, written + 1)]
    /\ UNCHANGED <<kind, live, old, fd, turns>>

\* Another pass has moved the cursor this one started from.
Overtaken(r) == pc[r] \in {"read", "copies", "claim"} /\ job[r].from # cursor

\* A rotation comes a day after the one before.  "mid": it comes between a
\* first read of the log and that pass's read of the copies.  "slow": a pass
\* that was overtaken is still at it.  "outpaced": no pass has stored a
\* cursor since the rotation before, or none at all.
MayRotate ==
    /\ ~kind.journal
    /\ live # NoFile /\ fd = live /\ turns < MaxTurns
    /\ "mid" \in kind.faults \/ \A r \in Readers : pc[r] # "copies"
    /\ "slow" \in kind.faults \/ \A r \in Readers : ~Overtaken(r)
    /\ "outpaced" \in kind.faults \/ cursor \in {c \in Cursors : c.ino # old}

\* The log is renamed over the last copy, ...
Rename ==
    /\ "rename" \in kind.rotations /\ MayRotate
    /\ old' = live /\ live' = NoFile /\ turns' = turns + 1
    /\ UNCHANGED <<kind, content, fd, written>>

\* ... a new file is created, which may get the inode of one that is gone, ...
Create ==
    /\ live = NoFile
    /\ \E i \in Inodes \ {old, fd} :
        live' = i /\ content' = [content EXCEPT ![i] = <<>>]
    /\ UNCHANGED <<kind, old, fd, written, turns>>

\* ... and the daemon is told to open it.
Reopen ==
    /\ live # NoFile /\ fd # live
    /\ fd' = live
    /\ UNCHANGED <<kind, content, live, old, written, turns>>

\* Or the log is copied, and emptied in place.
CopyTruncate ==
    /\ "copytruncate" \in kind.rotations /\ MayRotate
    /\ turns' = turns + 1
    /\ \E i \in Inodes \ {live} :
        /\ old' = i
        /\ content' = [content EXCEPT ![i] = content[live], ![live] = <<>>]
    /\ UNCHANGED <<kind, live, fd, written>>

HostStep ==
    /\ Write \/ Rename \/ Create \/ Reopen \/ CopyTruncate
    /\ UNCHANGED <<cursor, counted, pc, job, crashed>>

-----------------------------------------------------------------------------
(* One request (hostlog::read): a reply from where the cursor says.        *)

\* Mutant: the rotated copy is not read.
RestDropped(c) == <<>>
\* What the cursor still saw coming in the file that is now the rotated copy.
Rest(c) ==
    IF c # NoCursor /\ c.ino # live /\ Follows(c, old)
      THEN Took(old, c.at, Budget) ELSE <<>>

\* Mutant: the inode alone says that it is the same file.
StartByInode(c) ==
    IF c # NoCursor /\ c.ino = live /\ c.at <= Len(content[live])
      THEN c.at ELSE 0
\* Where in the log itself to start.
Start(c) == IF c # NoCursor /\ Follows(c, live) THEN c.at ELSE 0

\* logread::read_chunk.  A copy that takes the whole budget is carried on with
\* under the same cursor, digest and all.
FileReply(c) ==
    LET rest  == Rest(c)
        fresh == Took(live, Start(c), Budget - Len(rest))
    IN  IF Len(rest) = Budget
          THEN [lines |-> rest,
                to    |-> [c EXCEPT !.at = @ + Budget],
                more  |-> TRUE]
          ELSE [lines |-> rest \o fresh,
                to    |-> CursorAt(live, Start(c) + Len(fresh)),
                more  |-> Len(rest) + Len(fresh) = Budget]

\* logread::read_journal after a cursor, or from as far as the look back goes.
\* An answer with no entries has no cursor.
JournalReply(c) ==
    LET start == IF c = NoCursor THEN OldLines ELSE c.at
        lines == Took(live, start, JournalBudget)
    IN  [lines |-> lines,
         to    |-> IF lines = <<>> THEN NoCursor
                   ELSE CursorAt(live, start + Len(lines)),
         more  |-> Len(lines) = JournalBudget]

Reply(c) == IF kind.journal THEN JournalReply(c) ELSE FileReply(c)

-----------------------------------------------------------------------------
(* A pass (logscan): plan, read, store.                                    *)

\* One observer sees every line of a pass.
Finds(found, lines) ==
    [l \in Lines |->
        found[l] + Cardinality({k \in DOMAIN lines : lines[k] = l})]

Idle(r) == pc' = [pc EXCEPT ![r] = "idle"] /\ job' = [job EXCEPT ![r] = NoJob]

Onward(j) == IF j.more /\ j.asked < kind.requests THEN "read" ELSE "claim"

Plan(r) ==
    /\ pc[r] = "idle"
    /\ kind.alone => \A q \in Readers : pc[q] = "idle"
    /\ pc' = [pc EXCEPT ![r] = "read"]
    /\ job' = [job EXCEPT ![r] = [NoJob EXCEPT !.from = cursor, !.to = cursor]]
    /\ UNCHANGED <<host, cursor, counted, crashed>>

\* A log that is not there, or does not answer, ends the pass where it got to.
Unavailable(r) ==
    /\ pc[r] = "read"
    /\ live = NoFile \/ "unreadable" \in kind.faults
    /\ IF job[r].asked = 0 THEN Idle(r)
       ELSE pc' = [pc EXCEPT ![r] = "claim"] /\ UNCHANGED job
    /\ UNCHANGED <<host, cursor, counted, crashed>>

\* A first answer from a file is followed by what logrotate kept of it; one
\* from a journal with nothing in it by a look at the newest entry.
Read(r) ==
    /\ pc[r] = "read" /\ live # NoFile
    /\ LET reply == Reply(job[r].to)
           j     == [job[r] EXCEPT !.to = reply.to, !.more = reply.more,
                                   !.found = Finds(@, reply.lines),
                                   !.asked = @ + 1]
           first == job[r].to = NoCursor
       IN  /\ job' = [job EXCEPT ![r] = j]
           /\ pc' = [pc EXCEPT ![r] =
                        IF first /\ ~kind.journal THEN "copies"
                        ELSE IF first /\ reply.lines = <<>> THEN "newest"
                        ELSE Onward(j)]
    /\ UNCHANGED <<host, cursor, counted, crashed>>

\* read_rotated: the copy, if a detector that is on looks back that far.
ReadCopies(r) ==
    /\ pc[r] = "copies"
    /\ \E kept \in {<<>>, IF old = NoFile THEN <<>> ELSE content[old]} :
        job' = [job EXCEPT ![r].found = Finds(@, kept)]
    /\ pc' = [pc EXCEPT ![r] = Onward(job[r])]
    /\ UNCHANGED <<host, cursor, counted, crashed>>

\* newest_journal_cursor: a second journalctl.  A journal that never had an
\* entry is unavailable.
Newest(r) ==
    /\ pc[r] = "newest"
    /\ IF content[live] = <<>> THEN Idle(r)
       ELSE /\ job' = [job EXCEPT ![r].to = CursorAt(live, Len(content[live]))]
            /\ pc' = [pc EXCEPT ![r] = "claim"]
    /\ UNCHANGED <<host, cursor, counted, crashed>>

\* Ingest::step: up to Chunk rows go in, in no order.
Put(r) ==
    \E now \in SUBSET Rows(r) :
        /\ Cardinality(now) <= Chunk
        /\ now = Rows(r) \/ Cardinality(now) = Chunk
        /\ counted' = [l \in Lines |->
                         counted[l] + IF l \in now THEN job[r].found[l] ELSE 0]
        /\ IF now = Rows(r) THEN Idle(r)
           ELSE /\ pc' = [pc EXCEPT ![r] = "store"]
                /\ job' = [job EXCEPT ![r].found =
                             [l \in Lines |-> IF l \in now THEN 0 ELSE @[l]]]
        /\ UNCHANGED <<host, crashed>>

\* Mutant: the cursor is moved without comparing it.
ClaimUnchecked(r) ==
    /\ pc[r] = "claim"
    /\ cursor' = IF job[r].to = NoCursor THEN cursor ELSE job[r].to
    /\ Put(r)
\* The first transaction moves the cursor, unless somebody else has.
Claim(r) ==
    /\ pc[r] = "claim"
    /\ cursor = job[r].from
    /\ cursor' = IF job[r].to = NoCursor THEN cursor ELSE job[r].to
    /\ Put(r)

Theirs(r) ==
    /\ pc[r] = "claim"
    /\ cursor # job[r].from
    /\ Idle(r)
    /\ UNCHANGED <<host, cursor, counted, crashed>>

Store(r) ==
    /\ pc[r] = "store"
    /\ Put(r)
    /\ UNCHANGED cursor

\* The process stops, or a transaction fails and the pass with it.
Crash(r) ==
    /\ "crash" \in kind.faults
    /\ pc[r] # "idle"
    /\ crashed' = crashed \union IF pc[r] = "store" THEN Rows(r) ELSE {}
    /\ Idle(r)
    /\ UNCHANGED <<host, cursor, counted>>

Pass(r) ==
    \/ Unavailable(r) \/ Read(r) \/ ReadCopies(r) \/ Newest(r)
    \/ Claim(r) \/ Theirs(r) \/ Store(r)

Init ==
    /\ HostInit
    /\ cursor = NoCursor
    /\ counted = [l \in Lines |-> 0]
    /\ pc = [r \in Readers |-> "idle"]
    /\ job = [r \in Readers |-> NoJob]
    /\ crashed = {}

Next ==
    \/ HostStep
    \/ \E r \in Readers : Plan(r) \/ Pass(r) \/ Crash(r)

Spec == Init /\ [][Next]_vars

\* cron and the TUI start a pass every minute and a pass goes on by itself;
\* logrotate finishes what it began.
FairSpec ==
    /\ Spec
    /\ WF_vars(HostStep /\ (Create \/ Reopen))
    /\ \A r \in Readers : WF_vars(Plan(r)) /\ WF_vars(Pass(r))

-----------------------------------------------------------------------------
(* Properties.                                                             *)

\* What the next pass will not read again because the cursor is past it.
Behind ==
    IF cursor = NoCursor THEN {}
    ELSE IF Follows(cursor, live) THEN {content[live][k] : k \in 1 .. cursor.at}
    ELSE IF Follows(cursor, old) THEN {content[old][k] : k \in 1 .. cursor.at}
    ELSE {}

Held == UNION {Rows(r) : r \in {q \in Readers : pc[q] = "store"}}
Counted == {l \in Lines : counted[l] > 0}

\* A line the cursor is past has been counted, is about to be, or was lost
\* with a reader that stopped between two transactions of its store.  (An
\* entry the first look back does not reach is passed over on purpose.)
NothingSkipped ==
    Behind \subseteq Counted \union Held \union crashed
                    \union IF kind.journal THEN 1 .. OldLines ELSE {}

Once == INSTANCE EachLineOnce WITH held <- Held, lost <- crashed

\* Reading implements EachLineOnce: "nothing is counted twice, however their
\* steps interleave" (db/evidence.rs 68-69), and a line that a reader took is
\* stored by that reader or lost with it.
EachOnce == Once!OnceSpec

\* A line that is written is counted, when no rotation outpaces the passes.
EveryLineCounted ==
    \A l \in Lines : (l <= written /\ l > OldLines) ~> l \in Counted
=============================================================================
