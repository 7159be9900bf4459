--------------------------- MODULE LogIngestProofs ---------------------------
(***************************************************************************)
(* That reading a log counts each line once at most and skips none, for    *)
(* any number of readers, files, lines and requests: as far as the host is *)
(* one the code was written for.                                           *)
(***************************************************************************)
EXTENDS LogIngest, FiniteSetTheorems, SequenceTheorems, TLAPS

\* A journal, or a log whose rotations wait for the passes that they find.
Steady(k) ==
    \/ k.journal
    \/ k.rotations \subseteq {"rename"} /\ k.faults \intersect {"slow", "outpaced"} = {}

\* No rotation comes between the two parts of a first read; readers take turns
\* or the host is steady; and one request reads what a journal has.
Orderly ==
    \A k \in Kinds :
        /\ "mid" \notin k.faults
        /\ k.alone \/ Steady(k)
        /\ k.journal => k.requests = 1 \/ MaxLines < JournalBudget

\* What may be where: a line is in one place of one file.
FilesInv ==
    /\ kind \in Kinds
    /\ written \in OldLines .. MaxLines
    /\ live \in Inodes \union {NoFile} /\ old \in Inodes \union {NoFile} /\ fd \in Inodes
    /\ old # live
    /\ content \in [Inodes -> Seq(Nat)]
    /\ \A i \in Inodes : \A k \in 1 .. Len(content[i]) : content[i][k] \in k .. written
    /\ \A i, j \in Inodes : \A k \in 1 .. Len(content[i]), m \in 1 .. Len(content[j]) :
          content[i][k] = content[j][m] => i = j /\ k = m
    /\ kind.journal =>
          /\ live \in Inodes /\ fd = live /\ old = NoFile
          /\ Len(content[live]) = written
          /\ \A k \in 1 .. Len(content[live]) : content[live][k] = k

Digests == {h \in Seq(Nat) : Len(h) <= 1}
CursorType == [ino : Inodes, at : Nat, head : Digests]
JobType ==
    [from : CursorType \union {NoCursor}, to : CursorType \union {NoCursor},
     found : [Lines -> Nat], more : BOOLEAN, asked : Nat]

TypesInv ==
    /\ cursor \in CursorType \union {NoCursor}
    /\ counted \in [Lines -> Nat]
    /\ pc \in [Readers -> Labels]
    /\ job \in [Readers -> JobType]
    /\ \A r \in Readers : pc[r] = "newest" => kind.journal

\* A pass that has not claimed anything, and one nobody has overtaken.
Reading(r) == pc[r] \in {"read", "copies", "newest", "claim"}
Current(r) == Reading(r) /\ job[r].from = cursor

TurnsInv ==
    kind.alone =>
        /\ \A q, r \in Readers : pc[q] # "idle" /\ pc[r] # "idle" => q = r
        /\ \A r \in Readers : Reading(r) => Current(r)

\* Lines that some pass has claimed.
Gone == Held \union crashed \union Counted

\* Nothing in the set S of lines is read again from the cursor c.
Unread(c, S) ==
    /\ live # NoFile =>
          \A k \in 1 .. Len(content[live]) :
             content[live][k] \in S => c # NoCursor /\ Follows(c, live) /\ k <= c.at
    /\ c # NoCursor /\ c.ino # live /\ Follows(c, old) =>
          \A k \in 1 .. Len(content[old]) : content[old][k] \in S => k <= c.at

\* What is claimed was written, found once, and held by one reader.
GoneInv ==
    /\ Gone \subseteq 1 .. written
    /\ cursor = NoCursor => Gone = {}
    /\ \A r \in Readers : pc[r] = "store" => job[r].found \in [Lines -> {0, 1}]
    /\ \A q, r \in Readers :
          pc[q] = "store" /\ pc[r] = "store" /\ q # r => Rows(q) \intersect Rows(r) = {}
    /\ Unread(cursor, Gone)

\* What a pass has found nobody has claimed, nor will it find it again.
FoundBy(r) ==
    LET j == job[r] IN
    /\ j.found \in [Lines -> {0, 1}]
    /\ Rows(r) \subseteq 1 .. written /\ Rows(r) \intersect Gone = {}
    /\ j.to # NoCursor => Unread(j.to, Gone \union Rows(r))
    /\ j.to = NoCursor => Rows(r) = {}
    /\ pc[r] = "read" /\ (kind.journal \/ j.to = NoCursor) => j.to = j.from /\ Rows(r) = {}
    /\ pc[r] = "copies" =>
          /\ cursor = NoCursor /\ ~kind.journal
          /\ live # NoFile /\ j.to # NoCursor /\ j.to.ino = live
          /\ Rows(r) \subseteq {content[live][k] : k \in 1 .. Len(content[live])}
    /\ pc[r] = "newest" => kind.journal /\ cursor = NoCursor /\ j.to = NoCursor

FoundInv == \A r \in Readers : Current(r) => FoundBy(r)

\* On a steady host a cursor is of the log or of its copy, and it follows it.
Good(c) ==
    c # NoCursor =>
        /\ c.ino # NoFile /\ c.ino \in {live, old} /\ Follows(c, c.ino)
        /\ c.ino = live => c = CursorAt(live, c.at)

\* From cursor c a read gets to cursor d, and never back.
Passed(c, d) ==
    /\ d # NoCursor
    /\ c # NoCursor =>
          \/ c.ino = d.ino /\ c.at < d.at
          \/ c.ino = old /\ d.ino = live

\* A pass has read on from the stored cursor, or found nothing to read; one
\* that was overtaken has been left behind.
OnBy(r) ==
    /\ Current(r) =>
          /\ Good(job[r].to)
          /\ \/ Passed(cursor, job[r].to)
             \/ job[r].to \in {cursor, NoCursor} /\ Rows(r) = {}
    /\ Reading(r) /\ ~Current(r) => Passed(job[r].from, cursor)

SteadyInv == Steady(kind) => Good(cursor) /\ \A r \in Readers : OnBy(r)

Invariant == FilesInv /\ TypesInv /\ TurnsInv /\ GoneInv /\ FoundInv /\ SteadyInv

-----------------------------------------------------------------------------
(* Files.                                                                  *)

LEMMA Constants ==
    /\ MaxLines \in Nat /\ OldLines \in Nat /\ OldLines <= MaxLines
    /\ Budget \in Nat \ {0} /\ JournalBudget \in Nat \ {0} /\ Chunk \in Nat \ {0}
    /\ NoFile \notin Inodes /\ NoCursor \notin CursorType
    /\ Lines \subseteq Nat
    /\ \A k \in Kinds : k.journal \in BOOLEAN /\ k.requests \in Nat \ {0}
<1>1. CursorType \subseteq [ino : Inodes, at : Nat, head : Seq(Nat)]
  BY DEF CursorType, Digests
<1> QED
  BY <1>1, ConstantsAssumption DEF Lines

\* What is in a file is numbers, as many as it is long.
LEMMA FileIs ==
    ASSUME FilesInv, NEW i \in Inodes
    PROVE  /\ content[i] \in Seq(Nat) /\ Len(content[i]) \in Nat
           /\ \A k \in 1 .. Len(content[i]) :
                 content[i][k] \in Nat /\ k <= content[i][k] /\ content[i][k] <= written
           /\ content[i] = <<>> <=> Len(content[i]) = 0
           /\ written \in Nat /\ Len(content[i]) <= written
<1>1. content[i] \in Seq(Nat) /\ written \in Nat
  BY Constants DEF FilesInv
<1>2. /\ Len(content[i]) \in Nat
      /\ \A k \in 1 .. Len(content[i]) : content[i][k] \in k .. written
  BY <1>1, LenProperties DEF FilesInv
<1>3. content[i] = <<>> <=> Len(content[i]) = 0
  BY <1>1, EmptySeq
<1>4. Len(content[i]) <= written
  <2>1. CASE Len(content[i]) = 0
    BY <2>1, <1>1
  <2>2. CASE Len(content[i]) # 0
    <3>1. Len(content[i]) \in 1 .. Len(content[i])
      BY <2>2, <1>2
    <3> QED
      BY <3>1, <1>1, <1>2
  <2> QED
    BY <2>1, <2>2
<1> QED
  BY <1>1, <1>2, <1>3, <1>4

LEMMA Distinct ==
    ASSUME FilesInv, NEW i \in Inodes, NEW j \in Inodes,
           NEW k \in 1 .. Len(content[i]), NEW m \in 1 .. Len(content[j]),
           content[i][k] = content[j][m]
    PROVE  i = j /\ k = m
  BY DEF FilesInv

\* A line written is the last of the daemon's file.
LEMMA WriteAppends ==
    ASSUME FilesInv, Write
    PROVE  /\ kind' = kind /\ live' = live /\ old' = old /\ fd' = fd
           /\ written' = written + 1 /\ written < MaxLines
           /\ content' \in [Inodes -> Seq(Nat)]
           /\ \A i \in Inodes :
                 /\ i # fd => content'[i] = content[i]
                 /\ \A k \in 1 .. Len(content[i]) : content'[i][k] = content[i][k]
           /\ Len(content'[fd]) = Len(content[fd]) + 1
           /\ content'[fd][Len(content[fd]) + 1] = written + 1
<1>1. fd \in Inodes /\ content \in [Inodes -> Seq(Nat)]
  BY DEF FilesInv
<1>2. content[fd] \in Seq(Nat) /\ written + 1 \in Nat
  BY <1>1, FileIs
<1>3. content' = [content EXCEPT ![fd] = Append(content[fd], written + 1)]
  BY DEF Write
<1>4. /\ Append(content[fd], written + 1) \in Seq(Nat)
      /\ Len(Append(content[fd], written + 1)) = Len(content[fd]) + 1
      /\ \A k \in 1 .. Len(content[fd]) : Append(content[fd], written + 1)[k] = content[fd][k]
      /\ Append(content[fd], written + 1)[Len(content[fd]) + 1] = written + 1
  BY <1>2, AppendProperties
<1>5. /\ content'[fd] = Append(content[fd], written + 1)
      /\ \A i \in Inodes : i # fd => content'[i] = content[i]
  BY <1>1, <1>3
<1> QED
  BY <1>1, <1>3, <1>4, <1>5 DEF Write

LEMMA WriteFiles ==
    ASSUME FilesInv, Write
    PROVE  FilesInv'
<1> DEFINE len == Len(content[fd])
<1>1. /\ kind' = kind /\ live' = live /\ old' = old /\ fd' = fd
      /\ written' = written + 1 /\ written < MaxLines
      /\ content' \in [Inodes -> Seq(Nat)]
  BY WriteAppends
<1>2. fd \in Inodes /\ written \in Nat /\ OldLines <= written /\ len \in Nat /\ len <= written
  BY FileIs, Constants DEF FilesInv
<1>3. \A i \in Inodes : \A k \in 1 .. Len(content'[i]) :
          \/ k \in 1 .. Len(content[i]) /\ content'[i][k] = content[i][k]
          \/ i = fd /\ k = len + 1 /\ content'[i][k] = written + 1
  <2> SUFFICES ASSUME NEW i \in Inodes, NEW k \in 1 .. Len(content'[i])
               PROVE  \/ k \in 1 .. Len(content[i]) /\ content'[i][k] = content[i][k]
                      \/ i = fd /\ k = len + 1 /\ content'[i][k] = written + 1
    OBVIOUS
  <2>1. CASE i # fd
    BY <2>1, WriteAppends
  <2>2. CASE i = fd
    BY <2>2, <1>2, WriteAppends
  <2> QED
    BY <2>1, <2>2
<1>4. \A i \in Inodes : \A k \in 1 .. Len(content'[i]) : content'[i][k] \in k .. written'
  <2> SUFFICES ASSUME NEW i \in Inodes, NEW k \in 1 .. Len(content'[i])
               PROVE  content'[i][k] \in k .. written'
    OBVIOUS
  <2>1. CASE k \in 1 .. Len(content[i]) /\ content'[i][k] = content[i][k]
    <3>1. content[i][k] \in Nat /\ k <= content[i][k] /\ content[i][k] <= written
      BY <2>1, FileIs
    <3> QED
      BY <2>1, <3>1, <1>1, <1>2
  <2>2. CASE i = fd /\ k = len + 1 /\ content'[i][k] = written + 1
    BY <2>2, <1>1, <1>2
  <2> QED
    BY <1>3, <2>1, <2>2
<1>5. ASSUME NEW i \in Inodes, NEW j \in Inodes, NEW k \in 1 .. Len(content'[i]),
             NEW m \in 1 .. Len(content'[j]), content'[i][k] = content'[j][m]
      PROVE  i = j /\ k = m
  <2>1. \A x \in Inodes : \A y \in 1 .. Len(content[x]) : content[x][y] # written + 1
    BY <1>2, FileIs
  <2>2. CASE k \in 1 .. Len(content[i]) /\ content'[i][k] = content[i][k]
    <3>1. m \in 1 .. Len(content[j]) /\ content'[j][m] = content[j][m]
      BY <1>3, <1>5, <2>1, <2>2
    <3>2. content[i][k] = content[j][m]
      BY <1>5, <2>2, <3>1
    <3> QED
      BY <2>2, <3>1, <3>2, Distinct
  <2>3. CASE i = fd /\ k = len + 1 /\ content'[i][k] = written + 1
    BY <1>3, <1>5, <2>1, <2>3
  <2> QED
    BY <1>3, <2>2, <2>3
<1>6. ASSUME kind.journal
      PROVE  /\ Len(content'[live]) = written'
             /\ \A k \in 1 .. Len(content'[live]) : content'[live][k] = k
  <2>1. live = fd /\ len = written /\ \A k \in 1 .. len : content[fd][k] = k
    BY <1>6 DEF FilesInv
  <2>2. Len(content'[live]) = written'
    BY <2>1, <1>1, <1>2, WriteAppends
  <2>3. ASSUME NEW k \in 1 .. Len(content'[fd])
        PROVE  content'[fd][k] = k
    BY <1>2, <1>3, <2>1, <2>3
  <2> QED
    BY <2>1, <2>2, <2>3
<1>7. written' \in OldLines .. MaxLines
  BY <1>1, <1>2, Constants
<1> QED
  BY <1>1, <1>4, <1>5, <1>6, <1>7 DEF FilesInv

\* A rotation copies no line.
LEMMA RotateFiles ==
    ASSUME FilesInv, Rename \/ Create \/ Reopen \/ CopyTruncate
    PROVE  FilesInv'
<1>1. content \in [Inodes -> Seq(Nat)] /\ <<>> \in Seq(Nat) /\ Len(<<>>) = 0
  BY EmptySeq DEF FilesInv
<1>2. CASE Rename
  BY <1>2 DEF Rename, MayRotate, FilesInv
<1>3. CASE Create
  <2>1. PICK i \in Inodes \ {old, fd} :
            live' = i /\ content' = [content EXCEPT ![i] = <<>>]
    BY <1>3 DEF Create
  <2>2. /\ ~kind.journal /\ kind' = kind /\ written' = written
        /\ old' = old /\ fd' = fd
    BY <1>3, Constants DEF Create, FilesInv
  <2>3. \A j \in Inodes : content'[j] = IF j = i THEN <<>> ELSE content[j]
    BY <2>1, <1>1
  <2>4. \A j \in Inodes : \A k \in 1 .. Len(content'[j]) :
            k \in 1 .. Len(content[j]) /\ content'[j][k] = content[j][k]
    BY <2>3, <1>1
  <2>5. content' \in [Inodes -> Seq(Nat)]
    BY <2>1, <1>1
  <2> QED
    BY <2>1, <2>2, <2>4, <2>5 DEF FilesInv
<1>4. CASE Reopen
  BY <1>4 DEF Reopen, FilesInv
<1>5. CASE CopyTruncate
  <2>1. PICK i \in Inodes \ {live} :
            old' = i /\ content' = [content EXCEPT ![i] = content[live], ![live] = <<>>]
    BY <1>5 DEF CopyTruncate
  <2>2. /\ ~kind.journal /\ kind' = kind /\ written' = written /\ live \in Inodes
        /\ live' = live /\ fd' = fd
    BY <1>5 DEF CopyTruncate, MayRotate, FilesInv
  <2>3. \A j \in Inodes : content'[j] = IF j = live THEN <<>> ELSE
                                        IF j = i THEN content[live] ELSE content[j]
    BY <2>1, <2>2, <1>1
  <2>4. content' \in [Inodes -> Seq(Nat)]
    BY <2>1, <2>2, <1>1
  <2> DEFINE From(j) == IF j = i THEN live ELSE j
  <2>5. \A j \in Inodes : \A k \in 1 .. Len(content'[j]) :
            /\ From(j) \in Inodes /\ j # live
            /\ k \in 1 .. Len(content[From(j)]) /\ content'[j][k] = content[From(j)][k]
    BY <2>1, <2>2, <2>3, <1>1
  <2>6. \A j \in Inodes : \A k \in 1 .. Len(content'[j]) : content'[j][k] \in k .. written'
    BY <2>2, <2>5 DEF FilesInv
  <2>7. ASSUME NEW x \in Inodes, NEW y \in Inodes, NEW k \in 1 .. Len(content'[x]),
               NEW m \in 1 .. Len(content'[y]), content'[x][k] = content'[y][m]
        PROVE  x = y /\ k = m
    <3>1. From(x) = From(y) /\ k = m
      <4> HIDE DEF From
      <4>1. /\ From(x) \in Inodes /\ k \in 1 .. Len(content[From(x)])
            /\ content'[x][k] = content[From(x)][k]
        BY <2>5
      <4>2. /\ From(y) \in Inodes /\ m \in 1 .. Len(content[From(y)])
            /\ content'[y][m] = content[From(y)][m]
        BY <2>5
      <4>3. content[From(x)][k] = content[From(y)][m]
        BY <2>7, <4>1, <4>2
      <4> QED
        BY <4>1, <4>2, <4>3, Distinct
    <3> QED
      BY <2>5, <3>1
  <2> QED
    BY <2>1, <2>2, <2>4, <2>6, <2>7 DEF FilesInv
<1> QED
  BY <1>2, <1>3, <1>4, <1>5

-----------------------------------------------------------------------------
(* Requests.                                                               *)

\* What a request takes of a file is what is at the next places in it.
LEMMA TookIs ==
    ASSUME FilesInv, NEW i \in Inodes, NEW at \in Nat, NEW most \in Nat
    PROVE  LET t == Took(i, at, most) IN
           /\ t \in Seq(Nat) /\ Len(t) \in Nat /\ Len(t) <= most
           /\ at <= Len(content[i]) => at + Len(t) <= Len(content[i])
           /\ at > Len(content[i]) => Len(t) = 0
           /\ \A k \in 1 .. Len(t) : at + k <= Len(content[i]) /\ t[k] = content[i][at + k]
<1> DEFINE len == Len(content[i])
           n == IF at + most < len THEN at + most ELSE len
           t == Took(i, at, most)
<1>1. len \in Nat /\ n \in Int /\ n <= len /\ n <= at + most /\ at + 1 \in Int
  BY FileIs
<1>2. \A k \in (at + 1) .. n : content[i][k] \in Nat
  BY <1>1, FileIs
<1>3. t = SubSeq(content[i], at + 1, n)
  BY DEF Took
<1>4. /\ t \in Seq(Nat)
      /\ Len(t) = IF at + 1 <= n THEN n - (at + 1) + 1 ELSE 0
      /\ \A k \in 1 .. n - (at + 1) + 1 : t[k] = content[i][at + 1 + k - 1]
  <2> HIDE DEF n, t
  <2> QED
    BY <1>1, <1>2, <1>3, SubSeqProperties
<1>5. /\ Len(t) \in Nat /\ Len(t) <= most
      /\ at <= len => at + Len(t) <= len
      /\ at > len => Len(t) = 0
  <2> HIDE DEF t
  <2> QED
    BY <1>1, <1>4
<1>6. ASSUME NEW k \in 1 .. Len(t)
      PROVE  at + k <= len /\ t[k] = content[i][at + k]
  <2>1. Len(t) = n - at /\ k \in 1 .. n - at /\ at + k = at + 1 + k - 1
    <3> HIDE DEF t, n
    <3> QED
      BY <1>1, <1>4
  <2>2. t[k] = content[i][at + 1 + k - 1] /\ n - at = n - (at + 1) + 1
    <3> HIDE DEF t, n
    <3> QED
      BY <1>1, <1>4, <2>1
  <2> HIDE DEF t, n
  <2> QED
    BY <1>1, <2>1, <2>2
<1> QED
  BY <1>4, <1>5, <1>6

\* The digest of a file is its first line, if it has one.
LEMMA HeadIs ==
    ASSUME FilesInv, NEW i \in Inodes, NEW at \in 0 .. Len(content[i])
    PROVE  LET h == HeadAt(i, at) IN
           /\ h \in Digests
           /\ at = 0 => h = <<>>
           /\ at > 0 => Len(h) = 1 /\ h[1] = content[i][1]
           /\ IsPrefix(h, content[i])
<1>1. content[i] \in Seq(Nat) /\ Len(content[i]) \in Nat
  BY FileIs
<1>2. CASE at = 0
  <2>1. HeadAt(i, at) = <<>> /\ <<>> \in Seq(Nat) /\ Len(<<>>) = 0
    BY <1>2, EmptySeq DEF HeadAt
  <2>2. SubSeq(<<>>, 1, 0) = <<>> /\ SubSeq(content[i], 1, 0) = <<>>
    BY SubSeqEmpty
  <2>3. IsPrefix(<<>>, content[i])
    BY <1>1, <2>1, <2>2 DEF IsPrefix
  <2>4. ~(at > 0) /\ <<>> \in Digests
    BY <1>2, <2>1 DEF Digests
  <2> QED
    BY <1>2, <2>1, <2>3, <2>4, Zenon
<1>3. CASE at > 0
  <2> DEFINE h == HeadAt(i, at)
  <2>1. h = SubSeq(content[i], 1, 1) /\ 1 <= Len(content[i])
    BY <1>1, <1>3 DEF HeadAt
  <2>2. \A k \in 1 .. 1 : content[i][k] \in Nat
    BY <2>1, FileIs
  <2>3. h \in Seq(Nat) /\ Len(h) = 1 /\ h[1] = content[i][1]
    <3>1. /\ SubSeq(content[i], 1, 1) \in Seq(Nat)
          /\ Len(SubSeq(content[i], 1, 1)) = IF 1 <= 1 THEN 1 - 1 + 1 ELSE 0
          /\ \A k \in 1 .. 1 - 1 + 1 : SubSeq(content[i], 1, 1)[k] = content[i][1 + k - 1]
      BY <2>2, SubSeqProperties
    <3> QED
      BY <2>1, <3>1
  <2>4. SubSeq(h, 1, 1) = h
    BY <2>3, SubSeqFull
  <2>5. IsPrefix(h, content[i])
    <3> HIDE DEF h
    <3> QED
      BY <1>1, <2>1, <2>3, <2>4 DEF IsPrefix
  <2>6. h \in Digests
    <3> HIDE DEF h
    <3>1. h \in Seq(Nat) /\ Len(h) <= 1
      BY <2>3
    <3> QED
      BY <3>1 DEF Digests
  <2>7. at # 0
    BY <1>3
  <2> QED
    BY <1>3, <2>3, <2>5, <2>6, <2>7
<1> QED
  BY <1>1, <1>2, <1>3

LEMMA CursorIs ==
    ASSUME FilesInv, NEW i \in Inodes, NEW at \in 0 .. Len(content[i])
    PROVE  LET c == CursorAt(i, at) IN
           /\ c \in CursorType /\ c # NoCursor
           /\ c.ino = i /\ c.at = at /\ c.head = HeadAt(i, at) /\ Follows(c, i)
<1>1. Len(content[i]) \in Nat /\ at \in Nat /\ i # NoFile
  BY FileIs, Constants
<1>2. HeadAt(i, at) \in Digests /\ IsPrefix(HeadAt(i, at), content[i])
  BY HeadIs
<1> QED
  BY <1>1, <1>2, Constants DEF CursorAt, CursorType, Follows

\* A slice of a file, and one of a file after one of another.
Sliced(t, i, at) ==
    /\ t \in Seq(Nat) /\ Len(t) \in Nat /\ at + Len(t) <= Len(content[i])
    /\ \A k \in 1 .. Len(t) : t[k] = content[i][at + k]

Joined(all, s, j, at, t, i, start, n) ==
    /\ at \in Nat /\ Sliced(s, j, at) /\ start \in Nat /\ Sliced(t, i, start)
    /\ all = s \o t /\ n = start + Len(t)

LEMMA SliceIs ==
    ASSUME FilesInv, NEW i \in Inodes, NEW at \in Nat, NEW t, Sliced(t, i, at)
    PROVE  /\ \A k \in 1 .. Len(t) :
                 /\ at + k \in at + 1 .. at + Len(t) /\ at + k \in 1 .. Len(content[i])
                 /\ t[k] = content[i][at + k]
           /\ \A m \in at + 1 .. at + Len(t) : \E k \in 1 .. Len(t) : t[k] = content[i][m]
           /\ \A k, m \in 1 .. Len(t) : t[k] = t[m] => k = m
<1>1. Len(t) \in Nat /\ Len(content[i]) \in Nat /\ at + Len(t) <= Len(content[i])
  BY FileIs DEF Sliced
<1>2. ASSUME NEW k \in 1 .. Len(t)
      PROVE  /\ at + k \in at + 1 .. at + Len(t) /\ at + k \in 1 .. Len(content[i])
             /\ t[k] = content[i][at + k]
  BY <1>1 DEF Sliced
<1>3. ASSUME NEW m \in at + 1 .. at + Len(t)
      PROVE  \E k \in 1 .. Len(t) : t[k] = content[i][m]
  <2>1. m - at \in 1 .. Len(t) /\ at + (m - at) = m
    BY <1>1
  <2> QED
    BY <1>2, <2>1
<1>4. ASSUME NEW k \in 1 .. Len(t), NEW m \in 1 .. Len(t), t[k] = t[m]
      PROVE  k = m
  <2>1. at + k = at + m
    BY <1>2, <1>4, Distinct
  <2> QED
    BY <2>1
<1> QED
  BY <1>2, <1>3, <1>4

LEMMA JoinIs ==
    ASSUME FilesInv, NEW i \in Inodes, NEW j \in Inodes, i # j,
           NEW at, NEW start, NEW s, NEW t, NEW all, NEW n,
           Joined(all, s, j, at, t, i, start, n)
    PROVE  /\ all \in Seq(Nat)
           /\ \A k \in 1 .. Len(all) :
                 \/ \E m \in at + 1 .. Len(content[j]) : all[k] = content[j][m]
                 \/ \E m \in start + 1 .. n : all[k] = content[i][m]
           /\ \A m \in start + 1 .. n :
                 \E k \in 1 .. Len(all) : all[k] = content[i][m]
           /\ \A k, m \in 1 .. Len(all) : all[k] = all[m] => k = m
<1>1. /\ at \in Nat /\ start \in Nat /\ n = start + Len(t)
      /\ Sliced(s, j, at) /\ Sliced(t, i, start) /\ all = s \o t
      /\ s \in Seq(Nat) /\ Len(s) \in Nat /\ t \in Seq(Nat) /\ Len(t) \in Nat
      /\ Len(content[j]) \in Nat /\ at + Len(s) <= Len(content[j])
  BY FileIs DEF Sliced, Joined
<1>2. /\ all \in Seq(Nat) /\ Len(all) = Len(s) + Len(t)
      /\ \A k \in 1 .. Len(s) + Len(t) :
            all[k] = IF k <= Len(s) THEN s[k] ELSE t[k - Len(s)]
  BY <1>1, ConcatProperties
<1>3. ASSUME NEW k \in 1 .. Len(all)
      PROVE  \/ k \in 1 .. Len(s) /\ all[k] = s[k]
             \/ \E m \in 1 .. Len(t) : k = Len(s) + m /\ all[k] = t[m]
  <2>1. CASE k <= Len(s)
    BY <1>1, <1>2, <2>1
  <2>2. CASE k > Len(s)
    <3>1. k - Len(s) \in 1 .. Len(t) /\ k = Len(s) + (k - Len(s))
      BY <1>1, <1>2, <2>2
    <3>2. ~(k <= Len(s)) /\ k \in 1 .. Len(s) + Len(t)
      BY <1>1, <1>2, <2>2
    <3>3. all[k] = t[k - Len(s)]
      BY <1>2, <3>2
    <3> QED
      BY <3>1, <3>3
  <2> QED
    BY <1>1, <1>2, <2>1, <2>2
<1>4. ASSUME NEW m \in 1 .. Len(t)
      PROVE  Len(s) + m \in 1 .. Len(all) /\ all[Len(s) + m] = t[m]
  <2>1. /\ Len(s) + m \in 1 .. Len(s) + Len(t) /\ ~(Len(s) + m <= Len(s))
        /\ (Len(s) + m) - Len(s) = m
    BY <1>1
  <2> QED
    BY <1>2, <2>1
<1>5. /\ \A k \in 1 .. Len(s) :
            /\ at + k \in at + 1 .. at + Len(s) /\ at + k \in 1 .. Len(content[j])
            /\ s[k] = content[j][at + k]
      /\ \A k, m \in 1 .. Len(s) : s[k] = s[m] => k = m
  BY <1>1, SliceIs
<1>6. /\ \A k \in 1 .. Len(t) :
            /\ start + k \in start + 1 .. start + Len(t) /\ start + k \in 1 .. Len(content[i])
            /\ t[k] = content[i][start + k]
      /\ \A m \in start + 1 .. start + Len(t) : \E k \in 1 .. Len(t) : t[k] = content[i][m]
      /\ \A k, m \in 1 .. Len(t) : t[k] = t[m] => k = m
  BY <1>1, SliceIs
<1>7. ASSUME NEW k \in 1 .. Len(all)
      PROVE  \/ \E m \in at + 1 .. Len(content[j]) : all[k] = content[j][m]
             \/ \E m \in start + 1 .. n : all[k] = content[i][m]
  <2>1. CASE k \in 1 .. Len(s) /\ all[k] = s[k]
    <3>1. at + k \in at + 1 .. Len(content[j]) /\ all[k] = content[j][at + k]
      BY <1>1, <1>5, <2>1
    <3> QED
      BY <3>1
  <2>2. CASE \E m \in 1 .. Len(t) : k = Len(s) + m /\ all[k] = t[m]
    BY <1>1, <1>6, <2>2
  <2> QED
    BY <1>3, <2>1, <2>2
<1>8. ASSUME NEW m \in start + 1 .. n
      PROVE  \E k \in 1 .. Len(all) : all[k] = content[i][m]
  <2>1. PICK x \in 1 .. Len(t) : t[x] = content[i][m]
    BY <1>1, <1>6
  <2> QED
    BY <1>4, <2>1
<1>9. ASSUME NEW k \in 1 .. Len(all), NEW m \in 1 .. Len(all), all[k] = all[m]
      PROVE  k = m
  <2>1. \A x \in 1 .. Len(s), y \in 1 .. Len(t) : s[x] # t[y]
    <3> SUFFICES ASSUME NEW x \in 1 .. Len(s), NEW y \in 1 .. Len(t), s[x] = t[y] PROVE FALSE
      OBVIOUS
    <3>1. content[j][at + x] = content[i][start + y]
      BY <1>5, <1>6
    <3> QED
      BY <1>5, <1>6, <3>1, Distinct
  <2>2. CASE k \in 1 .. Len(s) /\ all[k] = s[k]
    <3>1. m \in 1 .. Len(s) /\ all[m] = s[m]
      BY <1>3, <1>9, <2>1, <2>2
    <3> QED
      BY <1>5, <1>9, <2>2, <3>1
  <2>3. CASE \E x \in 1 .. Len(t) : k = Len(s) + x /\ all[k] = t[x]
    <3>1. PICK x \in 1 .. Len(t) : k = Len(s) + x /\ all[k] = t[x]
      BY <2>3
    <3>2. PICK y \in 1 .. Len(t) : m = Len(s) + y /\ all[m] = t[y]
      BY <1>3, <1>9, <2>1, <3>1
    <3>3. x = y
      BY <1>6, <1>9, <3>1, <3>2
    <3> QED
      BY <3>1, <3>2, <3>3
  <2> QED
    BY <1>3, <2>2, <2>3
<1> QED
  BY <1>2, <1>7, <1>8, <1>9

\* Where a request reads from: after the place the cursor gives in a file that
\* it follows.
Of(c, m) ==
    /\ c # NoCursor /\ c.ino # live /\ Follows(c, old) /\ old \in Inodes
    /\ m \in c.at + 1 .. Len(content[old])

\* A request ends in the log, or in the middle of its copy.
LEMMA FileReplyIs ==
    ASSUME FilesInv, live \in Inodes, NEW c \in CursorType \union {NoCursor}
    PROVE  LET R == FileReply(c)
               n == R.to.at
           IN  /\ R.lines \in Seq(Nat) /\ R.more \in BOOLEAN
               /\ \/ /\ R.to = CursorAt(live, n) /\ n \in Start(c) .. Len(content[live])
                     /\ \A k \in 1 .. Len(R.lines) :
                           \/ \E m \in Nat : Of(c, m) /\ R.lines[k] = content[old][m]
                           \/ \E m \in Start(c) + 1 .. n : R.lines[k] = content[live][m]
                     /\ \A m \in Start(c) + 1 .. n :
                           \E k \in 1 .. Len(R.lines) : R.lines[k] = content[live][m]
                  \/ /\ c # NoCursor /\ c.ino # live /\ Follows(c, old) /\ old \in Inodes
                     /\ R.to \in CursorType /\ R.to.ino = c.ino /\ R.to.head = c.head
                     /\ n > c.at /\ n <= Len(content[old])
                     /\ \A k \in 1 .. Len(R.lines) :
                           \E m \in c.at + 1 .. n : R.lines[k] = content[old][m]
                     /\ \A m \in c.at + 1 .. n :
                           \E k \in 1 .. Len(R.lines) : R.lines[k] = content[old][m]
               /\ \A k, m \in 1 .. Len(R.lines) : R.lines[k] = R.lines[m] => k = m
<1> DEFINE rest == Rest(c)
           fresh == Took(live, Start(c), Budget - Len(rest))
           R == FileReply(c)
<1>1. /\ Start(c) \in Nat /\ Start(c) <= Len(content[live])
      /\ Len(content[live]) \in Nat
  BY FileIs DEF Start, Follows, CursorType
<1>2. CASE ~(c # NoCursor /\ c.ino # live /\ Follows(c, old))
  <2>1. rest = <<>> /\ rest \in Seq(Nat) /\ Len(rest) = 0 /\ Budget \in Nat \ {0} /\ Len(rest) # Budget
    BY <1>2, Constants, EmptySeq DEF Rest
  <2>2. Sliced(fresh, live, Start(c))
    <3>1. Budget - Len(rest) \in Nat
      BY <2>1
    <3> HIDE DEF rest
    <3> QED
      BY <1>1, <3>1, TookIs DEF Sliced
  <2> HIDE DEF rest, fresh
  <2>3. rest \o fresh = fresh
    BY <2>1, <2>2, ConcatEmptySeq DEF Sliced
  <2> DEFINE n == Start(c) + Len(fresh)
  <2>4. R = [lines |-> fresh, to |-> CursorAt(live, n), more |-> Len(rest) + Len(fresh) = Budget]
    BY <2>1, <2>3 DEF FileReply, rest, fresh
  <2>5. n \in Start(c) .. Len(content[live]) /\ n \in 0 .. Len(content[live])
    BY <1>1, <2>2 DEF Sliced
  <2>6. R.to = CursorAt(live, n) /\ R.to.at = n /\ R.lines = fresh /\ R.more \in BOOLEAN
    BY <2>4, <2>5, CursorIs
  <2>7. /\ \A k \in 1 .. Len(fresh) :
              /\ Start(c) + k \in Start(c) + 1 .. n
              /\ fresh[k] = content[live][Start(c) + k]
        /\ \A m \in Start(c) + 1 .. n : \E k \in 1 .. Len(fresh) : fresh[k] = content[live][m]
        /\ \A k, m \in 1 .. Len(fresh) : fresh[k] = fresh[m] => k = m
    BY <1>1, <2>2, SliceIs
  <2>8. fresh \in Seq(Nat)
    BY <2>2 DEF Sliced
  <2>9. \A k \in 1 .. Len(fresh) : \E m \in Start(c) + 1 .. n : fresh[k] = content[live][m]
    BY <2>7
  <2> HIDE DEF n, R
  <2> QED
    BY <2>5, <2>6, <2>7, <2>8, <2>9 DEF R
<1>3. CASE c # NoCursor /\ c.ino # live /\ Follows(c, old)
  <2> DEFINE at == c.at
  <2>1. /\ c \in CursorType /\ old \in Inodes /\ c.ino = old /\ old # live
        /\ at \in Nat /\ at <= Len(content[old]) /\ Len(content[old]) \in Nat
    <3>1. c \in CursorType /\ c.ino \in Inodes /\ c.at \in Nat
      BY <1>3 DEF CursorType
    <3> QED
      BY <1>3, <3>1, FileIs DEF Follows, FilesInv
  <2>2. rest = Took(old, at, Budget) /\ Budget \in Nat /\ Budget > 0
    BY <1>3, Constants DEF Rest
  <2> HIDE DEF at, rest
  <2>3. Sliced(rest, old, at) /\ Len(rest) <= Budget /\ Len(rest) \in Nat
    BY <2>1, <2>2, TookIs DEF Sliced
  <2>4. CASE Len(rest) = Budget
    <3>1. R = [lines |-> rest, to |-> [c EXCEPT !.at = @ + Budget], more |-> TRUE]
      BY <2>4 DEF FileReply, rest
    <3>2. /\ R.to \in CursorType /\ R.to.ino = c.ino /\ R.to.head = c.head
          /\ R.to.at = at + Budget /\ R.lines = rest /\ R.more = TRUE
      BY <2>1, <2>2, <3>1 DEF CursorType, at
    <3> DEFINE n == R.to.at
    <3> HIDE DEF R
    <3>3. n > at /\ n <= Len(content[old]) /\ n = at + Len(rest)
      BY <2>1, <2>2, <2>3, <2>4, <3>2 DEF Sliced
    <3> HIDE DEF n
    <3>4. /\ \A k \in 1 .. Len(rest) :
                /\ at + k \in at + 1 .. n /\ rest[k] = content[old][at + k]
          /\ \A m \in at + 1 .. n : \E k \in 1 .. Len(rest) : rest[k] = content[old][m]
          /\ \A k, m \in 1 .. Len(rest) : rest[k] = rest[m] => k = m
      <4>1. /\ \A k \in 1 .. Len(rest) :
                  /\ at + k \in at + 1 .. at + Len(rest) /\ at + k \in 1 .. Len(content[old])
                  /\ rest[k] = content[old][at + k]
            /\ \A m \in at + 1 .. at + Len(rest) :
                  \E k \in 1 .. Len(rest) : rest[k] = content[old][m]
            /\ \A k, m \in 1 .. Len(rest) : rest[k] = rest[m] => k = m
        BY <2>1, <2>3, SliceIs
      <4> QED
        BY <3>3, <4>1
    <3>5. \A k \in 1 .. Len(rest) : \E m \in at + 1 .. n : rest[k] = content[old][m]
      BY <3>4
    <3>6. rest \in Seq(Nat)
      BY <2>3 DEF Sliced
    <3>7. /\ R.lines \in Seq(Nat) /\ R.more \in BOOLEAN
          /\ \A k \in 1 .. Len(R.lines) :
                \E m \in at + 1 .. n : R.lines[k] = content[old][m]
          /\ \A m \in at + 1 .. n :
                \E k \in 1 .. Len(R.lines) : R.lines[k] = content[old][m]
          /\ \A k, m \in 1 .. Len(R.lines) : R.lines[k] = R.lines[m] => k = m
      <4>1. R.lines = rest /\ R.more = TRUE
        BY <3>2
      <4>2. R.lines \in Seq(Nat) /\ R.more \in BOOLEAN
        BY <3>6, <4>1
      <4>3. \A k \in 1 .. Len(R.lines) :
                \E m \in at + 1 .. n : R.lines[k] = content[old][m]
        BY <3>5, <4>1
      <4>4. /\ \A m \in at + 1 .. n :
                  \E k \in 1 .. Len(R.lines) : R.lines[k] = content[old][m]
            /\ \A k, m \in 1 .. Len(R.lines) : R.lines[k] = R.lines[m] => k = m
        BY <3>4, <4>1
      <4> QED
        BY <4>2, <4>3, <4>4
    <3>8. /\ R.to \in CursorType /\ R.to.ino = c.ino /\ R.to.head = c.head
          /\ n > at /\ n <= Len(content[old])
      BY <3>2, <3>3
    <3> QED
      BY <1>3, <2>1, <3>7, <3>8 DEF n, R, at
  <2>5. CASE Len(rest) # Budget
    <3>1. Sliced(fresh, live, Start(c))
      <4>1. Budget - Len(rest) \in Nat
        BY <2>2, <2>3
      <4> QED
        BY <1>1, <4>1, TookIs DEF Sliced
    <3> HIDE DEF fresh
    <3> DEFINE n == Start(c) + Len(fresh)
               all == rest \o fresh
    <3>2. R = [lines |-> rest \o fresh, to |-> CursorAt(live, n),
               more |-> Len(rest) + Len(fresh) = Budget]
      BY <2>5 DEF FileReply, rest, fresh
    <3>3. n \in Start(c) .. Len(content[live]) /\ n \in 0 .. Len(content[live])
      BY <1>1, <3>1 DEF Sliced
    <3>4. R.to = CursorAt(live, n) /\ R.to.at = n /\ R.lines = all /\ R.more \in BOOLEAN
      BY <3>2, <3>3, CursorIs
    <3>5. /\ all \in Seq(Nat)
          /\ \A k \in 1 .. Len(all) :
                \/ \E m \in at + 1 .. Len(content[old]) : all[k] = content[old][m]
                \/ \E m \in Start(c) + 1 .. n : all[k] = content[live][m]
          /\ \A m \in Start(c) + 1 .. n : \E k \in 1 .. Len(all) : all[k] = content[live][m]
          /\ \A k, m \in 1 .. Len(all) : all[k] = all[m] => k = m
      <4>1. live # old /\ FilesInv /\ Sliced(rest, old, at) /\ Sliced(fresh, live, Start(c))
            /\ live \in Inodes /\ old \in Inodes /\ at \in Nat /\ Start(c) \in Nat
        BY <1>1, <2>1, <2>3, <3>1
      <4>2. Joined(all, rest, old, at, fresh, live, Start(c), n)
        BY <4>1 DEF Joined
      <4> HIDE DEF all, n
      <4>3. all \in Seq(Nat)
        BY <4>1, <4>2, JoinIs
      <4>4. \A k \in 1 .. Len(all) :
                \/ \E m \in at + 1 .. Len(content[old]) : all[k] = content[old][m]
                \/ \E m \in Start(c) + 1 .. n : all[k] = content[live][m]
        BY <4>1, <4>2, JoinIs
      <4>5. \A m \in Start(c) + 1 .. n : \E k \in 1 .. Len(all) : all[k] = content[live][m]
        BY <4>1, <4>2, JoinIs
      <4>6. \A k, m \in 1 .. Len(all) : all[k] = all[m] => k = m
        BY <4>1, <4>2, JoinIs
      <4> QED
        BY <4>3, <4>4, <4>5, <4>6
    <3> HIDE DEF all, n, R
    <3>6. \A m \in at + 1 .. Len(content[old]) : Of(c, m) /\ m \in Nat
      BY <1>3, <2>1 DEF Of, at
    <3>7. \A k \in 1 .. Len(all) :
              \/ \E m \in Nat : Of(c, m) /\ all[k] = content[old][m]
              \/ \E m \in Start(c) + 1 .. n : all[k] = content[live][m]
      BY <3>5, <3>6
    <3> QED
      BY <3>3, <3>4, <3>5, <3>7 DEF R
  <2> QED
    BY <2>4, <2>5
<1> QED
  BY <1>2, <1>3

\* A journal's answer is what comes after the cursor, or it has no cursor.
LEMMA JournalReplyIs ==
    ASSUME FilesInv, live \in Inodes, NEW c \in CursorType \union {NoCursor}
    PROVE  LET R == JournalReply(c)
               start == IF c = NoCursor THEN OldLines ELSE c.at
               n == R.to.at
           IN  /\ R.lines \in Seq(Nat) /\ R.more \in BOOLEAN
               /\ \/ R.lines = <<>> /\ R.to = NoCursor /\ ~R.more
                  \/ /\ R.to = CursorAt(live, n) /\ n \in start + 1 .. Len(content[live])
                     /\ \A k \in 1 .. Len(R.lines) :
                           \E m \in start + 1 .. n : R.lines[k] = content[live][m]
                     /\ \A m \in start + 1 .. n :
                           \E k \in 1 .. Len(R.lines) : R.lines[k] = content[live][m]
               /\ MaxLines < JournalBudget => ~R.more
               /\ \A k, m \in 1 .. Len(R.lines) : R.lines[k] = R.lines[m] => k = m
<1> DEFINE start == IF c = NoCursor THEN OldLines ELSE c.at
           lines == Took(live, start, JournalBudget)
           R == JournalReply(c)
           n == start + Len(lines)
<1>1. start \in Nat /\ JournalBudget \in Nat \ {0} /\ MaxLines \in Nat
  BY Constants DEF CursorType
<1>2. Len(content[live]) \in Nat /\ Len(content[live]) <= MaxLines
  BY <1>1, FileIs DEF FilesInv
<1> HIDE DEF start
<1>3. /\ lines \in Seq(Nat) /\ Len(lines) \in Nat
      /\ start <= Len(content[live]) => start + Len(lines) <= Len(content[live])
      /\ start > Len(content[live]) => Len(lines) = 0
      /\ \A k \in 1 .. Len(lines) : lines[k] = content[live][start + k]
  BY <1>1, TookIs
<1>4. R = [lines |-> lines,
           to    |-> IF lines = <<>> THEN NoCursor ELSE CursorAt(live, n),
           more  |-> Len(lines) = JournalBudget]
  BY DEF JournalReply, start
<1> HIDE DEF lines
<1>5. MaxLines < JournalBudget => Len(lines) # JournalBudget
  BY <1>1, <1>2, <1>3
<1>6. CASE lines = <<>>
  <2>1. Len(lines) = 0 /\ Len(lines) # JournalBudget
    BY <1>1, <1>6, EmptySeq
  <2>2. R.lines = lines /\ R.to = NoCursor /\ ~R.more /\ R.more \in BOOLEAN
    <3>1. R.more = (Len(lines) = JournalBudget) /\ R.lines = lines
      BY <1>4
    <3>2. R.to = NoCursor
      BY <1>4, <1>6
    <3> HIDE DEF R
    <3> QED
      BY <2>1, <3>1, <3>2
  <2>3. \A k, m \in 1 .. Len(R.lines) : k = m
    BY <2>1, <2>2
  <2> HIDE DEF R
  <2> QED
    BY <1>3, <1>6, <2>2, <2>3 DEF R
<1>7. CASE lines # <<>>
  <2>1. Len(lines) > 0 /\ start <= Len(content[live])
    BY <1>1, <1>2, <1>3, <1>7, EmptySeq
  <2>2. Sliced(lines, live, start)
    BY <1>3, <2>1 DEF Sliced
  <2>3. n \in start + 1 .. Len(content[live]) /\ n \in 0 .. Len(content[live])
    BY <1>1, <1>2, <1>3, <2>1
  <2>4. R.lines = lines /\ R.to = CursorAt(live, n) /\ R.more = (Len(lines) = JournalBudget)
    BY <1>4, <1>7
  <2>5. R.to.at = n /\ R.more \in BOOLEAN /\ (MaxLines < JournalBudget => ~R.more)
    BY <1>5, <2>3, <2>4, CursorIs
  <2>6. /\ \A k \in 1 .. Len(lines) :
              start + k \in start + 1 .. n /\ lines[k] = content[live][start + k]
        /\ \A m \in start + 1 .. n : \E k \in 1 .. Len(lines) : lines[k] = content[live][m]
        /\ \A k, m \in 1 .. Len(lines) : lines[k] = lines[m] => k = m
    BY <1>1, <2>2, SliceIs
  <2> HIDE DEF R, n
  <2>7. \A k \in 1 .. Len(lines) : \E m \in start + 1 .. n : lines[k] = content[live][m]
    BY <2>6
  <2> QED
    BY <1>3, <2>3, <2>4, <2>5, <2>6, <2>7 DEF R, start
<1> QED
  BY <1>6, <1>7

LEMMA ReplyTypes ==
    ASSUME FilesInv, live \in Inodes, NEW c \in CursorType \union {NoCursor}
    PROVE  /\ Reply(c).lines \in Seq(Nat) /\ Reply(c).more \in BOOLEAN
           /\ Reply(c).to \in CursorType \union {NoCursor}
<1>1. \A n \in 0 .. Len(content[live]) : CursorAt(live, n) \in CursorType
  BY CursorIs
<1>2. CASE kind.journal
  <2>1. (IF c = NoCursor THEN OldLines ELSE c.at) \in Nat
    BY Constants DEF CursorType
  <2>2. Len(content[live]) \in Nat
    BY FileIs
  <2> DEFINE n == JournalReply(c).to.at
  <2>3. /\ JournalReply(c).lines \in Seq(Nat) /\ JournalReply(c).more \in BOOLEAN
        /\ \/ JournalReply(c).to = NoCursor
           \/ /\ JournalReply(c).to = CursorAt(live, n)
              /\ n \in (IF c = NoCursor THEN OldLines ELSE c.at) + 1 .. Len(content[live])
    BY JournalReplyIs
  <2> HIDE DEF n
  <2> QED
    BY <1>1, <1>2, <2>1, <2>2, <2>3 DEF Reply
<1>3. CASE ~kind.journal
  <2>1. Start(c) \in Nat /\ Len(content[live]) \in Nat
    BY FileIs DEF Start, CursorType
  <2> DEFINE n == FileReply(c).to.at
  <2>2. /\ FileReply(c).lines \in Seq(Nat) /\ FileReply(c).more \in BOOLEAN
        /\ \/ /\ FileReply(c).to = CursorAt(live, n)
              /\ n \in Start(c) .. Len(content[live])
           \/ FileReply(c).to \in CursorType
    BY FileReplyIs
  <2> HIDE DEF n
  <2> QED
    BY <1>1, <1>3, <2>1, <2>2 DEF Reply
<1> QED
  BY <1>2, <1>3

\* An observer counts each line of an answer once.
LEMMA FindsCounts ==
    ASSUME NEW found \in [Lines -> Nat], NEW s \in Seq(Nat)
    PROVE  /\ Finds(found, s) \in [Lines -> Nat]
           /\ \A l \in Lines : Finds(found, s)[l] >= found[l]
<1>1. Len(s) \in Nat /\ DOMAIN s = 1 .. Len(s)
  BY LenProperties
<1>2. ASSUME NEW l \in Lines
      PROVE  Cardinality({k \in DOMAIN s : s[k] = l}) \in Nat
  <2>1. IsFiniteSet(1 .. Len(s))
    BY <1>1, FS_Interval
  <2>2. IsFiniteSet({k \in DOMAIN s : s[k] = l})
    BY <1>1, <2>1, FS_Subset
  <2> QED
    BY <2>2, FS_CardinalityType
<1> QED
  BY <1>2 DEF Finds

LEMMA FindsOnce ==
    ASSUME NEW found \in [Lines -> {0, 1}], NEW s \in Seq(Nat), NEW L,
           \A k \in 1 .. Len(s) : s[k] \in L,
           \A l \in L : l \in Lines /\ found[l] = 0 /\ \E k \in 1 .. Len(s) : s[k] = l,
           \A k, m \in 1 .. Len(s) : s[k] = s[m] => k = m
    PROVE  /\ Finds(found, s) \in [Lines -> {0, 1}]
           /\ {l \in Lines : Finds(found, s)[l] > 0} = {l \in Lines : found[l] > 0} \union L
<1> DEFINE at(l) == {k \in DOMAIN s : s[k] = l}
<1>1. DOMAIN s = 1 .. Len(s) /\ Len(s) \in Nat
  BY LenProperties
<1>2. \A l \in Lines : Finds(found, s)[l] = found[l] + Cardinality(at(l))
  BY DEF Finds
<1>3. ASSUME NEW l \in Lines, l \notin L
      PROVE  Finds(found, s)[l] = found[l]
  <2>1. at(l) = {}
    BY <1>1, <1>3
  <2> QED
    BY <1>2, <2>1, FS_EmptySet
<1>4. ASSUME NEW l \in L
      PROVE  Finds(found, s)[l] = 1
  <2>1. PICK k \in 1 .. Len(s) : s[k] = l
    OBVIOUS
  <2>2. at(l) = {k}
    BY <1>1, <2>1
  <2>3. Cardinality(at(l)) = 1
    BY <2>2, FS_Singleton
  <2> QED
    BY <1>2, <2>3
<1>5. Finds(found, s) \in [Lines -> {0, 1}]
  <2>1. \A l \in Lines : Finds(found, s)[l] \in {0, 1}
    BY <1>3, <1>4
  <2> QED
    BY <2>1 DEF Finds
<1> QED
  BY <1>3, <1>4, <1>5

-----------------------------------------------------------------------------
(* What a request does to what is known of its cursor.                     *)

LinesOf(s) == {s[k] : k \in 1 .. Len(s)}

\* Where the cursor is in the file it reads on from.
LEMMA FollowsAt ==
    ASSUME FilesInv, NEW c \in CursorType, NEW i \in Inodes \union {NoFile}, Follows(c, i)
    PROVE  /\ i \in Inodes /\ c.ino = i /\ c.at \in Nat
           /\ c.at <= Len(content[i]) /\ Len(content[i]) \in Nat
  BY FileIs DEF Follows, CursorType

LEMMA FileReadsUnread ==
    ASSUME FilesInv, live \in Inodes, NEW c \in CursorType \union {NoCursor}, NEW S,
           Unread(c, S)
    PROVE  LET R == FileReply(c)
               L == LinesOf(R.lines)
           IN  /\ L \subseteq 1 .. written /\ L \intersect S = {}
               /\ R.to \in CursorType /\ Unread(R.to, S \union L)
               /\ c = NoCursor => /\ L \subseteq LinesOf(content[live])
                                  /\ R.to.ino = live
<1> DEFINE R == FileReply(c)
           L == LinesOf(R.lines)
           n == R.to.at
<1>1. live # NoFile /\ live # old
  BY Constants DEF FilesInv
<1>2. /\ Start(c) \in Nat
      /\ c # NoCursor /\ Follows(c, live) => Start(c) = c.at
      /\ ~(c # NoCursor /\ Follows(c, live)) => Start(c) = 0
  BY DEF Start, CursorType
<1>3. ASSUME NEW m \in Nat, Of(c, m)
      PROVE  /\ old \in Inodes /\ m \in 1 .. Len(content[old]) /\ m > c.at
             /\ content[old][m] \in 1 .. written /\ content[old][m] \notin S
  <2>1. /\ c \in CursorType /\ c # NoCursor /\ c.ino # live /\ Follows(c, old)
        /\ old \in Inodes /\ m \in c.at + 1 .. Len(content[old])
    BY <1>3 DEF Of
  <2>2. c.at \in Nat /\ Len(content[old]) \in Nat
    BY <2>1, FollowsAt
  <2>3. m \in 1 .. Len(content[old]) /\ m > c.at /\ ~(m <= c.at)
    BY <2>1, <2>2
  <2>4. content[old][m] \in 1 .. written
    <3>1. content[old][m] \in Nat /\ m <= content[old][m] /\ content[old][m] <= written
      BY <2>1, <2>3, FileIs
    <3> QED
      BY <2>3, <3>1, FileIs
  <2> QED
    BY <2>1, <2>3, <2>4 DEF Unread
<1>4. ASSUME NEW m \in Start(c) + 1 .. Len(content[live])
      PROVE  /\ m \in 1 .. Len(content[live])
             /\ content[live][m] \in 1 .. written /\ content[live][m] \notin S
  <2>1. m \in 1 .. Len(content[live]) /\ m > Start(c) /\ ~(m <= Start(c)) /\ Len(content[live]) \in Nat
    BY <1>2, FileIs
  <2>2. content[live][m] \in 1 .. written
    <3>1. content[live][m] \in Nat /\ m <= content[live][m] /\ content[live][m] <= written
      BY <2>1, FileIs
    <3> QED
      BY <2>1, <3>1, FileIs
  <2>3. content[live][m] \in S => c # NoCursor /\ Follows(c, live) /\ m <= c.at
    BY <1>1, <2>1 DEF Unread
  <2> QED
    BY <1>2, <2>1, <2>2, <2>3
<1>5. CASE /\ R.to = CursorAt(live, n) /\ n \in Start(c) .. Len(content[live])
           /\ \A k \in 1 .. Len(R.lines) :
                 \/ \E m \in Nat : Of(c, m) /\ R.lines[k] = content[old][m]
                 \/ \E m \in Start(c) + 1 .. n : R.lines[k] = content[live][m]
  <2> HIDE DEF R, n
  <2>1. Len(content[live]) \in Nat /\ n \in 0 .. Len(content[live])
        /\ Start(c) + 1 .. n \subseteq Start(c) + 1 .. Len(content[live])
    BY <1>2, <1>5, FileIs
  <2>2. \A l \in L : \/ \E m \in Nat : Of(c, m) /\ l = content[old][m]
                     \/ \E m \in Start(c) + 1 .. n : l = content[live][m]
    BY <1>5 DEF LinesOf
  <2> HIDE DEF L
  <2>3. L \subseteq 1 .. written /\ L \intersect S = {}
    BY <1>3, <1>4, <2>1, <2>2
  <2>4. /\ R.to \in CursorType /\ R.to # NoCursor
        /\ R.to.ino = live /\ R.to.at = n /\ Follows(R.to, live)
    BY <1>5, <2>1, CursorIs
  <2>5. ASSUME NEW k \in 1 .. Len(content[live]), content[live][k] \in S \union L
        PROVE  k <= n
    <3>1. CASE content[live][k] \in S
      <4>1. c \in CursorType /\ c # NoCursor /\ Follows(c, live) /\ k <= c.at
        BY <1>1, <3>1 DEF Unread
      <4> QED
        BY <1>2, <1>5, <2>1, <4>1
    <3>2. CASE \E m \in Start(c) + 1 .. n : content[live][k] = content[live][m]
      <4>1. PICK m \in Start(c) + 1 .. n : content[live][k] = content[live][m]
        BY <3>2
      <4>2. k = m
        BY <1>4, <2>1, <4>1, Distinct
      <4> QED
        BY <1>2, <2>1, <4>1, <4>2
    <3>3. CASE \E m \in Nat : Of(c, m) /\ content[live][k] = content[old][m]
      BY <1>1, <1>3, <3>3, Distinct
    <3> QED
      BY <2>2, <2>5, <3>1, <3>2, <3>3
  <2>6. Unread(R.to, S \union L)
    BY <2>4, <2>5 DEF Unread
  <2>7. c = NoCursor => L \subseteq LinesOf(content[live])
    <3> SUFFICES ASSUME c = NoCursor, NEW l \in L PROVE l \in LinesOf(content[live])
      OBVIOUS
    <3>1. PICK m \in Start(c) + 1 .. n : l = content[live][m]
      BY <2>2 DEF Of
    <3> QED
      BY <1>4, <2>1, <3>1 DEF LinesOf
  <2> QED
    BY <2>3, <2>4, <2>6, <2>7 DEF R, L
<1>6. CASE /\ c # NoCursor /\ c.ino # live /\ Follows(c, old) /\ old \in Inodes
           /\ R.to \in CursorType /\ R.to.ino = c.ino /\ R.to.head = c.head
           /\ n > c.at /\ n <= Len(content[old])
           /\ \A k \in 1 .. Len(R.lines) :
                 \E m \in c.at + 1 .. n : R.lines[k] = content[old][m]
  <2> HIDE DEF R
  <2>1. c \in CursorType /\ c.at \in Nat /\ Len(content[old]) \in Nat /\ c.ino = old
        /\ n \in Nat
    BY <1>6, FollowsAt DEF CursorType
  <2>2. \A m \in c.at + 1 .. n : m \in Nat /\ Of(c, m)
    BY <1>6, <2>1 DEF Of
  <2>3. \A l \in L : \E m \in c.at + 1 .. n : l = content[old][m]
    BY <1>6 DEF LinesOf
  <2> HIDE DEF L, n
  <2>4. L \subseteq 1 .. written /\ L \intersect S = {}
    BY <1>3, <2>2, <2>3
  <2>5. ASSUME NEW k \in 1 .. Len(content[live])
        PROVE  content[live][k] \notin S \union L
    <3>1. content[live][k] \notin S
      <4>1. content[live][k] \in S => Follows(c, live)
        BY <1>1 DEF Unread
      <4> QED
        BY <1>1, <2>1, <4>1, FollowsAt
    <3>2. content[live][k] \notin L
      <4> SUFFICES ASSUME content[live][k] \in L PROVE FALSE
        OBVIOUS
      <4>1. PICK m \in c.at + 1 .. n : content[live][k] = content[old][m]
        BY <2>3
      <4>2. m \in 1 .. Len(content[old])
        BY <1>3, <2>2
      <4> QED
        BY <1>1, <1>6, <4>1, <4>2, Distinct
    <3> QED
      BY <3>1, <3>2
  <2>6. ASSUME NEW k \in 1 .. Len(content[old]), content[old][k] \in S \union L
        PROVE  k <= n
    <3>1. CASE content[old][k] \in S
      <4>1. k <= c.at
        BY <1>6, <3>1 DEF Unread
      <4> QED
        BY <1>6, <2>1, <4>1 DEF n
    <3>2. CASE content[old][k] \in L
      <4>1. PICK m \in c.at + 1 .. n : content[old][k] = content[old][m]
        BY <2>3, <3>2
      <4>2. m \in 1 .. Len(content[old])
        BY <1>3, <2>2
      <4>3. k = m
        BY <1>6, <4>1, <4>2, Distinct
      <4> QED
        BY <2>1, <4>1, <4>3
    <3> QED
      BY <2>6, <3>1, <3>2
  <2>7. Unread(R.to, S \union L)
    BY <2>1, <2>5, <2>6, <1>6 DEF Unread, n
  <2> QED
    BY <1>6, <2>4, <2>7 DEF R, L
<1>7. \/ /\ R.to = CursorAt(live, n) /\ n \in Start(c) .. Len(content[live])
         /\ \A k \in 1 .. Len(R.lines) :
               \/ \E m \in Nat : Of(c, m) /\ R.lines[k] = content[old][m]
               \/ \E m \in Start(c) + 1 .. n : R.lines[k] = content[live][m]
      \/ /\ c # NoCursor /\ c.ino # live /\ Follows(c, old) /\ old \in Inodes
         /\ R.to \in CursorType /\ R.to.ino = c.ino /\ R.to.head = c.head
         /\ n > c.at /\ n <= Len(content[old])
         /\ \A k \in 1 .. Len(R.lines) :
               \E m \in c.at + 1 .. n : R.lines[k] = content[old][m]
  BY FileReplyIs
<1> QED
  BY <1>5, <1>6, <1>7

LEMMA JournalReadsUnread ==
    ASSUME FilesInv, live \in Inodes, NEW c \in CursorType \union {NoCursor}, NEW S,
           Unread(c, S)
    PROVE  LET R == JournalReply(c)
               L == LinesOf(R.lines)
           IN  /\ L \subseteq 1 .. written /\ L \intersect S = {}
               /\ \/ R.to = NoCursor /\ L = {}
                  \/ R.to \in CursorType /\ R.to.ino = live /\ Unread(R.to, S \union L)
<1> DEFINE R == JournalReply(c)
           L == LinesOf(R.lines)
           n == R.to.at
           start == IF c = NoCursor THEN OldLines ELSE c.at
<1>1. live # NoFile /\ live # old
  BY Constants DEF FilesInv
<1>2. start \in Nat /\ Len(content[live]) \in Nat
  BY Constants, FileIs DEF CursorType
<1>3. CASE R.lines = <<>> /\ R.to = NoCursor
  <2>1. L = {}
    BY <1>3, EmptySeq DEF LinesOf
  <2> HIDE DEF L, R
  <2> QED
    BY <1>3, <2>1 DEF L, R
<1>4. CASE /\ R.to = CursorAt(live, n) /\ n \in start + 1 .. Len(content[live])
           /\ \A k \in 1 .. Len(R.lines) :
                 \E m \in start + 1 .. n : R.lines[k] = content[live][m]
  <2>1. \A m \in start + 1 .. n : m > start /\ m \in 1 .. Len(content[live])
    BY <1>2, <1>4
  <2>2. \A k \in 1 .. Len(content[live]) : content[live][k] \in S =>
            c # NoCursor /\ k <= c.at
    BY <1>1 DEF Unread
  <2>3. ASSUME NEW m \in start + 1 .. n
        PROVE  content[live][m] \in 1 .. written /\ content[live][m] \notin S
    <3>1. content[live][m] \in Nat /\ m <= content[live][m] /\ content[live][m] <= written
          /\ written \in Nat /\ m \in 1 .. Len(content[live])
      BY <2>1, FileIs
    <3>2. content[live][m] \in S => c # NoCursor /\ m <= c.at
      BY <2>1, <2>2
    <3>3. c # NoCursor => start = c.at
      OBVIOUS
    <3> HIDE DEF start
    <3>4. ~(m <= start)
      BY <1>2, <2>1
    <3> QED
      BY <3>1, <3>2, <3>3, <3>4
  <2> HIDE DEF R, n
  <2>4. \A l \in L : \E m \in start + 1 .. n : l = content[live][m]
    BY <1>4 DEF LinesOf
  <2>5. n \in 0 .. Len(content[live]) /\ n > start
    BY <1>2, <1>4
  <2>6. /\ R.to \in CursorType /\ R.to # NoCursor
        /\ R.to.ino = live /\ R.to.at = n /\ Follows(R.to, live)
    BY <1>4, <2>5, CursorIs
  <2>7. ASSUME NEW k \in 1 .. Len(content[live]), content[live][k] \in S \union L
        PROVE  k <= n
    <3>1. CASE content[live][k] \in S
      <4>1. c # NoCursor /\ k <= c.at /\ c.at = start
        BY <2>2, <3>1
      <4> HIDE DEF start
      <4> QED
        BY <1>2, <2>5, <4>1
    <3>2. CASE content[live][k] \in L
      <4>1. PICK m \in start + 1 .. n : content[live][k] = content[live][m]
        BY <2>4, <3>2
      <4>2. k = m
        BY <2>1, <4>1, Distinct
      <4> QED
        BY <1>2, <2>5, <4>1, <4>2
    <3> QED
      BY <2>7, <3>1, <3>2
  <2>8. Unread(R.to, S \union L)
    BY <2>6, <2>7 DEF Unread
  <2>9. L \subseteq 1 .. written /\ L \intersect S = {}
    BY <2>3, <2>4
  <2> HIDE DEF L
  <2> QED
    BY <2>6, <2>8, <2>9 DEF R, L
<1>5. \/ R.lines = <<>> /\ R.to = NoCursor
      \/ /\ R.to = CursorAt(live, n) /\ n \in start + 1 .. Len(content[live])
         /\ \A k \in 1 .. Len(R.lines) :
               \E m \in start + 1 .. n : R.lines[k] = content[live][m]
  BY JournalReplyIs
<1> QED
  BY <1>3, <1>4, <1>5

\* A request moves a good cursor on to a good one, or finds nothing.
LEMMA FileReadsOn ==
    ASSUME FilesInv, live \in Inodes, NEW c \in CursorType \union {NoCursor}, Good(c)
    PROVE  LET R == FileReply(c) IN
           Good(R.to) /\ (Passed(c, R.to) \/ (R.to = c /\ LinesOf(R.lines) = {}))
<1> DEFINE R == FileReply(c)
           n == R.to.at
<1>1. live # NoFile /\ live # old
  BY Constants DEF FilesInv
<1>2. CASE /\ R.to = CursorAt(live, n) /\ n \in Start(c) .. Len(content[live])
           /\ \A k \in 1 .. Len(R.lines) :
                 \/ \E m \in Nat : Of(c, m) /\ R.lines[k] = content[old][m]
                 \/ \E m \in Start(c) + 1 .. n : R.lines[k] = content[live][m]
  <2> HIDE DEF R, n
  <2>1. Start(c) \in Nat /\ Len(content[live]) \in Nat
    BY FileIs DEF Start, CursorType
  <2>2. n \in 0 .. Len(content[live]) /\ n >= Start(c)
    BY <1>2, <2>1
  <2>3. /\ R.to # NoCursor
        /\ R.to.ino = live /\ R.to.at = n /\ Follows(R.to, live)
    BY <1>2, <2>2, CursorIs
  <2>4. Good(R.to)
    BY <1>1, <1>2, <2>3 DEF Good
  <2> SUFFICES Passed(c, R.to) \/ (R.to = c /\ LinesOf(R.lines) = {})
    BY <2>4 DEF R
  <2>5. CASE c = NoCursor
    BY <2>3, <2>5 DEF Passed
  <2>6. CASE c # NoCursor /\ c.ino # live
    BY <2>3, <2>6 DEF Passed, Good
  <2>7. CASE c # NoCursor /\ c.ino = live
    <3>1. Follows(c, live) /\ c = CursorAt(live, c.at) /\ Start(c) = c.at
      BY <2>7 DEF Good, Start
    <3>2. CASE n > c.at
      BY <2>3, <2>7, <3>2 DEF Passed
    <3>3. CASE ~(n > c.at)
      <4>1. n = c.at
        BY <2>1, <2>2, <3>1, <3>3
      <4>2. LinesOf(R.lines) = {}
        <5>1. \A m \in Nat : ~Of(c, m)
          BY <2>7 DEF Of
        <5>2. Start(c) + 1 .. n = {}
          BY <2>1, <3>1, <4>1
        <5> QED
          BY <1>2, <5>1, <5>2 DEF LinesOf
      <4>3. R.to = c
        BY <1>2, <3>1, <4>1
      <4> QED
        BY <4>2, <4>3
    <3> QED
      BY <3>2, <3>3
  <2> QED
    BY <2>5, <2>6, <2>7
<1>3. CASE /\ c # NoCursor /\ c.ino # live /\ Follows(c, old) /\ old \in Inodes
           /\ R.to \in CursorType /\ R.to.ino = c.ino /\ R.to.head = c.head
           /\ n > c.at /\ n <= Len(content[old])
  <2> HIDE DEF R
  <2>1. R.to # NoCursor /\ c.ino = old /\ old # NoFile
    BY <1>3, Constants DEF Follows
  <2>2. Follows(R.to, old)
    BY <1>3, <2>1 DEF Follows
  <2>3. Good(R.to)
    BY <1>1, <1>3, <2>1, <2>2 DEF Good
  <2>4. Passed(c, R.to)
    BY <1>3, <2>1 DEF Passed
  <2> QED
    BY <2>3, <2>4 DEF R
<1>4. \/ /\ R.to = CursorAt(live, n) /\ n \in Start(c) .. Len(content[live])
         /\ \A k \in 1 .. Len(R.lines) :
               \/ \E m \in Nat : Of(c, m) /\ R.lines[k] = content[old][m]
               \/ \E m \in Start(c) + 1 .. n : R.lines[k] = content[live][m]
      \/ /\ c # NoCursor /\ c.ino # live /\ Follows(c, old) /\ old \in Inodes
         /\ R.to \in CursorType /\ R.to.ino = c.ino /\ R.to.head = c.head
         /\ n > c.at /\ n <= Len(content[old])
  BY FileReplyIs
<1> QED
  BY <1>2, <1>3, <1>4

LEMMA JournalReadsOn ==
    ASSUME FilesInv, kind.journal, NEW c \in CursorType \union {NoCursor}, Good(c)
    PROVE  LET R == JournalReply(c) IN
           /\ Good(R.to)
           /\ \/ Passed(c, R.to)
              \/ R.to = NoCursor /\ LinesOf(R.lines) = {}
<1> DEFINE R == JournalReply(c)
           n == R.to.at
           start == IF c = NoCursor THEN OldLines ELSE c.at
<1>1. live \in Inodes /\ live # NoFile /\ old = NoFile
  BY Constants DEF FilesInv
<1>2. CASE R.lines = <<>> /\ R.to = NoCursor
  <2>1. LinesOf(R.lines) = {}
    BY <1>2, EmptySeq DEF LinesOf
  <2> QED
    BY <1>2, <2>1 DEF Good
<1>3. CASE R.to = CursorAt(live, n) /\ n \in start + 1 .. Len(content[live])
  <2>1. start \in Nat /\ Len(content[live]) \in Nat
    BY <1>1, Constants, FileIs DEF CursorType
  <2> HIDE DEF R, n
  <2>2. n \in 0 .. Len(content[live]) /\ n > start
    BY <1>3, <2>1
  <2>3. /\ R.to # NoCursor
        /\ R.to.ino = live /\ R.to.at = n /\ Follows(R.to, live)
    BY <1>1, <1>3, <2>2, CursorIs
  <2>4. Good(R.to)
    BY <1>1, <1>3, <2>3 DEF Good
  <2>5. c # NoCursor => c.ino = live /\ c.at < n
    BY <1>1, <2>1, <2>2 DEF Good
  <2> QED
    BY <2>3, <2>4, <2>5 DEF Passed, R
<1> QED
  BY <1>1, <1>2, <1>3, JournalReplyIs

-----------------------------------------------------------------------------
(* What the host does to what is known of a cursor.                        *)

LEMMA SameStart ==
    ASSUME NEW s \in Seq(Nat), NEW t \in Seq(Nat),
           1 <= Len(s), 1 <= Len(t), s[1] = t[1]
    PROVE  SubSeq(s, 1, 1) = SubSeq(t, 1, 1)
<1>1. Len(s) \in Nat /\ Len(t) \in Nat
  BY LenProperties
<1>2. s[1] \in Nat /\ t[1] \in Nat
  BY <1>1, ElementOfSeq
<1>3. /\ SubSeq(s, 1, 1) \in Seq(Nat) /\ Len(SubSeq(s, 1, 1)) = 1
      /\ SubSeq(s, 1, 1)[1] = s[1]
  <2>1. \A k \in 1 .. 1 : s[k] \in Nat
    BY <1>2
  <2>2. /\ SubSeq(s, 1, 1) \in Seq(Nat)
        /\ Len(SubSeq(s, 1, 1)) = IF 1 <= 1 THEN 1 - 1 + 1 ELSE 0
        /\ \A k \in 1 .. 1 - 1 + 1 : SubSeq(s, 1, 1)[k] = s[1 + k - 1]
    BY <2>1, SubSeqProperties
  <2> QED
    BY <2>2
<1>4. /\ SubSeq(t, 1, 1) \in Seq(Nat) /\ Len(SubSeq(t, 1, 1)) = 1
      /\ SubSeq(t, 1, 1)[1] = t[1]
  <2>1. \A k \in 1 .. 1 : t[k] \in Nat
    BY <1>2
  <2>2. /\ SubSeq(t, 1, 1) \in Seq(Nat)
        /\ Len(SubSeq(t, 1, 1)) = IF 1 <= 1 THEN 1 - 1 + 1 ELSE 0
        /\ \A k \in 1 .. 1 - 1 + 1 : SubSeq(t, 1, 1)[k] = t[1 + k - 1]
    BY <2>1, SubSeqProperties
  <2> QED
    BY <2>2
<1> QED
  BY <1>3, <1>4, SeqEqual

LEMMA PrefixGrows ==
    ASSUME NEW h \in Digests, NEW s \in Seq(Nat), NEW t \in Seq(Nat),
           Len(s) <= Len(t), \A k \in 1 .. Len(s) : t[k] = s[k]
    PROVE  /\ IsPrefix(h, s) => IsPrefix(h, t)
           /\ IsPrefix(h, t) /\ ~IsPrefix(h, s) => Len(s) = 0
           /\ IsPrefix(h, t) /\ Len(h) <= Len(s) => IsPrefix(h, s)
<1>1. h \in Seq(Nat) /\ Len(h) \in {0, 1} /\ Len(s) \in Nat /\ Len(t) \in Nat
  <2>1. h \in Seq(Nat) /\ Len(h) <= 1
    BY DEF Digests
  <2>2. Len(h) \in Nat /\ Len(s) \in Nat /\ Len(t) \in Nat
    BY <2>1, LenProperties
  <2>3. Len(h) = 0 \/ Len(h) = 1
    BY <2>1, <2>2
  <2> QED
    BY <2>1, <2>2, <2>3
<1>2. CASE Len(h) <= Len(s)
  <2>1. SubSeq(s, 1, Len(h)) = SubSeq(t, 1, Len(h))
    <3>1. CASE Len(h) = 0
      <4>1. SubSeq(s, 1, 0) = <<>> /\ SubSeq(t, 1, 0) = <<>>
        BY SubSeqEmpty
      <4> QED
        BY <3>1, <4>1
    <3>2. CASE Len(h) = 1
      <4>1. 1 <= Len(s) /\ 1 <= Len(t) /\ t[1] = s[1]
        BY <1>1, <1>2, <3>2
      <4>2. SubSeq(s, 1, 1) = SubSeq(t, 1, 1)
        BY <4>1, SameStart
      <4> QED
        BY <3>2, <4>2
    <3> QED
      BY <1>1, <3>1, <3>2
  <2> QED
    BY <1>1, <1>2, <2>1 DEF IsPrefix
<1>3. CASE ~(Len(h) <= Len(s))
  <2>1. Len(s) = 0
    BY <1>1, <1>3
  <2> QED
    BY <1>1, <1>3, <2>1 DEF IsPrefix
<1> QED
  BY <1>2, <1>3

\* A cursor follows a file that was written on as it did before, or it is not
\* past anything that was there.
LEMMA WriteFollows ==
    ASSUME FilesInv, Write, NEW c \in CursorType, NEW i \in Inodes \union {NoFile}
    PROVE  /\ Follows(c, i) => Follows(c, i)'
           /\ Follows(c, i)' => i \in Inodes
           /\ Follows(c, i)' /\ ~Follows(c, i) =>
                 \A k \in 1 .. Len(content[i]) : k <= c.at
<1>1. CASE i = NoFile
  BY <1>1 DEF Follows
<1>2. CASE i \in Inodes
  <2>1. /\ content[i] \in Seq(Nat) /\ Len(content[i]) \in Nat
        /\ content'[i] \in Seq(Nat) /\ Len(content'[i]) \in Nat
        /\ Len(content[i]) <= Len(content'[i])
        /\ \A k \in 1 .. Len(content[i]) : content'[i][k] = content[i][k]
    <3>1. content'[i] \in Seq(Nat) /\ Len(content'[i]) \in Nat
      BY <1>2, WriteAppends, LenProperties
    <3>2. content[i] \in Seq(Nat) /\ Len(content[i]) \in Nat
      BY <1>2, FileIs
    <3>3. \A k \in 1 .. Len(content[i]) : content'[i][k] = content[i][k]
      BY <1>2, WriteAppends
    <3>4. Len(content[i]) <= Len(content'[i])
      <4>1. CASE i = fd
        BY <4>1, <3>2, WriteAppends
      <4>2. CASE i # fd
        BY <1>2, <4>2, <3>2, WriteAppends
      <4> QED
        BY <4>1, <4>2
    <3> QED
      BY <3>1, <3>2, <3>3, <3>4
  <2>2. /\ IsPrefix(c.head, content[i]) => IsPrefix(c.head, content'[i])
        /\ IsPrefix(c.head, content'[i]) /\ ~IsPrefix(c.head, content[i]) =>
              Len(content[i]) = 0
    <3>1. c.head \in Digests
      BY DEF CursorType
    <3> QED
      BY <2>1, <3>1, PrefixGrows
  <2>3. c.at \in Nat
    BY DEF CursorType
  <2> QED
    BY <1>2, <2>1, <2>2, <2>3 DEF Follows
<1> QED
  BY <1>1, <1>2

LEMMA WriteKeepsUnread ==
    ASSUME FilesInv, Write, NEW c \in CursorType \union {NoCursor},
           NEW S \in SUBSET (1 .. written), Unread(c, S)
    PROVE  Unread(c, S)'
<1>1. /\ live' = live /\ old' = old /\ live \in Inodes \union {NoFile}
      /\ old \in Inodes \union {NoFile}
  BY WriteAppends DEF FilesInv
<1>2. ASSUME NEW i \in Inodes, NEW k \in 1 .. Len(content'[i]), content'[i][k] \in S
      PROVE  k \in 1 .. Len(content[i]) /\ content[i][k] \in S
  <2>1. written \in Nat /\ Len(content[i]) \in Nat
    BY FileIs
  <2>2. content'[i][k] # written + 1
    BY <1>2, <2>1
  <2>3. k \in 1 .. Len(content[i])
    BY <1>2, <2>1, <2>2, WriteAppends
  <2> QED
    BY <1>2, <2>3, WriteAppends
<1>3. ASSUME live # NoFile, NEW k \in 1 .. Len(content'[live]), content'[live][k] \in S
      PROVE  c # NoCursor /\ Follows(c, live)' /\ k <= c.at
  <2>1. c # NoCursor /\ Follows(c, live) /\ k <= c.at
    BY <1>1, <1>2, <1>3 DEF Unread
  <2>2. Follows(c, live)'
    BY <1>1, <2>1, WriteFollows
  <2> QED
    BY <2>1, <2>2
<1>4. ASSUME c # NoCursor, c.ino # live, Follows(c, old)',
             NEW k \in 1 .. Len(content'[old]), content'[old][k] \in S
      PROVE  k <= c.at
  <2>1. old \in Inodes /\ k \in 1 .. Len(content[old]) /\ content[old][k] \in S
    <3>1. old \in Inodes
      BY <1>1, <1>4, WriteFollows
    <3> QED
      BY <1>2, <1>4, <3>1
  <2>2. CASE Follows(c, old)
    BY <1>4, <2>1, <2>2 DEF Unread
  <2>3. CASE ~Follows(c, old)
    BY <1>1, <1>4, <2>1, <2>3, WriteFollows
  <2> QED
    BY <2>2, <2>3
<1> QED
  BY <1>1, <1>3, <1>4 DEF Unread

LEMMA RotateKeepsUnread ==
    ASSUME FilesInv, Rename \/ Create \/ Reopen \/ CopyTruncate,
           NEW c \in CursorType \union {NoCursor}, NEW S, Unread(c, S)
    PROVE  Unread(c, S)'
<1>1. /\ content \in [Inodes -> Seq(Nat)] /\ <<>> \in Seq(Nat) /\ Len(<<>>) = 0
      /\ c # NoCursor => c.ino \in Inodes
      /\ NoFile \notin Inodes /\ live # old
  BY EmptySeq, Constants DEF CursorType, FilesInv
<1>2. CASE Rename
  <2>1. /\ live # NoFile /\ old' = live /\ live' = NoFile /\ content' = content
    BY <1>2 DEF Rename, MayRotate
  <2>2. ASSUME c # NoCursor, NEW k \in 1 .. Len(content[live]), content[live][k] \in S
        PROVE  k <= c.at
    BY <2>1, <2>2 DEF Unread
  <2> QED
    BY <2>1, <2>2 DEF Unread
<1>3. CASE Create
  <2>1. PICK i \in Inodes \ {old, fd} :
            live' = i /\ content' = [content EXCEPT ![i] = <<>>]
    BY <1>3 DEF Create
  <2>2. live = NoFile /\ old' = old /\ old # i
    BY <1>3, <2>1 DEF Create
  <2>3. content'[i] = <<>>
    BY <2>1, <1>1
  <2>4. ASSUME c # NoCursor, Follows(c, old)', NEW k \in 1 .. Len(content'[old]),
               content'[old][k] \in S
        PROVE  k <= c.at
    <3>1. old \in Inodes
      BY <1>1, <2>2, <2>4 DEF Follows
    <3>2. content'[old] = content[old]
      BY <2>1, <2>2, <3>1, <1>1
    <3>3. Follows(c, old) /\ c.ino # live
      BY <1>1, <2>2, <2>4, <3>2 DEF Follows
    <3> QED
      BY <2>4, <3>2, <3>3 DEF Unread
  <2> QED
    BY <1>1, <2>1, <2>2, <2>3, <2>4 DEF Unread
<1>4. CASE Reopen
  BY <1>4 DEF Reopen, Unread, Follows
<1>5. CASE CopyTruncate
  <2>1. PICK i \in Inodes \ {live} :
            old' = i /\ content' = [content EXCEPT ![i] = content[live], ![live] = <<>>]
    BY <1>5 DEF CopyTruncate
  <2>2. live' = live /\ live \in Inodes
    BY <1>5 DEF CopyTruncate, MayRotate, FilesInv
  <2>3. content'[live] = <<>> /\ content'[i] = content[live]
    BY <2>1, <2>2, <1>1
  <2>4. ASSUME c # NoCursor, c.ino # live, NEW k \in 1 .. Len(content[live])
        PROVE  content[live][k] \notin S
    BY <1>1, <2>2, <2>4 DEF Unread, Follows
  <2> QED
    BY <1>1, <2>1, <2>2, <2>3, <2>4 DEF Unread
<1> QED
  BY <1>2, <1>3, <1>4, <1>5

LEMMA HostKeepsUnread ==
    ASSUME FilesInv, HostStep, NEW c \in CursorType \union {NoCursor},
           NEW S \in SUBSET (1 .. written), Unread(c, S)
    PROVE  Unread(c, S)'
  BY WriteKeepsUnread, RotateKeepsUnread DEF HostStep

LEMMA HostFiles ==
    ASSUME FilesInv, HostStep
    PROVE  FilesInv'
  BY WriteFiles, RotateFiles DEF HostStep

\* Who rotates the log of a steady host has seen the cursor on it.
LEMMA RotationWaits ==
    ASSUME FilesInv, MayRotate, "outpaced" \notin kind.faults
    PROVE  cursor # NoCursor /\ cursor.ino # old
<1>1. Cursors \subseteq CursorType
  <2>1. ASSUME NEW h \in BoundedSeq(Lines, 1)
        PROVE  h \in Digests
    <3>1. PICK m \in 0 .. 1 : h \in [1 .. m -> Lines]
      BY <2>1 DEF BoundedSeq, SeqOf
    <3>2. m \in Nat /\ (m = 0 \/ m = 1) /\ h \in [1 .. m -> Nat]
      <4>1. m \in Nat /\ (m = 0 \/ m = 1)
        OBVIOUS
      <4>2. \A k \in 1 .. m : h[k] \in Nat
        BY <3>1, Constants
      <4>3. h \in [1 .. m -> Nat]
        BY <3>1, <4>2
      <4> QED
        BY <4>1, <4>3
    <3>3. h \in Seq(Nat)
      BY <3>2, SeqDef, Zenon
    <3>4. Len(h) \in Nat /\ DOMAIN h = 1 .. Len(h) /\ DOMAIN h = 1 .. m
      BY <3>2, <3>3, LenProperties
    <3>5. Len(h) <= 1
      BY <3>2, <3>4
    <3> QED
      BY <3>3, <3>5 DEF Digests
  <2>2. 0 .. MaxLines \subseteq Nat
    BY Constants
  <2> QED
    BY <2>1, <2>2 DEF Cursors, CursorType
<1>2. cursor \in Cursors /\ cursor.ino # old
  BY DEF MayRotate
<1> QED
  BY <1>1, <1>2, Constants

LEMMA HeadStays ==
    ASSUME FilesInv, Write, live \in Inodes, NEW at \in 0 .. Len(content[live])
    PROVE  CursorAt(live, at)' = CursorAt(live, at)
<1>1. content[live] \in Seq(Nat) /\ Len(content[live]) \in Nat
  BY FileIs
<1>2. live' = live /\ content' \in [Inodes -> Seq(Nat)]
  BY WriteAppends
<1>3. CASE at = 0
  BY <1>2, <1>3 DEF CursorAt, HeadAt
<1>4. CASE at > 0
  <2>1. content'[live] \in Seq(Nat) /\ Len(content'[live]) >= Len(content[live])
    <3>1. CASE live = fd
      BY <1>1, <1>2, <3>1, WriteAppends
    <3>2. CASE live # fd
      BY <1>1, <1>2, <3>2, WriteAppends
    <3> QED
      BY <3>1, <3>2
  <2>2. content'[live][1] = content[live][1]
    BY <1>1, <1>4, WriteAppends
  <2>3. Len(content'[live]) \in Nat
    BY <2>1, LenProperties
  <2>4. 1 <= Len(content[live]) /\ 1 <= Len(content'[live])
    BY <1>1, <1>4, <2>1, <2>3
  <2>5. SubSeq(content'[live], 1, 1) = SubSeq(content[live], 1, 1)
    BY <1>1, <2>1, <2>2, <2>4, SameStart
  <2> QED
    BY <1>2, <1>4, <2>5 DEF CursorAt, HeadAt
<1> QED
  BY <1>1, <1>3, <1>4

\* What is known of a cursor of a steady host outlives what the host does.
LEMMA HostKeepsGood ==
    ASSUME FilesInv, Write \/ Rename \/ Create \/ Reopen,
           NEW c \in CursorType \union {NoCursor}, Good(c),
           Rename /\ c # NoCursor => c.ino = live
    PROVE  Good(c)'
<1> SUFFICES ASSUME c # NoCursor
             PROVE  Good(c)'
  BY DEF Good
<1>1. /\ c \in CursorType /\ c.ino \in Inodes /\ c.ino \in {live, old}
      /\ Follows(c, c.ino) /\ live # old /\ NoFile \notin Inodes
      /\ c.ino = live => c = CursorAt(live, c.at)
      /\ content \in [Inodes -> Seq(Nat)]
  BY Constants DEF Good, CursorType, FilesInv
<1>2. CASE Write
  <2>1. live' = live /\ old' = old
    BY <1>2, WriteAppends
  <2>2. Follows(c, c.ino)'
    BY <1>1, <1>2, WriteFollows
  <2>3. c.ino = live => c = CursorAt(live, c.at)'
    <3>1. c.ino = live => live \in Inodes /\ c.at \in 0 .. Len(content[live])
      BY <1>1, FollowsAt
    <3> QED
      BY <1>1, <1>2, <3>1, HeadStays
  <2> QED
    BY <1>1, <2>1, <2>2, <2>3 DEF Good
<1>3. CASE Rename
  BY <1>1, <1>3 DEF Rename, Good, Follows
<1>4. CASE Create
  <2>1. PICK i \in Inodes \ {old, fd} :
            live' = i /\ content' = [content EXCEPT ![i] = <<>>]
    BY <1>4 DEF Create
  <2>2. c.ino = old /\ old' = old /\ c.ino # live'
    BY <1>1, <1>4, <2>1 DEF Create
  <2>3. content'[c.ino] = content[c.ino]
    BY <1>1, <2>1, <2>2
  <2> QED
    BY <1>1, <2>2, <2>3 DEF Good, Follows
<1>5. CASE Reopen
  BY <1>1, <1>5 DEF Reopen, Good, Follows, CursorAt, HeadAt
<1> QED
  BY <1>2, <1>3, <1>4, <1>5

LEMMA HostKeepsPassed ==
    ASSUME FilesInv, Write \/ Rename \/ Create \/ Reopen, NEW c, NEW d \in CursorType,
           Passed(c, d), Rename /\ c # NoCursor => c.ino # old
    PROVE  Passed(c, d)'
<1>1. d.ino # NoFile
  BY Constants DEF CursorType
<1> QED
  BY <1>1 DEF Passed, Write, Rename, Create, Reopen

-----------------------------------------------------------------------------
(* The host keeps the invariant.                                           *)

LEMMA HostUnchanged ==
    ASSUME FilesInv, TypesInv, HostStep
    PROVE  /\ cursor' = cursor /\ pc' = pc /\ job' = job /\ kind' = kind
           /\ counted' = counted /\ crashed' = crashed
           /\ Gone' = Gone
           /\ written \in Nat /\ written' \in Nat /\ written <= written'
           /\ \A r \in Readers :
                 /\ Rows(r)' = Rows(r) /\ Reading(r)' = Reading(r) /\ Current(r)' = Current(r)
<1>1. /\ cursor' = cursor /\ pc' = pc /\ job' = job
      /\ counted' = counted /\ crashed' = crashed
  BY DEF HostStep
<1>2. kind' = kind
  BY DEF HostStep, Write, Rename, Create, Reopen, CopyTruncate
<1>3. written \in Nat /\ (written' = written \/ written' = written + 1)
  BY Constants DEF FilesInv, HostStep, Write, Rename, Create, Reopen, CopyTruncate
<1>4. \A r \in Readers : Rows(r)' = Rows(r)
  BY <1>1 DEF Rows
<1>5. Gone' = Gone
  BY <1>1 DEF Gone, Held, Rows, Counted
<1>6. \A r \in Readers : Reading(r)' = Reading(r) /\ Current(r)' = Current(r)
  BY <1>1 DEF Reading, Current
<1> QED
  BY <1>1, <1>2, <1>3, <1>4, <1>5, <1>6

LEMMA HostTypes ==
    ASSUME FilesInv, TypesInv, HostStep
    PROVE  TypesInv'
  BY HostUnchanged DEF TypesInv

LEMMA HostTurns ==
    ASSUME FilesInv, TypesInv, TurnsInv, HostStep
    PROVE  TurnsInv'
  BY HostUnchanged DEF TurnsInv

LEMMA HostGone ==
    ASSUME FilesInv, TypesInv, GoneInv, HostStep
    PROVE  GoneInv'
<1>1. PICK c, S : c = cursor /\ S = Gone
  OBVIOUS
<1>2. c' = cursor' /\ S = Gone'
  BY <1>1, HostUnchanged
<1>3. Unread(c, S)'
  <2>1. c \in CursorType \union {NoCursor} /\ S \in SUBSET (1 .. written) /\ Unread(c, S)
    BY <1>1 DEF TypesInv, GoneInv
  <2> QED
    BY <2>1, HostKeepsUnread
<1>4. Unread(cursor, Gone)'
  BY <1>2, <1>3
<1>5. /\ Gone' = Gone /\ kind' = kind
      /\ written \in Nat /\ written' \in Nat /\ written <= written'
  BY HostUnchanged
<1>6. Gone \subseteq 1 .. written
  BY DEF GoneInv
<1>7. Gone' \subseteq 1 .. written'
  BY <1>5, <1>6
<1>8. /\ cursor' = cursor /\ pc' = pc /\ job' = job
      /\ \A r \in Readers : Rows(r)' = Rows(r)
  BY HostUnchanged
<1>9. cursor' = NoCursor => Gone' = {}
  BY <1>5, <1>8 DEF GoneInv
<1>10. \A r \in Readers : pc'[r] = "store" => job'[r].found \in [Lines -> {0, 1}]
  BY <1>8 DEF GoneInv
<1>11. \A q, r \in Readers :
           pc'[q] = "store" /\ pc'[r] = "store" /\ q # r => Rows(q)' \intersect Rows(r)' = {}
  BY <1>8 DEF GoneInv
<1> QED
  BY <1>4, <1>7, <1>9, <1>10, <1>11 DEF GoneInv

LEMMA HostFoundBy ==
    ASSUME FilesInv, TypesInv, GoneInv, HostStep, "mid" \notin kind.faults,
           NEW r \in Readers, FoundBy(r)
    PROVE  FoundBy(r)'
<1> DEFINE j == job[r]
           held == {content[live][k] : k \in 1 .. Len(content[live])}
<1>1. Rows(r)' \subseteq 1 .. written' /\ Rows(r)' \intersect Gone' = {}
  BY HostUnchanged DEF FoundBy
<1>2. j.to # NoCursor => Unread(j.to, Gone \union Rows(r))'
  <2> SUFFICES ASSUME j.to # NoCursor
               PROVE  Unread(j.to, Gone \union Rows(r))'
    OBVIOUS
  <2>1. PICK c, S : c = j.to /\ S = Gone \union Rows(r)
    OBVIOUS
  <2>2. c' = j.to' /\ S = Gone' \union Rows(r)'
    BY <2>1, HostUnchanged
  <2>3. Unread(c, S)'
    <3>1. c \in CursorType
      BY <2>1 DEF TypesInv, JobType
    <3>2. S \in SUBSET (1 .. written) /\ Unread(c, S)
      BY <2>1 DEF GoneInv, FoundBy
    <3> QED
      BY <3>1, <3>2, HostKeepsUnread
  <2> QED
    BY <2>2, <2>3
<1>3. pc[r] = "copies" =>
          /\ cursor' = NoCursor /\ ~kind'.journal
          /\ live' # NoFile /\ j'.to # NoCursor /\ j'.to.ino = live'
          /\ Rows(r)' \subseteq held'
  <2> SUFFICES ASSUME pc[r] = "copies"
               PROVE  /\ cursor' = NoCursor /\ ~kind'.journal
                      /\ live' # NoFile /\ j'.to # NoCursor /\ j'.to.ino = live'
                      /\ Rows(r)' \subseteq held'
    OBVIOUS
  <2>1. /\ cursor = NoCursor /\ ~kind.journal
        /\ live # NoFile /\ j.to # NoCursor /\ j.to.ino = live
        /\ Rows(r) \subseteq held
    BY DEF FoundBy
  <2>2. Write \/ Reopen
    <3>1. ~MayRotate
      BY DEF MayRotate
    <3> QED
      BY <2>1, <3>1 DEF HostStep, Rename, Create, CopyTruncate
  <2>3. live' = live /\ held \subseteq held'
    <3>1. CASE Write
      <4>1. live' = live /\ live \in Inodes
        BY <2>1, <3>1, WriteAppends DEF FilesInv
      <4>2. ASSUME NEW k \in 1 .. Len(content[live])
            PROVE  content[live][k] \in held'
        <5>1. content'[live][k] = content[live][k]
          BY <3>1, <4>1, WriteAppends
        <5>2. k \in 1 .. Len(content'[live])
          <6>1. Len(content[live]) \in Nat
            BY <4>1, FileIs
          <6> QED
            BY <3>1, <4>1, <6>1, WriteAppends
        <5> QED
          BY <4>1, <5>1, <5>2
      <4> QED
        BY <4>1, <4>2
    <3>2. CASE Reopen
      BY <3>2 DEF Reopen
    <3> QED
      BY <2>2, <3>1, <3>2
  <2> QED
    BY <2>1, <2>3, HostUnchanged
<1> QED
  BY <1>1, <1>2, <1>3, HostUnchanged DEF FoundBy

LEMMA HostFound ==
    ASSUME FilesInv, TypesInv, GoneInv, FoundInv, HostStep, Orderly
    PROVE  FoundInv'
<1>1. "mid" \notin kind.faults
  BY DEF Orderly, FilesInv
<1>2. ASSUME NEW r \in Readers, Current(r)'
      PROVE  FoundBy(r)'
  <2>1. FoundBy(r)
    BY <1>2, HostUnchanged DEF FoundInv
  <2> QED
    BY <1>1, <2>1, HostFoundBy
<1> QED
  BY <1>2 DEF FoundInv

\* A rotation finds the cursor on the log, and no pass but those that read on
\* from it, or that are at a journal.
LEMMA SteadyRotates ==
    ASSUME FilesInv, TypesInv, SteadyInv, Steady(kind), MayRotate
    PROVE  /\ ~kind.journal /\ cursor # NoCursor /\ cursor.ino = live
           /\ "copytruncate" \notin kind.rotations
           /\ \A r \in Readers : Reading(r) => Current(r)
           /\ \A r \in Readers : Current(r) /\ job[r].to # NoCursor => job[r].to.ino = live
<1>1. /\ ~kind.journal /\ "copytruncate" \notin kind.rotations
      /\ "slow" \notin kind.faults /\ "outpaced" \notin kind.faults
  BY DEF MayRotate, Steady
<1>2. cursor # NoCursor /\ cursor.ino = live
  BY <1>1, RotationWaits DEF SteadyInv, Good
<1>3. ASSUME NEW r \in Readers, Reading(r)
      PROVE  Current(r)
  <2>1. pc[r] # "newest" /\ ~Overtaken(r)
    BY <1>1 DEF MayRotate, TypesInv
  <2> QED
    BY <1>3, <2>1 DEF Reading, Current, Overtaken
<1>4. ASSUME NEW r \in Readers, Current(r), job[r].to # NoCursor
      PROVE  job[r].to.ino = live
  BY <1>2, <1>4 DEF SteadyInv, OnBy, Passed, FilesInv
<1> QED
  BY <1>1, <1>2, <1>3, <1>4

LEMMA HostSteady ==
    ASSUME FilesInv, TypesInv, SteadyInv, HostStep
    PROVE  SteadyInv'
<1> SUFFICES ASSUME Steady(kind)
             PROVE  Good(cursor)' /\ \A r \in Readers : OnBy(r)'
  BY HostUnchanged DEF SteadyInv, Steady
<1>1. Write \/ Rename \/ Create \/ Reopen
  BY SteadyRotates DEF HostStep, CopyTruncate
<1>2. Rename => /\ cursor # NoCursor /\ cursor.ino = live /\ live # old
                /\ \A r \in Readers : Reading(r) => Current(r)
                /\ \A r \in Readers : Current(r) /\ job[r].to # NoCursor => job[r].to.ino = live
  BY SteadyRotates DEF Rename, FilesInv
<1>3. Good(cursor)'
  <2>1. PICK c : c = cursor
    OBVIOUS
  <2>2. c \in CursorType \union {NoCursor} /\ Good(c)
    BY <2>1 DEF TypesInv, SteadyInv
  <2>3. Good(c)'
    BY <1>1, <1>2, <2>1, <2>2, HostKeepsGood
  <2>4. c' = cursor'
    BY <2>1, HostUnchanged
  <2> QED
    BY <2>3, <2>4
<1>4. ASSUME NEW r \in Readers
      PROVE  OnBy(r)'
  <2>1. OnBy(r) /\ job[r].from \in CursorType \union {NoCursor}
               /\ job[r].to \in CursorType \union {NoCursor}
               /\ cursor \in CursorType \union {NoCursor}
    BY DEF SteadyInv, TypesInv, JobType
  <2>2. PICK c, d, f : c = cursor /\ d = job[r].to /\ f = job[r].from
    OBVIOUS
  <2>3. c' = cursor' /\ d' = job[r].to' /\ f' = job[r].from'
    BY <2>2, HostUnchanged
  <2>4. ASSUME Current(r)
        PROVE  /\ Good(job[r].to)'
               /\ Passed(cursor, job[r].to)' \/ (job[r].to' \in {cursor', NoCursor} /\ Rows(r)' = {})
    <3>1. Good(d)'
      <4>1. Good(d)
        BY <2>1, <2>2, <2>4 DEF OnBy
      <4>2. Rename /\ d # NoCursor => d.ino = live
        BY <1>2, <2>2, <2>4
      <4> QED
        BY <1>1, <2>1, <2>2, <4>1, <4>2, HostKeepsGood
    <3>2. Good(job[r].to)'
      BY <2>3, <3>1
    <3>3. CASE Passed(c, d)
      <4>1. d \in CursorType
        BY <2>1, <2>2, <3>3 DEF Passed
      <4>2. Rename /\ c # NoCursor => c.ino # old
        BY <1>2, <2>2
      <4>3. Passed(c, d)'
        BY <1>1, <3>3, <4>1, <4>2, HostKeepsPassed
      <4>4. Passed(cursor, job[r].to)'
        BY <2>3, <4>3
      <4> QED
        BY <3>2, <4>4
    <3>4. CASE job[r].to \in {cursor, NoCursor} /\ Rows(r) = {}
      BY <3>2, <3>4, HostUnchanged
    <3> QED
      BY <2>1, <2>2, <2>4, <3>3, <3>4 DEF OnBy
  <2>5. ASSUME Reading(r), ~Current(r)
        PROVE  Passed(job[r].from, cursor)'
    <3>1. Passed(f, c)
      BY <2>1, <2>2, <2>5 DEF OnBy
    <3>2. c \in CursorType /\ ~Rename
      BY <1>2, <2>1, <2>2, <2>5, <3>1 DEF Passed
    <3>3. Passed(f, c)'
      BY <1>1, <3>1, <3>2, HostKeepsPassed
    <3> QED
      BY <2>3, <3>3
  <2> QED
    BY <2>4, <2>5, HostUnchanged DEF OnBy
<1> QED
  BY <1>3, <1>4

LEMMA HostKeeps ==
    ASSUME Invariant, Orderly, HostStep
    PROVE  Invariant'
  BY HostFiles, HostTypes, HostTurns, HostGone, HostFound, HostSteady DEF Invariant

-----------------------------------------------------------------------------
(* A pass before it claims anything.                                       *)

\* A step of reader r.
StepOf(r) ==
    /\ host' = host
    /\ pc' \in [Readers -> Labels] /\ job' \in [Readers -> JobType]
    /\ \A q \in Readers \ {r} : pc'[q] = pc[q] /\ job'[q] = job[q]

LEMMA StepIs ==
    ASSUME TypesInv, NEW r \in Readers, NEW x \in Labels, NEW y \in JobType,
           host' = host, pc' = [pc EXCEPT ![r] = x], job' = [job EXCEPT ![r] = y]
    PROVE  StepOf(r) /\ pc'[r] = x /\ job'[r] = y
<1>1. pc \in [Readers -> Labels] /\ job \in [Readers -> JobType]
  BY DEF TypesInv
<1>2. pc' \in [Readers -> Labels] /\ pc'[r] = x /\ \A q \in Readers \ {r} : pc'[q] = pc[q]
  BY <1>1
<1>3. job' \in [Readers -> JobType] /\ job'[r] = y /\ \A q \in Readers \ {r} : job'[q] = job[q]
  BY <1>1
<1> QED
  BY <1>2, <1>3 DEF StepOf

LEMMA NoJobIs ==
    /\ NoJob \in JobType /\ NoJob.found \in [Lines -> {0, 1}]
    /\ \A l \in Lines : NoJob.found[l] = 0
    /\ \A c \in CursorType \union {NoCursor} :
          /\ [NoJob EXCEPT !.from = c, !.to = c] \in JobType
          /\ [NoJob EXCEPT !.from = c, !.to = c].from = c
          /\ [NoJob EXCEPT !.from = c, !.to = c].to = c
          /\ [NoJob EXCEPT !.from = c, !.to = c].found = NoJob.found
  BY DEF NoJob, JobType

LEMMA IdleIs ==
    ASSUME TypesInv, NEW r \in Readers, host' = host, Idle(r)
    PROVE  StepOf(r) /\ pc'[r] = "idle" /\ job'[r] = NoJob
  BY StepIs, NoJobIs DEF Idle, Labels

\* What stays as it was for the other readers.
LEMMA OthersStay ==
    ASSUME NEW r \in Readers, StepOf(r), NEW q \in Readers, q # r
    PROVE  /\ pc'[q] = pc[q] /\ job'[q] = job[q]
           /\ Rows(q)' = Rows(q) /\ Reading(q)' = Reading(q)
           /\ cursor' = cursor =>
                 /\ Current(q)' = Current(q)
                 /\ Gone' = Gone /\ FoundBy(q) => FoundBy(q)'
                 /\ OnBy(q) => OnBy(q)'
<1>1. /\ pc'[q] = pc[q] /\ job'[q] = job[q]
      /\ kind' = kind /\ content' = content /\ live' = live /\ old' = old /\ written' = written
  BY DEF StepOf, host
<1>2. Rows(q)' = Rows(q) /\ Reading(q)' = Reading(q)
  BY <1>1 DEF Rows, Reading
<1>3. ASSUME cursor' = cursor
      PROVE  Current(q)' = Current(q)
  BY <1>1, <1>2, <1>3 DEF Current
<1>4. \A c, S : Unread(c, S)' = Unread(c, S)
  BY <1>1 DEF Unread, Follows
<1>5. ASSUME cursor' = cursor, Gone' = Gone, FoundBy(q)
      PROVE  FoundBy(q)'
  <2>1. job[q].to # NoCursor => Unread(job[q].to, Gone \union Rows(q))'
    <3>1. job[q].to # NoCursor => Unread(job[q].to, Gone \union Rows(q))
      BY <1>5 DEF FoundBy
    <3> QED
      BY <1>1, <1>2, <1>5, <3>1 DEF Unread, Follows
  <2> QED
    BY <1>1, <1>2, <1>5, <2>1 DEF FoundBy
<1>6. ASSUME cursor' = cursor, OnBy(q)
      PROVE  OnBy(q)'
  <2>1. Good(job[q].to) => Good(job[q].to)'
    BY <1>1 DEF Good, Follows, CursorAt, HeadAt
  <2>2. Passed(cursor, job[q].to) => Passed(cursor, job[q].to)'
    BY <1>1, <1>6 DEF Passed
  <2>3. Passed(job[q].from, cursor) => Passed(job[q].from, cursor)'
    BY <1>1, <1>6 DEF Passed
  <2> QED
    BY <1>1, <1>2, <1>3, <1>6, <2>1, <2>2, <2>3 DEF OnBy
<1> QED
  BY <1>1, <1>2, <1>3, <1>5, <1>6

LEMMA HeldIs ==
    /\ \A l : l \in Held <=> \E q \in Readers : pc[q] = "store" /\ l \in Rows(q)
    /\ \A l : l \in Held' <=> \E q \in Readers : pc'[q] = "store" /\ l \in Rows(q)'
  BY DEF Held

LEMMA GoneSame ==
    ASSUME NEW r \in Readers, StepOf(r), UNCHANGED <<counted, crashed>>,
           pc[r] # "store", pc'[r] # "store"
    PROVE  Held' = Held /\ Gone' = Gone
<1>1. \A l : l \in Held' <=> l \in Held
  BY HeldIs, OthersStay
<1> QED
  BY <1>1 DEF Gone, Counted

\* A step that claims nothing keeps what is known of the others.
LEMMA StepKeeps ==
    ASSUME Invariant, NEW r \in Readers, StepOf(r), UNCHANGED <<cursor, counted>>,
           Gone' = Gone, pc'[r] # "store", pc'[r] = "newest" => kind.journal,
           kind.alone /\ pc'[r] # "idle" => \A q \in Readers \ {r} : pc[q] = "idle",
           kind.alone /\ Reading(r)' => Current(r)',
           Current(r)' => FoundBy(r)',
           Steady(kind) => OnBy(r)'
    PROVE  Invariant'
<1>1. /\ kind' = kind /\ content' = content /\ live' = live /\ old' = old /\ fd' = fd
      /\ written' = written
  BY DEF StepOf, host
<1>2. FilesInv'
  BY <1>1 DEF Invariant, FilesInv
<1>3. TypesInv'
  BY <1>1, OthersStay DEF Invariant, TypesInv, StepOf
<1>4. TurnsInv'
  <2> SUFFICES ASSUME kind.alone
               PROVE  /\ \A q, s \in Readers : pc'[q] # "idle" /\ pc'[s] # "idle" => q = s
                      /\ \A q \in Readers : Reading(q)' => Current(q)'
    BY <1>1 DEF TurnsInv
  <2>1. \A q \in Readers : q # r /\ pc'[r] # "idle" => pc'[q] = "idle"
    BY OthersStay
  <2>2. \A q, s \in Readers : q # r /\ s # r /\ pc'[q] # "idle" /\ pc'[s] # "idle" => q = s
    BY OthersStay DEF Invariant, TurnsInv
  <2>3. \A q \in Readers : Reading(q)' => Current(q)'
    BY OthersStay DEF Invariant, TurnsInv
  <2> QED
    BY <2>1, <2>2, <2>3
<1>5. GoneInv'
  <2>1. Unread(cursor, Gone)'
    BY <1>1 DEF Invariant, GoneInv, Unread, Follows
  <2>2. \A q \in Readers : pc'[q] = "store" => q # r /\ pc[q] = "store" /\ job'[q] = job[q]
    BY OthersStay
  <2>3. \A q \in Readers : pc'[q] = "store" => job'[q].found \in [Lines -> {0, 1}]
    BY <2>2 DEF Invariant, GoneInv
  <2>4. \A q, s \in Readers : pc'[q] = "store" /\ pc'[s] = "store" /\ q # s =>
            Rows(q)' \intersect Rows(s)' = {}
    BY <2>2, OthersStay DEF Invariant, GoneInv
  <2> QED
    BY <1>1, <2>1, <2>3, <2>4 DEF Invariant, GoneInv
<1>6. FoundInv'
  <2>1. ASSUME NEW q \in Readers, Current(q)'
        PROVE  FoundBy(q)'
    <3>1. CASE q = r
      BY <2>1, <3>1
    <3>2. CASE q # r
      BY <2>1, <3>2, OthersStay DEF Invariant, FoundInv
    <3> QED
      BY <3>1, <3>2
  <2> QED
    BY <2>1 DEF FoundInv
<1>7. SteadyInv'
  <2> SUFFICES ASSUME Steady(kind)
               PROVE  Good(cursor)' /\ \A q \in Readers : OnBy(q)'
    BY <1>1 DEF SteadyInv, Steady
  <2>1. Good(cursor)'
    BY <1>1 DEF Invariant, SteadyInv, Good, Follows, CursorAt, HeadAt
  <2>2. ASSUME NEW q \in Readers
        PROVE  OnBy(q)'
    <3>1. CASE q = r
      BY <3>1
    <3>2. CASE q # r
      BY <3>2, OthersStay DEF Invariant, SteadyInv
    <3> QED
      BY <3>1, <3>2
  <2> QED
    BY <2>1, <2>2
<1> QED
  BY <1>2, <1>3, <1>4, <1>5, <1>6, <1>7 DEF Invariant

LEMMA StepBeforeClaim ==
    ASSUME Invariant, NEW r \in Readers, StepOf(r), UNCHANGED <<cursor, counted, crashed>>,
           pc[r] # "store", pc'[r] # "store", pc'[r] = "newest" => kind.journal,
           kind.alone /\ pc'[r] # "idle" => \A q \in Readers \ {r} : pc[q] = "idle",
           kind.alone /\ Reading(r)' => Current(r)',
           Current(r)' => FoundBy(r)',
           Steady(kind) => OnBy(r)'
    PROVE  Invariant' /\ Held' = Held
<1>1. Gone' = Gone /\ Held' = Held
  BY GoneSame
<1> QED
  BY <1>1, StepKeeps

\* What was known of a cursor is known of it in the pass that has it now.
LEMMA Carried ==
    ASSUME host' = host, NEW r \in Readers, NEW c, job'[r].to = c
    PROVE  /\ \A S : Unread(c, S) /\ (Gone \union Rows(r))' = S =>
                         Unread(job[r].to, Gone \union Rows(r))'
           /\ Good(c) => Good(job[r].to)'
           /\ \A b : Passed(b, c) /\ cursor' = b => Passed(cursor, job[r].to)'
<1>1. /\ kind' = kind /\ content' = content /\ live' = live /\ old' = old /\ written' = written
  BY DEF host
<1>2. \A S : Unread(c, S) /\ (Gone \union Rows(r))' = S =>
                 Unread(job[r].to, Gone \union Rows(r))'
  BY <1>1 DEF Unread, Follows
<1>3. Good(c) => Good(job[r].to)'
  BY <1>1 DEF Good, Follows, CursorAt, HeadAt
<1>4. \A b : Passed(b, c) /\ cursor' = b => Passed(cursor, job[r].to)'
  BY <1>1 DEF Passed
<1> QED
  BY <1>2, <1>3, <1>4

\* The stored cursor and what a pass found itself: as good as before.
LEMMA PlanKeeps ==
    ASSUME Invariant, NEW r \in Readers, Plan(r)
    PROVE  Invariant' /\ Held' = Held
<1> DEFINE j == [NoJob EXCEPT !.from = cursor, !.to = cursor]
<1>1. /\ pc[r] = "idle" /\ UNCHANGED <<cursor, counted, crashed>> /\ host' = host
      /\ kind.alone => \A q \in Readers : pc[q] = "idle"
      /\ pc' = [pc EXCEPT ![r] = "read"] /\ job' = [job EXCEPT ![r] = j]
  BY DEF Plan
<1>2. /\ j \in JobType /\ j.from = cursor /\ j.to = cursor
      /\ j.found \in [Lines -> {0, 1}] /\ \A l \in Lines : j.found[l] = 0
  BY NoJobIs DEF Invariant, TypesInv
<1>3. StepOf(r) /\ pc'[r] = "read" /\ job'[r] = j
  <2> HIDE DEF j
  <2> QED
    BY <1>1, <1>2, StepIs DEF Labels, Invariant
<1> HIDE DEF j
<1>4. Rows(r)' = {} /\ Gone' = Gone /\ Held' = Held
  <2>1. Rows(r)' = {}
    BY <1>2, <1>3 DEF Rows
  <2> QED
    BY <1>1, <1>3, <2>1, GoneSame
<1>5. FoundBy(r)'
  <2>1. cursor # NoCursor => Unread(job[r].to, Gone \union Rows(r))'
    <3>1. Unread(cursor, Gone) /\ (Gone \union Rows(r))' = Gone
      BY <1>4 DEF Invariant, GoneInv
    <3> QED
      BY <1>1, <1>2, <1>3, <3>1, Carried
  <2> QED
    BY <1>1, <1>2, <1>3, <1>4, <2>1 DEF FoundBy
<1>6. Reading(r)' /\ Current(r)'
  BY <1>1, <1>2, <1>3 DEF Reading, Current
<1>7. Steady(kind) => OnBy(r)'
  <2>1. Steady(kind) => Good(job[r].to)'
    BY <1>1, <1>2, <1>3, Carried DEF Invariant, SteadyInv
  <2> QED
    BY <1>1, <1>2, <1>3, <1>4, <1>6, <2>1 DEF OnBy
<1> QED
  BY <1>1, <1>3, <1>4, <1>5, <1>6, <1>7, StepBeforeClaim

\* A pass that ends takes nothing with it.
LEMMA IdleKeeps ==
    ASSUME Invariant, NEW r \in Readers, host' = host, UNCHANGED <<cursor, counted, crashed>>,
           pc[r] # "store", Idle(r)
    PROVE  Invariant' /\ Held' = Held
<1>1. StepOf(r) /\ pc'[r] = "idle"
  BY IdleIs DEF Invariant
<1>2. ~Reading(r)' /\ ~Current(r)'
  BY <1>1 DEF Reading, Current
<1> QED
  BY <1>1, <1>2, StepBeforeClaim DEF OnBy

LEMMA UnavailableKeeps ==
    ASSUME Invariant, NEW r \in Readers, Unavailable(r)
    PROVE  Invariant' /\ Held' = Held
<1>1. /\ pc[r] = "read" /\ host' = host /\ UNCHANGED <<cursor, counted, crashed>>
  BY DEF Unavailable
<1>2. CASE Idle(r)
  BY <1>1, <1>2, IdleKeeps
<1>3. CASE pc' = [pc EXCEPT ![r] = "claim"] /\ UNCHANGED job
  <2>1. pc'[r] = "claim" /\ StepOf(r) /\ job'[r] = job[r]
    BY <1>1, <1>3 DEF StepOf, Labels, Invariant, TypesInv
  <2>2. Gone' = Gone /\ Held' = Held /\ Rows(r)' = Rows(r)
    BY <1>1, <2>1, GoneSame DEF Rows
  <2>3. Reading(r) /\ Reading(r)' /\ (Current(r) <=> Current(r)')
    BY <1>1, <2>1 DEF Reading, Current
  <2>4. Current(r)' => FoundBy(r)'
    <3> SUFFICES ASSUME Current(r)
                 PROVE  FoundBy(r)'
      BY <2>3
    <3>1. FoundBy(r)
      BY DEF Invariant, FoundInv
    <3>2. job[r].to # NoCursor => Unread(job[r].to, Gone \union Rows(r))'
      BY <1>1, <2>1, <2>2, <3>1, Carried DEF FoundBy
    <3>3. written' = written /\ kind' = kind
      BY <1>1 DEF host
    <3> QED
      BY <1>1, <2>1, <2>2, <3>1, <3>2, <3>3 DEF FoundBy
  <2>5. Steady(kind) => OnBy(r)'
    <3> SUFFICES ASSUME Steady(kind)
                 PROVE  OnBy(r)'
      OBVIOUS
    <3>1. OnBy(r)
      BY DEF Invariant, SteadyInv
    <3>2. Good(job[r].to) => Good(job[r].to)'
      BY <1>1, <2>1, Carried
    <3>3. Passed(cursor, job[r].to) => Passed(cursor, job[r].to)'
      BY <1>1, <2>1, Carried
    <3>4. Passed(job[r].from, cursor) => Passed(job[r].from, cursor)'
      BY <1>1, <2>1 DEF Passed, host
    <3> QED
      BY <1>1, <2>1, <2>2, <2>3, <3>1, <3>2, <3>3, <3>4 DEF OnBy
  <2>6. kind.alone => /\ \A q \in Readers \ {r} : pc[q] = "idle"
                      /\ Reading(r)' => Current(r)'
    BY <1>1, <2>3 DEF Invariant, TurnsInv
  <2> QED
    BY <1>1, <2>1, <2>2, <2>4, <2>5, <2>6, StepBeforeClaim
<1> QED
  BY <1>2, <1>3 DEF Unavailable

\* Lines a pass did not have are found once, and added to what it has.
LEMMA FindsMore ==
    ASSUME FilesInv, NEW r \in Readers, job[r].found \in [Lines -> {0, 1}],
           NEW s \in Seq(Nat), LinesOf(s) \subseteq 1 .. written,
           LinesOf(s) \intersect Rows(r) = {},
           \A k, m \in 1 .. Len(s) : s[k] = s[m] => k = m,
           job'[r].found = Finds(job[r].found, s)
    PROVE  /\ job'[r].found \in [Lines -> {0, 1}]
           /\ Rows(r)' = Rows(r) \union LinesOf(s)
<1> DEFINE L == LinesOf(s)
<1>1. \A k \in 1 .. Len(s) : s[k] \in L
  BY DEF LinesOf
<1>2. ASSUME NEW l \in L
      PROVE  l \in Lines /\ job[r].found[l] = 0 /\ \E k \in 1 .. Len(s) : s[k] = l
  <2>1. l \in Lines
    BY Constants DEF Lines, FilesInv
  <2>2. ~(job[r].found[l] > 0) /\ job[r].found[l] \in {0, 1}
    BY <2>1 DEF Rows
  <2>3. job[r].found[l] = 0
    BY <2>2
  <2> QED
    BY <2>1, <2>3 DEF LinesOf
<1> HIDE DEF L
<1>3. PICK f : f = job[r].found
  OBVIOUS
<1>4. /\ Finds(f, s) \in [Lines -> {0, 1}]
      /\ {l \in Lines : Finds(f, s)[l] > 0} = {l \in Lines : f[l] > 0} \union L
  BY <1>1, <1>2, <1>3, FindsOnce
<1> QED
  BY <1>3, <1>4 DEF Rows, L

\* What an answer adds to a pass nobody has overtaken.
LEMMA AnswerIs ==
    ASSUME Invariant, live \in Inodes, NEW r \in Readers, Current(r), pc[r] = "read"
    PROVE  LET R == Reply(job[r].to)
               L == LinesOf(R.lines)
           IN  /\ L \subseteq 1 .. written /\ L \intersect (Gone \union Rows(r)) = {}
               /\ \A k, m \in 1 .. Len(R.lines) : R.lines[k] = R.lines[m] => k = m
               /\ R.to # NoCursor => Unread(R.to, Gone \union Rows(r) \union L)
               /\ R.to = NoCursor => kind.journal /\ Rows(r) = {} /\ L = {}
               /\ kind.journal /\ R.lines = <<>> => R.to = NoCursor
               /\ ~kind.journal /\ job[r].to = NoCursor =>
                     /\ cursor = NoCursor /\ Rows(r) = {}
                     /\ R.to # NoCursor /\ R.to.ino = live /\ L \subseteq LinesOf(content[live])
<1> DEFINE c == job[r].to
           R == Reply(c)
           L == LinesOf(R.lines)
           S == Gone \union Rows(r)
<1>1. /\ FilesInv /\ c \in CursorType \union {NoCursor} /\ FoundBy(r)
      /\ job[r].from = cursor /\ NoCursor \notin CursorType
  BY Constants DEF Invariant, TypesInv, JobType, FoundInv, Current
<1>2. Unread(c, S)
  <2>1. CASE c = NoCursor
    <3>1. Gone = {} /\ Rows(r) = {}
      BY <1>1, <2>1 DEF FoundBy, Invariant, GoneInv
    <3> QED
      BY <3>1 DEF Unread
  <2>2. CASE c # NoCursor
    BY <1>1, <2>2 DEF FoundBy
  <2> QED
    BY <2>1, <2>2
<1> HIDE DEF c, S
<1>3. CASE kind.journal
  <2>1. /\ L \subseteq 1 .. written /\ L \intersect S = {}
        /\ \/ R.to = NoCursor /\ L = {}
           \/ R.to \in CursorType /\ R.to.ino = live /\ Unread(R.to, S \union L)
    BY <1>1, <1>2, <1>3, JournalReadsUnread DEF Reply
  <2>2. \A k, m \in 1 .. Len(R.lines) : R.lines[k] = R.lines[m] => k = m
    BY <1>1, <1>3, JournalReplyIs DEF Reply
  <2>3. R.lines = <<>> => R.to = NoCursor
    BY <1>3 DEF Reply, JournalReply
  <2>4. Rows(r) = {}
    BY <1>1, <1>3 DEF FoundBy
  <2> HIDE DEF R, L
  <2>5. R.to # NoCursor => Unread(R.to, S \union L)
    BY <2>1
  <2>6. R.to = NoCursor => L = {}
    BY <1>1, <2>1
  <2>7. /\ L \subseteq 1 .. written /\ L \intersect S = {}
        /\ \A k, m \in 1 .. Len(R.lines) : R.lines[k] = R.lines[m] => k = m
    BY <2>1, <2>2
  <2> QED
    BY <1>3, <2>3, <2>4, <2>5, <2>6, <2>7 DEF R, L, c, S
<1>4. CASE ~kind.journal
  <2>1. /\ L \subseteq 1 .. written /\ L \intersect S = {}
        /\ R.to \in CursorType /\ Unread(R.to, S \union L)
        /\ c = NoCursor => L \subseteq LinesOf(content[live]) /\ R.to.ino = live
    BY <1>1, <1>2, <1>4, FileReadsUnread DEF Reply
  <2>2. \A k, m \in 1 .. Len(R.lines) : R.lines[k] = R.lines[m] => k = m
    BY <1>1, <1>4, FileReplyIs DEF Reply
  <2>3. c = NoCursor => cursor = NoCursor /\ Rows(r) = {}
    BY <1>1 DEF FoundBy, c
  <2> HIDE DEF R, L
  <2>4. R.to # NoCursor
    BY <1>1, <2>1
  <2> QED
    BY <1>4, <2>1, <2>2, <2>3, <2>4 DEF R, L, c, S
<1> QED
  BY <1>3, <1>4

LEMMA PassedOn ==
    ASSUME FilesInv, NEW c \in CursorType \union {NoCursor}, NEW d \in CursorType,
           NEW e \in CursorType, Passed(c, d), Passed(d, e)
    PROVE  Passed(c, e)
<1>1. e # NoCursor /\ d # NoCursor /\ d.at \in Nat /\ e.at \in Nat
  BY Constants DEF CursorType
<1>2. ASSUME c # NoCursor
      PROVE  c.at \in Nat
  BY <1>2 DEF CursorType
<1>3. old # live
  BY DEF FilesInv
<1> QED
  BY <1>1, <1>2, <1>3 DEF Passed

LEMMA AnswerOn ==
    ASSUME Invariant, live \in Inodes, NEW r \in Readers, Current(r), pc[r] = "read",
           Steady(kind)
    PROVE  LET R == Reply(job[r].to)
               L == LinesOf(R.lines)
           IN  /\ Good(R.to)
               /\ \/ Passed(cursor, R.to)
                  \/ R.to \in {cursor, NoCursor} /\ Rows(r) = {} /\ L = {}
<1> DEFINE R == Reply(job[r].to)
           L == LinesOf(R.lines)
<1>1. PICK c : c = job[r].to
  OBVIOUS
<1>2. /\ FilesInv /\ c \in CursorType \union {NoCursor} /\ FoundBy(r) /\ OnBy(r)
      /\ cursor \in CursorType \union {NoCursor}
      /\ job[r].from = cursor /\ NoCursor \notin CursorType
  BY <1>1, Constants DEF Invariant, TypesInv, JobType, FoundInv, SteadyInv, Current
<1>3. Good(c)
  BY <1>1, <1>2 DEF OnBy
<1>4. CASE kind.journal
  <2>1. Good(R.to) /\ (Passed(c, R.to) \/ (R.to = NoCursor /\ L = {}))
    BY <1>1, <1>2, <1>3, <1>4, JournalReadsOn DEF Reply
  <2>2. c = cursor /\ Rows(r) = {}
    BY <1>1, <1>2, <1>4 DEF FoundBy
  <2> HIDE DEF R, L
  <2>3. \/ Passed(cursor, R.to)
        \/ R.to \in {cursor, NoCursor} /\ Rows(r) = {} /\ L = {}
    BY <2>1, <2>2
  <2> QED
    BY <2>1, <2>3 DEF R, L
<1>5. CASE ~kind.journal
  <2>1. Good(R.to) /\ (Passed(c, R.to) \/ (R.to = c /\ L = {}))
    BY <1>1, <1>2, <1>3, <1>5, FileReadsOn DEF Reply
  <2>2. R.to \in CursorType \union {NoCursor}
    BY <1>1, <1>2, ReplyTypes
  <2>3. Passed(cursor, c) \/ (c = cursor /\ Rows(r) = {})
    BY <1>1, <1>2 DEF OnBy, FoundBy
  <2> HIDE DEF R, L
  <2>4. CASE Passed(c, R.to)
    <3>1. CASE Passed(cursor, c)
      <4>1. c \in CursorType /\ R.to \in CursorType
        BY <1>2, <2>2, <2>4, <3>1 DEF Passed
      <4>2. Passed(cursor, R.to)
        BY <1>2, <2>4, <3>1, <4>1, PassedOn
      <4> QED
        BY <2>1, <4>2 DEF R, L
    <3>2. CASE c = cursor /\ Rows(r) = {}
      BY <2>1, <2>4, <3>2 DEF R, L
    <3> QED
      BY <2>3, <3>1, <3>2
  <2>5. CASE R.to = c /\ L = {}
    <3>1. Passed(cursor, R.to) \/ (R.to \in {cursor, NoCursor} /\ Rows(r) = {} /\ L = {})
      BY <2>3, <2>5
    <3> QED
      BY <2>1, <3>1 DEF R, L
  <2> QED
    BY <2>1, <2>4, <2>5
<1> QED
  BY <1>4, <1>5

LEMMA ReadIs ==
    ASSUME Invariant, Orderly, NEW r \in Readers, Read(r)
    PROVE  LET R == Reply(job[r].to) IN
           /\ live \in Inodes /\ pc[r] = "read" /\ StepOf(r)
           /\ R.lines \in Seq(Nat) /\ R.to \in CursorType \union {NoCursor}
           /\ UNCHANGED <<cursor, counted, crashed>> /\ host' = host
           /\ job'[r].from = job[r].from /\ job'[r].to = R.to
           /\ job'[r].found = Finds(job[r].found, R.lines)
           /\ pc'[r] \in {"copies", "newest", "read", "claim"}
           /\ pc'[r] = "copies" => job[r].to = NoCursor /\ ~kind.journal
           /\ pc'[r] = "newest" => job[r].to = NoCursor /\ kind.journal /\ R.lines = <<>>
           /\ pc'[r] = "read" => ~kind.journal
<1> DEFINE R == Reply(job[r].to)
           j == [job[r] EXCEPT !.to = R.to, !.more = R.more,
                               !.found = Finds(job[r].found, R.lines),
                               !.asked = job[r].asked + 1]
           first == job[r].to = NoCursor
           x == IF first /\ ~kind.journal THEN "copies"
                ELSE IF first /\ R.lines = <<>> THEN "newest" ELSE Onward(j)
<1>1. /\ pc[r] = "read" /\ live # NoFile /\ host' = host
      /\ UNCHANGED <<cursor, counted, crashed>>
      /\ pc' = [pc EXCEPT ![r] = x] /\ job' = [job EXCEPT ![r] = j]
  BY DEF Read
<1>2. /\ live \in Inodes /\ FilesInv /\ TypesInv /\ job[r] \in JobType
      /\ job[r].to \in CursorType \union {NoCursor} /\ kind \in Kinds
      /\ job[r].found \in [Lines -> Nat] /\ job[r].asked \in Nat
  BY <1>1 DEF Invariant, FilesInv, TypesInv, JobType
<1>3. /\ R.lines \in Seq(Nat) /\ R.more \in BOOLEAN
      /\ R.to \in CursorType \union {NoCursor}
  BY <1>2, ReplyTypes
<1>4. Finds(job[r].found, R.lines) \in [Lines -> Nat]
  BY <1>2, <1>3, FindsCounts
<1>5. kind.journal => ~(R.more /\ job[r].asked + 1 < kind.requests)
  <2> SUFFICES ASSUME kind.journal, R.more
               PROVE  ~(job[r].asked + 1 < kind.requests)
    OBVIOUS
  <2>1. ~(MaxLines < JournalBudget)
    <3>1. R = JournalReply(job[r].to)
      BY DEF Reply
    <3>2. MaxLines < JournalBudget => ~JournalReply(job[r].to).more
      BY <1>2, JournalReplyIs
    <3> QED
      BY <3>1, <3>2
  <2>2. kind.requests = 1
    BY <1>2, <2>1 DEF Orderly
  <2> QED
    BY <1>2, <2>2
<1> HIDE DEF R
<1>6. /\ j \in JobType /\ j.from = job[r].from /\ j.to = R.to /\ j.more = R.more
      /\ j.found = Finds(job[r].found, R.lines) /\ j.asked = job[r].asked + 1
  <2> HIDE DEF x, first
  <2>1. PICK f, n : f = Finds(job[r].found, R.lines) /\ n = job[r].asked + 1
    OBVIOUS
  <2>2. f \in [Lines -> Nat] /\ n \in Nat
    BY <1>2, <1>4, <2>1
  <2>3. j = [job[r] EXCEPT !.to = R.to, !.more = R.more, !.found = f, !.asked = n]
    BY <2>1
  <2> HIDE DEF j
  <2>4. j \in JobType
    BY <1>2, <1>3, <2>2, <2>3 DEF JobType
  <2>5. j.from = job[r].from /\ j.to = R.to /\ j.more = R.more /\ j.found = f /\ j.asked = n
    BY <1>2, <2>3 DEF JobType
  <2> QED
    BY <2>1, <2>4, <2>5
<1> HIDE DEF j
<1>7. /\ x \in {"copies", "newest", "read", "claim"} /\ x \in Labels
      /\ x = "copies" => first /\ ~kind.journal
      /\ x = "newest" => first /\ kind.journal /\ R.lines = <<>>
      /\ x = "read" => ~kind.journal
  <2>1. Onward(j) \in {"read", "claim"}
    BY DEF Onward
  <2>2. kind.journal => Onward(j) # "read"
    BY <1>5, <1>6 DEF Onward
  <2> QED
    BY <2>1, <2>2 DEF Labels
<1> HIDE DEF x
<1> HIDE DEF first
<1>8. StepOf(r) /\ pc'[r] = x /\ job'[r] = j
  <2>1. TypesInv /\ x \in Labels /\ j \in JobType
    BY <1>2, <1>6, <1>7
  <2>2. host' = host /\ pc' = [pc EXCEPT ![r] = x] /\ job' = [job EXCEPT ![r] = j]
    BY <1>1
  <2> QED
    BY <2>1, <2>2, StepIs
<1> USE DEF first
<1> QED
  BY <1>1, <1>2, <1>3, <1>6, <1>7, <1>8 DEF R

LEMMA ReadKeeps ==
    ASSUME Invariant, Orderly, NEW r \in Readers, Read(r)
    PROVE  Invariant' /\ Held' = Held
<1> DEFINE R == Reply(job[r].to)
           L == LinesOf(R.lines)
<1>1. /\ live \in Inodes /\ pc[r] = "read" /\ StepOf(r)
      /\ R.lines \in Seq(Nat) /\ R.to \in CursorType \union {NoCursor}
      /\ UNCHANGED <<cursor, counted, crashed>> /\ host' = host
      /\ job'[r].from = job[r].from /\ job'[r].to = R.to
      /\ job'[r].found = Finds(job[r].found, R.lines)
      /\ pc'[r] \in {"copies", "newest", "read", "claim"}
      /\ pc'[r] = "copies" => job[r].to = NoCursor /\ ~kind.journal
      /\ pc'[r] = "newest" => job[r].to = NoCursor /\ kind.journal /\ R.lines = <<>>
      /\ pc'[r] = "read" => ~kind.journal
  BY ReadIs
<1> USE <1>1
<1>2. /\ kind' = kind /\ content' = content /\ live' = live /\ old' = old /\ written' = written
  BY DEF host
<1>3. Reading(r) /\ Reading(r)' /\ (Current(r)' <=> Current(r))
  BY DEF Reading, Current
<1>4. Gone' = Gone /\ Held' = Held
  BY GoneSame
<1>5. ASSUME Current(r)
      PROVE  Rows(r)' = Rows(r) \union L /\ job'[r].found \in [Lines -> {0, 1}]
  <2>1. FilesInv /\ job[r].found \in [Lines -> {0, 1}]
    BY <1>5 DEF Invariant, FoundInv, FoundBy
  <2>2. /\ L \subseteq 1 .. written /\ L \intersect (Gone \union Rows(r)) = {}
        /\ \A k, m \in 1 .. Len(R.lines) : R.lines[k] = R.lines[m] => k = m
    BY <1>5, AnswerIs
  <2> QED
    BY <2>1, <2>2, FindsMore
<1>6. ASSUME Current(r)
      PROVE  FoundBy(r)'
  <2>1. /\ L \subseteq 1 .. written /\ L \intersect (Gone \union Rows(r)) = {}
        /\ R.to # NoCursor => Unread(R.to, Gone \union Rows(r) \union L)
        /\ R.to = NoCursor => kind.journal /\ Rows(r) = {} /\ L = {}
        /\ kind.journal /\ R.lines = <<>> => R.to = NoCursor
        /\ ~kind.journal /\ job[r].to = NoCursor =>
              /\ cursor = NoCursor /\ Rows(r) = {}
              /\ R.to # NoCursor /\ R.to.ino = live /\ L \subseteq LinesOf(content[live])
    BY <1>6, AnswerIs
  <2>2. FoundBy(r) /\ job[r].from = cursor
    BY <1>6 DEF Invariant, FoundInv, Current
  <2> HIDE DEF R, L
  <2>3. Rows(r)' \subseteq 1 .. written' /\ Rows(r)' \intersect Gone' = {}
    BY <1>2, <1>4, <1>5, <1>6, <2>1, <2>2 DEF FoundBy
  <2>4. job'[r].to # NoCursor => Unread(job[r].to, Gone \union Rows(r))'
    <3> SUFFICES ASSUME R.to # NoCursor
                 PROVE  Unread(job[r].to, Gone \union Rows(r))'
      OBVIOUS
    <3>1. PICK S : S = Gone \union Rows(r) \union L
      OBVIOUS
    <3>2. (Gone \union Rows(r))' = S
      BY <1>4, <1>5, <1>6, <3>1
    <3>3. Unread(R.to, S)
      BY <2>1, <3>1
    <3> QED
      BY <3>2, <3>3, Carried
  <2>5. job'[r].to = NoCursor => Rows(r)' = {}
    BY <1>5, <1>6, <2>1
  <2>6. pc'[r] = "read" => ~kind'.journal /\ job'[r].to # NoCursor
    BY <1>2, <2>1
  <2>7. pc'[r] = "copies" =>
            /\ cursor' = NoCursor /\ ~kind'.journal
            /\ live' # NoFile /\ job'[r].to # NoCursor /\ job'[r].to.ino = live'
            /\ Rows(r)' \subseteq {content'[live'][k] : k \in 1 .. Len(content'[live'])}
    <3> SUFFICES ASSUME pc'[r] = "copies"
                 PROVE  /\ cursor' = NoCursor /\ ~kind'.journal
                        /\ live' # NoFile /\ job'[r].to # NoCursor /\ job'[r].to.ino = live'
                        /\ Rows(r)' \subseteq {content'[live'][k] : k \in 1 .. Len(content'[live'])}
      OBVIOUS
    <3>1. live # NoFile
      BY Constants
    <3>2. Rows(r)' = L /\ L \subseteq LinesOf(content[live])
      BY <1>5, <1>6, <2>1
    <3> QED
      BY <1>2, <2>1, <3>1, <3>2 DEF LinesOf
  <2>8. pc'[r] = "newest" =>
            kind'.journal /\ cursor' = NoCursor /\ job'[r].to = NoCursor
    BY <1>2, <2>1, <2>2 DEF FoundBy
  <2> QED
    BY <1>5, <1>6, <2>3, <2>4, <2>5, <2>6, <2>7, <2>8 DEF FoundBy
<1>7. ASSUME Steady(kind)
      PROVE  OnBy(r)'
  <2>1. CASE Current(r)
    <3>1. /\ Good(R.to)
          /\ \/ Passed(cursor, R.to)
             \/ R.to \in {cursor, NoCursor} /\ Rows(r) = {} /\ L = {}
      BY <1>7, <2>1, AnswerOn
    <3> HIDE DEF R, L
    <3>2. Good(job[r].to)'
      BY <3>1, Carried
    <3>3. Passed(cursor, R.to) => Passed(cursor, job[r].to)'
      BY Carried
    <3>4. Rows(r) = {} /\ L = {} => Rows(r)' = {}
      BY <1>5, <2>1
    <3> QED
      BY <1>3, <2>1, <3>1, <3>2, <3>3, <3>4 DEF OnBy
  <2>2. CASE ~Current(r)
    <3>1. Passed(job[r].from, cursor)
      BY <1>3, <1>7, <2>2 DEF Invariant, SteadyInv, OnBy
    <3>2. Passed(job[r].from, cursor)'
      BY <1>2, <3>1 DEF Passed
    <3> QED
      BY <1>3, <2>2, <3>2 DEF OnBy
  <2> QED
    BY <2>1, <2>2
<1>8. kind.alone => /\ \A q \in Readers \ {r} : pc[q] = "idle"
                    /\ Reading(r)' => Current(r)'
  BY <1>3 DEF Invariant, TurnsInv
<1> QED
  BY <1>3, <1>4, <1>6, <1>7, <1>8, StepBeforeClaim

LEMMA ReadCopiesIs ==
    ASSUME Invariant, NEW r \in Readers, ReadCopies(r)
    PROVE  \E kept \in Seq(Nat) :
              /\ kept = <<>> \/ (old \in Inodes /\ kept = content[old])
              /\ pc[r] = "copies" /\ StepOf(r)
              /\ UNCHANGED <<cursor, counted, crashed>> /\ host' = host
              /\ job'[r].from = job[r].from /\ job'[r].to = job[r].to
              /\ job'[r].found = Finds(job[r].found, kept)
              /\ pc'[r] \in {"read", "claim"}
<1>1. PICK kept \in {<<>>, IF old = NoFile THEN <<>> ELSE content[old]} :
          job' = [job EXCEPT ![r].found = Finds(job[r].found, kept)]
  BY DEF ReadCopies
<1>2. /\ pc[r] = "copies" /\ pc' = [pc EXCEPT ![r] = Onward(job[r])]
      /\ UNCHANGED <<cursor, counted, crashed>> /\ host' = host
  BY DEF ReadCopies
<1>3. /\ FilesInv /\ TypesInv /\ job[r] \in JobType /\ job[r].found \in [Lines -> Nat]
  BY DEF Invariant, TypesInv, JobType
<1>4. kept \in Seq(Nat) /\ (kept = <<>> \/ (old \in Inodes /\ kept = content[old]))
  <2>1. <<>> \in Seq(Nat)
    BY EmptySeq
  <2>2. old \in Inodes => content[old] \in Seq(Nat)
    BY <1>3, FileIs
  <2>3. old \in Inodes \union {NoFile}
    BY <1>3 DEF FilesInv
  <2>4. kept = <<>> \/ (old # NoFile /\ kept = content[old])
    BY <1>1
  <2> QED
    BY <2>1, <2>2, <2>3, <2>4
<1>5. PICK f : f = Finds(job[r].found, kept)
  OBVIOUS
<1>6. PICK j : j = [job[r] EXCEPT !.found = f]
  OBVIOUS
<1>7. f \in [Lines -> Nat]
  BY <1>3, <1>4, <1>5, FindsCounts
<1>8. j \in JobType /\ j.from = job[r].from /\ j.to = job[r].to /\ j.found = f
  BY <1>3, <1>6, <1>7 DEF JobType
<1>9. job' = [job EXCEPT ![r] = j]
  BY <1>1, <1>5, <1>6
<1>10. PICK x : x = Onward(job[r])
  OBVIOUS
<1>11. x \in {"read", "claim"} /\ x \in Labels
  BY <1>10 DEF Onward, Labels
<1>12. StepOf(r) /\ pc'[r] = x /\ job'[r] = j
  <2>1. pc' = [pc EXCEPT ![r] = x]
    BY <1>2, <1>10
  <2>2. TypesInv /\ x \in Labels /\ j \in JobType /\ host' = host
    BY <1>2, <1>3, <1>8, <1>11
  <2> QED
    BY <1>9, <2>1, <2>2, StepIs
<1> QED
  BY <1>2, <1>4, <1>5, <1>8, <1>11, <1>12

LEMMA ReadCopiesKeeps ==
    ASSUME Invariant, NEW r \in Readers, ReadCopies(r)
    PROVE  Invariant' /\ Held' = Held
<1>1. PICK kept \in Seq(Nat) :
          /\ kept = <<>> \/ (old \in Inodes /\ kept = content[old])
          /\ pc[r] = "copies" /\ StepOf(r)
          /\ UNCHANGED <<cursor, counted, crashed>> /\ host' = host
          /\ job'[r].from = job[r].from /\ job'[r].to = job[r].to
          /\ job'[r].found = Finds(job[r].found, kept)
          /\ pc'[r] \in {"read", "claim"}
  BY ReadCopiesIs
<1> DEFINE L == LinesOf(kept)
<1>2. /\ kind' = kind /\ content' = content /\ live' = live /\ old' = old /\ written' = written
  BY <1>1 DEF host
<1>3. Reading(r) /\ Reading(r)' /\ (Current(r)' <=> Current(r))
  BY <1>1 DEF Reading, Current
<1>4. Gone' = Gone /\ Held' = Held
  BY <1>1, GoneSame
<1>5. FilesInv /\ live # old /\ live \in Inodes \union {NoFile}
  BY DEF Invariant, FilesInv
<1>6. /\ L \subseteq 1 .. written
      /\ \A k, m \in 1 .. Len(kept) : kept[k] = kept[m] => k = m
      /\ \A k \in 1 .. Len(kept) : old \in Inodes /\ kept = content[old]
  <2>1. CASE kept = <<>>
    BY <2>1, EmptySeq DEF LinesOf
  <2>2. CASE old \in Inodes /\ kept = content[old]
    <3>1. \A k \in 1 .. Len(content[old]) : content[old][k] \in 1 .. written
      BY <1>5, <2>2 DEF FilesInv
    <3> QED
      BY <1>5, <2>2, <3>1, Distinct DEF LinesOf
  <2> QED
    BY <1>1, <2>1, <2>2
<1>7. ASSUME Current(r)
      PROVE  /\ cursor = NoCursor /\ ~kind.journal /\ Gone = {}
             /\ live \in Inodes /\ job[r].to # NoCursor /\ job[r].to.ino = live
             /\ Rows(r) \subseteq LinesOf(content[live]) /\ FoundBy(r)
  BY <1>1, <1>5, <1>7 DEF Invariant, FoundInv, FoundBy, GoneInv, LinesOf
<1>8. ASSUME Current(r), NEW k \in 1 .. Len(content[live])
      PROVE  content[live][k] \notin L
  <2> SUFFICES ASSUME content[live][k] \in L
               PROVE  FALSE
    OBVIOUS
  <2>1. PICK m \in 1 .. Len(kept) : kept[m] = content[live][k]
    BY DEF LinesOf
  <2>2. old \in Inodes /\ kept = content[old] /\ live \in Inodes
    BY <1>6, <1>7, <1>8
  <2>3. m \in 1 .. Len(content[old]) /\ content[old][m] = content[live][k]
    BY <2>1, <2>2
  <2> QED
    BY <1>5, <2>2, <2>3, Distinct
<1>9. ASSUME Current(r)
      PROVE  Rows(r)' = Rows(r) \union L /\ job'[r].found \in [Lines -> {0, 1}]
  <2>1. L \intersect Rows(r) = {}
    <3> HIDE DEF L
    <3> QED
      BY <1>7, <1>8, <1>9 DEF LinesOf
  <2>2. job[r].found \in [Lines -> {0, 1}]
    BY <1>7, <1>9 DEF FoundBy
  <2> QED
    BY <1>1, <1>5, <1>6, <2>1, <2>2, FindsMore
<1> HIDE DEF L
<1>10. ASSUME Current(r)
       PROVE  FoundBy(r)'
  <2>1. Unread(job[r].to, Gone \union Rows(r))'
    <3>1. PICK S : S = Rows(r) \union L
      OBVIOUS
    <3>2. (Gone \union Rows(r))' = S
      BY <1>4, <1>7, <1>9, <1>10, <3>1
    <3>3. Unread(job[r].to, S)
      <4>1. Unread(job[r].to, Gone \union Rows(r))
        BY <1>7, <1>10 DEF FoundBy
      <4>2. live # NoFile
        BY <1>7, <1>10, Constants
      <4> QED
        BY <1>7, <1>8, <1>10, <3>1, <4>1, <4>2 DEF Unread
    <3> QED
      BY <1>1, <3>2, <3>3, Carried
  <2>2. Rows(r)' \subseteq 1 .. written' /\ Rows(r)' \intersect Gone' = {}
    BY <1>2, <1>4, <1>6, <1>7, <1>9, <1>10 DEF FoundBy
  <2> QED
    BY <1>1, <1>2, <1>7, <1>9, <1>10, <2>1, <2>2 DEF FoundBy
<1>11. ASSUME Steady(kind)
       PROVE  OnBy(r)'
  <2>1. OnBy(r)
    BY <1>11 DEF Invariant, SteadyInv
  <2>2. CASE Current(r)
    <3>1. Good(job[r].to)'
      BY <1>1, <2>1, <2>2, Carried DEF OnBy
    <3>2. Passed(cursor, job[r].to)'
      <4>1. Passed(cursor, job[r].to)
        BY <1>7, <2>2 DEF Passed
      <4> QED
        BY <1>1, <4>1, Carried
    <3> QED
      BY <1>3, <2>2, <3>1, <3>2 DEF OnBy
  <2>3. CASE ~Current(r)
    <3>1. Passed(job[r].from, cursor)
      BY <1>3, <2>1, <2>3 DEF OnBy
    <3>2. Passed(job[r].from, cursor)'
      BY <1>1, <1>2, <3>1 DEF Passed
    <3> QED
      BY <1>3, <2>3, <3>2 DEF OnBy
  <2> QED
    BY <2>2, <2>3
<1>12. kind.alone => /\ \A q \in Readers \ {r} : pc[q] = "idle"
                     /\ Reading(r)' => Current(r)'
  BY <1>1, <1>3 DEF Invariant, TurnsInv
<1> QED
  BY <1>1, <1>3, <1>4, <1>10, <1>11, <1>12, StepBeforeClaim

LEMMA NewestKeeps ==
    ASSUME Invariant, NEW r \in Readers, Newest(r)
    PROVE  Invariant' /\ Held' = Held
<1>1. /\ pc[r] = "newest" /\ host' = host /\ UNCHANGED <<cursor, counted, crashed>>
  BY DEF Newest
<1>2. CASE Idle(r)
  BY <1>1, <1>2, IdleKeeps
<1>3. CASE ~Idle(r)
  <2>1. PICK c : c = CursorAt(live, Len(content[live]))
    OBVIOUS
  <2>2. PICK j : j = [job[r] EXCEPT !.to = c]
    OBVIOUS
  <2>3. pc' = [pc EXCEPT ![r] = "claim"] /\ job' = [job EXCEPT ![r] = j]
    BY <1>3, <2>1, <2>2 DEF Newest
  <2>4. /\ FilesInv /\ TypesInv /\ kind.journal /\ live \in Inodes /\ job[r] \in JobType
        /\ live # NoFile
    BY <1>1, Constants DEF Invariant, TypesInv, FilesInv
  <2>5. /\ c \in CursorType /\ c # NoCursor /\ c.ino = live /\ Follows(c, live)
        /\ c = CursorAt(live, c.at)
    <3>1. Len(content[live]) \in Nat
      BY <2>4, FileIs
    <3>2. Len(content[live]) \in 0 .. Len(content[live])
      BY <3>1
    <3> QED
      BY <2>1, <2>4, <3>2, CursorIs
  <2>6. j \in JobType /\ j.from = job[r].from /\ j.to = c /\ j.found = job[r].found
    BY <2>2, <2>4, <2>5 DEF JobType
  <2>7. StepOf(r) /\ pc'[r] = "claim" /\ job'[r] = j
    <3>1. TypesInv /\ "claim" \in Labels /\ j \in JobType /\ host' = host
      BY <1>1, <2>4, <2>6 DEF Labels
    <3> QED
      BY <2>3, <3>1, StepIs
  <2>8. Gone' = Gone /\ Held' = Held /\ Rows(r)' = Rows(r)
    BY <1>1, <2>6, <2>7, GoneSame DEF Rows
  <2>9. Reading(r) /\ Reading(r)' /\ (Current(r) <=> Current(r)')
    BY <1>1, <2>6, <2>7 DEF Reading, Current
  <2>10. ASSUME Current(r)
         PROVE  cursor = NoCursor /\ Gone = {} /\ Rows(r) = {} /\ FoundBy(r)
    BY <1>1, <2>10 DEF Invariant, FoundInv, FoundBy, GoneInv
  <2>11. ASSUME Current(r)
         PROVE  FoundBy(r)'
    <3>1. Unread(job[r].to, Gone \union Rows(r))'
      <4>1. PICK S : S = {}
        OBVIOUS
      <4>2. Unread(c, S) /\ (Gone \union Rows(r))' = S
        BY <2>8, <2>10, <2>11, <4>1 DEF Unread
      <4> QED
        BY <1>1, <2>6, <2>7, <4>2, Carried
    <3>2. written' = written
      BY <1>1 DEF host
    <3> QED
      BY <2>5, <2>6, <2>7, <2>8, <2>10, <2>11, <3>1, <3>2 DEF FoundBy
  <2>12. ASSUME Steady(kind)
         PROVE  OnBy(r)'
    <3>1. CASE Current(r)
      <4>1. Good(c) /\ Passed(cursor, c)
        BY <2>4, <2>5, <2>10, <3>1 DEF Good, Passed
      <4>2. Good(job[r].to)' /\ Passed(cursor, job[r].to)'
        BY <1>1, <2>6, <2>7, <4>1, Carried
      <4> QED
        BY <2>9, <3>1, <4>2 DEF OnBy
    <3>2. CASE ~Current(r)
      <4>1. Passed(job[r].from, cursor)
        BY <2>9, <2>12, <3>2 DEF Invariant, SteadyInv, OnBy
      <4>2. Passed(job[r].from, cursor)'
        BY <1>1, <2>6, <2>7, <4>1 DEF Passed, host
      <4> QED
        BY <2>9, <3>2, <4>2 DEF OnBy
    <3> QED
      BY <3>1, <3>2
  <2>13. kind.alone => /\ \A q \in Readers \ {r} : pc[q] = "idle"
                       /\ Reading(r)' => Current(r)'
    BY <1>1, <2>9 DEF Invariant, TurnsInv
  <2> QED
    BY <1>1, <2>7, <2>8, <2>9, <2>11, <2>12, <2>13, StepBeforeClaim
<1> QED
  BY <1>2, <1>3

LEMMA TheirsKeeps ==
    ASSUME Invariant, NEW r \in Readers, Theirs(r)
    PROVE  Invariant' /\ Held' = Held
  BY IdleKeeps DEF Theirs

-----------------------------------------------------------------------------
(* What a pass takes.                                                      *)

LEMMA PutIs ==
    ASSUME TypesInv, NEW r \in Readers, job[r].found \in [Lines -> {0, 1}], Put(r)
    PROVE  \E now \in SUBSET Rows(r) :
              /\ counted' = [l \in Lines |-> counted[l] + IF l \in now THEN 1 ELSE 0]
              /\ counted' \in [Lines -> Nat]
              /\ StepOf(r) /\ host' = host /\ crashed' = crashed
              /\ pc'[r] \in {"idle", "store"}
              /\ pc'[r] = "idle" => now = Rows(r)
              /\ pc'[r] = "store" => /\ job'[r].found \in [Lines -> {0, 1}]
                                     /\ Rows(r)' = Rows(r) \ now
<1>1. PICK now \in SUBSET Rows(r) :
          /\ counted' = [l \in Lines |->
                           counted[l] + IF l \in now THEN job[r].found[l] ELSE 0]
          /\ IF now = Rows(r) THEN Idle(r)
             ELSE /\ pc' = [pc EXCEPT ![r] = "store"]
                  /\ job' = [job EXCEPT ![r].found =
                               [l \in Lines |-> IF l \in now THEN 0 ELSE job[r].found[l]]]
          /\ host' = host /\ crashed' = crashed
  BY DEF Put
<1>2. \A l \in now : l \in Lines /\ job[r].found[l] = 1
  BY DEF Rows
<1>3. \A l \in Lines : counted[l] \in Nat
  BY DEF TypesInv
<1>4. /\ counted' = [l \in Lines |-> counted[l] + IF l \in now THEN 1 ELSE 0]
      /\ counted' \in [Lines -> Nat]
  <2>1. counted' = [l \in Lines |-> counted[l] + IF l \in now THEN 1 ELSE 0]
    BY <1>1, <1>2
  <2>2. \A l \in Lines : counted[l] + (IF l \in now THEN 1 ELSE 0) \in Nat
    BY <1>3
  <2> QED
    BY <2>1, <2>2
<1>5. CASE now = Rows(r)
  <2>1. StepOf(r) /\ pc'[r] = "idle"
    BY <1>1, <1>5, IdleIs
  <2> QED
    BY <1>1, <1>4, <1>5, <2>1
<1>6. CASE now # Rows(r)
  <2>1. PICK f : f = [l \in Lines |-> IF l \in now THEN 0 ELSE job[r].found[l]]
    OBVIOUS
  <2>2. PICK j : j = [job[r] EXCEPT !.found = f]
    OBVIOUS
  <2>3. f \in [Lines -> {0, 1}] /\ f \in [Lines -> Nat]
    BY <2>1
  <2>4. \A l \in Lines : f[l] > 0 <=> job[r].found[l] > 0 /\ l \notin now
    BY <2>1
  <2>5. job[r] \in JobType
    BY DEF TypesInv
  <2>6. j \in JobType /\ j.found = f
    BY <2>2, <2>3, <2>5 DEF JobType
  <2>7. pc' = [pc EXCEPT ![r] = "store"] /\ job' = [job EXCEPT ![r] = j]
    BY <1>1, <1>6, <2>1, <2>2
  <2>8. StepOf(r) /\ pc'[r] = "store" /\ job'[r] = j
    <3>1. TypesInv /\ "store" \in Labels /\ j \in JobType /\ host' = host
      BY <1>1, <2>6 DEF Labels
    <3> QED
      BY <2>7, <3>1, StepIs
  <2>9. Rows(r)' = Rows(r) \ now
    BY <2>4, <2>6, <2>8 DEF Rows
  <2> QED
    BY <1>1, <1>4, <2>3, <2>6, <2>8, <2>9
<1> QED
  BY <1>5, <1>6


\* A transaction takes what the pass found: from then on it is gone.
LEMMA PutTakes ==
    ASSUME TypesInv, NEW r \in Readers, job[r].found \in [Lines -> {0, 1}], Put(r),
           pc[r] \in {"claim", "store"},
           \A q \in Readers \ {r} : pc[q] = "store" => Rows(q) \intersect Rows(r) = {}
    PROVE  /\ Gone' = Gone \union Rows(r)
           /\ \E now \in SUBSET Rows(r) :
                 /\ counted' = [l \in Lines |-> counted[l] + IF l \in now THEN 1 ELSE 0]
                 /\ pc[r] = "claim" => Held' = Held \union (Rows(r) \ now)
                 /\ pc[r] = "store" => Held' = Held \ now /\ Rows(r) \subseteq Held
<1>1. PICK now \in SUBSET Rows(r) :
          /\ counted' = [l \in Lines |-> counted[l] + IF l \in now THEN 1 ELSE 0]
          /\ counted' \in [Lines -> Nat]
          /\ StepOf(r) /\ host' = host /\ crashed' = crashed
          /\ pc'[r] \in {"idle", "store"}
          /\ pc'[r] = "idle" => now = Rows(r)
          /\ pc'[r] = "store" => /\ job'[r].found \in [Lines -> {0, 1}]
                                 /\ Rows(r)' = Rows(r) \ now
  BY PutIs
<1>2. \A l : l \in Held <=> \/ \E q \in Readers \ {r} : pc[q] = "store" /\ l \in Rows(q)
                            \/ pc[r] = "store" /\ l \in Rows(r)
  BY HeldIs
<1>3. \A l : l \in Held' <=> \/ \E q \in Readers \ {r} : pc[q] = "store" /\ l \in Rows(q)
                             \/ l \in Rows(r) \ now
  <2>1. \A q \in Readers \ {r} : pc'[q] = pc[q] /\ Rows(q)' = Rows(q)
    BY <1>1, OthersStay
  <2>2. \A l : pc'[r] = "store" /\ l \in Rows(r)' <=> l \in Rows(r) \ now
    BY <1>1
  <2> QED
    BY <2>1, <2>2, HeldIs
<1>4. \A l : l \in Counted' <=> l \in Counted \/ l \in now
  <2>1. \A l \in now : l \in Lines
    BY DEF Rows
  <2>2. \A l \in Lines : counted[l] \in Nat
    BY DEF TypesInv
  <2>3. ASSUME NEW l \in Lines
        PROVE  counted'[l] > 0 <=> counted[l] > 0 \/ l \in now
    BY <1>1, <2>2
  <2> QED
    BY <2>1, <2>3 DEF Counted
<1>5. Gone' = Gone \union Rows(r)
  <2>1. \A l : l \in Gone' <=> l \in Gone \/ l \in Rows(r)
    <3>1. \A l : l \in Gone' <=> l \in Held' \/ l \in crashed \/ l \in Counted'
      BY <1>1 DEF Gone
    <3>2. \A l : l \in Gone <=> l \in Held \/ l \in crashed \/ l \in Counted
      BY DEF Gone
    <3> QED
      BY <1>2, <1>3, <1>4, <3>1, <3>2
  <2> QED
    BY <2>1
<1>6. pc[r] = "claim" => Held' = Held \union (Rows(r) \ now)
  BY <1>2, <1>3
<1>7. pc[r] = "store" => Held' = Held \ now /\ Rows(r) \subseteq Held
  <2> SUFFICES ASSUME pc[r] = "store"
               PROVE  Held' = Held \ now /\ Rows(r) \subseteq Held
    OBVIOUS
  <2>1. \A l : l \in Held' <=> l \in Held \ now
    BY <1>2, <1>3
  <2> QED
    BY <1>2, <2>1
<1> QED
  BY <1>1, <1>5, <1>6, <1>7

LEMMA PutKeeps ==
    ASSUME Invariant, NEW r \in Readers, job[r].found \in [Lines -> {0, 1}], Put(r),
           pc[r] \in {"claim", "store"}, Rows(r) \subseteq 1 .. written,
           \A q \in Readers \ {r} : pc[q] = "store" => Rows(q) \intersect Rows(r) = {},
           kind.alone => \A q \in Readers \ {r} : pc[q] = "idle",
           NEW c \in CursorType \union {NoCursor}, cursor' = c,
           c = NoCursor => Gone \union Rows(r) = {}, Unread(c, Gone \union Rows(r)),
           \A q \in Readers \ {r} :
               Reading(q) /\ job[q].from = c => c = cursor /\ Rows(r) \subseteq Gone,
           Steady(kind) =>
               /\ Good(c)
               /\ \A q \in Readers \ {r} :
                     Reading(q) /\ job[q].from # c => Passed(job[q].from, c)
    PROVE  Invariant'
<1>1. PICK now \in SUBSET Rows(r) :
          /\ counted' \in [Lines -> Nat]
          /\ StepOf(r) /\ host' = host /\ crashed' = crashed
          /\ pc'[r] \in {"idle", "store"}
          /\ pc'[r] = "store" => /\ job'[r].found \in [Lines -> {0, 1}]
                                 /\ Rows(r)' = Rows(r) \ now
  BY PutIs DEF Invariant
<1>2. Gone' = Gone \union Rows(r)
  BY PutTakes DEF Invariant
<1>3. /\ kind' = kind /\ content' = content /\ live' = live /\ old' = old /\ fd' = fd
      /\ written' = written
  BY <1>1 DEF host
<1>4. ~Reading(r)' /\ ~Current(r)'
  BY <1>1 DEF Reading, Current
<1>5. FilesInv'
  BY <1>3 DEF Invariant, FilesInv
<1>6. TypesInv'
  <2>1. \A q \in Readers : pc'[q] = "newest" => kind'.journal
    BY <1>1, <1>3, OthersStay DEF Invariant, TypesInv
  <2> QED
    BY <1>1, <2>1 DEF TypesInv, StepOf
<1>7. TurnsInv'
  <2> SUFFICES ASSUME kind.alone
               PROVE  /\ \A q, s \in Readers : pc'[q] # "idle" /\ pc'[s] # "idle" => q = s
                      /\ \A q \in Readers : Reading(q)' => Current(q)'
    BY <1>3 DEF TurnsInv
  <2>1. \A q \in Readers \ {r} : pc'[q] = "idle"
    BY <1>1, OthersStay
  <2>2. \A q \in Readers : ~Reading(q)'
    BY <1>4, <2>1 DEF Reading
  <2> QED
    BY <2>1, <2>2
<1>8. GoneInv'
  <2>1. Unread(cursor, Gone)'
    <3>1. PICK S : S = Gone \union Rows(r)
      OBVIOUS
    <3>2. Unread(c, S) /\ Gone' = S
      BY <1>2, <3>1
    <3> QED
      BY <1>3, <3>2 DEF Unread, Follows
  <2>2. Gone' \subseteq 1 .. written'
    BY <1>2, <1>3 DEF Invariant, GoneInv
  <2>3. cursor' = NoCursor => Gone' = {}
    BY <1>2
  <2>4. \A q \in Readers : pc'[q] = "store" => job'[q].found \in [Lines -> {0, 1}]
    <3> SUFFICES ASSUME NEW q \in Readers, pc'[q] = "store"
                 PROVE  job'[q].found \in [Lines -> {0, 1}]
      OBVIOUS
    <3>1. CASE q = r
      BY <1>1, <3>1
    <3>2. CASE q # r
      BY <1>1, <3>2, OthersStay DEF Invariant, GoneInv
    <3> QED
      BY <3>1, <3>2
  <2>5. \A q \in Readers \ {r} :
            pc'[q] = "store" /\ pc'[r] = "store" => Rows(q)' \intersect Rows(r)' = {}
    BY <1>1, OthersStay
  <2>6. \A q, s \in Readers \ {r} :
            pc'[q] = "store" /\ pc'[s] = "store" /\ q # s => Rows(q)' \intersect Rows(s)' = {}
    BY <1>1, OthersStay DEF Invariant, GoneInv
  <2>7. \A q, s \in Readers :
            pc'[q] = "store" /\ pc'[s] = "store" /\ q # s => Rows(q)' \intersect Rows(s)' = {}
    BY <2>5, <2>6
  <2> QED
    BY <2>1, <2>2, <2>3, <2>4, <2>7 DEF GoneInv
<1>9. FoundInv'
  <2>1. ASSUME NEW q \in Readers, Current(q)'
        PROVE  FoundBy(q)'
    <3>1. q # r
      BY <1>4, <2>1
    <3>2. Reading(q) /\ job[q].from = c
      BY <1>1, <2>1, <3>1, OthersStay DEF Current
    <3>3. c = cursor /\ Rows(r) \subseteq Gone
      BY <3>1, <3>2
    <3>4. cursor' = cursor /\ Gone' = Gone
      BY <1>2, <3>3
    <3>5. FoundBy(q)
      BY <3>2, <3>3 DEF Invariant, FoundInv, Current
    <3> QED
      BY <1>1, <3>1, <3>4, <3>5, OthersStay
  <2> QED
    BY <2>1 DEF FoundInv
<1>10. SteadyInv'
  <2> SUFFICES ASSUME Steady(kind)
               PROVE  Good(cursor)' /\ \A q \in Readers : OnBy(q)'
    BY <1>3 DEF SteadyInv, Steady
  <2>1. Good(cursor)'
    BY <1>3 DEF Good, Follows, CursorAt, HeadAt
  <2>2. ASSUME NEW q \in Readers
        PROVE  OnBy(q)'
    <3>1. CASE q = r
      BY <1>4, <3>1 DEF OnBy
    <3>2. CASE q # r /\ c = cursor
      BY <1>1, <3>2, OthersStay DEF Invariant, SteadyInv
    <3>3. CASE q # r /\ c # cursor
      <4>1. Reading(q)' = Reading(q) /\ job'[q] = job[q]
        BY <1>1, <3>3, OthersStay
      <4>2. ~Current(q)'
        BY <3>3, <4>1 DEF Current
      <4>3. ASSUME Reading(q)
            PROVE  Passed(job[q].from, cursor)'
        <5>1. job[q].from # c
          BY <3>3, <4>3
        <5>2. Passed(job[q].from, c)
          BY <3>3, <4>3, <5>1
        <5> QED
          BY <1>3, <4>1, <5>2 DEF Passed
      <4> QED
        BY <4>1, <4>2, <4>3 DEF OnBy
    <3> QED
      BY <3>1, <3>2, <3>3
  <2> QED
    BY <2>1, <2>2
<1> QED
  BY <1>5, <1>6, <1>7, <1>8, <1>9, <1>10 DEF Invariant

\* No cursor is passed by one that it passed.
LEMMA NotBack ==
    ASSUME FilesInv, NEW c \in CursorType \union {NoCursor},
           NEW d \in CursorType \union {NoCursor}, Passed(c, d)
    PROVE  c # d /\ ~Passed(d, c)
<1>1. d # NoCursor /\ d.at \in Nat /\ live # old
  BY DEF Passed, CursorType, FilesInv
<1>2. CASE c = NoCursor
  BY <1>1, <1>2 DEF Passed
<1>3. CASE c # NoCursor
  <2>1. c.at \in Nat
    BY <1>3 DEF CursorType
  <2> QED
    BY <1>1, <1>3, <2>1 DEF Passed
<1> QED
  BY <1>2, <1>3

LEMMA ClaimKeeps ==
    ASSUME Invariant, Orderly, NEW r \in Readers, Claim(r)
    PROVE  /\ Invariant'
           /\ job[r].found \in [Lines -> {0, 1}] /\ Rows(r) \intersect Gone = {}
           /\ Put(r) /\ pc[r] = "claim"
           /\ \A q \in Readers \ {r} : Reading(q) /\ job[q].from = cursor' =>
                 cursor' = cursor /\ Rows(r) \subseteq Gone
<1>1. /\ pc[r] = "claim" /\ cursor = job[r].from /\ Put(r)
      /\ cursor' = IF job[r].to = NoCursor THEN cursor ELSE job[r].to
  BY DEF Claim
<1>2. PICK c : c = IF job[r].to = NoCursor THEN cursor ELSE job[r].to
  OBVIOUS
<1>3. FilesInv /\ TypesInv /\ GoneInv /\ Current(r) /\ FoundBy(r)
  BY <1>1 DEF Invariant, Current, Reading, FoundInv
<1>4. c \in CursorType \union {NoCursor} /\ cursor \in CursorType \union {NoCursor}
  BY <1>2, <1>3 DEF TypesInv, JobType
<1>5. /\ job[r].found \in [Lines -> {0, 1}] /\ Rows(r) \subseteq 1 .. written
      /\ Rows(r) \intersect Gone = {}
      /\ job[r].to # NoCursor => Unread(job[r].to, Gone \union Rows(r))
      /\ job[r].to = NoCursor => Rows(r) = {}
  BY <1>3 DEF FoundBy
<1>6. \A q \in Readers \ {r} : pc[q] = "store" => Rows(q) \intersect Rows(r) = {}
  <2>1. \A q \in Readers : pc[q] = "store" => Rows(q) \subseteq Gone
    BY HeldIs DEF Gone
  <2> QED
    BY <1>5, <2>1
<1>7. kind.alone => \A q \in Readers \ {r} : pc[q] = "idle"
  BY <1>1 DEF Invariant, TurnsInv
<1>8. c = NoCursor => Gone \union Rows(r) = {}
  BY <1>2, <1>3, <1>5 DEF GoneInv
<1>9. Unread(c, Gone \union Rows(r))
  <2>1. CASE job[r].to = NoCursor
    <3>1. c = cursor /\ Gone \union Rows(r) = Gone
      BY <1>2, <1>5, <2>1
    <3> QED
      BY <1>3, <3>1 DEF GoneInv
  <2>2. CASE job[r].to # NoCursor
    BY <1>2, <1>5, <2>2
  <2> QED
    BY <2>1, <2>2
<1>10. ASSUME Steady(kind)
       PROVE  /\ Good(c) /\ Good(cursor)
              /\ Passed(cursor, c) \/ (c = cursor /\ Rows(r) = {})
              /\ \A q \in Readers : OnBy(q)
  BY <1>2, <1>3, <1>10 DEF Invariant, SteadyInv, OnBy, Passed
<1>11. ASSUME NEW q \in Readers \ {r}, Reading(q)
       PROVE  /\ job[q].from = c => c = cursor /\ Rows(r) \subseteq Gone
              /\ Steady(kind) /\ job[q].from # c => Passed(job[q].from, c)
  <2>1. pc[q] # "idle" /\ job[q].from \in CursorType \union {NoCursor}
    BY <1>3, <1>11 DEF Reading, TypesInv, JobType
  <2>2. Steady(kind)
    BY <1>3, <1>7, <1>11, <2>1 DEF Orderly, FilesInv
  <2>3. OnBy(q)
    BY <1>10, <2>2
  <2>4. CASE c = cursor /\ Rows(r) = {}
    BY <1>11, <2>3, <2>4 DEF OnBy, Current
  <2>5. CASE Passed(cursor, c)
    <3>1. c # cursor /\ c \in CursorType
      BY <1>3, <1>4, <2>5, NotBack DEF Passed
    <3>2. CASE Current(q)
      BY <2>5, <3>1, <3>2 DEF Current
    <3>3. CASE ~Current(q)
      <4>1. Passed(job[q].from, cursor)
        BY <1>11, <2>3, <3>3 DEF OnBy
      <4>2. cursor \in CursorType
        BY <1>4, <4>1 DEF Passed
      <4>3. Passed(job[q].from, c)
        BY <1>3, <2>1, <2>5, <3>1, <4>1, <4>2, PassedOn
      <4>4. job[q].from # c
        BY <1>3, <1>4, <2>1, <4>3, NotBack
      <4> QED
        BY <4>3, <4>4
    <3> QED
      BY <3>2, <3>3
  <2> QED
    BY <1>10, <2>2, <2>4, <2>5
<1>12. cursor' = c
  BY <1>1, <1>2
<1>13. Invariant'
  BY <1>1, <1>4, <1>5, <1>6, <1>7, <1>8, <1>9, <1>10, <1>11, <1>12, PutKeeps
<1>14. \A q \in Readers \ {r} : Reading(q) /\ job[q].from = cursor' =>
           cursor' = cursor /\ Rows(r) \subseteq Gone
  BY <1>11, <1>12
<1> QED
  BY <1>1, <1>5, <1>13, <1>14

LEMMA StoreKeeps ==
    ASSUME Invariant, NEW r \in Readers, Store(r)
    PROVE  /\ Invariant'
           /\ job[r].found \in [Lines -> {0, 1}] /\ Put(r) /\ pc[r] = "store"
           /\ \A q \in Readers \ {r} : pc[q] = "store" => Rows(q) \intersect Rows(r) = {}
<1>1. pc[r] = "store" /\ Put(r) /\ cursor' = cursor
  BY DEF Store
<1>2. FilesInv /\ TypesInv /\ GoneInv
  BY DEF Invariant
<1>3. /\ job[r].found \in [Lines -> {0, 1}]
      /\ \A q \in Readers \ {r} : pc[q] = "store" => Rows(q) \intersect Rows(r) = {}
  BY <1>1, <1>2 DEF GoneInv
<1>4. Rows(r) \subseteq Gone /\ Gone \union Rows(r) = Gone
  BY <1>1, HeldIs DEF Gone
<1>5. kind.alone => \A q \in Readers \ {r} : pc[q] = "idle"
  BY <1>1 DEF Invariant, TurnsInv
<1>6. PICK c : c = cursor
  OBVIOUS
<1>7. c \in CursorType \union {NoCursor} /\ cursor' = c
  BY <1>1, <1>2, <1>6 DEF TypesInv
<1>8. /\ c = NoCursor => Gone \union Rows(r) = {}
      /\ Unread(c, Gone \union Rows(r)) /\ Rows(r) \subseteq 1 .. written
  BY <1>2, <1>4, <1>6 DEF GoneInv
<1>9. ASSUME Steady(kind)
      PROVE  /\ Good(c)
             /\ \A q \in Readers \ {r} :
                   Reading(q) /\ job[q].from # c => Passed(job[q].from, c)
  BY <1>6, <1>9 DEF Invariant, SteadyInv, OnBy, Current
<1>10. Invariant'
  BY <1>1, <1>3, <1>4, <1>5, <1>6, <1>7, <1>8, <1>9, PutKeeps
<1> QED
  BY <1>1, <1>3, <1>10

\* A reader that stops loses what it holds, and nothing else.
LEMMA CrashKeeps ==
    ASSUME Invariant, NEW r \in Readers, Crash(r)
    PROVE  /\ Invariant' /\ counted' = counted
           /\ \/ Held' = Held /\ crashed' = crashed
              \/ /\ Rows(r) \subseteq Held /\ Held' = Held \ Rows(r)
                 /\ crashed' = crashed \union Rows(r)
<1>1. /\ pc[r] # "idle" /\ host' = host /\ UNCHANGED <<cursor, counted>> /\ Idle(r)
      /\ crashed' = crashed \union IF pc[r] = "store" THEN Rows(r) ELSE {}
  BY DEF Crash
<1>2. CASE pc[r] # "store"
  <2>1. crashed' = crashed
    BY <1>1, <1>2
  <2> QED
    BY <1>1, <1>2, <2>1, IdleKeeps
<1>3. CASE pc[r] = "store"
  <2>1. StepOf(r) /\ pc'[r] = "idle" /\ crashed' = crashed \union Rows(r)
    BY <1>1, <1>3, IdleIs DEF Invariant
  <2>2. \A q \in Readers \ {r} : pc[q] = "store" => Rows(q) \intersect Rows(r) = {}
    BY <1>3 DEF Invariant, GoneInv
  <2>3. \A q \in Readers \ {r} : pc'[q] = pc[q] /\ Rows(q)' = Rows(q)
    BY <2>1, OthersStay
  <2>4. Rows(r) \subseteq Held
    BY <1>3, HeldIs
  <2>5. Held' = Held \ Rows(r)
    <3>1. \A l : l \in Held' <=> \E q \in Readers \ {r} : pc[q] = "store" /\ l \in Rows(q)
      BY <2>1, <2>3, HeldIs
    <3>2. \A l : l \in Held <=> \/ \E q \in Readers \ {r} : pc[q] = "store" /\ l \in Rows(q)
                                \/ l \in Rows(r)
      BY <1>3, HeldIs
    <3>3. \A l : l \in Held' <=> l \in Held \ Rows(r)
      BY <2>2, <3>1, <3>2
    <3> QED
      BY <3>3
  <2>6. Gone' = Gone
    BY <1>1, <2>1, <2>4, <2>5 DEF Gone, Counted
  <2>7. ~Reading(r)' /\ ~Current(r)'
    BY <2>1 DEF Reading, Current
  <2>8. Invariant'
    BY <1>1, <2>1, <2>6, <2>7, StepKeeps DEF OnBy
  <2> QED
    BY <1>1, <2>1, <2>4, <2>5, <2>8
<1> QED
  BY <1>2, <1>3

-----------------------------------------------------------------------------
(* The invariant, and what follows from it.                                *)

LEMMA LogInitial ==
    ASSUME Init
    PROVE  Invariant /\ Held = {}
<1>1. /\ kind \in Kinds /\ written = OldLines /\ live \in Inodes /\ fd = live
      /\ old \in {NoFile} \union (IF kind.journal THEN {} ELSE Inodes \ {live})
      /\ content = [i \in Inodes |->
                      IF i = (IF old = NoFile THEN live ELSE old)
                        THEN [k \in 1 .. OldLines |-> k] ELSE <<>>]
  BY DEF Init, HostInit
<1>2. /\ cursor = NoCursor /\ crashed = {} /\ counted = [l \in Lines |-> 0]
      /\ pc = [r \in Readers |-> "idle"] /\ job = [r \in Readers |-> NoJob]
  BY DEF Init
<1>3. \A r \in Readers : pc[r] = "idle" /\ ~Reading(r) /\ ~Current(r)
  BY <1>2 DEF Reading, Current
<1>4. Held = {} /\ Gone = {}
  <2>1. Held = {}
    BY <1>3, HeldIs
  <2>2. Counted = {}
    BY <1>2 DEF Counted
  <2> QED
    BY <1>2, <2>1, <2>2 DEF Gone
<1>5. FilesInv
  <2>1. PICK f : f = IF old = NoFile THEN live ELSE old
    OBVIOUS
  <2>2. PICK s : s = [k \in 1 .. OldLines |-> k]
    OBVIOUS
  <2>3. /\ s \in Seq(Nat) /\ Len(s) = OldLines
        /\ \A k \in 1 .. Len(s) : s[k] = k
    <3>1. OldLines \in Nat /\ s \in [1 .. OldLines -> Nat]
      BY <2>2, Constants
    <3>2. s \in Seq(Nat)
      BY <3>1, SeqDef, Zenon
    <3>3. Len(s) \in Nat /\ DOMAIN s = 1 .. Len(s) /\ DOMAIN s = 1 .. OldLines
      BY <2>2, <3>2, LenProperties
    <3>4. Len(s) = OldLines
      BY <3>1, <3>3
    <3> QED
      BY <2>2, <3>2, <3>4
  <2>4. <<>> \in Seq(Nat) /\ Len(<<>>) = 0
    BY EmptySeq
  <2>5. content = [i \in Inodes |-> IF i = f THEN s ELSE <<>>]
    BY <1>1, <2>1, <2>2
  <2>6. content \in [Inodes -> Seq(Nat)]
    BY <2>3, <2>4, <2>5
  <2>7. \A i \in Inodes : \A k \in 1 .. Len(content[i]) : i = f /\ content[i][k] = k /\ k \in 1 .. OldLines
    BY <2>3, <2>4, <2>5
  <2>8. \A i \in Inodes : \A k \in 1 .. Len(content[i]) : content[i][k] \in k .. written
    BY <1>1, <2>7, Constants
  <2>9. \A i, j \in Inodes : \A k \in 1 .. Len(content[i]), m \in 1 .. Len(content[j]) :
            content[i][k] = content[j][m] => i = j /\ k = m
    BY <2>7
  <2>10. kind.journal => /\ old = NoFile /\ Len(content[live]) = written
                         /\ \A k \in 1 .. Len(content[live]) : content[live][k] = k
    BY <1>1, <2>1, <2>3, <2>5, <2>7
  <2>11. written \in OldLines .. MaxLines /\ old \in Inodes \union {NoFile} /\ old # live
    BY <1>1, Constants
  <2> QED
    BY <1>1, <2>6, <2>8, <2>9, <2>10, <2>11 DEF FilesInv
<1>6. TypesInv
  BY <1>2, NoJobIs DEF TypesInv, Labels
<1>7. TurnsInv
  BY <1>3 DEF TurnsInv
<1>8. GoneInv
  BY <1>2, <1>3, <1>4 DEF GoneInv, Unread
<1>9. FoundInv
  BY <1>3 DEF FoundInv
<1>10. SteadyInv
  BY <1>2, <1>3 DEF SteadyInv, Good, OnBy
<1> QED
  BY <1>4, <1>5, <1>6, <1>7, <1>8, <1>9, <1>10 DEF Invariant

\* Every step keeps it, and what readers take they take as EachLineOnce says.
LEMMA LogSteps ==
    ASSUME Orderly, Invariant, [Next]_vars
    PROVE  Invariant' /\ [Once!OnceNext]_(Once!onceVars)
<1>1. ASSUME Invariant', UNCHANGED <<Held, counted, crashed>>
      PROVE  Invariant' /\ [Once!OnceNext]_(Once!onceVars)
  BY <1>1 DEF Once!onceVars
<1>2. CASE HostStep
  <2>1. Invariant'
    BY <1>2, HostKeeps
  <2>2. counted' = counted /\ crashed' = crashed /\ Held' = Held
    BY <1>2, HostUnchanged DEF Invariant, Held, Rows
  <2> QED
    BY <1>1, <2>1, <2>2
<1>3. ASSUME NEW r \in Readers, Plan(r)
      PROVE  Invariant' /\ [Once!OnceNext]_(Once!onceVars)
  BY <1>1, <1>3, PlanKeeps DEF Plan
<1>4. ASSUME NEW r \in Readers, Unavailable(r)
      PROVE  Invariant' /\ [Once!OnceNext]_(Once!onceVars)
  BY <1>1, <1>4, UnavailableKeeps DEF Unavailable
<1>5. ASSUME NEW r \in Readers, Read(r)
      PROVE  Invariant' /\ [Once!OnceNext]_(Once!onceVars)
  BY <1>1, <1>5, ReadKeeps DEF Read
<1>6. ASSUME NEW r \in Readers, ReadCopies(r)
      PROVE  Invariant' /\ [Once!OnceNext]_(Once!onceVars)
  BY <1>1, <1>6, ReadCopiesKeeps DEF ReadCopies
<1>7. ASSUME NEW r \in Readers, Newest(r)
      PROVE  Invariant' /\ [Once!OnceNext]_(Once!onceVars)
  BY <1>1, <1>7, NewestKeeps DEF Newest
<1>8. ASSUME NEW r \in Readers, Theirs(r)
      PROVE  Invariant' /\ [Once!OnceNext]_(Once!onceVars)
  BY <1>1, <1>8, TheirsKeeps DEF Theirs
<1>9. ASSUME NEW r \in Readers, Claim(r)
      PROVE  Invariant' /\ [Once!OnceNext]_(Once!onceVars)
  <2>1. /\ Invariant' /\ job[r].found \in [Lines -> {0, 1}] /\ Rows(r) \intersect Gone = {}
        /\ Put(r) /\ pc[r] = "claim" /\ crashed' = crashed
    BY <1>9, ClaimKeeps DEF Put
  <2>2. \A q \in Readers \ {r} : pc[q] = "store" => Rows(q) \intersect Rows(r) = {}
    <3>1. \A q \in Readers : pc[q] = "store" => Rows(q) \subseteq Gone
      BY HeldIs DEF Gone
    <3> QED
      BY <2>1, <3>1
  <2>3. PICK now \in SUBSET Rows(r) :
            /\ counted' = [l \in Lines |-> counted[l] + IF l \in now THEN 1 ELSE 0]
            /\ Held' = Held \union (Rows(r) \ now)
    BY <2>1, <2>2, PutTakes DEF Invariant
  <2>4. Rows(r) \in SUBSET (Lines \ Once!Taken)
    BY <2>1 DEF Once!Taken, Gone, Counted, Rows
  <2>5. Once!Claim
    BY <2>1, <2>3, <2>4 DEF Once!Claim, Once!Count
  <2> QED
    BY <2>1, <2>5 DEF Once!OnceNext
<1>10. ASSUME NEW r \in Readers, Store(r)
       PROVE  Invariant' /\ [Once!OnceNext]_(Once!onceVars)
  <2>1. /\ Invariant' /\ job[r].found \in [Lines -> {0, 1}]
        /\ Put(r) /\ pc[r] = "store" /\ crashed' = crashed
        /\ \A q \in Readers \ {r} : pc[q] = "store" => Rows(q) \intersect Rows(r) = {}
    BY <1>10, StoreKeeps DEF Put
  <2>2. PICK now \in SUBSET Rows(r) :
            /\ counted' = [l \in Lines |-> counted[l] + IF l \in now THEN 1 ELSE 0]
            /\ Held' = Held \ now /\ Rows(r) \subseteq Held
    BY <2>1, PutTakes DEF Invariant
  <2>3. Once!Store
    BY <2>1, <2>2 DEF Once!Store, Once!Count
  <2> QED
    BY <2>1, <2>3 DEF Once!OnceNext
<1>11. ASSUME NEW r \in Readers, Crash(r)
       PROVE  Invariant' /\ [Once!OnceNext]_(Once!onceVars)
  <2>1. /\ Invariant' /\ counted' = counted
        /\ \/ Held' = Held /\ crashed' = crashed
           \/ /\ Rows(r) \subseteq Held /\ Held' = Held \ Rows(r)
              /\ crashed' = crashed \union Rows(r)
    BY <1>11, CrashKeeps
  <2>2. CASE Held' = Held /\ crashed' = crashed
    BY <1>1, <2>1, <2>2
  <2>3. CASE /\ Rows(r) \subseteq Held /\ Held' = Held \ Rows(r)
             /\ crashed' = crashed \union Rows(r)
    BY <2>1, <2>3 DEF Once!OnceNext, Once!Lose
  <2> QED
    BY <2>1, <2>2, <2>3
<1>12. CASE UNCHANGED vars
  <2>1. Held' = Held /\ Gone' = Gone
    BY <1>12 DEF vars, Gone, Held, Rows, Counted
  <2>2. Invariant'
    <3>1. FilesInv' /\ TypesInv' /\ TurnsInv'
      BY <1>12 DEF vars, host, Invariant, FilesInv, TypesInv, TurnsInv, Reading, Current
    <3>2. GoneInv'
      BY <1>12, <2>1 DEF vars, host, Invariant, GoneInv, Unread, Follows, Rows
    <3>3. FoundInv'
      <4> SUFFICES ASSUME NEW r \in Readers, Current(r)
                   PROVE  FoundBy(r)'
        BY <1>12 DEF vars, FoundInv, Current, Reading
      <4>1. FoundBy(r) /\ Rows(r)' = Rows(r)
        BY <1>12 DEF vars, Invariant, FoundInv, Rows
      <4>2. job[r].to # NoCursor => Unread(job[r].to, Gone \union Rows(r))'
        BY <1>12, <2>1, <4>1, Carried DEF vars, FoundBy
      <4> QED
        BY <1>12, <2>1, <4>1, <4>2 DEF vars, host, FoundBy
    <3>4. SteadyInv'
      <4> SUFFICES ASSUME Steady(kind)
                   PROVE  Good(cursor)' /\ \A r \in Readers : OnBy(r)'
        BY <1>12 DEF vars, host, SteadyInv, Steady
      <4>1. Good(cursor)'
        BY <1>12 DEF vars, host, Invariant, SteadyInv, Good, Follows, CursorAt, HeadAt
      <4>2. ASSUME NEW r \in Readers
            PROVE  OnBy(r)'
        <5>1. OnBy(r) /\ Rows(r)' = Rows(r) /\ Reading(r)' = Reading(r)
              /\ Current(r)' = Current(r)
          BY <1>12 DEF vars, Invariant, SteadyInv, Rows, Reading, Current
        <5>2. Good(job[r].to) => Good(job[r].to)'
          BY <1>12, Carried DEF vars
        <5>3. Passed(cursor, job[r].to) => Passed(cursor, job[r].to)'
          BY <1>12, Carried DEF vars
        <5>4. Passed(job[r].from, cursor) => Passed(job[r].from, cursor)'
          BY <1>12 DEF vars, host, Passed
        <5> QED
          BY <1>12, <5>1, <5>2, <5>3, <5>4 DEF vars, OnBy
      <4> QED
        BY <4>1, <4>2
    <3> QED
      BY <3>1, <3>2, <3>3, <3>4 DEF Invariant
  <2> QED
    BY <1>1, <1>12, <2>1, <2>2 DEF vars
<1> QED
  BY <1>2, <1>3, <1>4, <1>5, <1>6, <1>7, <1>8, <1>9, <1>10, <1>11, <1>12 DEF Next, Pass

\* What a pass has found, what it has claimed and what is stored stay apart, and
\* no cursor leads back to a line that is claimed: the reads of hostlog.rs and
\* logread.rs beside the claims of Ingest::step.
THEOREM LogInvariant ==
    ASSUME Orderly
    PROVE  Spec => []Invariant
<1>1. Init => Invariant
  BY LogInitial
<1>2. Invariant /\ [Next]_vars => Invariant'
  BY LogSteps
<1> QED
  BY <1>1, <1>2, PTL DEF Spec

\* A line is taken by one read at most, whichever processes read the log and
\* however their steps, the writer's and logrotate's interleave: EachOnce, of
\* Ingest::step and the cursor it compares.
THEOREM EachOnceHolds ==
    ASSUME Orderly
    PROVE  Spec => EachOnce
<1>1. Init => Invariant /\ Once!OnceInit
  BY LogInitial DEF Init, Once!OnceInit
<1>2. Invariant /\ [Next]_vars => Invariant' /\ [Once!OnceNext]_(Once!onceVars)
  BY LogSteps
<1> QED
  BY <1>1, <1>2, PTL DEF Spec, EachOnce, Once!OnceSpec

-----------------------------------------------------------------------------
(* That no line is skipped.                                                *)

\* Nothing comes between a first read of an empty journal and the second look,
\* and a log that is renamed is not renamed again before a pass stored a cursor.
KeepsPace ==
    \A k \in Kinds :
        "between" \notin k.faults /\ ("outpaced" \in k.faults => "rename" \notin k.rotations)

Excused == IF kind.journal THEN 1 .. OldLines ELSE {}

\* What the cursor c is past is in S, if the file it names is still the one it
\* was made from: which a line tells, or, without one, its being the copy.
Past(c, S) ==
    /\ Follows(c, c.ino) => \A k \in 1 .. c.at : content[c.ino][k] \in S \union Excused
    /\ c.head # <<>> =>
          /\ c.head[1] \in 1 .. written
          /\ \A i \in {live, c.ino} \ {NoFile} :
                content[i] # <<>> /\ content[i][1] = c.head[1] =>
                    i = c.ino /\ c.at <= Len(content[i])
    /\ c.head = <<>> /\ c.at > 0 => c.ino = old /\ c.at <= Len(content[old])

\* The stored cursor is of the log or of its copy, ...
Kept(c) ==
    /\ "rename" \notin kind.rotations => c.ino = live
    /\ "outpaced" \notin kind.faults => c.ino \in {live, old}

\* ... and a pass that got to another file than it started from got to the log.
Near(b, c) ==
    /\ "rename" \notin kind.rotations => c.ino = live
    /\ "outpaced" \notin kind.faults =>
          \/ b # NoCursor /\ c.ino = b.ino
          \/ (b = NoCursor \/ b.ino = old) /\ c.ino = live

SkipBy(r) ==
    /\ job[r].to # NoCursor => Near(cursor, job[r].to) /\ Past(job[r].to, Gone \union Rows(r))
    /\ pc[r] = "newest" => Len(content[live]) = OldLines

SkipInv ==
    /\ "rename" \notin kind.rotations => live # NoFile
    /\ cursor # NoCursor => Kept(cursor) /\ Past(cursor, Gone)
    /\ \A r \in Readers : Current(r) => SkipBy(r)

\* A digest is of what a file starts with, or of nothing.
LEMMA HeadTells ==
    ASSUME NEW h \in Digests, NEW s \in Seq(Nat)
    PROVE  /\ h = <<>> => IsPrefix(h, s)
           /\ h # <<>> /\ IsPrefix(h, s) =>
                 s # <<>> /\ s[1] = h[1]
           /\ h # <<>> /\ s # <<>> /\ s[1] = h[1] => IsPrefix(h, s)
<1>1. h \in Seq(Nat) /\ Len(h) <= 1
  BY DEF Digests
<1>2. Len(h) \in Nat /\ (h # <<>> => Len(h) = 1)
  <2>1. Len(h) \in Nat
    BY <1>1, LenProperties
  <2>2. ASSUME h # <<>>
        PROVE  Len(h) = 1
    <3>1. PICK n : n = Len(h)
      OBVIOUS
    <3>2. n \in Nat /\ n # 0
      BY <1>1, <2>1, <2>2, <3>1, EmptySeq
    <3>3. n <= 1
      BY <1>1, <3>1
    <3> QED
      BY <3>1, <3>2, <3>3
  <2> QED
    BY <2>1, <2>2
<1>3. Len(s) \in Nat /\ (s = <<>> <=> Len(s) = 0)
  BY EmptySeq, LenProperties
<1>4. h = <<>> => IsPrefix(h, s)
  <2> SUFFICES ASSUME h = <<>>
               PROVE  IsPrefix(<<>>, s)
    OBVIOUS
  <2>1. SubSeq(<<>>, 1, 0) = <<>> /\ SubSeq(s, 1, 0) = <<>>
    BY SubSeqEmpty
  <2>2. Len(<<>>) = 0 /\ 0 <= Len(s)
    BY <1>3, EmptySeq
  <2> QED
    BY <2>1, <2>2 DEF IsPrefix
<1>5. ASSUME h # <<>>, 1 <= Len(s)
      PROVE  SubSeq(h, 1, 1) = SubSeq(s, 1, 1) <=> s[1] = h[1]
  <2>1. h[1] \in Nat /\ s[1] \in Nat
    BY <1>1, <1>2, <1>3, <1>5, ElementOfSeq
  <2>2. SubSeq(h, 1, 1)[1] = h[1] /\ SubSeq(s, 1, 1)[1] = s[1]
    <3>1. \A k \in 1 .. 1 : h[k] \in Nat
      BY <2>1
    <3>2. \A k \in 1 .. 1 - 1 + 1 : SubSeq(h, 1, 1)[k] = h[1 + k - 1]
      BY <3>1, SubSeqProperties
    <3>3. \A k \in 1 .. 1 : s[k] \in Nat
      BY <2>1
    <3>4. \A k \in 1 .. 1 - 1 + 1 : SubSeq(s, 1, 1)[k] = s[1 + k - 1]
      BY <3>3, SubSeqProperties
    <3> QED
      BY <3>2, <3>4
  <2>3. s[1] = h[1] => SubSeq(h, 1, 1) = SubSeq(s, 1, 1)
    BY <1>1, <1>2, <1>3, <1>5, SameStart
  <2> QED
    BY <2>2, <2>3
<1>6. ASSUME h # <<>>, IsPrefix(h, s)
      PROVE  s # <<>> /\ s[1] = h[1]
  <2>1. 1 <= Len(s) /\ SubSeq(h, 1, 1) = SubSeq(s, 1, 1)
    BY <1>2, <1>6 DEF IsPrefix
  <2> QED
    BY <1>3, <1>5, <1>6, <2>1
<1>7. ASSUME h # <<>>, s # <<>>, s[1] = h[1]
      PROVE  IsPrefix(h, s)
  <2>1. 1 <= Len(s)
    BY <1>3, <1>7
  <2>2. SubSeq(h, 1, 1) = SubSeq(s, 1, 1)
    BY <1>5, <1>7, <2>1
  <2> QED
    BY <1>2, <1>7, <2>1, <2>2 DEF IsPrefix
<1> QED
  BY <1>4, <1>6, <1>7

LEMMA WriteKeepsPast ==
    ASSUME FilesInv, Write, NEW c \in CursorType, NEW S, Past(c, S)
    PROVE  Past(c, S)'
<1>1. /\ live' = live /\ old' = old /\ kind' = kind /\ written' = written + 1
      /\ c.ino \in Inodes /\ c.at \in Nat /\ c.head \in Digests /\ NoFile \notin Inodes
      /\ live \in Inodes \union {NoFile} /\ old \in Inodes \union {NoFile}
      /\ written \in Nat
  BY WriteAppends, Constants, FileIs DEF CursorType, FilesInv
<1>2. ASSUME NEW i \in Inodes
      PROVE  /\ Len(content[i]) \in Nat /\ Len(content'[i]) \in Nat
             /\ Len(content[i]) <= Len(content'[i])
             /\ content[i] = <<>> <=> Len(content[i]) = 0
             /\ \A k \in 1 .. Len(content[i]) : content'[i][k] = content[i][k]
             /\ \A k \in 1 .. Len(content'[i]) :
                   content'[i][k] <= written => k <= Len(content[i])
             /\ content'[i] = <<>> <=> Len(content'[i]) = 0
  <2>1. Len(content[i]) \in Nat /\ (content[i] = <<>> <=> Len(content[i]) = 0)
    BY FileIs
  <2>2. FilesInv'
    BY WriteFiles
  <2>3. content'[i] \in Seq(Nat)
    BY <1>2, WriteAppends
  <2>4. Len(content'[i]) \in Nat /\ (content'[i] = <<>> <=> Len(content'[i]) = 0)
    BY <2>3, EmptySeq, LenProperties
  <2>5. \A k \in 1 .. Len(content[i]) : content'[i][k] = content[i][k]
    BY WriteAppends
  <2>6. CASE i = fd
    <3>1. Len(content'[i]) = Len(content[i]) + 1 /\ content'[i][Len(content[i]) + 1] = written + 1
      BY <2>6, WriteAppends
    <3>2. \A k \in 1 .. Len(content'[i]) :
              content'[i][k] <= written => k <= Len(content[i])
      BY <1>1, <2>1, <2>4, <3>1
    <3> QED
      BY <2>1, <2>4, <2>5, <3>1, <3>2
  <2>7. CASE i # fd
    <3>1. content'[i] = content[i]
      BY <2>7, WriteAppends
    <3> QED
      BY <2>1, <3>1
  <2> QED
    BY <2>6, <2>7
<1>3. ASSUME c.head # <<>>, NEW i \in Inodes, content'[i] # <<>>, content'[i][1] = c.head[1]
      PROVE  content[i] # <<>> /\ content[i][1] = c.head[1]
  <2>1. c.head[1] <= written /\ 1 \in 1 .. Len(content'[i])
    BY <1>1, <1>2, <1>3 DEF Past
  <2>2. 1 <= Len(content[i])
    BY <1>2, <1>3, <2>1
  <2> QED
    BY <1>2, <1>3, <2>2
<1>4. ASSUME Follows(c, c.ino)', c.at > 0
      PROVE  Follows(c, c.ino)
  <2>1. CASE c.head = <<>>
    <3>1. c.ino = old /\ c.at <= Len(content[old])
      BY <1>4, <2>1 DEF Past
    <3> QED
      BY <1>1, <2>1, <3>1, FileIs, HeadTells DEF Follows
  <2>2. CASE c.head # <<>>
    <3>1. content'[c.ino] # <<>> /\ content'[c.ino][1] = c.head[1]
      <4>1. content'[c.ino] \in Seq(Nat) /\ IsPrefix(c.head, content'[c.ino])
        BY <1>1, <1>4, WriteAppends DEF Follows
      <4> QED
        BY <1>1, <2>2, <4>1, HeadTells
    <3>2. content[c.ino] # <<>> /\ content[c.ino][1] = c.head[1]
      BY <1>1, <1>3, <2>2, <3>1
    <3>3. c.at <= Len(content[c.ino])
      BY <1>1, <2>2, <3>2 DEF Past
    <3> QED
      BY <1>1, <2>2, <3>2, <3>3, FileIs, HeadTells DEF Follows
  <2> QED
    BY <2>1, <2>2
<1>5. ASSUME Follows(c, c.ino)', NEW k \in 1 .. c.at
      PROVE  content'[c.ino][k] \in S \union Excused
  <2>1. Follows(c, c.ino)
    BY <1>1, <1>4, <1>5
  <2>2. content[c.ino][k] \in S \union Excused /\ c.at <= Len(content[c.ino])
    BY <2>1 DEF Past, Follows
  <2>3. k \in 1 .. Len(content[c.ino])
    BY <1>1, <1>2, <2>2
  <2> QED
    BY <1>1, <1>2, <2>2, <2>3
<1>6. ASSUME c.head # <<>>
      PROVE  /\ c.head[1] \in 1 .. written'
             /\ \A i \in {live, c.ino} \ {NoFile} :
                   content'[i] # <<>> /\ content'[i][1] = c.head[1] =>
                       i = c.ino /\ c.at <= Len(content'[i])
  <2>1. c.head[1] \in 1 .. written'
    BY <1>1, <1>6 DEF Past
  <2>2. ASSUME NEW i \in {live, c.ino} \ {NoFile},
               content'[i] # <<>>, content'[i][1] = c.head[1]
        PROVE  i = c.ino /\ c.at <= Len(content'[i])
    <3>1. i \in Inodes
      BY <1>1
    <3>2. i = c.ino /\ c.at <= Len(content[i])
      BY <1>3, <1>6, <2>2, <3>1 DEF Past
    <3> QED
      BY <1>1, <1>2, <3>1, <3>2
  <2> QED
    BY <2>1, <2>2
<1>7. ASSUME c.head = <<>>, c.at > 0
      PROVE  c.ino = old /\ c.at <= Len(content'[old])
  BY <1>1, <1>2, <1>7 DEF Past
<1>8. Excused' = Excused
  BY <1>1 DEF Excused
<1> QED
  BY <1>1, <1>5, <1>6, <1>7, <1>8 DEF Past

LEMMA RotateKeepsPast ==
    ASSUME FilesInv, Rename \/ Create \/ Reopen \/ CopyTruncate,
           NEW c \in CursorType, NEW S, Past(c, S),
           Rename => c.ino # old, CopyTruncate => c.ino = live
    PROVE  Past(c, S)'
<1>1. /\ content \in [Inodes -> Seq(Nat)] /\ Len(<<>>) = 0 /\ live # old
      /\ c.ino \in Inodes /\ c.at \in Nat /\ NoFile \notin Inodes
  BY EmptySeq, Constants DEF CursorType, FilesInv
<1>2. CASE Rename
  BY <1>1, <1>2 DEF Rename, Past, Follows, Excused
<1>3. CASE Create
  <2>1. PICK i \in Inodes \ {old, fd} :
            live' = i /\ content' = [content EXCEPT ![i] = <<>>]
    BY <1>3 DEF Create
  <2>2. old' = old /\ old # i /\ kind' = kind /\ written' = written
    BY <1>3, <2>1 DEF Create
  <2>3. content'[i] = <<>> /\ \A j \in Inodes : j # i => content'[j] = content[j]
    BY <1>1, <2>1
  <2>4. ASSUME Follows(c, c.ino)', NEW k \in 1 .. c.at
        PROVE  content'[c.ino][k] \in S \union Excused
    <3>1. c.ino # i
      BY <1>1, <2>3, <2>4 DEF Follows
    <3>2. content'[c.ino] = content[c.ino] /\ Follows(c, c.ino)
      BY <1>1, <2>3, <2>4, <3>1 DEF Follows
    <3> QED
      BY <2>4, <3>2 DEF Past
  <2>5. ASSUME c.head # <<>>
        PROVE  /\ c.head[1] \in 1 .. written
               /\ \A j \in {i, c.ino} \ {NoFile} :
                     content'[j] # <<>> /\ content'[j][1] = c.head[1] =>
                         j = c.ino /\ c.at <= Len(content'[j])
    BY <1>1, <2>3, <2>5 DEF Past
  <2>6. ASSUME c.head = <<>>, c.at > 0
        PROVE  c.ino = old /\ c.at <= Len(content'[old])
    BY <1>1, <2>2, <2>3, <2>6 DEF Past
  <2>7. Excused' = Excused
    BY <2>2 DEF Excused
  <2> QED
    BY <2>1, <2>2, <2>4, <2>5, <2>6, <2>7 DEF Past
<1>4. CASE Reopen
  BY <1>4 DEF Reopen, Past, Follows, Excused
<1>5. CASE CopyTruncate
  <2>1. PICK i \in Inodes \ {live} :
            old' = i /\ content' = [content EXCEPT ![i] = content[live], ![live] = <<>>]
    BY <1>5 DEF CopyTruncate
  <2>2. live' = live /\ live \in Inodes /\ c.ino = live /\ kind' = kind /\ written' = written
    BY <1>5 DEF CopyTruncate, MayRotate, FilesInv
  <2>3. content'[live] = <<>>
    BY <2>1, <2>2, <1>1
  <2>4. Follows(c, c.ino)' => c.at = 0
    BY <1>1, <2>2, <2>3 DEF Follows
  <2>5. c.head # <<>> => c.head[1] \in 1 .. written
    BY DEF Past
  <2>6. ~(c.head = <<>> /\ c.at > 0)
    BY <1>1, <2>2 DEF Past
  <2> QED
    BY <1>1, <2>2, <2>3, <2>4, <2>5, <2>6 DEF Past
<1> QED
  BY <1>2, <1>3, <1>4, <1>5

\* When the log is turned over, neither the cursor nor a pass is at the copy
\* that goes.
LEMMA RotationFinds ==
    ASSUME FilesInv, TypesInv, SkipInv, KeepsPace, Rename \/ CopyTruncate
    PROVE  /\ cursor # NoCursor => /\ Rename => cursor.ino # old
                                   /\ CopyTruncate => cursor.ino = live
           /\ \A r \in Readers : Current(r) /\ job[r].to # NoCursor =>
                 /\ Rename => job[r].to.ino # old
                 /\ CopyTruncate => job[r].to.ino = live
<1>1. MayRotate /\ kind \in Kinds /\ live # old
  BY DEF Rename, CopyTruncate, FilesInv
<1>2. \/ "rename" \notin kind.rotations
      \/ "outpaced" \notin kind.faults
  BY <1>1 DEF KeepsPace
<1>3. CASE "outpaced" \notin kind.faults
  <2>1. cursor # NoCursor /\ cursor.ino # old
    BY <1>1, <1>3, RotationWaits
  <2>2. cursor.ino = live
    BY <1>3, <2>1 DEF SkipInv, Kept
  <2>3. \A r \in Readers : Current(r) /\ job[r].to # NoCursor => job[r].to.ino = live
    BY <1>1, <1>3, <2>1, <2>2 DEF SkipInv, SkipBy, Near
  <2> QED
    BY <1>1, <2>2, <2>3
<1>4. CASE "rename" \notin kind.rotations
  BY <1>1, <1>4 DEF SkipInv, Kept, SkipBy, Near
<1> QED
  BY <1>2, <1>3, <1>4

LEMMA HostKeepsPast ==
    ASSUME FilesInv, HostStep, NEW c \in CursorType, NEW S, Past(c, S),
           Rename => c.ino # old, CopyTruncate => c.ino = live
    PROVE  Past(c, S)'
  BY WriteKeepsPast, RotateKeepsPast DEF HostStep

\* Where the names of the files go.
LEMMA NamesMove ==
    ASSUME FilesInv, HostStep
    PROVE  /\ Write \/ Reopen => live' = live /\ old' = old
           /\ Rename => /\ live' = NoFile /\ old' = live /\ MayRotate
                        /\ "rename" \in kind.rotations
           /\ Create => live = NoFile /\ live' # NoFile /\ old' = old
           /\ CopyTruncate => live' = live /\ live # NoFile /\ MayRotate
           /\ Write \/ Rename \/ Create \/ Reopen \/ CopyTruncate
  BY Constants DEF HostStep, Write, Rename, Create, Reopen, CopyTruncate, MayRotate, FilesInv

LEMMA HostKeepsNear ==
    ASSUME FilesInv, TypesInv, SkipInv, HostStep
    PROVE  /\ "rename" \notin kind.rotations => live' # NoFile
           /\ cursor # NoCursor => Kept(cursor)'
           /\ \A r \in Readers : Current(r) /\ job[r].to # NoCursor => Near(cursor, job[r].to)'
<1>1. kind' = kind /\ cursor' = cursor /\ job' = job
  BY HostUnchanged
<1>2. /\ "rename" \notin kind.rotations =>
             live # NoFile /\ live' = live
      /\ "outpaced" \notin kind.faults =>
             \/ live' = live /\ old' = old
             \/ live = NoFile /\ old' = old
             \/ cursor # NoCursor /\ cursor.ino # old /\ old' = live
             \/ cursor # NoCursor /\ cursor.ino # old /\ live' = live
  BY NamesMove, RotationWaits DEF SkipInv
<1>3. cursor # NoCursor => cursor.ino # NoFile
  BY Constants DEF TypesInv, CursorType
<1>4. \A r \in Readers : job[r].to # NoCursor => job[r].to.ino # NoFile
  BY Constants DEF TypesInv, JobType, CursorType
<1>5. cursor # NoCursor => Kept(cursor)'
  <2> SUFFICES ASSUME cursor # NoCursor
               PROVE  Kept(cursor)'
    OBVIOUS
  <2>1. Kept(cursor)
    BY DEF SkipInv
  <2> QED
    BY <1>1, <1>2, <1>3, <2>1 DEF Kept
<1>6. ASSUME NEW r \in Readers, Current(r), job[r].to # NoCursor
      PROVE  Near(cursor, job[r].to)'
  <2>1. Near(cursor, job[r].to)
    BY <1>6 DEF SkipInv, SkipBy
  <2> QED
    BY <1>1, <1>2, <1>4, <1>6, <2>1 DEF Near
<1> QED
  BY <1>2, <1>5, <1>6

LEMMA HostSkip ==
    ASSUME Invariant, SkipInv, KeepsPace, HostStep
    PROVE  SkipInv'
<1>1. /\ FilesInv /\ TypesInv /\ kind \in Kinds
      /\ cursor' = cursor /\ pc' = pc /\ job' = job /\ kind' = kind /\ Gone' = Gone
      /\ \A r \in Readers : Rows(r)' = Rows(r) /\ Current(r)' = Current(r)
  BY HostUnchanged DEF Invariant, FilesInv
<1>2. /\ "rename" \notin kind'.rotations => live' # NoFile
      /\ cursor # NoCursor => Kept(cursor)'
      /\ \A r \in Readers : Current(r) /\ job[r].to # NoCursor => Near(cursor, job[r].to)'
  BY <1>1, HostKeepsNear
<1>3. /\ cursor # NoCursor => /\ Rename => cursor.ino # old
                              /\ CopyTruncate => cursor.ino = live
      /\ \A r \in Readers : Current(r) /\ job[r].to # NoCursor =>
            /\ Rename => job[r].to.ino # old
            /\ CopyTruncate => job[r].to.ino = live
  <2>1. CASE Rename \/ CopyTruncate
    BY <1>1, <2>1, RotationFinds
  <2>2. CASE ~Rename /\ ~CopyTruncate
    BY <2>2
  <2> QED
    BY <2>1, <2>2
<1>4. cursor # NoCursor => Past(cursor, Gone)'
  <2> SUFFICES ASSUME cursor # NoCursor
               PROVE  Past(cursor, Gone)'
    OBVIOUS
  <2>1. PICK c, S : c = cursor /\ S = Gone
    OBVIOUS
  <2>2. c' = cursor' /\ S = Gone'
    BY <1>1, <2>1
  <2>3. /\ c \in CursorType /\ Past(c, S)
        /\ Rename => c.ino # old
        /\ CopyTruncate => c.ino = live
    BY <1>1, <1>3, <2>1 DEF TypesInv, SkipInv
  <2>4. Past(c, S)'
    BY <1>1, <2>3, HostKeepsPast
  <2> QED
    BY <2>2, <2>4
<1>5. ASSUME NEW r \in Readers, Current(r), job[r].to # NoCursor
      PROVE  Past(job[r].to, Gone \union Rows(r))'
  <2>1. PICK c, S : c = job[r].to /\ S = Gone \union Rows(r)
    OBVIOUS
  <2>2. c' = job'[r].to /\ S = Gone' \union Rows(r)'
    BY <1>1, <2>1
  <2>3. /\ c \in CursorType /\ Past(c, S)
        /\ Rename => c.ino # old
        /\ CopyTruncate => c.ino = live
    BY <1>1, <1>3, <1>5, <2>1 DEF TypesInv, JobType, SkipInv, SkipBy
  <2>4. Past(c, S)'
    BY <1>1, <2>3, HostKeepsPast
  <2> QED
    BY <2>2, <2>4
<1>6. ASSUME NEW r \in Readers, Current(r), pc[r] = "newest"
      PROVE  Len(content'[live']) = OldLines
  <2>1. kind.journal /\ "between" \notin kind.faults
    BY <1>1, <1>6 DEF KeepsPace, TypesInv
  <2>2. Reopen
    <3>1. live # NoFile
      BY <1>1, <2>1, Constants DEF FilesInv
    <3> QED
      BY <1>6, <2>1, <3>1 DEF HostStep, Write, Rename, Create, CopyTruncate, MayRotate
  <2> QED
    BY <1>6, <2>2 DEF Reopen, SkipInv, SkipBy
<1>7. ASSUME NEW r \in Readers, Current(r)'
      PROVE  SkipBy(r)'
  <2>1. Current(r)
    BY <1>1, <1>7
  <2> QED
    BY <1>1, <1>2, <1>5, <1>6, <2>1 DEF SkipBy
<1> QED
  BY <1>1, <1>2, <1>4, <1>7 DEF SkipInv

LEMMA PastMore ==
    ASSUME NEW c, NEW S, NEW T, S \subseteq T, Past(c, S)
    PROVE  Past(c, T)
  BY DEF Past

LEMMA CursorPast ==
    ASSUME FilesInv, live \in Inodes, NEW n \in 0 .. Len(content[live]), NEW S,
           \A k \in 1 .. n : content[live][k] \in S \union Excused
    PROVE  Past(CursorAt(live, n), S)
<1>1. PICK c : c = CursorAt(live, n)
  OBVIOUS
<1>2. c.ino = live /\ c.at = n /\ c.head = HeadAt(live, n)
  BY <1>1, CursorIs
<1>3. n \in Nat /\ Len(content[live]) \in Nat /\ n <= Len(content[live])
  BY FileIs
<1>4. CASE n = 0
  <2>1. c.head = <<>>
    BY <1>2, <1>4, HeadIs
  <2> QED
    BY <1>1, <1>2, <1>4, <2>1 DEF Past
<1>5. CASE n > 0
  <2>1. c.head[1] = content[live][1] /\ Len(c.head) = 1
    BY <1>2, <1>5, HeadIs
  <2>2. c.head # <<>>
    BY <2>1, EmptySeq
  <2>3. content[live][1] \in 1 .. written
    BY <1>3, <1>5 DEF FilesInv
  <2> QED
    BY <1>1, <1>2, <1>3, <2>1, <2>2, <2>3 DEF Past
<1> QED
  BY <1>3, <1>4, <1>5

LEMMA FilePast ==
    ASSUME FilesInv, live \in Inodes, NEW c \in CursorType \union {NoCursor}, NEW S,
           c # NoCursor => Past(c, S)
    PROVE  LET R == FileReply(c) IN
           /\ Past(R.to, S \union LinesOf(R.lines))
           /\ \/ R.to.ino = live
              \/ c # NoCursor /\ R.to.ino = c.ino /\ c.ino = old
<1> DEFINE R == FileReply(c)
           n == R.to.at
           L == LinesOf(R.lines)
<1>1. \/ /\ R.to = CursorAt(live, n) /\ n \in Start(c) .. Len(content[live])
         /\ \A m \in Start(c) + 1 .. n :
               \E k \in 1 .. Len(R.lines) : R.lines[k] = content[live][m]
      \/ /\ c # NoCursor /\ c.ino # live /\ Follows(c, old) /\ old \in Inodes
         /\ R.to \in CursorType /\ R.to.ino = c.ino /\ R.to.head = c.head
         /\ n > c.at /\ n <= Len(content[old])
         /\ \A m \in c.at + 1 .. n :
               \E k \in 1 .. Len(R.lines) : R.lines[k] = content[old][m]
  BY FileReplyIs
<1> HIDE DEF R
<1>2. CASE /\ R.to = CursorAt(live, n) /\ n \in Start(c) .. Len(content[live])
           /\ \A m \in Start(c) + 1 .. n :
                 \E k \in 1 .. Len(R.lines) : R.lines[k] = content[live][m]
  <2>1. /\ Start(c) \in Nat
        /\ Start(c) > 0 => c # NoCursor /\ Follows(c, live) /\ Start(c) = c.at
    BY DEF Start, CursorType
  <2>2. Len(content[live]) \in Nat
    BY FileIs
  <2>3. n \in 0 .. Len(content[live])
    BY <1>2, <2>1, <2>2
  <2>4. ASSUME NEW k \in 1 .. n
        PROVE  content[live][k] \in S \union L \union Excused
    <3>1. CASE k <= Start(c)
      <4>1. c # NoCursor /\ Follows(c, live) /\ k \in 1 .. c.at /\ c.ino = live
        BY <2>1, <2>3, <3>1 DEF Follows
      <4> QED
        BY <4>1 DEF Past
    <3>2. CASE ~(k <= Start(c))
      <4>1. k \in Start(c) + 1 .. n
        BY <2>1, <2>3, <3>2
      <4> QED
        BY <1>2, <4>1 DEF LinesOf
    <3> QED
      BY <3>1, <3>2
  <2>5. CursorAt(live, n).ino = live
    BY DEF CursorAt
  <2> HIDE DEF L
  <2>6. Past(CursorAt(live, n), S \union L)
    BY <2>3, <2>4, CursorPast
  <2> QED
    BY <1>2, <2>5, <2>6 DEF R, L
<1>3. CASE /\ c # NoCursor /\ c.ino # live /\ Follows(c, old) /\ old \in Inodes
           /\ R.to \in CursorType /\ R.to.ino = c.ino /\ R.to.head = c.head
           /\ n > c.at /\ n <= Len(content[old])
           /\ \A m \in c.at + 1 .. n :
                 \E k \in 1 .. Len(R.lines) : R.lines[k] = content[old][m]
  <2>1. /\ c \in CursorType /\ c.ino = old /\ c.at \in Nat /\ n \in Nat
        /\ Len(content[old]) \in Nat /\ Past(c, S)
    BY <1>3, FileIs DEF CursorType, Follows
  <2>2. ASSUME NEW k \in 1 .. n
        PROVE  content[old][k] \in S \union L \union Excused
    <3>1. CASE k <= c.at
      <4>1. k \in 1 .. c.at
        BY <2>1, <3>1
      <4> QED
        BY <1>3, <2>1, <4>1 DEF Past
    <3>2. CASE ~(k <= c.at)
      <4>1. k \in c.at + 1 .. n
        BY <2>1, <3>2
      <4> QED
        BY <1>3, <4>1 DEF LinesOf
    <3> QED
      BY <3>1, <3>2
  <2> HIDE DEF L
  <2>3. ASSUME c.head # <<>>
        PROVE  /\ c.head[1] \in 1 .. written
               /\ \A i \in {live, old} \ {NoFile} :
                     content[i] # <<>> /\ content[i][1] = c.head[1] => i = old
    BY <2>1, <2>3 DEF Past
  <2>4. Past(R.to, S \union L)
    BY <1>3, <2>1, <2>2, <2>3 DEF Past
  <2> QED
    BY <1>3, <2>1, <2>4 DEF R, L
<1> QED
  BY <1>1, <1>2, <1>3

LEMMA JournalPast ==
    ASSUME FilesInv, kind.journal, NEW c \in CursorType \union {NoCursor}, NEW S,
           Good(c), c # NoCursor => Past(c, S)
    PROVE  LET R == JournalReply(c) IN
           /\ R.to # NoCursor => /\ R.to.ino = live
                                 /\ Past(R.to, S \union LinesOf(R.lines))
           /\ c = NoCursor /\ R.lines = <<>> => Len(content[live]) = OldLines
<1> DEFINE R == JournalReply(c)
           n == R.to.at
           L == LinesOf(R.lines)
           start == IF c = NoCursor THEN OldLines ELSE c.at
<1>1. /\ live \in Inodes /\ old = NoFile /\ Len(content[live]) = written
      /\ \A k \in 1 .. Len(content[live]) : content[live][k] = k
      /\ OldLines \in Nat /\ written \in Nat /\ OldLines <= written
      /\ Len(content[live]) \in Nat
  BY FileIs, Constants DEF FilesInv
<1>2. /\ start \in Nat
      /\ c # NoCursor => Follows(c, live) /\ c.ino = live
  BY <1>1 DEF Good, CursorType
<1>3. ASSUME R.to # NoCursor
      PROVE  R.to.ino = live /\ Past(R.to, S \union L)
  <2>1. /\ R.to = CursorAt(live, n) /\ n \in start + 1 .. Len(content[live])
        /\ \A m \in start + 1 .. n :
              \E k \in 1 .. Len(R.lines) : R.lines[k] = content[live][m]
    BY <1>1, <1>3, JournalReplyIs
  <2> HIDE DEF R
  <2>2. n \in 0 .. Len(content[live])
    BY <1>1, <1>2, <2>1
  <2>3. ASSUME NEW k \in 1 .. n
        PROVE  content[live][k] \in S \union L \union Excused
    <3>1. CASE k <= start /\ c = NoCursor
      <4>1. content[live][k] = k /\ k \in 1 .. OldLines
        BY <1>1, <2>2, <3>1
      <4> QED
        BY <4>1 DEF Excused
    <3>2. CASE k <= start /\ c # NoCursor
      BY <1>2, <2>2, <3>2 DEF Past
    <3>3. CASE ~(k <= start)
      <4>1. k \in start + 1 .. n
        BY <1>2, <2>2, <3>3
      <4> QED
        BY <2>1, <4>1 DEF LinesOf
    <3> QED
      BY <3>1, <3>2, <3>3
  <2>4. CursorAt(live, n).ino = live
    BY DEF CursorAt
  <2> HIDE DEF L
  <2>5. Past(CursorAt(live, n), S \union L)
    BY <1>1, <2>2, <2>3, CursorPast
  <2> QED
    BY <2>1, <2>4, <2>5
<1>4. ASSUME c = NoCursor, R.lines = <<>>
      PROVE  Len(content[live]) = OldLines
  <2>1. Took(live, OldLines, JournalBudget) = <<>>
    BY <1>4 DEF JournalReply
  <2> DEFINE last == IF OldLines + JournalBudget < Len(content[live])
                       THEN OldLines + JournalBudget ELSE Len(content[live])
  <2>2. SubSeq(content[live], OldLines + 1, last) = <<>>
    BY <2>1 DEF Took
  <2> SUFFICES ASSUME Len(content[live]) > OldLines
               PROVE  FALSE
    BY <1>1
  <2>3. /\ OldLines + 1 \in Nat /\ last \in Nat /\ OldLines + 1 <= last
        /\ last <= Len(content[live])
    BY <1>1, Constants
  <2> HIDE DEF last
  <2>4. \A k \in OldLines + 1 .. last : content[live][k] \in Nat
    BY <1>1, <2>3, FileIs
  <2>5. Len(SubSeq(content[live], OldLines + 1, last)) = last - (OldLines + 1) + 1
    BY <2>3, <2>4, SubSeqProperties
  <2> QED
    BY <1>1, <2>2, <2>3, <2>5, EmptySeq
<1> QED
  BY <1>3, <1>4

LEMMA CarriedPast ==
    ASSUME host' = host, cursor' = cursor, NEW r \in Readers, NEW c, job'[r].to = c
    PROVE  /\ \A S : Past(c, S) /\ (Gone \union Rows(r))' = S =>
                         Past(job[r].to, Gone \union Rows(r))'
           /\ Near(cursor, c) => Near(cursor, job[r].to)'
<1>1. /\ kind' = kind /\ content' = content /\ live' = live /\ old' = old /\ written' = written
  BY DEF host
<1>2. \A S : Past(c, S) /\ (Gone \union Rows(r))' = S =>
                 Past(job[r].to, Gone \union Rows(r))'
  BY <1>1 DEF Past, Follows, Excused
<1>3. Near(cursor, c) => Near(cursor, job[r].to)'
  BY <1>1 DEF Near
<1> QED
  BY <1>2, <1>3

\* A step that leaves the cursor leaves what it is past, for every other pass.
LEMMA OthersSkip ==
    ASSUME SkipInv, NEW r \in Readers, StepOf(r), cursor' = cursor, Gone' = Gone,
           NEW q \in Readers, q # r, Current(q)'
    PROVE  SkipBy(q)'
<1>1. /\ pc'[q] = pc[q] /\ job'[q] = job[q] /\ Rows(q)' = Rows(q) /\ Current(q)
      /\ host' = host /\ content' = content /\ live' = live
  BY OthersStay DEF StepOf, host
<1>2. SkipBy(q)
  BY <1>1 DEF SkipInv
<1>3. ASSUME job[q].to # NoCursor
      PROVE  Near(cursor, job[q].to)' /\ Past(job[q].to, Gone \union Rows(q))'
  <2>1. Near(cursor, job[q].to) /\ Past(job[q].to, Gone \union Rows(q))
    BY <1>2, <1>3 DEF SkipBy
  <2>2. PICK c, S : c = job[q].to /\ S = Gone \union Rows(q)
    OBVIOUS
  <2>3. Near(cursor, c) /\ Past(c, S) /\ job'[q].to = c /\ (Gone \union Rows(q))' = S
    BY <1>1, <2>1, <2>2
  <2> QED
    BY <1>1, <2>3, CarriedPast
<1> QED
  BY <1>1, <1>2, <1>3 DEF SkipBy

LEMMA SkipKeeps ==
    ASSUME SkipInv, NEW r \in Readers, StepOf(r), cursor' = cursor, Gone' = Gone,
           Current(r)' => SkipBy(r)'
    PROVE  SkipInv'
<1>1. /\ kind' = kind /\ content' = content /\ live' = live /\ old' = old /\ written' = written
  BY DEF StepOf, host
<1>2. cursor # NoCursor => Kept(cursor)' /\ Past(cursor, Gone)'
  BY <1>1 DEF SkipInv, Kept, Past, Follows, Excused
<1>3. \A q \in Readers : Current(q)' => SkipBy(q)'
  BY OthersSkip
<1> QED
  BY <1>1, <1>2, <1>3 DEF SkipInv

LEMMA PlanSkip ==
    ASSUME Invariant, SkipInv, NEW r \in Readers, Plan(r)
    PROVE  SkipInv'
<1> DEFINE j == [NoJob EXCEPT !.from = cursor, !.to = cursor]
<1>1. /\ pc[r] = "idle" /\ UNCHANGED <<cursor, counted, crashed>> /\ host' = host
      /\ pc' = [pc EXCEPT ![r] = "read"] /\ job' = [job EXCEPT ![r] = j]
  BY DEF Plan
<1>2. j \in JobType /\ j.to = cursor /\ \A l \in Lines : j.found[l] = 0
  BY NoJobIs DEF Invariant, TypesInv
<1> HIDE DEF j
<1>3. StepOf(r) /\ pc'[r] = "read" /\ job'[r] = j
  BY <1>1, <1>2, StepIs DEF Labels, Invariant
<1>4. Rows(r)' = {} /\ Gone' = Gone
  <2>1. Rows(r)' = {}
    BY <1>2, <1>3 DEF Rows
  <2> QED
    BY <1>1, <1>3, <2>1, GoneSame
<1>5. ASSUME cursor # NoCursor
      PROVE  Near(cursor, job[r].to)' /\ Past(job[r].to, Gone \union Rows(r))'
  <2>1. PICK c, S : c = cursor /\ S = Gone
    OBVIOUS
  <2>2. Near(cursor, c) /\ Past(c, S)
    BY <1>5, <2>1 DEF SkipInv, Kept, Near
  <2>3. job'[r].to = c /\ (Gone \union Rows(r))' = S
    BY <1>2, <1>3, <1>4, <2>1
  <2> QED
    BY <1>1, <2>2, <2>3, CarriedPast
<1>6. SkipBy(r)'
  BY <1>1, <1>2, <1>3, <1>5 DEF SkipBy
<1> QED
  BY <1>1, <1>3, <1>4, <1>6, SkipKeeps

LEMMA IdleSkip ==
    ASSUME Invariant, SkipInv, NEW r \in Readers, host' = host, cursor' = cursor,
           Gone' = Gone, Idle(r)
    PROVE  SkipInv'
<1>1. StepOf(r) /\ ~Current(r)'
  BY IdleIs DEF Invariant, Current, Reading
<1> QED
  BY <1>1, SkipKeeps

LEMMA IdleGone ==
    ASSUME Invariant, NEW r \in Readers, host' = host, UNCHANGED <<counted, crashed>>,
           pc[r] # "store", Idle(r)
    PROVE  Gone' = Gone
<1>1. StepOf(r) /\ pc'[r] = "idle"
  BY IdleIs DEF Invariant
<1> QED
  BY <1>1, GoneSame

LEMMA UnavailableSkip ==
    ASSUME Invariant, SkipInv, NEW r \in Readers, Unavailable(r)
    PROVE  SkipInv'
<1>1. /\ pc[r] = "read" /\ host' = host /\ UNCHANGED <<cursor, counted, crashed>>
  BY DEF Unavailable
<1>2. CASE Idle(r)
  BY <1>1, <1>2, IdleGone, IdleSkip
<1>3. CASE pc' = [pc EXCEPT ![r] = "claim"] /\ UNCHANGED job
  <2>1. pc'[r] = "claim" /\ StepOf(r) /\ job'[r] = job[r]
    BY <1>1, <1>3 DEF StepOf, Labels, Invariant, TypesInv
  <2>2. Gone' = Gone /\ Rows(r)' = Rows(r)
    BY <1>1, <2>1, GoneSame DEF Rows
  <2>3. Current(r)' => Current(r)
    BY <1>1, <2>1 DEF Reading, Current
  <2>4. ASSUME Current(r), job[r].to # NoCursor
        PROVE  Near(cursor, job[r].to)' /\ Past(job[r].to, Gone \union Rows(r))'
    <3>1. PICK c, S : c = job[r].to /\ S = Gone \union Rows(r)
      OBVIOUS
    <3>2. Near(cursor, c) /\ Past(c, S)
      BY <2>4, <3>1 DEF SkipInv, SkipBy
    <3>3. job'[r].to = c /\ (Gone \union Rows(r))' = S
      BY <2>1, <2>2, <3>1
    <3> QED
      BY <1>1, <3>2, <3>3, CarriedPast
  <2>5. Current(r)' => SkipBy(r)'
    BY <2>1, <2>3, <2>4 DEF SkipBy
  <2> QED
    BY <1>1, <2>1, <2>2, <2>5, SkipKeeps
<1> QED
  BY <1>2, <1>3 DEF Unavailable

LEMMA ReadSkip ==
    ASSUME Invariant, SkipInv, Orderly, NEW r \in Readers, Read(r)
    PROVE  SkipInv'
<1> DEFINE R == Reply(job[r].to)
           L == LinesOf(R.lines)
<1>1. /\ live \in Inodes /\ pc[r] = "read" /\ StepOf(r)
      /\ R.lines \in Seq(Nat) /\ R.to \in CursorType \union {NoCursor}
      /\ UNCHANGED <<cursor, counted, crashed>> /\ host' = host
      /\ job'[r].from = job[r].from /\ job'[r].to = R.to
      /\ job'[r].found = Finds(job[r].found, R.lines)
      /\ pc'[r] \in {"copies", "newest", "read", "claim"}
      /\ pc'[r] = "newest" => job[r].to = NoCursor /\ kind.journal /\ R.lines = <<>>
  BY ReadIs
<1> USE <1>1
<1>2. content' = content /\ live' = live
  BY DEF host
<1>3. Current(r)' => Current(r)
  BY DEF Reading, Current
<1>4. Gone' = Gone
  BY GoneSame
<1>5. ASSUME Current(r)
      PROVE  Rows(r)' = Rows(r) \union L
  <2>1. FilesInv /\ job[r].found \in [Lines -> {0, 1}]
    BY <1>5 DEF Invariant, FoundInv, FoundBy
  <2>2. /\ L \subseteq 1 .. written /\ L \intersect (Gone \union Rows(r)) = {}
        /\ \A k, m \in 1 .. Len(R.lines) : R.lines[k] = R.lines[m] => k = m
    BY <1>5, AnswerIs
  <2> QED
    BY <2>1, <2>2, FindsMore
<1>6. ASSUME Current(r)
      PROVE  SkipBy(r)'
  <2>1. PICK c, S : c = job[r].to /\ S = Gone \union Rows(r)
    OBVIOUS
  <2>2. /\ FilesInv /\ c \in CursorType \union {NoCursor} /\ live # old
        /\ cursor \in CursorType \union {NoCursor}
    BY <2>1 DEF Invariant, TypesInv, JobType, FilesInv
  <2>3. c # NoCursor => Near(cursor, c) /\ Past(c, S)
    BY <1>6, <2>1 DEF SkipInv, SkipBy
  <2>4. c = NoCursor => cursor = NoCursor
    BY <1>6, <2>1 DEF Invariant, FoundInv, FoundBy, Current
  <2>5. cursor # NoCursor => Kept(cursor)
    BY DEF SkipInv
  <2>6. R.to # NoCursor =>
            /\ Past(R.to, S \union L)
            /\ \/ R.to.ino = live
               \/ c # NoCursor /\ R.to.ino = c.ino /\ c.ino = old
    <3>1. CASE kind.journal
      <4>1. Good(c)
        <5>1. OnBy(r)
          BY <3>1 DEF Steady, Invariant, SteadyInv
        <5> QED
          BY <1>6, <2>1, <5>1 DEF OnBy
      <4> QED
        BY <2>1, <2>2, <2>3, <3>1, <4>1, JournalPast DEF Reply
    <3>2. CASE ~kind.journal
      BY <2>1, <2>2, <2>3, <3>2, FilePast DEF Reply
    <3> QED
      BY <3>1, <3>2
  <2>7. R.lines = <<>> /\ kind.journal /\ c = NoCursor => Len(content[live]) = OldLines
    <3> SUFFICES ASSUME R.lines = <<>>, kind.journal, c = NoCursor
                 PROVE  Len(content[live]) = OldLines
      OBVIOUS
    <3>1. Good(c)
      BY DEF Good
    <3> QED
      BY <2>1, <2>2, <3>1, JournalPast DEF Reply
  <2> HIDE DEF R, L
  <2>8. R.to # NoCursor => Near(cursor, R.to)
    BY <2>2, <2>3, <2>4, <2>5, <2>6 DEF Near, Kept
  <2>9. R.to # NoCursor => Near(cursor, job[r].to)' /\ Past(job[r].to, Gone \union Rows(r))'
    <3> SUFFICES ASSUME R.to # NoCursor
                 PROVE  Near(cursor, job[r].to)' /\ Past(job[r].to, Gone \union Rows(r))'
      OBVIOUS
    <3>1. PICK d, T : d = R.to /\ T = S \union L
      OBVIOUS
    <3>2. Near(cursor, d) /\ Past(d, T)
      BY <2>6, <2>8, <3>1
    <3>3. job'[r].to = d /\ (Gone \union Rows(r))' = T
      BY <1>4, <1>5, <1>6, <2>1, <3>1
    <3> QED
      BY <3>2, <3>3, CarriedPast
  <2>10. pc'[r] = "newest" => Len(content'[live']) = OldLines
    BY <1>2, <2>1, <2>7
  <2> QED
    BY <2>9, <2>10 DEF SkipBy
<1> QED
  BY <1>3, <1>4, <1>6, SkipKeeps

LEMMA ReadCopiesSkip ==
    ASSUME Invariant, SkipInv, NEW r \in Readers, ReadCopies(r)
    PROVE  SkipInv'
<1>1. PICK kept \in Seq(Nat) :
          /\ pc[r] = "copies" /\ StepOf(r)
          /\ UNCHANGED <<cursor, counted, crashed>> /\ host' = host
          /\ job'[r].from = job[r].from /\ job'[r].to = job[r].to
          /\ job'[r].found = Finds(job[r].found, kept)
          /\ pc'[r] \in {"read", "claim"}
  BY ReadCopiesIs
<1>2. Gone' = Gone
  BY <1>1, GoneSame
<1>3. Current(r)' => Current(r)
  BY <1>1 DEF Reading, Current
<1>4. Rows(r) \subseteq Rows(r)'
  <2>1. ASSUME NEW l \in Lines
        PROVE  Finds(job[r].found, kept)[l] \in Nat /\ Finds(job[r].found, kept)[l] >= job[r].found[l]
    <3>1. job[r].found \in [Lines -> Nat]
      BY DEF Invariant, TypesInv, JobType
    <3> QED
      BY <1>1, <2>1, <3>1, FindsCounts
  <2>2. \A l \in Lines : job[r].found[l] \in Nat
    BY DEF Invariant, TypesInv, JobType
  <2> QED
    BY <1>1, <2>1, <2>2 DEF Rows
<1>5. ASSUME Current(r), job[r].to # NoCursor
      PROVE  Near(cursor, job[r].to)' /\ Past(job[r].to, Gone \union Rows(r))'
  <2>1. PICK c, S, T : /\ c = job[r].to /\ S = Gone \union Rows(r)
                       /\ T = Gone \union Rows(r)'
    OBVIOUS
  <2>2. Near(cursor, c) /\ Past(c, S) /\ S \subseteq T
    BY <1>4, <1>5, <2>1 DEF SkipInv, SkipBy
  <2>3. job'[r].to = c /\ (Gone \union Rows(r))' = T
    BY <1>1, <1>2, <2>1
  <2>4. Past(c, T)
    BY <2>2, PastMore
  <2> QED
    BY <1>1, <2>2, <2>3, <2>4, CarriedPast
<1>6. Current(r)' => SkipBy(r)'
  BY <1>1, <1>3, <1>5 DEF SkipBy
<1> QED
  BY <1>1, <1>2, <1>6, SkipKeeps

LEMMA NewestSkip ==
    ASSUME Invariant, SkipInv, NEW r \in Readers, Newest(r)
    PROVE  SkipInv'
<1>1. /\ pc[r] = "newest" /\ host' = host /\ UNCHANGED <<cursor, counted, crashed>>
  BY DEF Newest
<1>2. CASE Idle(r)
  BY <1>1, <1>2, IdleGone, IdleSkip
<1>3. CASE ~Idle(r)
  <2>1. PICK c : c = CursorAt(live, Len(content[live]))
    OBVIOUS
  <2>2. PICK j : j = [job[r] EXCEPT !.to = c]
    OBVIOUS
  <2>3. pc' = [pc EXCEPT ![r] = "claim"] /\ job' = [job EXCEPT ![r] = j]
    BY <1>3, <2>1, <2>2 DEF Newest
  <2>4. /\ FilesInv /\ TypesInv /\ kind.journal /\ live \in Inodes /\ job[r] \in JobType
    BY <1>1 DEF Invariant, TypesInv, FilesInv
  <2>5. Len(content[live]) \in Nat /\ Len(content[live]) \in 0 .. Len(content[live])
    BY <2>4, FileIs
  <2>6. c \in CursorType /\ c.ino = live
    BY <2>1, <2>4, <2>5, CursorIs
  <2>7. j \in JobType /\ j.from = job[r].from /\ j.to = c /\ j.found = job[r].found
    BY <2>2, <2>4, <2>6 DEF JobType
  <2>8. StepOf(r) /\ pc'[r] = "claim" /\ job'[r] = j
    <3>1. TypesInv /\ "claim" \in Labels /\ j \in JobType /\ host' = host
      BY <1>1, <2>4, <2>7 DEF Labels
    <3> QED
      BY <2>3, <3>1, StepIs
  <2>9. Gone' = Gone /\ Rows(r)' = Rows(r)
    BY <1>1, <2>7, <2>8, GoneSame DEF Rows
  <2>10. Current(r)' => Current(r)
    BY <1>1, <2>7, <2>8 DEF Reading, Current
  <2>11. ASSUME Current(r)
         PROVE  Near(cursor, job[r].to)' /\ Past(job[r].to, Gone \union Rows(r))'
    <3>1. PICK S : S = Gone \union Rows(r)
      OBVIOUS
    <3>2. cursor = NoCursor /\ Len(content[live]) = OldLines
      BY <1>1, <2>11 DEF Invariant, FoundInv, FoundBy, SkipInv, SkipBy
    <3>3. \A k \in 1 .. Len(content[live]) : content[live][k] \in S \union Excused
      BY <2>4, <3>2 DEF FilesInv, Excused
    <3>4. Past(c, S) /\ Near(cursor, c)
      BY <2>1, <2>4, <2>5, <2>6, <3>2, <3>3, CursorPast DEF Near
    <3>5. job'[r].to = c /\ (Gone \union Rows(r))' = S
      BY <2>7, <2>8, <2>9, <3>1
    <3> QED
      BY <1>1, <3>4, <3>5, CarriedPast
  <2>12. Current(r)' => SkipBy(r)'
    BY <2>8, <2>10, <2>11 DEF SkipBy
  <2> QED
    BY <1>1, <2>8, <2>9, <2>12, SkipKeeps
<1> QED
  BY <1>2, <1>3

LEMMA ClaimSkip ==
    ASSUME Invariant, SkipInv, Orderly, NEW r \in Readers, Claim(r)
    PROVE  SkipInv'
<1>1. /\ pc[r] = "claim" /\ cursor = job[r].from /\ Put(r)
      /\ cursor' = IF job[r].to = NoCursor THEN cursor ELSE job[r].to
  BY DEF Claim
<1>2. /\ Current(r) /\ job[r].found \in [Lines -> {0, 1}]
      /\ Rows(r) \intersect Gone = {}
      /\ job[r].to = NoCursor => Rows(r) = {}
      /\ job[r].to \in CursorType \union {NoCursor} /\ NoCursor \notin CursorType
  BY <1>1, Constants DEF Invariant, TypesInv, JobType, Current, Reading, FoundInv, FoundBy
<1>3. \A q \in Readers \ {r} : pc[q] = "store" => Rows(q) \intersect Rows(r) = {}
  <2>1. \A q \in Readers : pc[q] = "store" => Rows(q) \subseteq Gone
    BY HeldIs DEF Gone
  <2> QED
    BY <1>2, <2>1
<1>4. Gone' = Gone \union Rows(r)
  BY <1>1, <1>2, <1>3, PutTakes DEF Invariant
<1>5. StepOf(r) /\ pc'[r] \in {"idle", "store"}
  BY <1>1, <1>2, PutIs DEF Invariant
<1>6. /\ kind' = kind /\ content' = content /\ live' = live /\ old' = old /\ written' = written
  BY <1>5 DEF StepOf, host
<1>7. ASSUME cursor' # NoCursor
      PROVE  Kept(cursor)' /\ Past(cursor, Gone)'
  <2>1. PICK c, S : c = cursor' /\ S = Gone \union Rows(r)
    OBVIOUS
  <2>2. Kept(c) /\ Past(c, S)
    <3>1. CASE job[r].to = NoCursor
      <4>1. c = cursor /\ S = Gone
        BY <1>1, <1>2, <2>1, <3>1
      <4> QED
        BY <1>7, <2>1, <4>1 DEF SkipInv
    <3>2. CASE job[r].to # NoCursor
      <4>1. c = job[r].to /\ Near(cursor, c) /\ Past(c, S)
        BY <1>1, <1>2, <2>1, <3>2 DEF SkipInv, SkipBy
      <4> QED
        BY <4>1 DEF SkipInv, Near, Kept
    <3> QED
      BY <3>1, <3>2
  <2>3. Kept(cursor)'
    BY <1>6, <2>1, <2>2 DEF Kept
  <2>4. Past(cursor, Gone)'
    <3>1. Gone' = S
      BY <1>4, <2>1
    <3> QED
      BY <1>6, <2>1, <2>2, <3>1 DEF Past, Follows, Excused
  <2> QED
    BY <2>3, <2>4
<1>8. ASSUME NEW q \in Readers, Current(q)'
      PROVE  SkipBy(q)'
  <2>1. q # r
    BY <1>5, <1>8 DEF Current, Reading
  <2>2. Reading(q) /\ job[q].from = cursor'
    BY <1>5, <1>8, <2>1, OthersStay DEF Current
  <2>3. cursor' = cursor /\ Rows(r) \subseteq Gone
    BY <2>1, <2>2, ClaimKeeps
  <2>4. Gone' = Gone
    BY <1>4, <2>3
  <2> QED
    BY <1>5, <1>8, <2>1, <2>3, <2>4, OthersSkip
<1> QED
  BY <1>6, <1>7, <1>8 DEF SkipInv

LEMMA StoreSkip ==
    ASSUME Invariant, SkipInv, NEW r \in Readers, Store(r)
    PROVE  SkipInv'
<1>1. /\ job[r].found \in [Lines -> {0, 1}] /\ Put(r) /\ pc[r] = "store" /\ cursor' = cursor
      /\ \A q \in Readers \ {r} : pc[q] = "store" => Rows(q) \intersect Rows(r) = {}
  BY StoreKeeps DEF Store
<1>2. StepOf(r) /\ ~Current(r)'
  BY <1>1, PutIs DEF Invariant, Current, Reading
<1>3. Gone' = Gone
  BY <1>1, PutTakes, HeldIs DEF Invariant, Gone
<1> QED
  BY <1>1, <1>2, <1>3, SkipKeeps

LEMMA CrashSkip ==
    ASSUME Invariant, SkipInv, NEW r \in Readers, Crash(r)
    PROVE  SkipInv'
<1>1. host' = host /\ cursor' = cursor /\ Idle(r) /\ counted' = counted
  BY DEF Crash
<1>2. Gone' = Gone
  BY <1>1, CrashKeeps DEF Gone, Counted
<1> QED
  BY <1>1, <1>2, IdleSkip

LEMMA SkipSteps ==
    ASSUME Orderly, KeepsPace, Invariant, SkipInv, [Next]_vars
    PROVE  SkipInv'
<1>1. CASE HostStep
  BY <1>1, HostSkip
<1>2. ASSUME NEW r \in Readers, Theirs(r)
      PROVE  SkipInv'
  BY <1>2, IdleGone, IdleSkip DEF Theirs
<1>3. ASSUME NEW r \in Readers,
             \/ Plan(r) \/ Unavailable(r) \/ Read(r) \/ ReadCopies(r) \/ Newest(r)
             \/ Claim(r) \/ Store(r) \/ Crash(r)
      PROVE  SkipInv'
  BY <1>3, PlanSkip, UnavailableSkip, ReadSkip, ReadCopiesSkip, NewestSkip, ClaimSkip,
     StoreSkip, CrashSkip
<1>4. CASE UNCHANGED vars
  <2>1. Gone' = Gone /\ \A r \in Readers : Rows(r)' = Rows(r)
    BY <1>4 DEF vars, Gone, Held, Rows, Counted
  <2>2. host' = host /\ cursor' = cursor /\ pc' = pc /\ job' = job
    BY <1>4 DEF vars
  <2>3. /\ kind' = kind /\ content' = content /\ live' = live /\ old' = old /\ written' = written
    BY <2>2 DEF host
  <2>4. cursor # NoCursor => Kept(cursor)' /\ Past(cursor, Gone)'
    BY <2>1, <2>2, <2>3 DEF SkipInv, Kept, Past, Follows, Excused
  <2>5. ASSUME NEW r \in Readers, Current(r)'
        PROVE  SkipBy(r)'
    <3>1. SkipBy(r)
      BY <2>2, <2>5 DEF SkipInv, Current, Reading
    <3>2. ASSUME job[r].to # NoCursor
          PROVE  Near(cursor, job[r].to)' /\ Past(job[r].to, Gone \union Rows(r))'
      <4>1. PICK c, S : c = job[r].to /\ S = Gone \union Rows(r)
        OBVIOUS
      <4>2. Near(cursor, c) /\ Past(c, S)
        BY <3>1, <3>2, <4>1 DEF SkipBy
      <4>3. job'[r].to = c /\ (Gone \union Rows(r))' = S
        BY <2>1, <2>2, <4>1
      <4> QED
        BY <2>2, <4>2, <4>3, CarriedPast
    <3> QED
      BY <2>2, <2>3, <3>1, <3>2 DEF SkipBy
  <2> QED
    BY <2>2, <2>3, <2>4, <2>5 DEF SkipInv
<1> QED
  BY <1>1, <1>2, <1>3, <1>4 DEF Next, Pass

\* A line the cursor is past was taken by the read that moved it there:
\* NothingSkipped, of logread::read_chunk, logread::read_journal and the order
\* in which Ingest::step stores a cursor and what goes with it.
THEOREM NothingSkippedHolds ==
    ASSUME Orderly, KeepsPace
    PROVE  Spec => []NothingSkipped
<1>1. Init => Invariant /\ SkipInv
  <2> SUFFICES ASSUME Init
               PROVE  Invariant /\ SkipInv
    OBVIOUS
  <2>1. Invariant
    BY LogInitial
  <2>2. cursor = NoCursor /\ live # NoFile /\ \A r \in Readers : ~Current(r)
    BY Constants DEF Init, HostInit, Current, Reading
  <2> QED
    BY <2>1, <2>2 DEF SkipInv
<1>2. Invariant /\ SkipInv /\ [Next]_vars => Invariant' /\ SkipInv'
  BY LogSteps, SkipSteps
<1>3. Invariant /\ SkipInv => NothingSkipped
  <2> SUFFICES ASSUME Invariant, SkipInv
               PROVE  Behind \subseteq Gone \union Excused
    BY DEF NothingSkipped, Gone, Excused
  <2>1. CASE cursor = NoCursor
    BY <2>1 DEF Behind
  <2>2. CASE cursor # NoCursor
    <3>1. Past(cursor, Gone)
      BY <2>2 DEF SkipInv
    <3>2. ASSUME Follows(cursor, live)
          PROVE  {content[live][k] : k \in 1 .. cursor.at} \subseteq Gone \union Excused
      BY <3>1, <3>2 DEF Past, Follows
    <3>3. ASSUME Follows(cursor, old)
          PROVE  {content[old][k] : k \in 1 .. cursor.at} \subseteq Gone \union Excused
      BY <3>1, <3>3 DEF Past, Follows
    <3> QED
      BY <2>2, <3>2, <3>3 DEF Behind
  <2> QED
    BY <2>1, <2>2
<1> QED
  BY <1>1, <1>2, <1>3, PTL DEF Spec
=============================================================================
