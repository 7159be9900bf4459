---------------------------- MODULE EvidenceRules ----------------------------
(* What a detector decides from the evidence kept about one address: the     *)
(* rules of evidence.rs, and the table log_evidence as a set of rows, one    *)
(* per item, each with the number of lines behind it and the times of the    *)
(* first and the last of them.                                               *)
EXTENDS Integers, FiniteSets, FiniteSetsExt

CONSTANTS BucketSeconds,    \* the width of a line-count bucket
          Pages             \* the things seen, by number, that are pages (is_page)

ASSUME BucketAssumption == BucketSeconds \in Nat \ {0}

(* Item: a distinct thing, what clears the address, a line or a refused line *)
(* counted into the bucket that starts at what, or being told the rules.     *)
Item(kind, what) == [kind |-> kind, what |-> what]

Seen(what) == Item("seen", what)
Clear      == Item("clear", 0)
Warned     == Item("warned", 0)

BucketStart(at) == (at \div BucketSeconds) * BucketSeconds
Bucket(at)      == Item("bucket", BucketStart(at))
Refused(at)     == Item("refused", BucketStart(at))

Row(item, count, first, last) ==
    [item |-> item, count |-> count, first |-> first, last |-> last]

(* The rows of a set of observations [item, at, n]: n tells two lines apart. *)
Tallied(seen) ==
    { LET of == {s \in seen : s.item = i}
      IN  Row(i, Cardinality(of), Min({s.at : s \in of}), Max({s.at : s \in of}))
      : i \in {s.item : s \in seen} }

(* Adds a row to those stored: counts add up, the times widen.               *)
Upsert(rows, new) ==
    {r \in rows : r.item # new.item}
      \union { Row(new.item,
                   new.count + SumSet({r.count : r \in same}),
                   Min({new.first} \union {r.first : r \in same}),
                   Max({new.last} \union {r.last : r \in same}))
               : same \in {{r \in rows : r.item = new.item}} }

(* Rows that reach back to before's moment go whole, ...                     *)
ForgetBefore(rows, before) == {r \in rows : r.first > before}

(* Mutant: a row goes once its first line is outside the window.             *)
PruneByFirst(rows, before) == {r \in rows : r.first >= before}

(* ... and so do those last seen before the window.                          *)
Prune(rows, before) == {r \in rows : r.last >= before}

-----------------------------------------------------------------------------
(* The decision.                                                             *)

Kind(rows, kinds) == {r \in rows : r.item.kind \in kinds}

(* Mutant: a bucket counts as long as its last line is inside the window.    *)
LinesByLast(rows, kinds, since) ==
    MapThenSumSet(LAMBDA r : r.count, {r \in Kind(rows, kinds) : r.last >= since})

Lines(rows, kinds, since) ==
    MapThenSumSet(LAMBDA r : r.count,
                  {r \in Kind(rows, kinds) : r.item.what >= since})

SeenInside(rows, since) == {r \in Kind(rows, {"seen"}) : r.last >= since}

Cleared(rows, since) == \E r \in Kind(rows, {"clear"}) : r.last >= since

RepeatedPage(rows, since, repeated) ==
    \E r \in SeenInside(rows, since) :
        /\ r.first >= since
        /\ r.count >= repeated
        /\ r.item.what \in Pages

(* A rule is its name with its two numbers, of which some rules use none.    *)
Guilty(rows, rule, since) ==
    \/ /\ rule.kind = "AtLeast"
       /\ Lines(rows, {"bucket"}, since) >= rule.n
    \/ /\ rule.kind = "Distinct"
       /\ ~Cleared(rows, since)
       /\ Cardinality(SeenInside(rows, since)) >= rule.n
    \/ /\ rule.kind = "DistinctOrRepeated"
       /\ ~Cleared(rows, since)
       /\ \/ Cardinality(SeenInside(rows, since)) >= rule.n
          \/ RepeatedPage(rows, since, rule.m)
    \/ /\ rule.kind = "Rate"
       /\ \/ Lines(rows, {"bucket", "refused"}, since) >= rule.n
          \/ Lines(rows, {"refused"}, since) >= rule.m
    \/ /\ rule.kind = "AfterWarning"
       /\ \E w \in Kind(rows, {"warned"}), r \in SeenInside(rows, since) :
              w.last >= since /\ r.last >= w.first
    \/ /\ rule.kind = "Once"
       /\ SeenInside(rows, since) # {}
    \/ /\ rule.kind = "OnceUnlessCleared"
       /\ ~Cleared(rows, since)
       /\ SeenInside(rows, since) # {}

(* Mutant: refused lines do not bring an address in on their own.            *)
WorthByLines(rows, rule) ==
    CASE rule.kind \in {"AtLeast", "Rate"} ->
           MapThenSumSet(LAMBDA r : r.count, rows) >= rule.n
      [] rule.kind \in {"Distinct", "DistinctOrRepeated"} -> Cardinality(rows) >= rule.n
      [] rule.kind = "AfterWarning" -> Cardinality(rows) >= 2
      [] OTHER -> rows # {}

(* The HAVING of evidence_rows: whether an address whose rows inside the     *)
(* window are these is worth reading at all.                                 *)
Worth(rows, rule) ==
    \/ /\ rule.kind = "Once"
       /\ rows # {}
    \/ /\ rule.kind = "OnceUnlessCleared"
       /\ \E r \in rows : r.item.kind # "clear"
    \/ /\ rule.kind = "AfterWarning"
       /\ Cardinality(rows) >= 2
    \/ /\ rule.kind \in {"Distinct", "DistinctOrRepeated"}
       /\ Cardinality(rows) >= rule.n
    \/ /\ rule.kind = "DistinctOrRepeated"
       /\ \E r \in rows : r.count >= rule.m
    \/ /\ rule.kind = "AtLeast"
       /\ MapThenSumSet(LAMBDA r : r.count, rows) >= rule.n
    \/ /\ rule.kind = "Rate"
       /\ MapThenSumSet(LAMBDA r : r.count, rows) >= Min({rule.n, rule.m})

(* What evidence_rows reads of an address.                                   *)
Read(rows, rule, since) ==
    LET inside == Prune(rows, since)
    IN  IF Worth(inside, rule) THEN inside ELSE {}

(* run_detector's verdict on an address with these rows.                     *)
Convicts(rows, rule, since) == Guilty(Read(rows, rule, since), rule, since)

=============================================================================
