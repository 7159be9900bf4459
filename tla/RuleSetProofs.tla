--------------------------- MODULE RuleSetProofs ---------------------------
(***************************************************************************)
(* For every rule list, whatever is in the database: what the kernel does  *)
(* is what the first rule says (ScriptDecides), who the guard knew of is   *)
(* not dropped (GuardHolds), and who is dropped was meant (PolicyHolds).   *)
(***************************************************************************)
EXTENDS RuleSet, FiniteSetTheorems, TLAPS

-----------------------------------------------------------------------------
(* The first of a set of numbers, the last, and the largest of some sets.  *)

LEMMA MinProps ==
    ASSUME NEW A \in SUBSET Nat, A # {}
    PROVE  Min(A) \in A /\ \A j \in A : Min(A) <= j
<1>1. PICK m \in A : \A y \in A : ~(<<y, m>> \in OpToRel(<, Nat))
  <2>1. IsWellFoundedOn(OpToRel(<, Nat), Nat)
    BY NatLessThanWellFounded
  <2>2. QED
    BY <2>1, WFMin, Zenon
<1>2. \A y \in A : m <= y
  <2> SUFFICES ASSUME NEW y \in A, ~(m <= y) PROVE FALSE
    OBVIOUS
  <2>0. m \in Nat /\ y \in Nat /\ y < m
    OBVIOUS
  <2>1. <<y, m>> \in Nat \X Nat /\ <<y, m>>[1] < <<y, m>>[2]
    BY <2>0
  <2>2. <<y, m>> \in OpToRel(<, Nat)
    BY <2>1 DEF OpToRel
  <2>3. QED
    BY <2>2, <1>1
<1>3. \E x \in A : \A y \in A : x =< y
  BY <1>2
<1>4. QED
  BY <1>3 DEF Min

LEMMA MaxProps ==
    ASSUME NEW n \in Nat, NEW A \in SUBSET (1 .. n), A # {}
    PROVE  Max(A) \in A /\ \A j \in A : j <= Max(A)
<1> DEFINE B == {n - j : j \in A}
<1>0. \A j \in A : n - j \in Nat
  OBVIOUS
<1>a. B \subseteq Nat
  BY <1>0
<1>b. PICK i \in A : TRUE
  OBVIOUS
<1>c. n - i \in B
  OBVIOUS
<1>1. B \in SUBSET Nat /\ B # {}
  BY <1>a, <1>c
<1>2. Min(B) \in B /\ \A k \in B : Min(B) <= k
  BY <1>1, MinProps
<1> HIDE DEF B
<1>3. PICK m \in A : Min(B) = n - m
  BY <1>2 DEF B
<1>4. \A j \in A : j <= m
  <2> TAKE j \in A
  <2>1. n - j \in B
    BY DEF B
  <2>2. n - m <= n - j
    BY <2>1, <1>2, <1>3
  <2>3. j \in Int /\ m \in Int /\ n \in Int
    OBVIOUS
  <2>4. QED
    BY <2>2, <2>3
<1>5. \E x \in A : \A y \in A : x >= y
  BY <1>4
<1>6. QED
  BY <1>5 DEF Max

\* Of finite sets there is one that is inside no other.
LEMMA Outermost ==
    ASSUME NEW S, IsFiniteSet(S), NEW C \in SUBSET SUBSET S, C # {}
    PROVE  \E r \in C : \A q \in C : ~Inside(r, q)
<1> DEFINE Size(r) == Cardinality(S) - Cardinality(r)
           K == {Size(r) : r \in C}
<1>1. \A r \in C : /\ IsFiniteSet(r) /\ Cardinality(r) \in Nat
                   /\ Cardinality(r) <= Cardinality(S) /\ Cardinality(S) \in Nat
  BY FS_Subset, FS_CardinalityType
<1>0. \A r \in C : Size(r) \in Nat
  BY <1>1
<1>2. K \in SUBSET Nat /\ K # {}
  <2>1. K \subseteq Nat
    BY <1>0
  <2>2. PICK r \in C : TRUE
    OBVIOUS
  <2>3. Size(r) \in K
    OBVIOUS
  <2>4. QED
    BY <2>1, <2>3
<1>3. Min(K) \in K /\ \A k \in K : Min(K) <= k
  BY <1>2, MinProps
<1>4. PICK r \in C : Min(K) = Size(r)
  BY <1>3
<1>5. \A q \in C : Size(r) <= Size(q)
  BY <1>3, <1>4
<1>6. ASSUME NEW q \in C, Inside(r, q) PROVE FALSE
  <2>1. r \in SUBSET q /\ r # q
    BY <1>6 DEF Inside
  <2>2. Cardinality(r) <= Cardinality(q) /\ (Cardinality(q) = Cardinality(r) => q = r)
    BY <2>1, <1>1, FS_Subset
  <2>3. Cardinality(q) <= Cardinality(r)
    BY <1>5, <1>1
  <2>4. QED
    BY <2>1, <2>2, <2>3, <1>1
<1>7. QED
  BY <1>6

\* A finite set in a sequence: all of it.
LEMMA SetToSeqProps ==
    ASSUME NEW S, IsFiniteSet(S)
    PROVE  SetToSeq(S) \in Seq(S) /\ Range(SetToSeq(S)) = S
<1> DEFINE n == Cardinality(S)
<1>1. n \in Nat /\ ExistsBijection(1 .. n, S)
  BY FS_CardinalityType
<1>2. PICK g \in Bijection(1 .. n, S) : TRUE
  BY <1>1 DEF ExistsBijection
<1>3. g \in [1 .. n -> S] /\ IsInjective(g)
  BY <1>2 DEF Bijection, Injection
<1>4. SetToSeq(S) \in [1 .. n -> S] /\ IsInjective(SetToSeq(S))
  BY <1>3 DEF SetToSeq
<1>5. SetToSeq(S) \in Injection(1 .. n, S)
  BY <1>4 DEF Injection
<1>6. Cardinality(1 .. n) = n
  BY <1>1, FS_Interval
<1>7. SetToSeq(S) \in Surjection(1 .. n, S)
  BY <1>5, <1>6, FS_Injection
<1>8. Range(SetToSeq(S)) = S
  BY <1>7, <1>4 DEF Surjection, Range
<1>9. QED
  BY <1>1, <1>4, <1>8

-----------------------------------------------------------------------------
(* The verdict of a list of rules.                                         *)

LEMMA VerdictFirst ==
    ASSUME NEW list, NEW A \in SUBSET Nat, NEW i \in A, \A j \in A : i <= j
    PROVE  Verdict(list, A) = list[i].action
<1>1. Min(A) \in A /\ Min(A) <= i
  BY MinProps
<1>2. Min(A) = i
  <2>1. Min(A) \in Nat /\ i \in Nat /\ i <= Min(A)
    BY <1>1
  <2>2. QED
    BY <2>1, <1>1
<1>3. QED
  BY <1>2 DEF Verdict

\* One of the rules decides, or none matches.
LEMMA VerdictCases ==
    ASSUME NEW list \in Seq(Rules), NEW pkt, NEW t
    PROVE  LET A == Matching(list, pkt, t) IN
           /\ A \in SUBSET Nat /\ A \subseteq DOMAIN list
           /\ A = {} => RuleVerdict(list, pkt, t) = "none"
           /\ A # {} => \E i \in A : /\ \A j \in A : i <= j
                                     /\ RuleVerdict(list, pkt, t) = list[i].action
                                     /\ list[i] \in Rules
           /\ RuleVerdict(list, pkt, t) \in Actions \union {"none"}
           /\ RuleVerdict(list, pkt, t) = "none" <=> A = {}
<1> DEFINE A == Matching(list, pkt, t)
<1>1. A \subseteq DOMAIN list /\ DOMAIN list \subseteq Nat
  BY DEF Matching
<1>2. A = {} => RuleVerdict(list, pkt, t) = "none"
  BY DEF RuleVerdict, Verdict
<1>3. ASSUME A # {}
      PROVE  \E i \in A : /\ \A j \in A : i <= j
                          /\ RuleVerdict(list, pkt, t) = list[i].action
                          /\ list[i] \in Rules
  <2>1. Min(A) \in A /\ \A j \in A : Min(A) <= j
    BY <1>1, <1>3, MinProps
  <2>2. RuleVerdict(list, pkt, t) = list[Min(A)].action
    BY <1>3 DEF RuleVerdict, Verdict
  <2>3. list[Min(A)] \in Rules
    BY <2>1, <1>1
  <2>4. QED
    BY <2>1, <2>2, <2>3
<1> HIDE DEF A
<1>4. ASSUME A # {} PROVE RuleVerdict(list, pkt, t) \in Actions
  BY <1>3, <1>4 DEF Rules
<1>5. "none" \notin Actions
  BY DEF Actions
<1>6. QED
  BY <1>1, <1>2, <1>3, <1>4, <1>5 DEF A

\* A list decides what the one ahead of it does not.
LEMMA VerdictConcat ==
    ASSUME NEW s \in Seq(Rules), NEW r \in Seq(Rules), NEW pkt, NEW t
    PROVE  /\ s \o r \in Seq(Rules)
           /\ RuleVerdict(s \o r, pkt, t) =
                IF RuleVerdict(s, pkt, t) = "none" THEN RuleVerdict(r, pkt, t)
                ELSE RuleVerdict(s, pkt, t)
<1> DEFINE c == s \o r
           S == Matching(s, pkt, t)
           R == Matching(r, pkt, t)
           C == Matching(c, pkt, t)
<1>1. /\ c \in Seq(Rules) /\ Len(c) = Len(s) + Len(r)
      /\ Len(s) \in Nat /\ Len(r) \in Nat
      /\ DOMAIN c = 1 .. Len(s) + Len(r)
      /\ DOMAIN s = 1 .. Len(s) /\ DOMAIN r = 1 .. Len(r)
  OBVIOUS
<1>2. \A i \in 1 .. Len(s) : c[i] = s[i]
  OBVIOUS
<1>3. \A i \in 1 .. Len(r) : c[Len(s) + i] = r[i]
  OBVIOUS
<1> HIDE DEF c
<1>4. \A i \in 1 .. Len(s) : i \in C <=> i \in S
  BY <1>1, <1>2 DEF Matching
<1>5. \A i \in 1 .. Len(r) : Len(s) + i \in C <=> i \in R
  <2> TAKE i \in 1 .. Len(r)
  <2>1. Len(s) + i \in 1 .. Len(s) + Len(r)
    BY <1>1
  <2>2. QED
    BY <2>1, <1>1, <1>3 DEF Matching
<1>6. CASE S # {}
  <2>1. PICK i \in S : /\ \A j \in S : i <= j
                       /\ RuleVerdict(s, pkt, t) = s[i].action
                       /\ RuleVerdict(s, pkt, t) # "none"
    BY <1>6, VerdictCases
  <2>2. S \subseteq 1 .. Len(s) /\ C \subseteq 1 .. Len(s) + Len(r)
    BY <1>1 DEF Matching
  <2>3. i \in C /\ \A j \in C : i <= j
    <3>1. i \in C
      BY <1>4, <2>2
    <3>2. ASSUME NEW j \in C PROVE i <= j
      <4>1. CASE j <= Len(s)
        <5>1. j \in 1 .. Len(s)
          BY <4>1, <2>2, <1>1
        <5>2. QED
          BY <5>1, <1>4, <2>1
      <4>2. CASE ~(j <= Len(s))
        BY <4>2, <2>2, <1>1
      <4>3. QED
        BY <4>1, <4>2
    <3>3. QED
      BY <3>1, <3>2
  <2>4. C \in SUBSET Nat
    BY <2>2, <1>1
  <2>5. RuleVerdict(c, pkt, t) = c[i].action
    <3> HIDE DEF C
    <3>1. Verdict(c, C) = c[i].action
      BY <2>3, <2>4, VerdictFirst
    <3>2. QED
      BY <3>1 DEF RuleVerdict, C
  <2>6. c[i] = s[i]
    BY <1>2, <2>2
  <2>7. QED
    BY <2>1, <2>5, <2>6, <1>1 DEF c
<1>7. CASE S = {}
  <2>1. RuleVerdict(s, pkt, t) = "none"
    BY <1>7, VerdictCases
  <2>2. \A j \in C : j \in 1 .. Len(s) + Len(r) /\ j \notin 1 .. Len(s)
    BY <1>1, <1>4, <1>7 DEF Matching
  <2>3. \A j \in C : j - Len(s) \in R
    <3> TAKE j \in C
    <3>1. j - Len(s) \in 1 .. Len(r) /\ Len(s) + (j - Len(s)) = j
      BY <2>2, <1>1
    <3>2. QED
      BY <3>1, <1>5
  <2>4. CASE R = {}
    <3>1. C = {}
      BY <2>3, <2>4
    <3>2. RuleVerdict(c, pkt, t) = "none" /\ RuleVerdict(r, pkt, t) = "none"
      BY <3>1, <2>4, <1>1, VerdictCases
    <3>3. QED
      BY <3>2, <2>1, <1>1 DEF c
  <2>5. CASE R # {}
    <3>1. PICK i \in R : /\ \A j \in R : i <= j
                         /\ RuleVerdict(r, pkt, t) = r[i].action
      BY <2>5, VerdictCases
    <3>2. i \in 1 .. Len(r)
      BY <1>1 DEF Matching
    <3>3. Len(s) + i \in C
      BY <3>2, <1>5
    <3>4. \A j \in C : Len(s) + i <= j
      <4> TAKE j \in C
      <4>1. i <= j - Len(s)
        BY <2>3, <3>1
      <4>2. QED
        BY <4>1, <3>2, <2>2, <1>1
    <3>5. C \in SUBSET Nat
      BY <2>2, <1>1
    <3>6. RuleVerdict(c, pkt, t) = c[Len(s) + i].action
      <4> HIDE DEF C
      <4>1. Verdict(c, C) = c[Len(s) + i].action
        BY <3>3, <3>4, <3>5, VerdictFirst
      <4>2. QED
        BY <4>1 DEF RuleVerdict, C
    <3>7. QED
      BY <3>1, <3>2, <3>6, <1>1, <1>3, <2>1 DEF c
  <2>6. QED
    BY <2>4, <2>5
<1>8. QED
  BY <1>6, <1>7

\* A list of one verdict decides for who is in it.
LEMMA VerdictPermanent ==
    ASSUME NEW action \in Actions, NEW port \in Ports \union {NoPort},
           NEW ranges \in Seq(Ranges), NEW pkt, NEW t, Forever \notin Int
    PROVE  /\ Permanent(action, port, ranges) \in Seq(Rules)
           /\ RuleVerdict(Permanent(action, port, ranges), pkt, t) =
                IF (port = NoPort \/ port = pkt.port) /\ Covered(ranges, pkt.host)
                  THEN action ELSE "none"
<1> DEFINE P == Permanent(action, port, ranges)
           A == Matching(P, pkt, t)
<1>1. DOMAIN P = 1 .. Len(ranges) /\ Len(ranges) \in Nat
  BY DEF Permanent
<1>2. \A i \in 1 .. Len(ranges) :
        /\ P[i] \in Rules /\ P[i].action = action /\ P[i].port = port
        /\ P[i].enabled /\ P[i].expires = Forever /\ P[i].address = ranges[i]
  BY DEF Permanent, Rules
<1>3. P \in Seq(Rules)
  <2>1. P = [i \in 1 .. Len(ranges) |-> P[i]]
    BY <1>1 DEF Permanent
  <2>2. P \in [1 .. Len(ranges) -> Rules]
    BY <2>1, <1>2
  <2>3. QED
    BY <2>2, <1>1
<1> HIDE DEF P
<1>4. A = {i \in 1 .. Len(ranges) :
             (port = NoPort \/ port = pkt.port) /\ pkt.host \in ranges[i]}
  BY <1>1, <1>2 DEF Matching, Lives, ForPort
<1>5. Covered(ranges, pkt.host) <=> \E i \in 1 .. Len(ranges) : pkt.host \in ranges[i]
  BY DEF Covered, Range
<1>6. A # {} => RuleVerdict(P, pkt, t) = action
  <2> HAVE A # {}
  <2>1. PICK i \in A : RuleVerdict(P, pkt, t) = P[i].action
    BY <1>3, VerdictCases
  <2>2. QED
    BY <2>1, <1>4, <1>2
<1>7. A = {} => RuleVerdict(P, pkt, t) = "none"
  BY <1>3, VerdictCases
<1>8. A # {} <=> (port = NoPort \/ port = pkt.port) /\ Covered(ranges, pkt.host)
  BY <1>4, <1>5
<1>9. QED
  BY <1>3, <1>6, <1>7, <1>8 DEF P
-----------------------------------------------------------------------------
(* The layers of a stage: no two elements of one overlap, and together     *)
(* they hold who the elements held.                                        *)

IsElements(e) ==
    /\ DOMAIN e \subseteq Ranges
    /\ \A r \in DOMAIN e : e[r] \in Nat \union {Forever}

\* An element with h in it, loaded at from, is there at t.
Covers(e, h, t, from) ==
    \E r \in DOMAIN e : h \in r /\ (e[r] = Forever \/ t < from + e[r])

LEMMA RangesFinite ==
    ASSUME NEW S \in SUBSET Ranges, RangesAssumption
    PROVE  /\ IsFiniteSet(S) /\ Cardinality(S) \in Nat
           /\ S \in SUBSET SUBSET Hosts
<1>1. IsFiniteSet(SUBSET Hosts)
  BY FS_SUBSET DEF RangesAssumption
<1>2. S \in SUBSET SUBSET Hosts
  BY DEF RangesAssumption
<1>3. QED
  BY <1>1, <1>2, FS_Subset, FS_CardinalityType

LEMMA LayersCover ==
    ASSUME NEW e, IsElements(e), NEW h, NEW t \in Int,
           since \in Int, Forever \notin Int, RangesAssumption
    PROVE  InSets(e, h, t) <=> Covers(e, h, t, since)
<1> DEFINE C == {r \in DOMAIN e : h \in r /\ (e[r] = Forever \/ t < since + e[r])}
<1>1. Kept(e) \in SUBSET Ranges /\ Kept(e) \subseteq DOMAIN e
  BY DEF Kept, IsElements
<1>2. InSets(e, h, t) => Covers(e, h, t, since)
  BY <1>1 DEF InSets, Covers, Layer
<1>3. ASSUME Covers(e, h, t, since) PROVE InSets(e, h, t)
  <2>1. C # {} /\ C \in SUBSET SUBSET Hosts
    BY <1>3 DEF Covers, IsElements, RangesAssumption
  <2>a. IsFiniteSet(Hosts)
    BY DEF RangesAssumption
  <2>2. PICK r \in C : \A q \in C : ~Inside(r, q)
    <3> HIDE DEF C
    <3> QED
      BY <2>1, <2>a, Outermost, Zenon
  <2>3. ASSUME NEW q \in DOMAIN e, Inside(r, q), AsLongAs(e[q], e[r]) PROVE FALSE
    <3>1. h \in q
      BY <2>3 DEF Inside
    <3>2. e[q] = Forever \/ t < since + e[q]
      <4>1. e[q] \in Nat \union {Forever} /\ e[r] \in Nat \union {Forever}
        BY DEF IsElements
      <4>2. e[q] = Forever \/ (e[r] \in Nat /\ e[q] \in Nat /\ e[q] >= e[r])
        BY <2>3, <4>1 DEF AsLongAs
      <4>3. e[r] = Forever \/ t < since + e[r]
        OBVIOUS
      <4>4. CASE e[q] = Forever
        BY <4>4
      <4>5. CASE e[r] \in Nat /\ e[q] \in Nat /\ e[q] >= e[r]
        <5>1. t < since + e[r]
          BY <4>3, <4>5
        <5>2. QED
          BY <5>1, <4>5
      <4>6. QED
        BY <4>2, <4>4, <4>5
    <3>3. q \in C
      BY <3>1, <3>2
    <3>4. QED
      BY <3>3, <2>2, <2>3
  <2>4. r \in Kept(e)
    BY <2>3 DEF Kept
  <2>5. Depth(e, r) \in 0 .. Cardinality(Kept(e))
    <3> DEFINE O == {q \in Kept(e) : Inside(r, q)}
    <3>1. O \in SUBSET Kept(e) /\ O \in SUBSET Ranges
      BY <1>1
    <3>2. IsFiniteSet(Kept(e)) /\ Cardinality(Kept(e)) \in Nat /\ Cardinality(O) \in Nat
      BY <1>1, <3>1, RangesFinite
    <3>3. Cardinality(O) <= Cardinality(Kept(e))
      BY <3>1, <3>2, FS_Subset
    <3>4. QED
      BY <3>2, <3>3 DEF Depth
  <2>6. r \in Layer(e, Depth(e, r))
    BY <2>4 DEF Layer
  <2>7. h \in r /\ (e[r] = Forever \/ t < since + e[r])
    OBVIOUS
  <2>8. QED
    BY <2>5, <2>6, <2>7 DEF InSets
<1>4. QED
  BY <1>2, <1>3

LEMMA DeeperInside ==
    ASSUME NEW e, IsElements(e), RangesAssumption,
           NEW r \in Kept(e), NEW q \in Kept(e), Inside(r, q)
    PROVE  Depth(e, r) # Depth(e, q)
<1> DEFINE R == {x \in Kept(e) : Inside(r, x)}
           Q == {x \in Kept(e) : Inside(q, x)}
<1>1. R \in SUBSET Ranges /\ Q \in SUBSET Ranges
  BY DEF Kept, IsElements
<1>2. Q \in SUBSET R /\ q \in R /\ q \notin Q
  BY DEF Inside
<1>3. IsFiniteSet(R)
  BY <1>1, RangesFinite
<1>4. Cardinality(R) = Cardinality(Q) => R = Q
  BY <1>2, <1>3, FS_Subset
<1>5. QED
  BY <1>2, <1>4 DEF Depth

LEMMA LayersApart ==
    ASSUME NEW e, IsElements(e), RangesAssumption,
           NEW r \in Kept(e), NEW q \in Kept(e), Depth(e, r) = Depth(e, q)
    PROVE  r = q \/ r \cap q = {}
<1>1. r \in Ranges /\ q \in Ranges
  BY DEF Kept, IsElements
<1>2. r \subseteq q \/ q \subseteq r \/ r \cap q = {}
  BY <1>1 DEF RangesAssumption
<1>3. ~Inside(r, q) /\ ~Inside(q, r)
  BY DeeperInside
<1>4. QED
  BY <1>2, <1>3 DEF Inside
-----------------------------------------------------------------------------
(* The rules of a database.                                                *)

Lists(d) == {d.logins, d.trusted, d.banned, d.crawlers, d.abuse, d.cloud, d.countries}

\* A rule that allows does not run out.
Lasting == {r \in Rules : r.action = "allow" => r.expires = Forever}

LEMMA FunctionIsSeq ==
    ASSUME NEW S, NEW n \in Nat, NEW s \in [1 .. n -> S]
    PROVE  s \in Seq(S)
OBVIOUS

LEMMA DbTypes ==
    ASSUME RulesAssumption, db \in Dbs
    PROVE  /\ {db.checked, db.port80, db.selected} \subseteq BOOLEAN
           /\ db.geo \in {"blocklist", "allowlist"}
           /\ \A l \in Lists(db) : l \in Seq(Ranges)
           /\ db.admin \in Seq(Lasting) /\ db.admin \in Seq(Rules)
<1>1. /\ {db.checked, db.port80, db.selected} \subseteq BOOLEAN
      /\ db.geo \in {"blocklist", "allowlist"}
      /\ \A l \in Lists(db) : l \in Seq(Ranges)
      /\ db.admin \in Seq(Rules)
      /\ \A i \in DOMAIN db.admin : db.admin[i].action = "allow" => db.admin[i].expires = Forever
  BY DEF RulesAssumption, Lists
<1>2. \A i \in 1 .. Len(db.admin) : db.admin[i] \in Lasting
  BY <1>1 DEF Lasting
<1>3. db.admin \in [1 .. Len(db.admin) -> Lasting] /\ Len(db.admin) \in Nat
  BY <1>1, <1>2
<1>4. db.admin \in Seq(Lasting)
  BY <1>3, FunctionIsSeq, Zenon
<1>5. QED
  BY <1>1, <1>4

LEMMA LastingRules ==
    ASSUME NEW list \in Seq(Lasting)
    PROVE  list \in Seq(Rules)
BY DEF Lasting

LEMMA PermanentLasts ==
    ASSUME NEW action \in Actions, NEW port \in Ports \union {NoPort},
           NEW ranges \in Seq(Ranges)
    PROVE  Permanent(action, port, ranges) \in Seq(Lasting)
<1> DEFINE P == Permanent(action, port, ranges)
<1>1. \A i \in 1 .. Len(ranges) : P[i] \in Lasting
  BY DEF Permanent, Rules, Lasting
<1>2. P = [i \in 1 .. Len(ranges) |-> P[i]] /\ Len(ranges) \in Nat
  BY DEF Permanent
<1> HIDE DEF P
<1>3. P \in [1 .. Len(ranges) -> Lasting]
  BY <1>1, <1>2
<1>4. QED
  BY <1>2, <1>3 DEF P

\* What is left of the ranges: whoever is in them and is no crawler.
LEMMA PunchedProps ==
    ASSUME RulesAssumption, RangesAssumption, db \in Dbs, NEW ranges \in Seq(Ranges)
    PROVE  /\ Punched(ranges) \in Seq(Ranges)
           /\ \A h \in Hosts : Covered(Punched(ranges), h) <=>
                Covered(ranges, h) /\ ~Covered(db.crawlers, h)
<1> DEFINE S == UNION {Pieces(r) : r \in Range(ranges)}
<1>1. S \in SUBSET Ranges
  BY DEF Pieces, Left
<1>2. IsFiniteSet(S)
  BY <1>1, RangesFinite
<1>3. SetToSeq(S) \in Seq(S) /\ Range(SetToSeq(S)) = S
  BY <1>2, SetToSeqProps
<1>4. Punched(ranges) = SetToSeq(S)
  BY DEF Punched
<1>5. Punched(ranges) \in Seq(Ranges)
  BY <1>1, <1>3, <1>4
<1>6. ASSUME NEW h \in Hosts
      PROVE  Covered(Punched(ranges), h) <=>
                Covered(ranges, h) /\ ~Covered(db.crawlers, h)
  <2>1. Covered(Punched(ranges), h) <=> \E q \in Range(ranges) : \E r \in Pieces(q) : h \in r
    <3>1. Covered(Punched(ranges), h) <=> \E r \in S : h \in r
      BY <1>3, <1>4 DEF Covered
    <3>2. QED
      BY <3>1
  <2>2. Covered(db.crawlers, h) <=> h \in UNION Range(db.crawlers)
    BY DEF Covered
  <2>3. ASSUME NEW q \in Range(ranges), NEW r \in Pieces(q), h \in r
        PROVE  h \in q /\ ~Covered(db.crawlers, h)
    BY <2>2, <2>3 DEF Pieces, Left
  <2>4. ASSUME NEW q \in Range(ranges), h \in q, ~Covered(db.crawlers, h)
        PROVE  \E r \in Pieces(q) : h \in r
    <3> DEFINE C == {r \in Left(q) : h \in r}
    <3>1. {h} \in C
      BY <2>2, <2>4 DEF Left, RangesAssumption
    <3>2. C \in SUBSET SUBSET Hosts /\ C # {}
      BY <3>1 DEF Left, RangesAssumption
    <3>a. IsFiniteSet(Hosts)
      BY DEF RangesAssumption
    <3>3. PICK r \in C : \A o \in C : ~Inside(r, o)
      <4> HIDE DEF C
      <4> QED
        BY <3>2, <3>a, Outermost, Zenon
    <3>4. r \in Pieces(q)
      <4> SUFFICES ASSUME NEW o \in Left(q), r \subseteq o, r # o PROVE FALSE
        BY DEF Pieces
      <4>1. o \in C
        OBVIOUS
      <4>2. QED
        BY <4>1, <3>3 DEF Inside
    <3>5. QED
      BY <3>4
  <2>5. Covered(ranges, h) <=> \E q \in Range(ranges) : h \in q
    BY DEF Covered
  <2>6. QED
    BY <2>1, <2>3, <2>4, <2>5
<1>7. QED
  BY <1>5, <1>6

LEMMA ConcatLasts ==
    ASSUME NEW s \in Seq(Lasting), NEW r \in Seq(Lasting)
    PROVE  s \o r \in Seq(Lasting)
OBVIOUS

LEMMA GeoLasts ==
    ASSUME RulesAssumption, db \in Dbs
    PROVE  Geo \in Seq(Lasting) /\ \A f \in {V4, V6} : CatchAll(f) \in Seq(Lasting)
<1>1. V4 \in Ranges /\ V6 \in Ranges /\ db.countries \in Seq(Ranges)
  BY DbTypes DEF RulesAssumption, V4, Lists
<1>2. "allow" \in Actions /\ "block" \in Actions /\ NoPort \in Ports \union {NoPort}
  BY DEF Actions
<1>3. \A f \in {V4, V6} : CatchAll(f) \in Seq(Lasting)
  <2> TAKE f \in {V4, V6}
  <2>1. <<f>> \in Seq(Ranges)
    BY <1>1
  <2>2. Permanent("block", NoPort, <<f>>) \in Seq(Lasting)
    BY <2>1, <1>2, PermanentLasts
  <2>3. QED
    BY <2>2 DEF CatchAll
<1>4. /\ Permanent("block", NoPort, db.countries) \in Seq(Lasting)
      /\ Permanent("allow", NoPort, db.countries) \in Seq(Lasting)
  BY <1>1, <1>2, PermanentLasts
<1>5. Permanent("allow", NoPort, db.countries) \o CatchAll(V4) \o CatchAll(V6) \in Seq(Lasting)
  BY <1>3, <1>4, ConcatLasts
<1>6. QED
  BY <1>3, <1>4, <1>5 DEF Geo

LEMMA DerivedLasts ==
    ASSUME RulesAssumption, RangesAssumption, db \in Dbs
    PROVE  /\ Derived \in Seq(Lasting) /\ Open \in Seq(Lasting)
           /\ \A l \in {db.banned, Punched(db.abuse), Punched(db.cloud)} :
                l \in Seq(Ranges) /\ Blocked(l) \in Seq(Lasting)
<1>1. db.banned \in Seq(Ranges) /\ db.abuse \in Seq(Ranges) /\ db.cloud \in Seq(Ranges)
  BY DbTypes DEF Lists
<1>2. Punched(db.abuse) \in Seq(Ranges) /\ Punched(db.cloud) \in Seq(Ranges)
  BY <1>1, PunchedProps
<1>3. /\ "allow" \in Actions /\ "block" \in Actions /\ NoPort \in Ports \union {NoPort}
      /\ AcmePort \in Ports \union {NoPort}
  BY DEF Actions, RulesAssumption
<1>4. \A l \in {db.banned, Punched(db.abuse), Punched(db.cloud)} :
        l \in Seq(Ranges) /\ Blocked(l) \in Seq(Lasting)
  BY <1>1, <1>2, <1>3, PermanentLasts DEF Blocked
<1>5. Open \in Seq(Lasting)
  BY <1>2, <1>3, PermanentLasts DEF Open
<1>6. Geo \in Seq(Lasting)
  BY GeoLasts
<1>7. Derived \in Seq(Lasting)
  <2>1. /\ Blocked(db.banned) \in Seq(Lasting) /\ Blocked(Punched(db.abuse)) \in Seq(Lasting)
        /\ Blocked(Punched(db.cloud)) \in Seq(Lasting)
    BY <1>4
  <2>2. Geo \o Open \o Blocked(Punched(db.cloud)) \in Seq(Lasting)
    BY <2>1, <1>5, <1>6, ConcatLasts
  <2>3. Blocked(Punched(db.cloud)) \o Geo \in Seq(Lasting)
    BY <2>1, <1>6, ConcatLasts
  <2>4. Blocked(db.banned) \o Blocked(Punched(db.abuse)) \in Seq(Lasting)
    BY <2>1, ConcatLasts
  <2>5. QED
    BY <2>2, <2>3, <2>4, ConcatLasts DEF Derived
<1>8. QED
  BY <1>4, <1>5, <1>7

LEMMA AllRulesLast ==
    ASSUME RulesAssumption, RangesAssumption, db \in Dbs
    PROVE  AllRules \in Seq(Lasting)
<1>1. /\ db.logins \in Seq(Ranges) /\ db.trusted \in Seq(Ranges)
      /\ Private \in Seq(Ranges) /\ db.admin \in Seq(Lasting)
  BY DbTypes DEF Lists, RulesAssumption
<1>2. "allow" \in Actions /\ NoPort \in Ports \union {NoPort}
  BY DEF Actions
<1>3. \A l \in {db.logins, db.trusted, Private} :
        Permanent("allow", NoPort, l) \in Seq(Lasting)
  BY <1>1, <1>2, PermanentLasts
<1>4. Derived \in Seq(Lasting)
  BY DerivedLasts
<1>5. <<>> \in Seq(Lasting)
  OBVIOUS
<1>6. QED
  BY <1>1, <1>3, <1>4, <1>5, ConcatLasts DEF AllRules

-----------------------------------------------------------------------------
(* A render: one rule more, and the stages still decide as the rules do.   *)

Elements == UNION {[E -> Nat \union {Forever}] : E \in SUBSET Ranges}

StageTypes == [action : Actions, port : Ports \union {NoPort}, elements : Elements]

\* Who the stages catch at t, when they are loaded at from.
CaughtBy(list, pkt, t, from) ==
    {i \in DOMAIN list : ForPort(list[i], pkt) /\ Covers(list[i].elements, pkt.host, t, from)}

StageVerdict(list, pkt, t, from) == Verdict(list, CaughtBy(list, pkt, t, from))

\* The first n rules that match.
Prefix(list, n, pkt, t) == {i \in Matching(list, pkt, t) : i <= n}

LEMMA ElementsAre ==
    ASSUME NEW e \in Elements
    PROVE  IsElements(e) /\ e = [r \in DOMAIN e |-> e[r]]
BY DEF Elements, IsElements

LEMMA ElementsIn ==
    ASSUME NEW E \in SUBSET Ranges, NEW e \in [E -> Nat \union {Forever}]
    PROVE  e \in Elements
BY DEF Elements

\* From s to r, n + 1 may be caught too.
OneMore(n, s, r, A, B) ==
    /\ n \in Nat /\ A \in SUBSET (1 .. n) /\ B \in SUBSET (1 .. n + 1)
    /\ B \cap (1 .. n) = A
    /\ \A i \in A : s[i].action = r[i].action

\* One more after the others.
LEMMA VerdictOneMore ==
    ASSUME NEW n, NEW s, NEW r, NEW A, NEW B, OneMore(n, s, r, A, B)
    PROVE  Verdict(r, B) = IF A # {} THEN Verdict(s, A)
                           ELSE IF n + 1 \in B THEN r[n + 1].action ELSE "none"
<1> USE DEF OneMore
<1>1. A \in SUBSET Nat /\ B \in SUBSET Nat
  OBVIOUS
<1>2. \A j \in B : j \in A \/ j = n + 1
  OBVIOUS
<1>3. CASE A # {}
  <2>1. PICK i \in A : \A j \in A : i <= j
    BY <1>1, <1>3, MinProps
  <2>2. \A j \in B : i <= j
    <3> TAKE j \in B
    <3>1. CASE j \in A
      BY <2>1, <3>1
    <3>2. CASE j = n + 1
      BY <3>2
    <3>3. QED
      BY <1>2, <3>1, <3>2
  <2>3. Verdict(r, B) = r[i].action
    BY <1>1, <2>2, VerdictFirst
  <2>4. Verdict(s, A) = s[i].action
    BY <1>1, <2>1, VerdictFirst
  <2>5. QED
    BY <1>3, <2>3, <2>4
<1>4. CASE A = {} /\ n + 1 \in B
  <2>1. B = {n + 1}
    BY <1>2, <1>4
  <2>2. \A j \in B : n + 1 <= j
    BY <2>1
  <2>3. QED
    BY <1>1, <1>4, <2>2, VerdictFirst
<1>5. CASE A = {} /\ n + 1 \notin B
  BY <1>2, <1>5 DEF Verdict
<1>6. QED
  BY <1>3, <1>4, <1>5

\* From s to r, i may be caught too, and those behind it have its verdict.
JoinedAt(n, s, r, A, B, i) ==
    /\ n \in Nat /\ A \in SUBSET (1 .. n) /\ B \in SUBSET (1 .. n) /\ i \in 1 .. n
    /\ \A k \in 1 .. n : k # i => (k \in B <=> k \in A)
    /\ i \in A => i \in B
    /\ \A k \in 1 .. n : s[k].action = r[k].action
    /\ \A k \in i .. n : s[k].action = s[i].action

\* One more ahead of those with its verdict.
LEMMA VerdictJoin ==
    ASSUME NEW n, NEW s, NEW r, NEW A, NEW B, NEW i, JoinedAt(n, s, r, A, B, i)
    PROVE  /\ A # {} => Verdict(r, B) = Verdict(s, A)
           /\ A = {} /\ i \in B => Verdict(r, B) = r[i].action
           /\ A = {} /\ i \notin B => Verdict(r, B) = "none"
<1> USE DEF JoinedAt
<1> DEFINE act == s[i].action
<1>1. A \in SUBSET Nat /\ B \in SUBSET Nat
  OBVIOUS
<1>a. B = A \/ B = A \union {i}
  <2>1. CASE i \in B <=> i \in A
    <3>1. \A k : k \in B <=> k \in A
      BY <2>1
    <3>2. QED
      BY <3>1
  <2>2. CASE i \in B /\ i \notin A
    <3>1. \A k : k \in B <=> k \in A \union {i}
      BY <2>2
    <3>2. QED
      BY <3>1
  <2>3. QED
    BY <2>1, <2>2
<1>2. s[i].action = act /\ r[i].action = act
  OBVIOUS
<1>3. CASE A # {}
  <2>1. PICK k \in A : \A j \in A : k <= j
    BY <1>1, <1>3, MinProps
  <2>2. Verdict(s, A) = s[k].action
    BY <1>1, <2>1, VerdictFirst
  <2>3. CASE B = A \/ k <= i
    <3>1. k \in B /\ \A j \in B : k <= j
      BY <2>1, <2>3
    <3>2. Verdict(r, B) = r[k].action
      BY <1>1, <3>1, VerdictFirst
    <3>3. QED
      BY <1>3, <2>2, <3>2
  <2>4. CASE B = A \union {i} /\ ~(k <= i)
    <3>1. k \in i .. n
      BY <2>4
    <3>2. \A j \in B : i <= j
      <4> TAKE j \in B
      <4>1. CASE j \in A
        <5>1. k <= j /\ i < k
          BY <2>1, <2>4, <4>1
        <5>2. QED
          BY <5>1, <4>1
      <4>2. CASE j = i
        BY <4>2
      <4>3. QED
        BY <2>4, <4>1, <4>2
    <3>3. Verdict(r, B) = r[i].action
      BY <1>1, <2>4, <3>2, VerdictFirst
    <3>4. s[k].action = act
      BY <3>1
    <3>5. QED
      BY <1>2, <1>3, <2>2, <3>3, <3>4
  <2>5. QED
    BY <2>3, <2>4, <1>a
<1>4. CASE A = {} /\ i \in B
  <2>1. \A j \in B : i <= j
    BY <1>4, <1>a
  <2>2. QED
    BY <1>1, <1>2, <1>4, <2>1, VerdictFirst
<1>5. CASE A = {} /\ i \notin B
  <2>1. B = {}
    BY <1>5, <1>a
  <2>2. QED
    BY <1>5, <2>1 DEF Verdict
<1>6. QED
  BY <1>3, <1>4, <1>5

LEMMA WithCovers ==
    ASSUME NEW e, DOMAIN e \subseteq Ranges, \A r \in DOMAIN e : e[r] \in Nat \union {Forever},
           NEW range \in Ranges, NEW life \in Nat \union {Forever},
           NEW h, NEW t \in Int, NEW from \in Int, Forever \notin Int
    PROVE  /\ With(e, range, life) \in Elements
           /\ Covers(With(e, range, life), h, t, from) <=>
                \/ Covers(e, h, t, from)
                \/ h \in range /\ (life = Forever \/ t < from + life)
<1> DEFINE w == With(e, range, life)
<1>1. DOMAIN w = DOMAIN e \union {range}
  BY DEF With
<1>2. \A r \in DOMAIN e : r # range => w[r] = e[r]
  BY DEF With
<1>3. w[range] = IF range \in DOMAIN e /\ ~AsLongAs(life, e[range]) THEN e[range] ELSE life
  BY DEF With
<1>4. w = [r \in DOMAIN w |-> w[r]]
  BY DEF With
<1> HIDE DEF w
<1>5. \A r \in DOMAIN w : w[r] \in Nat \union {Forever}
  BY <1>1, <1>2, <1>3
<1>6. w \in Elements
  <2>1. w \in [DOMAIN w -> Nat \union {Forever}]
    BY <1>4, <1>5
  <2>2. DOMAIN w \in SUBSET Ranges
    BY <1>1
  <2>3. QED
    BY <2>1, <2>2, ElementsIn, Zenon
<1>7. (w[range] = Forever \/ t < from + w[range]) <=>
        \/ life = Forever \/ t < from + life
        \/ range \in DOMAIN e /\ (e[range] = Forever \/ t < from + e[range])
  <2>1. CASE range \in DOMAIN e
    <3>1. e[range] \in Nat \union {Forever}
      BY <2>1
    <3>2. CASE e[range] = Forever \/ life = Forever
      BY <3>2, <1>3, <2>1 DEF AsLongAs
    <3>3. CASE e[range] \in Nat /\ life \in Nat
      <4>1. w[range] = IF life >= e[range] THEN life ELSE e[range]
        BY <3>3, <1>3, <2>1 DEF AsLongAs
      <4>2. e[range] # Forever /\ life # Forever
        BY <3>3
      <4>3. QED
        BY <4>1, <4>2, <3>3, <2>1
    <3>4. QED
      BY <3>1, <3>2, <3>3
  <2>2. CASE range \notin DOMAIN e
    BY <2>2, <1>3
  <2>3. QED
    BY <2>1, <2>2
<1>8. Covers(w, h, t, from) <=>
        \/ Covers(e, h, t, from)
        \/ h \in range /\ (life = Forever \/ t < from + life)
  <2>1. ASSUME Covers(w, h, t, from)
        PROVE  \/ Covers(e, h, t, from)
               \/ h \in range /\ (life = Forever \/ t < from + life)
    BY <2>1, <1>1, <1>2, <1>7 DEF Covers
  <2>2. ASSUME Covers(e, h, t, from) PROVE Covers(w, h, t, from)
    BY <2>2, <1>1, <1>2, <1>7 DEF Covers
  <2>3. ASSUME h \in range, life = Forever \/ t < from + life
        PROVE  Covers(w, h, t, from)
    BY <2>3, <1>1, <1>7 DEF Covers
  <2>4. QED
    BY <2>1, <2>2, <2>3
<1>9. QED
  BY <1>6, <1>8 DEF w

\* What is left of a rule's life ends when the rule does.
LEMMA RemainingLives ==
    ASSUME Forever \notin Int, built \in Nat, NEW rule \in Rules, Counts(rule),
           NEW t \in Nat, t >= built
    PROVE  /\ Remaining(rule) \in Nat \union {Forever}
           /\ (Remaining(rule) = Forever \/ t < built + Remaining(rule)) <=> Lives(rule, t)
           /\ rule.enabled
<1>1. rule.expires \in Nat \union {Forever} /\ rule.enabled
  BY DEF Rules, Counts
<1>2. CASE rule.expires = Forever
  BY <1>1, <1>2 DEF Remaining, Lives
<1>3. CASE rule.expires \in Nat
  <2>1. rule.expires # Forever /\ rule.expires > built
    BY <1>3 DEF Counts, Lives
  <2>2. Remaining(rule) = rule.expires - built /\ Remaining(rule) \in Nat
    BY <1>3, <2>1 DEF Remaining
  <2>3. Remaining(rule) # Forever
    BY <2>2
  <2>4. t < built + Remaining(rule) <=> rule.expires > t
    BY <1>3, <2>2
  <2>5. QED
    BY <1>1, <2>1, <2>2, <2>3, <2>4 DEF Lives
<1>4. QED
  BY <1>1, <1>2, <1>3

LEMMA NotCounting ==
    ASSUME Forever \notin Int, built \in Nat, NEW rule \in Rules, ~Counts(rule),
           NEW t \in Nat, t >= built
    PROVE  ~(rule.enabled /\ Lives(rule, t))
<1>1. rule.expires \in Nat \union {Forever}
  BY DEF Rules
<1>2. QED
  BY <1>1 DEF Counts, Lives

\* What a stage becomes when a rule joins it.
LEMMA JoinStages ==
    ASSUME Forever \notin Int, NEW st \in StageTypes, NEW range \in Ranges,
           NEW life \in Nat \union {Forever}, NEW h, NEW t \in Int, NEW from \in Int
    PROVE  LET new == [st EXCEPT !.elements = With(@, range, life)] IN
           /\ new \in StageTypes /\ new.port = st.port /\ new.action = st.action
           /\ Covers(new.elements, h, t, from) <=>
                \/ Covers(st.elements, h, t, from)
                \/ h \in range /\ (life = Forever \/ t < from + life)
<1> DEFINE e == st.elements
           new == [st EXCEPT !.elements = With(@, range, life)]
<1>1. e \in Elements
  BY DEF StageTypes
<1>2. DOMAIN e \subseteq Ranges /\ \A r \in DOMAIN e : e[r] \in Nat \union {Forever}
  BY <1>1, ElementsAre DEF IsElements
<1>3. /\ With(e, range, life) \in Elements
      /\ Covers(With(e, range, life), h, t, from) <=>
           \/ Covers(e, h, t, from)
           \/ h \in range /\ (life = Forever \/ t < from + life)
  BY <1>2, WithCovers
<1>4. new \in StageTypes /\ new.port = st.port /\ new.action = st.action
      /\ new.elements = With(e, range, life)
  BY <1>3 DEF StageTypes
<1>5. QED
  BY <1>3, <1>4

LEMMA FirstStage ==
    ASSUME Forever \notin Int, NEW rule \in Rules,
           NEW life \in Nat \union {Forever}, NEW h, NEW t \in Int, NEW from \in Int
    PROVE  LET new == Stage(rule, With(<<>>, rule.address, life)) IN
           /\ new \in StageTypes /\ new.port = rule.port /\ new.action = rule.action
           /\ new.elements = With(<<>>, rule.address, life)
           /\ Covers(new.elements, h, t, from) <=>
                h \in rule.address /\ (life = Forever \/ t < from + life)
<1>1. DOMAIN <<>> = {}
  OBVIOUS
<1>2. rule.address \in Ranges /\ rule.port \in Ports \union {NoPort} /\ rule.action \in Actions
  BY DEF Rules
<1>3. ~Covers(<<>>, h, t, from)
  BY <1>1 DEF Covers
<1>4. /\ With(<<>>, rule.address, life) \in Elements
      /\ Covers(With(<<>>, rule.address, life), h, t, from) <=>
           \/ Covers(<<>>, h, t, from)
           \/ h \in rule.address /\ (life = Forever \/ t < from + life)
  BY <1>1, <1>2, WithCovers
<1>5. QED
  BY <1>2, <1>3, <1>4 DEF Stage, StageTypes

\* The stages have grown by a rule, which only decides what they did not.
Grown(st, list, new, matches, pkt, t, from) ==
    /\ list \in Seq(StageTypes)
    /\ StageVerdict(list, pkt, t, from) =
         IF CaughtBy(st, pkt, t, from) # {} THEN StageVerdict(st, pkt, t, from)
         ELSE IF matches THEN new.action ELSE "none"

\* A stage of a rule that matches or not.
IsStageOf(st, new, matches, pkt, t, from) ==
    /\ st \in Seq(StageTypes) /\ new \in StageTypes /\ matches \in BOOLEAN
    /\ matches <=> ForPort(new, pkt) /\ Covers(new.elements, pkt.host, t, from)

\* The stages after one rule more: a new stage at the end.
LEMMA Appended ==
    ASSUME NEW st, NEW new, NEW matches, NEW pkt, NEW t, NEW from,
           IsStageOf(st, new, matches, pkt, t, from)
    PROVE  Grown(st, Append(st, new), new, matches, pkt, t, from)
<1> DEFINE r == Append(st, new)
           n == Len(st)
           A == CaughtBy(st, pkt, t, from)
           B == CaughtBy(r, pkt, t, from)
<1>1. /\ r \in Seq(StageTypes) /\ n \in Nat /\ DOMAIN st = 1 .. n
      /\ DOMAIN r = 1 .. n + 1 /\ \A i \in 1 .. n : r[i] = st[i]
      /\ r[n + 1] = new
  BY DEF IsStageOf
<1> HIDE DEF r, n
<1>2. A \in SUBSET (1 .. n) /\ B \in SUBSET (1 .. n + 1)
  BY <1>1 DEF CaughtBy
<1>3. B \cap (1 .. n) = A
  BY <1>1 DEF CaughtBy
<1>4. n + 1 \in B <=> matches
  BY <1>1 DEF CaughtBy, IsStageOf
<1>5. \A i \in A : st[i].action = r[i].action
  BY <1>1, <1>2
<1> HIDE DEF A, B
<1>6. Verdict(r, B) = IF A # {} THEN Verdict(st, A)
                      ELSE IF n + 1 \in B THEN r[n + 1].action ELSE "none"
  <2>1. OneMore(n, st, r, A, B)
    BY <1>1, <1>2, <1>3, <1>5 DEF OneMore
  <2>2. QED
    BY <2>1, VerdictOneMore, SMTT(30)
<1>7. QED
  BY <1>1, <1>4, <1>6 DEF StageVerdict, A, B, r, Grown

\* A rule that matches or not joins stage i, ahead of others with its verdict.
Joins(st, i, new, matches, pkt, t, from) ==
    /\ st \in Seq(StageTypes) /\ i \in DOMAIN st /\ new \in StageTypes
    /\ matches \in BOOLEAN
    /\ new.port = st[i].port /\ new.action = st[i].action
    /\ \A k \in i .. Len(st) : st[k].action = new.action
    /\ Covers(new.elements, pkt.host, t, from) /\ ForPort(new, pkt) <=>
         (Covers(st[i].elements, pkt.host, t, from) /\ ForPort(new, pkt)) \/ matches

LEMMA Joined ==
    ASSUME NEW st, NEW i, NEW new, NEW matches, NEW pkt, NEW t, NEW from,
           Joins(st, i, new, matches, pkt, t, from)
    PROVE  Grown(st, [st EXCEPT ![i] = new], new, matches, pkt, t, from)
<1> DEFINE r == [st EXCEPT ![i] = new]
           n == Len(st)
           A == CaughtBy(st, pkt, t, from)
           B == CaughtBy(r, pkt, t, from)
<1>1. /\ r \in Seq(StageTypes) /\ n \in Nat /\ DOMAIN st = 1 .. n /\ DOMAIN r = 1 .. n
      /\ \A k \in 1 .. n : k # i => r[k] = st[k]
      /\ r[i] = new
  BY DEF Joins
<1> HIDE DEF r, n
<1>2. A \in SUBSET (1 .. n) /\ i \in 1 .. n
  BY <1>1 DEF CaughtBy, Joins
<1>3. \A k \in 1 .. n : k # i => (k \in B <=> k \in A)
  BY <1>1 DEF CaughtBy
<1>4. i \in B <=> i \in A \/ matches
  <2>1. ForPort(new, pkt) <=> ForPort(st[i], pkt)
    BY DEF ForPort, Joins
  <2>2. QED
    BY <1>1, <1>2, <2>1 DEF CaughtBy, Joins
<1>5. B \subseteq 1 .. n
  BY <1>1 DEF CaughtBy
<1>6. \A k \in 1 .. n : st[k].action = r[k].action
  BY <1>1 DEF Joins
<1>7. new.action = st[i].action /\ \A k \in i .. n : st[k].action = new.action
  BY DEF n, Joins
<1> HIDE DEF A, B
<1>9. Verdict(r, B) = IF A # {} THEN Verdict(st, A)
                      ELSE IF i \in B THEN new.action ELSE "none"
  <2>1. n \in Nat
    BY <1>1
  <2>2. B \in SUBSET (1 .. n)
    BY <1>5
  <2>3. r[i].action = new.action
    BY <1>1
  <2>4. \A k \in i .. n : st[k].action = st[i].action
    BY <1>7
  <2>7. i \in A => i \in B
    BY <1>4
  <2>5. Verdict(r, B) = IF A # {} THEN Verdict(st, A)
                        ELSE IF i \in B THEN r[i].action ELSE "none"
    <3>1. JoinedAt(n, st, r, A, B, i)
      BY <2>1, <1>2, <1>3, <2>7, <1>6, <2>2, <2>4 DEF JoinedAt
    <3>2. QED
      <4>1. /\ A # {} => Verdict(r, B) = Verdict(st, A)
            /\ A = {} /\ i \in B => Verdict(r, B) = r[i].action
            /\ A = {} /\ i \notin B => Verdict(r, B) = "none"
        BY <3>1, VerdictJoin
      <4>2. QED
        BY <4>1
  <2>6. QED
    BY <2>3, <2>5
<1>10. QED
  BY <1>1, <1>4, <1>9 DEF StageVerdict, A, B, r, Grown

-----------------------------------------------------------------------------
(* The invariant, and what it is for.                                      *)

\* The moments a render speaks of: a chain has no expiry.
Times == IF backend = "nftables" THEN {t \in Nat : t >= built} ELSE {built}

TypeInv ==
    /\ db \in Dbs /\ log \in Logs /\ backend \in {"nftables", "iptables"}
    /\ step \in {"idle", "render", "loaded"}
    /\ built \in Nat /\ since \in Nat /\ now \in Nat /\ built <= now
    /\ rules \in Seq(Lasting) /\ count \in Nat /\ count <= Len(rules)
    /\ stages \in Seq(StageTypes)
    /\ backend = "iptables" =>
         \A i \in DOMAIN stages : \A r \in DOMAIN stages[i].elements :
            stages[i].elements[r] = Forever

\* The stages decide as the rules they were made of.
Faithful ==
    \A pkt \in Packets : \A t \in Times :
        StageVerdict(stages, pkt, t, built) = Verdict(rules, Prefix(rules, count, pkt, t))

Steps ==
    /\ step = "idle" => count = 0 /\ stages = <<>>
    /\ step # "idle" => rules = AllRules
    /\ step = "loaded" => /\ loaded = stages /\ count = Len(rules) /\ Passed
                          /\ built <= since /\ since <= now

Invariant == TypeInv /\ Faithful /\ Steps

\* The first rule more.
LEMMA OneRuleMore ==
    ASSUME NEW list \in Seq(Rules), NEW n \in Nat, n < Len(list), NEW pkt, NEW t
    PROVE  LET rule == list[n + 1]
               matches == /\ rule.enabled /\ Lives(rule, t)
                          /\ ForPort(rule, pkt) /\ pkt.host \in rule.address
               old == Verdict(list, Prefix(list, n, pkt, t))
           IN  /\ Verdict(list, Prefix(list, n + 1, pkt, t)) =
                    IF old # "none" THEN old
                    ELSE IF matches THEN rule.action ELSE "none"
               /\ Prefix(list, n, pkt, t) # {} => old \in Actions
               /\ Prefix(list, n, pkt, t) = {} => old = "none"
               /\ "none" \notin Actions
<1> DEFINE A == Prefix(list, n, pkt, t)
           B == Prefix(list, n + 1, pkt, t)
           rule == list[n + 1]
           matches == /\ rule.enabled /\ Lives(rule, t)
                      /\ ForPort(rule, pkt) /\ pkt.host \in rule.address
<1>1. DOMAIN list = 1 .. Len(list) /\ Len(list) \in Nat
  OBVIOUS
<1>2. A \in SUBSET (1 .. n) /\ B \in SUBSET (1 .. n + 1) /\ A \subseteq 1 .. Len(list)
  BY <1>1 DEF Prefix, Matching
<1>3. B \cap (1 .. n) = A
  BY <1>1 DEF Prefix, Matching
<1>4. n + 1 \in B <=> matches
  BY <1>1 DEF Prefix, Matching
<1> HIDE DEF A, B, matches
<1>5. Verdict(list, B) = IF A # {} THEN Verdict(list, A)
                         ELSE IF n + 1 \in B THEN rule.action ELSE "none"
  <2>1. OneMore(n, list, list, A, B)
    BY <1>2, <1>3 DEF OneMore
  <2>2. QED
    BY <2>1, VerdictOneMore, SMTT(30)
<1>6. A = {} => Verdict(list, A) = "none"
  BY DEF Verdict
<1>7. ASSUME A # {} PROVE Verdict(list, A) \in Actions
  <2>1. A \in SUBSET Nat
    BY <1>2
  <2>2. Min(A) \in A
    BY <2>1, <1>7, MinProps
  <2>3. list[Min(A)] \in Rules
    <3>1. Min(A) \in 1 .. Len(list)
      BY <2>2, <1>2
    <3>2. QED
      BY <3>1
  <2>4. QED
    BY <2>3, <1>7 DEF Verdict, Rules
<1>8. "none" \notin Actions
  BY DEF Actions
<1>9. QED
  BY <1>4, <1>5, <1>6, <1>7, <1>8 DEF A, B, matches

\* Whether a rule decides for a packet.
Matches(rule, pkt, t) ==
    rule.enabled /\ Lives(rule, t) /\ ForPort(rule, pkt) /\ pkt.host \in rule.address

LEMMA StageCases ==
    ASSUME NEW st \in Seq(StageTypes), NEW pkt, NEW t, NEW from
    PROVE  CaughtBy(st, pkt, t, from) # {} <=> StageVerdict(st, pkt, t, from) # "none"
<1> DEFINE A == CaughtBy(st, pkt, t, from)
<1>1. A \in SUBSET Nat /\ A \subseteq DOMAIN st
  BY DEF CaughtBy
<1>2. "none" \notin Actions
  BY DEF Actions
<1>3. CASE A = {}
  BY <1>3 DEF StageVerdict, Verdict
<1>4. CASE A # {}
  <2>1. Min(A) \in A
    BY <1>1, <1>4, MinProps
  <2>2. st[Min(A)] \in StageTypes
    BY <2>1, <1>1
  <2>3. StageVerdict(st, pkt, t, from) = st[Min(A)].action
    BY <1>4 DEF StageVerdict, Verdict
  <2>4. QED
    BY <1>2, <1>4, <2>2, <2>3 DEF StageTypes
<1>5. QED
  BY <1>3, <1>4

\* What the stages become when rule is rendered.
Rendered(rule) ==
    IF ~Counts(rule) THEN stages
    ELSE IF backend = "nftables" THEN Staged(rule) ELSE Line(rule)

LEMMA StagedVerdict ==
    ASSUME RulesAssumption, TypeInv, backend = "nftables",
           NEW rule \in Rules, Counts(rule), NEW pkt \in Packets, NEW t \in Times
    PROVE  /\ Staged(rule) \in Seq(StageTypes)
           /\ StageVerdict(Staged(rule), pkt, t, built) =
                IF StageVerdict(stages, pkt, t, built) # "none"
                  THEN StageVerdict(stages, pkt, t, built)
                ELSE IF Matches(rule, pkt, t) THEN rule.action ELSE "none"
<1> DEFINE life == Remaining(rule)
           m == Matches(rule, pkt, t)
<1>1. Forever \notin Int
  BY DEF RulesAssumption
<1>2. t \in Nat /\ t >= built /\ built \in Nat /\ built \in Int /\ t \in Int
  BY DEF Times, TypeInv
<1>3. /\ life \in Nat \union {Forever} /\ rule.enabled
      /\ (life = Forever \/ t < built + life) <=> Lives(rule, t)
  BY <1>1, <1>2, RemainingLives
<1>4. stages \in Seq(StageTypes)
  BY DEF TypeInv
<1>5. rule.address \in Ranges /\ rule.action \in Actions
  BY DEF Rules
<1>6. CaughtBy(stages, pkt, t, built) # {} <=> StageVerdict(stages, pkt, t, built) # "none"
  BY <1>4, StageCases
<1> HIDE DEF life
<1>7. CASE Joinable(rule) = {}
  <2> DEFINE new == Stage(rule, With(<<>>, rule.address, life))
  <2>1. /\ new \in StageTypes /\ new.port = rule.port /\ new.action = rule.action
        /\ Covers(new.elements, pkt.host, t, built) <=>
             pkt.host \in rule.address /\ (life = Forever \/ t < built + life)
    BY <1>1, <1>2, <1>3, FirstStage
  <2> HIDE DEF new
  <2>2. m \in BOOLEAN /\ (m <=> ForPort(new, pkt) /\ Covers(new.elements, pkt.host, t, built))
    BY <2>1, <1>3 DEF ForPort, Matches
  <2>3. Grown(stages, Append(stages, new), new, m, pkt, t, built)
    <3> HIDE DEF m
    <3>1. IsStageOf(stages, new, m, pkt, t, built)
      BY <1>4, <2>1, <2>2 DEF IsStageOf
    <3>2. QED
      BY <3>1, Appended, Zenon
  <2>4. Staged(rule) = Append(stages, new)
    BY <1>7 DEF Staged, new, life
  <2>5. QED
    BY <1>6, <2>1, <2>3, <2>4 DEF Grown
<1>8. CASE Joinable(rule) # {}
  <2> DEFINE i == Max(Joinable(rule))
             new == [stages[i] EXCEPT !.elements = With(@, rule.address, life)]
  <2>1. Joinable(rule) \in SUBSET (1 .. Len(stages)) /\ Len(stages) \in Nat
    BY <1>4 DEF Joinable
  <2>2. i \in Joinable(rule)
    BY <1>8, <2>1, MaxProps
  <2> HIDE DEF i
  <2>3. /\ i \in DOMAIN stages /\ stages[i].port = rule.port
        /\ \A j \in i .. Len(stages) : stages[j].action = rule.action
    BY <2>2 DEF Joinable
  <2>4. i \in i .. Len(stages) /\ stages[i] \in StageTypes
    BY <1>4, <2>3
  <2>5. /\ new \in StageTypes /\ new.port = stages[i].port /\ new.action = stages[i].action
        /\ Covers(new.elements, pkt.host, t, built) <=>
             \/ Covers(stages[i].elements, pkt.host, t, built)
             \/ pkt.host \in rule.address /\ (life = Forever \/ t < built + life)
    BY <1>1, <1>2, <1>3, <1>5, <2>4, JoinStages
  <2>6. Staged(rule) = [stages EXCEPT ![i] = new]
    BY <1>8, <2>3, <1>4 DEF Staged, i, life
  <2> HIDE DEF new
  <2>7. stages[i].action = rule.action
    BY <2>3, <2>4
  <2>8. Joins(stages, i, new, m, pkt, t, built)
    <3>1. m \in BOOLEAN
      BY <1>3 DEF Matches, Lives
    <3>2. ForPort(new, pkt) <=> ForPort(rule, pkt)
      BY <2>3, <2>5 DEF ForPort
    <3>3. Covers(new.elements, pkt.host, t, built) /\ ForPort(new, pkt) <=>
            (Covers(stages[i].elements, pkt.host, t, built) /\ ForPort(new, pkt)) \/ m
      BY <3>2, <2>5, <1>3 DEF Matches
    <3> HIDE DEF m
    <3>4. QED
      BY <1>4, <2>3, <2>5, <2>7, <3>1, <3>3 DEF Joins
  <2>9. Grown(stages, [stages EXCEPT ![i] = new], new, m, pkt, t, built)
    <3> HIDE DEF m
    <3> QED
      BY <2>8, Joined, Zenon
  <2>10. QED
    BY <1>6, <2>5, <2>6, <2>7, <2>9 DEF Grown
<1>9. QED
  BY <1>7, <1>8

LEMMA LineVerdict ==
    ASSUME RulesAssumption, TypeInv, backend = "iptables",
           NEW rule \in Rules, Counts(rule), NEW pkt \in Packets, NEW t \in Times
    PROVE  /\ Line(rule) \in Seq(StageTypes)
           /\ \A i \in DOMAIN Line(rule) : \A r \in DOMAIN Line(rule)[i].elements :
                Line(rule)[i].elements[r] = Forever
           /\ StageVerdict(Line(rule), pkt, t, built) =
                IF StageVerdict(stages, pkt, t, built) # "none"
                  THEN StageVerdict(stages, pkt, t, built)
                ELSE IF Matches(rule, pkt, t) THEN rule.action ELSE "none"
<1> DEFINE new == Stage(rule, With(<<>>, rule.address, Forever))
           m == Matches(rule, pkt, t)
<1>1. Forever \notin Int
  BY DEF RulesAssumption
<1>2. t = built /\ built \in Nat /\ built \in Int /\ t \in Int
  BY DEF Times, TypeInv
<1>3. stages \in Seq(StageTypes)
  BY DEF TypeInv
<1>4. CaughtBy(stages, pkt, t, built) # {} <=> StageVerdict(stages, pkt, t, built) # "none"
  BY <1>3, StageCases
<1>5. /\ new \in StageTypes /\ new.port = rule.port /\ new.action = rule.action
      /\ new.elements = With(<<>>, rule.address, Forever)
      /\ Covers(new.elements, pkt.host, t, built) <=> pkt.host \in rule.address
  BY <1>1, <1>2, FirstStage
<1>6. \A r \in DOMAIN new.elements : new.elements[r] = Forever
  BY <1>5 DEF With
<1> HIDE DEF new
<1>7. m \in BOOLEAN /\ (m <=> ForPort(new, pkt) /\ Covers(new.elements, pkt.host, t, built))
  BY <1>2, <1>5 DEF ForPort, Matches, Counts, Lives
<1>8. Grown(stages, Append(stages, new), new, m, pkt, t, built)
  <2> HIDE DEF m
  <2>1. IsStageOf(stages, new, m, pkt, t, built)
    BY <1>3, <1>5, <1>7 DEF IsStageOf
  <2>2. QED
    BY <2>1, Appended, Zenon
<1>9. Line(rule) = Append(stages, new)
  BY DEF Line, new
<1>10. \A i \in DOMAIN Append(stages, new) :
         \A r \in DOMAIN Append(stages, new)[i].elements :
            Append(stages, new)[i].elements[r] = Forever
  <2>1. \A i \in DOMAIN stages : \A r \in DOMAIN stages[i].elements :
          stages[i].elements[r] = Forever
    BY DEF TypeInv
  <2>2. \A i \in DOMAIN Append(stages, new) :
          (i \in DOMAIN stages /\ Append(stages, new)[i] = stages[i])
            \/ Append(stages, new)[i] = new
    BY <1>3
  <2>3. QED
    BY <2>1, <2>2, <1>6
<1>11. QED
  BY <1>4, <1>5, <1>8, <1>9, <1>10 DEF Grown

LEMMA NothingYet ==
    ASSUME NEW list \in Seq(Rules), NEW pkt, NEW t, NEW from
    PROVE  StageVerdict(<<>>, pkt, t, from) = Verdict(list, Prefix(list, 0, pkt, t))
<1>1. Prefix(list, 0, pkt, t) = {}
  BY DEF Prefix, Matching
<1>2. CaughtBy(<<>>, pkt, t, from) = {}
  BY DEF CaughtBy
<1>3. QED
  BY <1>1, <1>2 DEF StageVerdict, Verdict

LEMMA SameRules ==
    ASSUME db' = db
    PROVE  AllRules' = AllRules
<1>1. \A r : Punched(r)' = Punched(r)
  BY DEF Punched, Pieces, Left
<1>2. Geo' = Geo
  BY DEF Geo, CatchAll
<1>3. Derived' = Derived
  BY <1>1, <1>2 DEF Derived, Open, Blocked
<1>4. QED
  BY <1>3 DEF AllRules

LEMMA SamePassed ==
    ASSUME UNCHANGED <<db, log, rules, built>>
    PROVE  Passed' = Passed
BY DEF Passed, AtRisk, DecidesSsh, BlocksAll, Counts

LEMMA PacketExists ==
    ASSUME RulesAssumption
    PROVE  \E pkt : pkt \in Packets
<1>1. PICK h \in Hosts : TRUE
  BY DEF RulesAssumption
<1>2. [host |-> h, port |-> AcmePort] \in Packets
  BY DEF RulesAssumption, Packets
<1>3. QED
  BY <1>2

\* The rule at hand, rendered.
LEMMA RenderedVerdict ==
    ASSUME RulesAssumption, TypeInv, Faithful, count < Len(rules)
    PROVE  LET new == Rendered(rules[count + 1]) IN
           /\ new \in Seq(StageTypes)
           /\ backend = "iptables" =>
                \A i \in DOMAIN new : \A r \in DOMAIN new[i].elements :
                    new[i].elements[r] = Forever
           /\ \A pkt \in Packets : \A t \in Times :
                StageVerdict(new, pkt, t, built) = Verdict(rules, Prefix(rules, count + 1, pkt, t))
<1> DEFINE rule == rules[count + 1]
           new == Rendered(rule)
<1>1. /\ rules \in Seq(Rules) /\ count \in Nat /\ count + 1 \in 1 .. Len(rules)
      /\ rule \in Rules /\ stages \in Seq(StageTypes)
  <2>1. rules \in Seq(Lasting) /\ count \in Nat /\ stages \in Seq(StageTypes)
    BY DEF TypeInv
  <2>2. rules \in Seq(Rules)
    BY <2>1, LastingRules
  <2>3. count + 1 \in 1 .. Len(rules)
    BY <2>1
  <2>4. QED
    BY <2>1, <2>2, <2>3
<1>2. Forever \notin Int /\ built \in Nat /\ backend \in {"nftables", "iptables"}
  BY DEF RulesAssumption, TypeInv
<1>3. \A t \in Times : t \in Nat /\ t >= built
  BY <1>2 DEF Times
<1> HIDE DEF rule, new
<1>4. ASSUME NEW pkt \in Packets, NEW t \in Times
      PROVE  Verdict(rules, Prefix(rules, count + 1, pkt, t)) =
               IF StageVerdict(stages, pkt, t, built) # "none"
                 THEN StageVerdict(stages, pkt, t, built)
               ELSE IF Matches(rule, pkt, t) THEN rule.action ELSE "none"
  <2>1. StageVerdict(stages, pkt, t, built) = Verdict(rules, Prefix(rules, count, pkt, t))
    BY DEF Faithful
  <2>2. Verdict(rules, Prefix(rules, count + 1, pkt, t)) =
          IF Verdict(rules, Prefix(rules, count, pkt, t)) # "none"
            THEN Verdict(rules, Prefix(rules, count, pkt, t))
          ELSE IF Matches(rule, pkt, t) THEN rule.action ELSE "none"
    BY <1>1, OneRuleMore DEF Matches, rule
  <2>3. QED
    BY <2>1, <2>2
<1>5. CASE ~Counts(rule)
  <2>1. new = stages
    BY <1>5 DEF new, Rendered
  <2>2. \A pkt \in Packets : \A t \in Times : ~Matches(rule, pkt, t)
    BY <1>1, <1>2, <1>3, <1>5, NotCounting DEF Matches
  <2>3. ASSUME NEW pkt \in Packets, NEW t \in Times
        PROVE  StageVerdict(stages, pkt, t, built) =
                 Verdict(rules, Prefix(rules, count + 1, pkt, t))
    BY <1>4, <2>2
  <2>4. backend = "iptables" =>
          \A i \in DOMAIN stages : \A r \in DOMAIN stages[i].elements :
            stages[i].elements[r] = Forever
    BY DEF TypeInv
  <2>5. QED
    BY <1>1, <2>1, <2>3, <2>4 DEF rule, new
<1>6. CASE Counts(rule) /\ backend = "nftables"
  <2>1. new = Staged(rule)
    BY <1>6 DEF new, Rendered
  <2>2. ASSUME NEW pkt \in Packets, NEW t \in Times
        PROVE  StageVerdict(Staged(rule), pkt, t, built) =
                 Verdict(rules, Prefix(rules, count + 1, pkt, t))
    BY <1>1, <1>4, <1>6, StagedVerdict
  <2>3. Staged(rule) \in Seq(StageTypes)
    <3>1. PICK pkt \in Packets : TRUE
      BY PacketExists
    <3>2. built \in Times
      BY <1>2 DEF Times
    <3>3. QED
      BY <1>1, <1>6, <3>1, <3>2, StagedVerdict
  <2>4. backend # "iptables"
    BY <1>6
  <2>5. QED
    BY <2>1, <2>2, <2>3, <2>4 DEF rule, new
<1>7. CASE Counts(rule) /\ backend = "iptables"
  <2>1. new = Line(rule)
    BY <1>7 DEF new, Rendered
  <2>2. ASSUME NEW pkt \in Packets, NEW t \in Times
        PROVE  StageVerdict(Line(rule), pkt, t, built) =
                 Verdict(rules, Prefix(rules, count + 1, pkt, t))
    BY <1>1, <1>4, <1>7, LineVerdict
  <2>3. /\ Line(rule) \in Seq(StageTypes)
        /\ \A i \in DOMAIN Line(rule) : \A r \in DOMAIN Line(rule)[i].elements :
             Line(rule)[i].elements[r] = Forever
    <3>1. PICK pkt \in Packets : TRUE
      BY PacketExists
    <3>2. built \in Times
      BY <1>2 DEF Times
    <3>3. QED
      BY <1>1, <1>7, <3>1, <3>2, LineVerdict
  <2>4. QED
    BY <2>1, <2>2, <2>3 DEF rule, new
<1>8. QED
  BY <1>2, <1>5, <1>6, <1>7 DEF rule, new

\* A step that leaves the render as it is.
LEMMA SameRender ==
    ASSUME Invariant, UNCHANGED <<db, backend, rules, log, stages, count, built>>
    PROVE  /\ Faithful' /\ AllRules' = AllRules /\ Passed' = Passed
           /\ rules' \in Seq(Lasting) /\ count' <= Len(rules')
<1>1. Times' = Times
  BY DEF Times
<1>2. Faithful'
  BY <1>1 DEF Invariant, Faithful
<1>3. QED
  BY <1>2, SameRules, SamePassed DEF Invariant, TypeInv

LEMMA StartsRight ==
    ASSUME RulesAssumption, Init
    PROVE  Invariant
<1>1. rules \in Seq(Lasting) /\ rules \in Seq(Rules) /\ stages \in Seq(StageTypes)
      /\ DOMAIN stages = {} /\ Len(rules) = 0
  BY DEF Init
<1>2. TypeInv
  BY <1>1 DEF Init, TypeInv, RulesAssumption
<1>3. Faithful
  <2>1. rules \in Seq(Rules) /\ stages = <<>> /\ count = 0
    BY <1>1 DEF Init
  <2>2. \A pkt, t, from : StageVerdict(<<>>, pkt, t, from) = Verdict(rules, Prefix(rules, 0, pkt, t))
    BY <2>1, NothingYet
  <2>3. QED
    BY <2>1, <2>2 DEF Faithful
<1>4. Steps
  BY DEF Steps, Init
<1>5. QED
  BY <1>2, <1>3, <1>4 DEF Invariant

LEMMA ReadKeeps ==
    ASSUME RulesAssumption, RangesAssumption, Invariant, Read
    PROVE  Invariant'
<1>1. db' = db /\ AllRules' = AllRules /\ AllRules \in Seq(Lasting)
  BY SameRules, AllRulesLast DEF Read, Invariant, TypeInv
<1>2. stages' = <<>> /\ count' = 0 /\ rules' = AllRules
  BY DEF Read, Invariant, Steps
<1>3. rules' \in Seq(Rules) /\ Len(rules') \in Nat /\ DOMAIN stages' = {}
  BY <1>1, <1>2, LastingRules
<1>4. TypeInv'
  BY <1>1, <1>2, <1>3 DEF Read, Invariant, TypeInv
<1>5. Faithful'
  <2>1. \A pkt, t, from : StageVerdict(<<>>, pkt, t, from)
                            = Verdict(rules', Prefix(rules', 0, pkt, t))
    BY <1>3, NothingYet
  <2>2. QED
    BY <1>2, <2>1 DEF Faithful
<1>6. Steps'
  BY <1>1, <1>2 DEF Read, Steps
<1>7. QED
  BY <1>4, <1>5, <1>6 DEF Invariant

LEMMA RenderKeeps ==
    ASSUME RulesAssumption, Invariant, Render
    PROVE  Invariant'
<1>1. count < Len(rules) /\ count' = count + 1 /\ stages' = Rendered(rules[count + 1])
  BY DEF Render, Rendered
<1>2. UNCHANGED <<db, backend, step, rules, log, loaded, built, since, now>> /\ step = "render"
  BY DEF Render
<1>3. /\ stages' \in Seq(StageTypes)
      /\ backend = "iptables" =>
           \A i \in DOMAIN stages' : \A r \in DOMAIN stages'[i].elements :
               stages'[i].elements[r] = Forever
      /\ \A pkt \in Packets : \A t \in Times :
           StageVerdict(stages', pkt, t, built) = Verdict(rules, Prefix(rules, count + 1, pkt, t))
  BY <1>1, RenderedVerdict DEF Invariant
<1>4. TypeInv'
  <2>1. count' \in Nat /\ count' <= Len(rules)
    BY <1>1 DEF Invariant, TypeInv
  <2>2. QED
    BY <1>2, <1>3, <2>1 DEF Invariant, TypeInv
<1>5. Times' = Times
  BY <1>2 DEF Times
<1>6. Faithful'
  BY <1>1, <1>2, <1>3, <1>5 DEF Faithful
<1>7. Steps'
  BY <1>2, SameRules DEF Invariant, Steps
<1>8. QED
  BY <1>4, <1>6, <1>7 DEF Invariant

LEMMA OthersKeep ==
    ASSUME RulesAssumption, Invariant, Load \/ Boot \/ Tick \/ UNCHANGED vars
    PROVE  Invariant'
<1>1. UNCHANGED <<db, backend, rules, log, stages, count, built>>
  BY DEF Load, Boot, Tick, vars
<1>2. /\ Faithful' /\ AllRules' = AllRules /\ Passed' = Passed
      /\ rules' \in Seq(Lasting) /\ count' <= Len(rules')
  BY <1>1, SameRender
<1>3. now' \in Nat /\ now <= now' /\ since' \in Nat
  BY DEF Load, Boot, Tick, vars, Invariant, TypeInv
<1>4. step' \in {"idle", "render", "loaded"}
  BY DEF Load, Boot, Tick, vars, Invariant, TypeInv
<1>5. TypeInv'
  BY <1>1, <1>2, <1>3, <1>4 DEF Invariant, TypeInv
<1>6. Steps'
  <2>1. CASE Load
    BY <1>1, <1>2, <2>1 DEF Load, Invariant, Steps, TypeInv
  <2>2. CASE Boot
    BY <1>1, <1>2, <2>2 DEF Boot, Invariant, Steps, TypeInv
  <2>3. CASE Tick \/ UNCHANGED vars
    BY <1>1, <1>2, <2>3 DEF Tick, vars, Invariant, Steps, TypeInv
  <2>4. QED
    BY <2>1, <2>2, <2>3
<1>7. QED
  BY <1>2, <1>5, <1>6 DEF Invariant

LEMMA AlwaysInvariant == Spec => []Invariant
<1>1. Init => Invariant
  BY RulesAssumption, StartsRight
<1>2. Invariant /\ [Next]_vars => Invariant'
  BY RulesAssumption, RangesAssumption, ReadKeeps, RenderKeeps, OthersKeep DEF Next
<1>3. QED
  BY <1>1, <1>2, PTL DEF Spec

-----------------------------------------------------------------------------
(* What the kernel does is what the rules say.                             *)

LEMMA KernelTimes ==
    ASSUME Invariant, step = "loaded"
    PROVE  /\ KernelTime \in Times /\ KernelTime \in Nat /\ KernelTime >= built
           /\ now \in Int /\ since \in Int /\ built \in Int
           /\ rules \in Seq(Rules) /\ rules \in Seq(Lasting)
<1>1. /\ built \in Nat /\ since \in Nat /\ now \in Nat /\ since <= now
      /\ rules \in Seq(Lasting)
  BY DEF Invariant, TypeInv, Steps
<1>2. rules \in Seq(Rules)
  BY <1>1, LastingRules
<1>3. QED
  BY <1>1, <1>2 DEF KernelTime, Times

LEMMA StageElements ==
    ASSUME NEW list \in Seq(StageTypes), NEW i \in DOMAIN list
    PROVE  IsElements(list[i].elements)
<1>1. list[i] \in StageTypes
  OBVIOUS
<1>2. list[i].elements \in Elements
  BY <1>1 DEF StageTypes
<1>3. QED
  BY <1>2, ElementsAre

\* What is in the sets now is what the stages had in them at the kernel's time.
LEMMA KernelCatches ==
    ASSUME RulesAssumption, RangesAssumption, Invariant, step = "loaded", NEW pkt
    PROVE  Catching(pkt) = CaughtBy(stages, pkt, KernelTime, built)
<1>1. loaded = stages /\ stages \in Seq(StageTypes) /\ Forever \notin Int
  BY DEF Invariant, Steps, TypeInv, RulesAssumption
<1>2. now \in Int /\ since \in Int /\ built \in Int
  BY KernelTimes
<1>3. ASSUME NEW i \in DOMAIN stages
      PROVE  InSets(stages[i].elements, pkt.host, now) <=>
               Covers(stages[i].elements, pkt.host, KernelTime, built)
  <2> DEFINE e == stages[i].elements
  <2>2. IsElements(e)
    BY <1>1, StageElements
  <2>4. backend = "iptables" => \A r \in DOMAIN e : e[r] = Forever
    BY DEF Invariant, TypeInv
  <2> HIDE DEF e
  <2>3. InSets(e, pkt.host, now) <=> Covers(e, pkt.host, now, since)
    BY <1>1, <1>2, <2>2, LayersCover
  <2>5. Covers(e, pkt.host, now, since) <=> Covers(e, pkt.host, KernelTime, built)
    <3>1. CASE backend = "iptables"
      BY <2>4, <3>1 DEF Covers
    <3>2. CASE backend # "iptables"
      <4>1. KernelTime = built + (now - since)
        BY <3>2 DEF KernelTime, Invariant, TypeInv
      <4>2. \A r \in DOMAIN e : e[r] = Forever
               \/ (now < since + e[r] <=> KernelTime < built + e[r])
        <5> TAKE r \in DOMAIN e
        <5>1. e[r] \in Nat \union {Forever}
          BY <2>2 DEF IsElements
        <5>2. QED
          BY <1>2, <4>1, <5>1
      <4>3. QED
        BY <4>2 DEF Covers
    <3>3. QED
      BY <3>1, <3>2
  <2>6. QED
    BY <2>3, <2>5 DEF e
<1>4. QED
  BY <1>1, <1>3 DEF Catching, CaughtBy

LEMMA ScriptFollows ==
    ASSUME RulesAssumption, RangesAssumption, Invariant
    PROVE  ScriptDecides
<1>1. ASSUME NEW i \in DOMAIN stages,
             NEW r \in Kept(stages[i].elements), NEW q \in Kept(stages[i].elements),
             Depth(stages[i].elements, r) = Depth(stages[i].elements, q)
      PROVE  r = q \/ r \cap q = {}
  <2>1. stages \in Seq(StageTypes)
    BY DEF Invariant, TypeInv
  <2>2. IsElements(stages[i].elements)
    BY <2>1, StageElements
  <2>3. QED
    BY <1>1, <2>2, LayersApart
<1>2. ASSUME step = "loaded", NEW pkt \in Packets
      PROVE  KernelVerdict(pkt) = RuleVerdict(rules, pkt, KernelTime)
  <2>1. KernelTime \in Times /\ rules \in Seq(Rules) /\ count = Len(rules) /\ loaded = stages
    BY <1>2, KernelTimes DEF Invariant, Steps
  <2>2. StageVerdict(stages, pkt, KernelTime, built)
          = Verdict(rules, Prefix(rules, Len(rules), pkt, KernelTime))
    BY <2>1 DEF Invariant, Faithful
  <2>3. Prefix(rules, Len(rules), pkt, KernelTime) = Matching(rules, pkt, KernelTime)
    <3>1. \A i \in Matching(rules, pkt, KernelTime) : i <= Len(rules)
      BY <2>1 DEF Matching
    <3>2. QED
      BY <3>1 DEF Prefix
  <2>4. Catching(pkt) = CaughtBy(stages, pkt, KernelTime, built)
    BY <1>2, KernelCatches
  <2>5. QED
    BY <2>1, <2>2, <2>3, <2>4 DEF KernelVerdict, StageVerdict, RuleVerdict
<1>3. QED
  BY <1>1, <1>2 DEF ScriptDecides

\* nft takes every script (no set has overlapping elements), and in the kernel
\* each address gets the verdict of the first rule that matches it, at every
\* moment: whatever rules join a stage, whichever elements are left out as
\* inside another, and however late or often the script was loaded.
THEOREM ScriptKeepsOrder == Spec => []ScriptDecides
<1>1. Invariant => ScriptDecides
  BY RulesAssumption, RangesAssumption, ScriptFollows
<1>2. QED
  BY <1>1, AlwaysInvariant, PTL

-----------------------------------------------------------------------------
(* The guard's word.                                                       *)

LEMMA GuardKept ==
    ASSUME RulesAssumption, RangesAssumption, Invariant
    PROVE  GuardHolds
<1> SUFFICES ASSUME step = "loaded", db.checked, NEW pkt \in Packets,
                    pkt.host \in log.clients, Dropped(pkt)
             PROVE  FALSE
  BY DEF GuardHolds
<1> DEFINE h == pkt.host
           A == Matching(rules, pkt, KernelTime)
           D == {i \in DOMAIN rules : DecidesSsh(rules[i], h)}
<1>1. /\ KernelTime \in Nat /\ KernelTime >= built /\ built \in Nat
      /\ rules \in Seq(Rules) /\ rules \in Seq(Lasting) /\ Forever \notin Int
  BY KernelTimes DEF RulesAssumption, Invariant, TypeInv
<1>2. RuleVerdict(rules, pkt, KernelTime) \in {"block", "reject"}
  BY ScriptFollows DEF Dropped, ScriptDecides
<1>3. PICK k \in A : /\ \A j \in A : k <= j
                     /\ rules[k].action \in {"block", "reject"}
                     /\ rules[k] \in Rules /\ k \in DOMAIN rules /\ k \in Nat
  <2>1. RuleVerdict(rules, pkt, KernelTime) # "none"
    BY <1>2
  <2>2. QED
    BY <1>1, <1>2, <2>1, VerdictCases
<1>4. DecidesSsh(rules[k], h)
  <2>1. rules[k].enabled /\ Lives(rules[k], KernelTime) /\ h \in rules[k].address
    BY <1>3 DEF Matching
  <2>2. rules[k].expires \in Nat \union {Forever}
    BY <1>3 DEF Rules
  <2>3. Lives(rules[k], built)
    BY <1>1, <2>1, <2>2 DEF Lives
  <2>4. QED
    BY <1>3, <2>1, <2>3 DEF DecidesSsh, Counts
<1>5. ~AtRisk(h)
  BY DEF Invariant, Steps, Passed
<1>6. D \in SUBSET Nat /\ k \in D
  BY <1>1, <1>3, <1>4
<1>7. PICK m \in D : \A j \in D : m <= j
  <2> HIDE DEF D
  <2>1. Min(D) \in D /\ \A j \in D : Min(D) <= j
    BY <1>6, MinProps
  <2>2. QED
    BY <2>1
<1>8. m \in DOMAIN rules /\ m \in Nat /\ DecidesSsh(rules[m], h) /\ m <= k
  BY <1>6, <1>7
<1>9. rules[m].action = "allow"
  <2>1. \A j \in 1 .. m - 1 : ~DecidesSsh(rules[j], h)
    <3> SUFFICES ASSUME NEW j \in 1 .. m - 1, DecidesSsh(rules[j], h) PROVE FALSE
      OBVIOUS
    <3>1. j \in DOMAIN rules
      BY <1>1, <1>8
    <3>2. m <= j
      BY <1>7, <3>1
    <3>3. QED
      BY <1>8, <3>2
  <2>2. QED
    BY <1>5, <1>8, <2>1 DEF AtRisk
<1>10. m \in A
  <2>1. rules[m] \in Lasting
    BY <1>1, <1>8
  <2>2. rules[m].expires = Forever /\ rules[m].port = NoPort /\ rules[m].enabled
        /\ h \in rules[m].address
    BY <1>8, <1>9, <2>1 DEF Lasting, DecidesSsh, Counts
  <2>3. QED
    BY <1>8, <2>2 DEF Matching, ForPort, Lives
<1>11. k = m
  BY <1>3, <1>8, <1>10
<1>12. QED
  BY <1>3, <1>9, <1>11

\* A script the lockout guard let pass drops nobody the guard knew to be
\* connected: on whatever port sshd has, whichever timed blocks have run out
\* since, and when the boot unit loads it again.
THEOREM GuardKeepsItsWord == Spec => []GuardHolds
<1>1. Invariant => GuardHolds
  BY RulesAssumption, RangesAssumption, GuardKept
<1>2. QED
  BY <1>1, AlwaysInvariant, PTL

-----------------------------------------------------------------------------
(* The policy.                                                             *)

Decides(list, pkt, t, verdict) ==
    list \in Seq(Rules) /\ RuleVerdict(list, pkt, t) = verdict

Then(x, y) == IF x = "none" THEN y ELSE x

If(condition, action) == IF condition THEN action ELSE "none"

LEMMA ConcatDecides ==
    ASSUME NEW s, NEW r, NEW pkt, NEW t, NEW x, NEW y,
           Decides(s, pkt, t, x), Decides(r, pkt, t, y)
    PROVE  Decides(s \o r, pkt, t, Then(x, y))
<1>1. s \in Seq(Rules) /\ r \in Seq(Rules)
  BY DEF Decides
<1>2. /\ s \o r \in Seq(Rules)
      /\ RuleVerdict(s \o r, pkt, t) =
           IF RuleVerdict(s, pkt, t) = "none" THEN RuleVerdict(r, pkt, t)
           ELSE RuleVerdict(s, pkt, t)
  BY <1>1, VerdictConcat
<1>3. QED
  BY <1>2 DEF Decides, Then

\* A list of one verdict, for every port.
LEMMA ListDecides ==
    ASSUME RulesAssumption, NEW action \in Actions, NEW ranges \in Seq(Ranges),
           NEW pkt, NEW t
    PROVE  Decides(Permanent(action, NoPort, ranges), pkt, t,
                   If(Covered(ranges, pkt.host), action))
<1>1. NoPort \in Ports \union {NoPort} /\ Forever \notin Int
  BY DEF RulesAssumption
<1>2. /\ Permanent(action, NoPort, ranges) \in Seq(Rules)
      /\ RuleVerdict(Permanent(action, NoPort, ranges), pkt, t) =
           IF (NoPort = NoPort \/ NoPort = pkt.port) /\ Covered(ranges, pkt.host)
             THEN action ELSE "none"
  BY <1>1, VerdictPermanent
<1>3. QED
  BY <1>2 DEF Decides, If

LEMMA EmptyDecides ==
    ASSUME NEW pkt, NEW t
    PROVE  Decides(<<>>, pkt, t, "none")
BY DEF RuleVerdict, Verdict, Matching, Decides

\* A family's catch-all is there.
CatchesAll(f) == ~db.selected \/ \E r \in Range(db.countries) : r \subseteq f

LEMMA CatchAllDecides ==
    ASSUME RulesAssumption, NEW f \in {V4, V6}, NEW pkt, NEW t
    PROVE  Decides(CatchAll(f), pkt, t, If(CatchesAll(f) /\ pkt.host \in f, "block"))
<1>1. f \in Ranges /\ "block" \in Actions
  BY DEF RulesAssumption, V4, Actions
<1>2. <<f>> \in Seq(Ranges)
  BY <1>1
<1>3. Covered(<<f>>, pkt.host) <=> pkt.host \in f
  BY DEF Covered, Range
<1>4. Decides(Permanent("block", NoPort, <<f>>), pkt, t, If(Covered(<<f>>, pkt.host), "block"))
  BY <1>1, <1>2, ListDecides
<1>5. Decides(<<>>, pkt, t, "none")
  BY EmptyDecides
<1>6. CASE CatchesAll(f)
  BY <1>3, <1>4, <1>6 DEF CatchAll, CatchesAll, If
<1>7. CASE ~CatchesAll(f)
  BY <1>5, <1>7 DEF CatchAll, CatchesAll, If
<1>8. QED
  BY <1>6, <1>7

LEMMA GeoDecides ==
    ASSUME RulesAssumption, db \in Dbs, NEW pkt \in Packets, NEW t
    PROVE  Decides(Geo, pkt, t,
                   Then(If(MeantByGeo(pkt.host), "block"),
                        If(db.geo # "blocklist" /\ Covered(db.countries, pkt.host), "allow")))
<1> DEFINE h == pkt.host
           yes == Permanent("allow", NoPort, db.countries)
           no == Permanent("block", NoPort, db.countries)
           catch(f) == If(CatchesAll(f) /\ h \in f, "block")
<1>1. /\ db.countries \in Seq(Ranges) /\ db.geo \in {"blocklist", "allowlist"}
      /\ "allow" \in Actions /\ "block" \in Actions
  BY DbTypes DEF Lists, Actions
<1>2. h \in V4 \/ h \in V6
  BY DEF Packets, V4
<1>3. CASE db.geo = "blocklist"
  <2>1. Decides(no, pkt, t, If(Covered(db.countries, h), "block"))
    BY <1>1, ListDecides
  <2>2. Geo = no
    BY <1>3 DEF Geo
  <2>3. MeantByGeo(h) <=> Covered(db.countries, h)
    BY <1>3 DEF MeantByGeo
  <2> HIDE DEF no, h
  <2>4. Then(If(MeantByGeo(h), "block"), If(db.geo # "blocklist" /\ Covered(db.countries, h), "allow"))
          = If(Covered(db.countries, h), "block")
    BY <1>3, <2>3 DEF Then, If
  <2>5. QED
    BY <2>1, <2>2, <2>4 DEF h
<1>4. CASE db.geo # "blocklist"
  <2>1. Decides(yes, pkt, t, If(Covered(db.countries, h), "allow"))
    BY <1>1, ListDecides
  <2>2. Decides(CatchAll(V4), pkt, t, catch(V4)) /\ Decides(CatchAll(V6), pkt, t, catch(V6))
    BY CatchAllDecides
  <2>3. Geo = (yes \o CatchAll(V4)) \o CatchAll(V6)
    BY <1>4 DEF Geo
  <2> HIDE DEF yes, catch, h
  <2>4. Decides(yes \o CatchAll(V4), pkt, t, Then(If(Covered(db.countries, h), "allow"), catch(V4)))
    BY <2>1, <2>2, ConcatDecides, Zenon
  <2>5. Decides((yes \o CatchAll(V4)) \o CatchAll(V6), pkt, t,
                Then(Then(If(Covered(db.countries, h), "allow"), catch(V4)), catch(V6)))
    BY <2>2, <2>4, ConcatDecides, Zenon
  <2>6. MeantByGeo(h) <=>
          /\ ~Covered(db.countries, h)
          /\ (CatchesAll(V4) /\ h \in V4) \/ (CatchesAll(V6) /\ h \in V6)
    BY <1>2, <1>4 DEF MeantByGeo, CatchesAll, h
  <2>7. Then(Then(If(Covered(db.countries, h), "allow"), catch(V4)), catch(V6))
          = Then(If(MeantByGeo(h), "block"),
                 If(db.geo # "blocklist" /\ Covered(db.countries, h), "allow"))
    BY <1>4, <2>6 DEF Then, If, catch
  <2>8. QED
    BY <2>3, <2>5, <2>7 DEF h
<1>5. QED
  BY <1>3, <1>4

\* Who is blocked by what is derived from the settings and the lists.
MeantByCloud(pkt) ==
    /\ Covered(db.cloud, pkt.host) /\ ~Covered(db.crawlers, pkt.host)
    /\ ~(pkt.port = AcmePort /\ db.geo = "blocklist" /\ db.port80)

MeantByDerived(pkt) ==
    \/ Covered(db.banned, pkt.host)
    \/ Covered(db.abuse, pkt.host) /\ ~Covered(db.crawlers, pkt.host)
    \/ MeantByCloud(pkt) \/ MeantByGeo(pkt.host)

\* What a list comes to for a packet that is meant to be blocked by it or not.
Blocks(list, pkt, t, meant) ==
    \E x \in {"block", "allow", "none"} :
        Decides(list, pkt, t, x) /\ (x = "block" <=> meant)

LEMMA BlockedDecides ==
    ASSUME RulesAssumption, NEW ranges \in Seq(Ranges), NEW pkt, NEW t
    PROVE  Decides(Blocked(ranges), pkt, t, If(Covered(ranges, pkt.host), "block"))
<1>1. "block" \in Actions
  BY DEF Actions
<1>2. QED
  BY <1>1, ListDecides DEF Blocked

\* The countries and the clouds, in either order.
LEMMA CloudsDecide ==
    ASSUME RulesAssumption, RangesAssumption, db \in Dbs, NEW pkt \in Packets, NEW t
    PROVE  Blocks(IF db.geo = "blocklist" /\ db.port80
                    THEN Geo \o Open \o Blocked(Punched(db.cloud))
                    ELSE Blocked(Punched(db.cloud)) \o Geo,
                  pkt, t, MeantByCloud(pkt) \/ MeantByGeo(pkt.host))
<1> DEFINE h == pkt.host
           cloud == Covered(db.cloud, h) /\ ~Covered(db.crawlers, h)
           D == Blocked(Punched(db.cloud))
           d == If(cloud, "block")
           o == If(pkt.port = AcmePort /\ cloud, "allow")
           g == Then(If(MeantByGeo(h), "block"),
                     If(db.geo # "blocklist" /\ Covered(db.countries, h), "allow"))
<1>1. /\ db.cloud \in Seq(Ranges) /\ h \in Hosts /\ "allow" \in Actions
      /\ Forever \notin Int /\ AcmePort \in Ports \union {NoPort} /\ AcmePort # NoPort
  BY DbTypes DEF Lists, Actions, Packets, RulesAssumption
<1>2. /\ Punched(db.cloud) \in Seq(Ranges)
      /\ Covered(Punched(db.cloud), h) <=> cloud
  BY <1>1, PunchedProps
<1>3. Decides(D, pkt, t, d)
  <2>1. Decides(D, pkt, t, If(Covered(Punched(db.cloud), h), "block"))
    BY <1>2, BlockedDecides
  <2>2. If(Covered(Punched(db.cloud), h), "block") = d
    BY <1>2 DEF If
  <2>3. QED
    BY <2>1, <2>2
<1>4. Decides(Open, pkt, t, o)
  <2>1. /\ Open \in Seq(Rules)
        /\ RuleVerdict(Open, pkt, t) =
             IF (AcmePort = NoPort \/ AcmePort = pkt.port) /\ Covered(Punched(db.cloud), h)
               THEN "allow" ELSE "none"
    BY <1>1, <1>2, VerdictPermanent DEF Open
  <2>2. QED
    BY <1>1, <1>2, <2>1 DEF Decides, If
<1>5. Decides(Geo, pkt, t, g)
  BY GeoDecides
<1>6. cloud \in BOOLEAN /\ MeantByGeo(h) \in BOOLEAN
  BY DEF MeantByGeo, Covered
<1> HIDE DEF D, d, o, g
<1>7. CASE db.geo = "blocklist" /\ db.port80
  <2>1. Decides(Geo \o Open, pkt, t, Then(g, o))
    BY <1>4, <1>5, ConcatDecides, Zenon
  <2>2. Decides((Geo \o Open) \o D, pkt, t, Then(Then(g, o), d))
    BY <1>3, <2>1, ConcatDecides, Zenon
  <2>3. MeantByCloud(pkt) <=> cloud /\ ~(pkt.port = AcmePort)
    BY <1>7 DEF MeantByCloud
  <2> HIDE DEF cloud, h
  <2>4. /\ Then(Then(g, o), d) \in {"block", "allow", "none"}
        /\ Then(Then(g, o), d) = "block" <=> MeantByCloud(pkt) \/ MeantByGeo(h)
    BY <1>7, <2>3 DEF Then, If, d, o, g
  <2>5. QED
    BY <1>7, <2>2, <2>4 DEF Blocks, D, h
<1>8. CASE ~(db.geo = "blocklist" /\ db.port80)
  <2>1. Decides(D \o Geo, pkt, t, Then(d, g))
    BY <1>3, <1>5, ConcatDecides, Zenon
  <2>2. MeantByCloud(pkt) <=> cloud
    BY <1>8 DEF MeantByCloud
  <2> HIDE DEF cloud, h
  <2>3. /\ Then(d, g) \in {"block", "allow", "none"}
        /\ Then(d, g) = "block" <=> MeantByCloud(pkt) \/ MeantByGeo(h)
    BY <2>2 DEF Then, If, d, g
  <2>4. QED
    BY <1>8, <2>1, <2>3 DEF Blocks, D, h
<1>9. QED
  BY <1>7, <1>8

LEMMA DerivedDecides ==
    ASSUME RulesAssumption, RangesAssumption, db \in Dbs, NEW pkt \in Packets, NEW t
    PROVE  Blocks(Derived, pkt, t, MeantByDerived(pkt))
<1> DEFINE h == pkt.host
           abuse == Covered(db.abuse, h) /\ ~Covered(db.crawlers, h)
           B == Blocked(db.banned)
           U == Blocked(Punched(db.abuse))
           b == If(Covered(db.banned, h), "block")
           u == If(abuse, "block")
           Rest == IF db.geo = "blocklist" /\ db.port80
                     THEN Geo \o Open \o Blocked(Punched(db.cloud))
                     ELSE Blocked(Punched(db.cloud)) \o Geo
<1>1. db.banned \in Seq(Ranges) /\ db.abuse \in Seq(Ranges) /\ h \in Hosts
  BY DbTypes DEF Lists, Packets
<1>2. /\ Punched(db.abuse) \in Seq(Ranges)
      /\ Covered(Punched(db.abuse), h) <=> abuse
  BY <1>1, PunchedProps
<1>3. Decides(B, pkt, t, b)
  BY <1>1, BlockedDecides
<1>4. Decides(U, pkt, t, u)
  <2>1. Decides(U, pkt, t, If(Covered(Punched(db.abuse), h), "block"))
    BY <1>2, BlockedDecides
  <2>2. If(Covered(Punched(db.abuse), h), "block") = u
    BY <1>2 DEF If
  <2>3. QED
    BY <2>1, <2>2
<1>5. PICK x \in {"block", "allow", "none"} :
        Decides(Rest, pkt, t, x) /\ (x = "block" <=> MeantByCloud(pkt) \/ MeantByGeo(h))
  BY CloudsDecide DEF Blocks
<1>6. Derived = (B \o U) \o Rest
  BY DEF Derived
<1>7. MeantByDerived(pkt) <=>
        Covered(db.banned, h) \/ abuse \/ MeantByCloud(pkt) \/ MeantByGeo(h)
  BY DEF MeantByDerived
<1> HIDE DEF B, U, b, u, Rest
<1>8. Decides(B \o U, pkt, t, Then(b, u))
  BY <1>3, <1>4, ConcatDecides, Zenon
<1>9. Decides((B \o U) \o Rest, pkt, t, Then(Then(b, u), x))
  BY <1>5, <1>8, ConcatDecides, Zenon
<1> HIDE DEF abuse, h
<1>10. /\ Then(Then(b, u), x) \in {"block", "allow", "none"}
       /\ Then(Then(b, u), x) = "block" <=> MeantByDerived(pkt)
  BY <1>5, <1>7 DEF Then, If, b, u
<1>11. QED
  BY <1>6, <1>9, <1>10 DEF Blocks

LEMMA PolicyFollows ==
    ASSUME RulesAssumption, RangesAssumption, db \in Dbs, NEW pkt \in Packets, NEW t
    PROVE  RuleVerdict(AllRules, pkt, t) \in {"block", "reject"} <=>
             /\ ~Covered(db.logins, pkt.host) /\ ~Covered(db.trusted, pkt.host)
             /\ \/ RuleVerdict(db.admin, pkt, t) \in {"block", "reject"}
                \/ RuleVerdict(db.admin, pkt, t) = "none" /\ MeantByLists(pkt)
<1> DEFINE h == pkt.host
           L == Permanent("allow", NoPort, db.logins)
           W == Permanent("allow", NoPort, db.trusted)
           A == db.admin
           P == IF Derived = <<>> THEN <<>> ELSE Permanent("allow", NoPort, Private)
           l == If(Covered(db.logins, h), "allow")
           w == If(Covered(db.trusted, h), "allow")
           a == RuleVerdict(db.admin, pkt, t)
           p == IF Derived = <<>> THEN "none" ELSE If(Covered(Private, h), "allow")
<1>1. /\ db.logins \in Seq(Ranges) /\ db.trusted \in Seq(Ranges) /\ A \in Seq(Rules)
      /\ Private \in Seq(Ranges) /\ "allow" \in Actions
  BY DbTypes DEF Lists, Actions, RulesAssumption
<1>2. Decides(L, pkt, t, l)
  BY <1>1, ListDecides
<1>3. Decides(W, pkt, t, w)
  BY <1>1, ListDecides
<1>4. Decides(A, pkt, t, a)
  BY <1>1 DEF Decides
<1>5. Decides(P, pkt, t, p)
  <2>1. Decides(Permanent("allow", NoPort, Private), pkt, t, If(Covered(Private, h), "allow"))
    BY <1>1, ListDecides
  <2>2. Decides(<<>>, pkt, t, "none")
    BY EmptyDecides
  <2>3. QED
    BY <2>1, <2>2
<1>6. PICK x \in {"block", "allow", "none"} :
        Decides(Derived, pkt, t, x) /\ (x = "block" <=> MeantByDerived(pkt))
  BY DerivedDecides DEF Blocks
<1>7. Derived = <<>> => x = "none"
  <2>1. Decides(<<>>, pkt, t, "none")
    BY EmptyDecides
  <2>2. QED
    BY <1>6, <2>1 DEF Decides
<1>8. AllRules = (((L \o W) \o A) \o P) \o Derived
  BY DEF AllRules
<1>9. MeantByLists(pkt) <=> ~Covered(Private, h) /\ MeantByDerived(pkt)
  BY DEF MeantByLists, MeantByDerived, MeantByCloud
<1> HIDE DEF L, W, A, P, l, w, p
<1>10. Decides(L \o W, pkt, t, Then(l, w))
  BY <1>2, <1>3, ConcatDecides, Zenon
<1>11. Decides((L \o W) \o A, pkt, t, Then(Then(l, w), a))
  BY <1>4, <1>10, ConcatDecides, Zenon
<1>12. Decides(((L \o W) \o A) \o P, pkt, t, Then(Then(Then(l, w), a), p))
  BY <1>5, <1>11, ConcatDecides, Zenon
<1>13. Decides((((L \o W) \o A) \o P) \o Derived, pkt, t, Then(Then(Then(Then(l, w), a), p), x))
  BY <1>6, <1>12, ConcatDecides, Zenon
<1>14. RuleVerdict(AllRules, pkt, t) = Then(Then(Then(Then(l, w), a), p), x)
  BY <1>8, <1>13 DEF Decides
<1> HIDE DEF a, h
<1>15. Then(Then(Then(Then(l, w), a), p), x) \in {"block", "reject"} <=>
         /\ ~Covered(db.logins, h) /\ ~Covered(db.trusted, h)
         /\ a \in {"block", "reject"} \/ (a = "none" /\ MeantByLists(pkt))
  BY <1>6, <1>7, <1>9 DEF Then, If, l, w, p
<1>16. QED
  BY <1>14, <1>15 DEF a, h

\* Whatever lists a database has, and however they overlap: the kernel drops
\* who is meant to be dropped and nobody else.  Who logged in or is trusted
\* passes, the operator's own rules come next, no private address and no
\* crawler is dropped for what a list says, a cloud's addresses keep port 80
\* when they are meant to, and an allow-list drops the rest of the world.
THEOREM PolicyIsKept == Spec => []PolicyHolds
<1>1. Invariant => PolicyHolds
  <2> SUFFICES ASSUME Invariant, step = "loaded", NEW pkt \in Packets
               PROVE  Dropped(pkt) = Meant(pkt)
    BY DEF PolicyHolds
  <2>1. rules = AllRules /\ db \in Dbs
    BY DEF Invariant, TypeInv, Steps
  <2>2. KernelVerdict(pkt) = RuleVerdict(AllRules, pkt, KernelTime)
    BY <2>1, RulesAssumption, RangesAssumption, ScriptFollows DEF ScriptDecides
  <2>3. Dropped(pkt) <=> Meant(pkt)
    BY <2>1, <2>2, RulesAssumption, RangesAssumption, PolicyFollows DEF Dropped, Meant
  <2>4. Dropped(pkt) \in BOOLEAN /\ Meant(pkt) \in BOOLEAN
    BY DEF Dropped, Meant
  <2>5. QED
    BY <2>3, <2>4
<1>2. QED
  BY <1>1, AlwaysInvariant, PTL
=============================================================================
