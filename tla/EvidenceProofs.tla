--------------------------- MODULE EvidenceProofs ---------------------------
(* What Evidence promises, for every window, bucket, threshold and log, and   *)
(* every kind of rule: no verdict counts a line that is not there, how far    *)
(* one may fall short, what clears an address, and that the narrowed read is  *)
(* without loss.  The invariant says which lines each row stands for.         *)
EXTENDS Evidence, FiniteSetTheorems, TLAPS

-----------------------------------------------------------------------------
(* Sums: what MapThenSumSet computes of the counts of a finite set of rows.  *)
(* Every induction is on a least counterexample among its finite subsets.    *)

Total(S) == MapThenSumSet(LAMBDA r : r.count, S)

Some(S) == CHOOSE x \in S : TRUE

Rest(S) == S \ {Some(S)}

IsSums(g, S) ==
    g = [s \in SUBSET S |-> IF s = {} THEN 0 ELSE Some(s).count + g[Rest(s)]]

Sums(S) == CHOOSE g : IsSums(g, S)

LEMMA TotalUnfolded ==
    ASSUME NEW S
    PROVE  Total(S) = Sums(S)[S]
BY DEF Total, Sums, IsSums, Some, Rest, MapThenSumSet, MapThenFoldSet

\* Among sets of finite sets there is one that none is a proper subset of.
LEMMA LeastSet ==
    ASSUME NEW S, IsFiniteSet(S), NEW F \in SUBSET SUBSET S, F # {}
    PROVE  \E T \in F : \A U \in F : U \subseteq T => U = T
<1>1. F \subseteq FiniteSubsetsOf(S)
  BY FS_FiniteSubsetsOfFinite
<1>2. PICK T \in F : \A U \in F : <<U, T>> \notin StrictSubsetOrdering(S)
  BY <1>1, FS_StrictSubsetOrderingWellFounded, WFMin, Zenon
<1>3. \A U \in F : U \subseteq T => U = T
  BY <1>2 DEF StrictSubsetOrdering
<1> QED
  BY <1>3

LEMMA RestSmaller ==
    ASSUME NEW S, S # {}
    PROVE  Some(S) \in S /\ Rest(S) \subseteq S /\ Rest(S) # S /\ Some(S) \notin Rest(S)
BY DEF Some, Rest

LEMMA SumsUnique ==
    ASSUME NEW S, IsFiniteSet(S), NEW g, NEW h, IsSums(g, S), IsSums(h, S)
    PROVE  g = h
<1> DEFINE F == {s \in SUBSET S : g[s] # h[s]}
<1>1. SUFFICES F = {}
  BY DEF IsSums
<1>2. SUFFICES ASSUME F # {}
               PROVE  FALSE
  OBVIOUS
<1>3. PICK T \in F : \A U \in F : U \subseteq T => U = T
  <2>1. F \in SUBSET SUBSET S
    OBVIOUS
  <2> HIDE DEF F
  <2> QED
    BY <2>1, <1>2, LeastSet
<1>4. T # {}
  BY <1>3 DEF IsSums
<1>5. Rest(T) \notin F /\ Rest(T) \in SUBSET S
  BY <1>3, <1>4, RestSmaller
<1>6. /\ g[T] = Some(T).count + g[Rest(T)]
      /\ h[T] = Some(T).count + h[Rest(T)]
  BY <1>3, <1>4 DEF IsSums
<1> QED
  BY <1>3, <1>5, <1>6

LEMMA SumsOfSubset ==
    ASSUME NEW S, NEW g, IsSums(g, S), NEW T \in SUBSET S
    PROVE  IsSums([s \in SUBSET T |-> g[s]], T)
<1> DEFINE h == [s \in SUBSET T |-> g[s]]
<1>1. ASSUME NEW s \in SUBSET T
      PROVE  h[s] = IF s = {} THEN 0 ELSE Some(s).count + h[Rest(s)]
  <2>1. CASE s = {}
    BY <2>1 DEF IsSums
  <2>2. CASE s # {}
    <3>1. Rest(s) \in SUBSET T
      BY <2>2, RestSmaller
    <3>2. g[s] = Some(s).count + g[Rest(s)]
      BY <2>2 DEF IsSums
    <3> QED
      BY <2>2, <3>1, <3>2
  <2> QED
    BY <2>1, <2>2
<1> HIDE DEF h
<1>2. h = [s \in SUBSET T |-> IF s = {} THEN 0 ELSE Some(s).count + h[Rest(s)]]
  BY <1>1 DEF h
<1> QED
  BY <1>2 DEF IsSums, h

LEMMA SumsAgree ==
    ASSUME NEW S, IsFiniteSet(S), NEW g, IsSums(g, S), NEW T \in SUBSET S
    PROVE  /\ IsSums(Sums(T), T)
           /\ Sums(T)[T] = g[T]
<1> DEFINE h == [s \in SUBSET T |-> g[s]]
<1>1. IsSums(h, T)
  BY SumsOfSubset
<1>2. IsSums(Sums(T), T)
  BY <1>1 DEF Sums
<1>3. IsFiniteSet(T)
  BY FS_Subset
<1>4. Sums(T) = h
  BY <1>1, <1>2, <1>3, SumsUnique, Zenon
<1> QED
  BY <1>2, <1>4

LEMMA SumsExist ==
    ASSUME NEW S, IsFiniteSet(S)
    PROVE  IsSums(Sums(S), S)
<1> DEFINE F == {s \in SUBSET S : ~IsSums(Sums(s), s)}
<1>1. SUFFICES ASSUME F # {}
               PROVE  FALSE
  OBVIOUS
<1>2. PICK T \in F : \A U \in F : U \subseteq T => U = T
  <2>1. F \in SUBSET SUBSET S
    OBVIOUS
  <2> HIDE DEF F
  <2> QED
    BY <2>1, <1>1, LeastSet
<1>3. \A U \in SUBSET T : U # T => IsSums(Sums(U), U)
  BY <1>2
<1> DEFINE g == [s \in SUBSET T |->
                   IF s = {} THEN 0 ELSE Some(s).count + Sums(Rest(s))[Rest(s)]]
<1>4. ASSUME NEW U \in SUBSET T, U # T
      PROVE  g[U] = Sums(U)[U]
  <2>1. IsSums(Sums(U), U)
    BY <1>3, <1>4
  <2>2. CASE U = {}
    BY <2>1, <2>2 DEF IsSums
  <2>3. CASE U # {}
    <3>1. IsFiniteSet(U)
      BY <1>2, FS_Subset
    <3>2. Rest(U) \in SUBSET U
      BY <2>3, RestSmaller
    <3>3. Sums(Rest(U))[Rest(U)] = Sums(U)[Rest(U)]
      BY <2>1, <3>1, <3>2, SumsAgree
    <3>4. Sums(U)[U] = Some(U).count + Sums(U)[Rest(U)]
      BY <2>1, <2>3 DEF IsSums
    <3> QED
      BY <2>3, <3>3, <3>4
  <2> QED
    BY <2>2, <2>3
<1>5. ASSUME NEW s \in SUBSET T, s # {}
      PROVE  g[Rest(s)] = Sums(Rest(s))[Rest(s)]
  <2>1. Rest(s) \in SUBSET T /\ Rest(s) # T
    BY <1>5, RestSmaller
  <2> QED
    BY <2>1, <1>4
<1> HIDE DEF g
<1>6. IsSums(g, T)
  <2>1. g = [s \in SUBSET T |-> IF s = {} THEN 0 ELSE Some(s).count + g[Rest(s)]]
    BY <1>5 DEF g
  <2> QED
    BY <2>1 DEF IsSums
<1>7. IsSums(Sums(T), T)
  BY <1>6 DEF Sums
<1> QED
  BY <1>2, <1>7

\* The recursion, on the row that MapThenSumSet takes first, ...
LEMMA TotalStep ==
    ASSUME NEW S, IsFiniteSet(S)
    PROVE  Total(S) = IF S = {} THEN 0 ELSE Some(S).count + Total(Rest(S))
<1>1. IsSums(Sums(S), S)
  BY SumsExist
<1>2. Total(S) = IF S = {} THEN 0 ELSE Some(S).count + Sums(S)[Rest(S)]
  BY <1>1, TotalUnfolded DEF IsSums
<1>3. ASSUME S # {}
      PROVE  Sums(S)[Rest(S)] = Total(Rest(S))
  <2>1. Rest(S) \in SUBSET S
    BY <1>3, RestSmaller
  <2> QED
    BY <2>1, <1>1, SumsAgree, TotalUnfolded
<1> QED
  BY <1>2, <1>3

Counted(S) == \A r \in S : r.count \in Nat

LEMMA TotalIsNat ==
    ASSUME NEW S, IsFiniteSet(S), Counted(S)
    PROVE  Total(S) \in Nat
<1> DEFINE F == {s \in SUBSET S : Total(s) \notin Nat}
<1>1. SUFFICES ASSUME F # {}
               PROVE  FALSE
  OBVIOUS
<1>2. PICK T \in F : \A U \in F : U \subseteq T => U = T
  <2>1. F \in SUBSET SUBSET S
    OBVIOUS
  <2> HIDE DEF F
  <2> QED
    BY <2>1, <1>1, LeastSet
<1>3. IsFiniteSet(T)
  BY FS_Subset
<1>4. T # {}
  BY <1>2, <1>3, TotalStep
<1>5. Total(Rest(T)) \in Nat /\ Some(T).count \in Nat
  BY <1>2, <1>4, RestSmaller DEF Counted
<1>6. Total(T) = Some(T).count + Total(Rest(T))
  BY <1>3, <1>4, TotalStep
<1> QED
  BY <1>2, <1>5, <1>6

\* ... and on any.
LEMMA TotalWithout ==
    ASSUME NEW S, IsFiniteSet(S), Counted(S), NEW x \in S
    PROVE  Total(S) = x.count + Total(S \ {x})
<1> DEFINE F == {s \in SUBSET S : \E y \in s : Total(s) # y.count + Total(s \ {y})}
<1>1. SUFFICES ASSUME F # {}
               PROVE  FALSE
  OBVIOUS
<1>2. PICK T \in F : \A U \in F : U \subseteq T => U = T
  <2>1. F \in SUBSET SUBSET S
    OBVIOUS
  <2> HIDE DEF F
  <2> QED
    BY <2>1, <1>1, LeastSet
<1>3. PICK y \in T : Total(T) # y.count + Total(T \ {y})
  BY <1>2
<1> DEFINE c == Some(T)
<1>4. c \in T /\ Rest(T) = T \ {c}
  BY <1>3, RestSmaller DEF Rest
<1>5. IsFiniteSet(T) /\ IsFiniteSet(T \ {y}) /\ IsFiniteSet(T \ {c}) /\ IsFiniteSet(T \ {c, y})
  BY <1>2, FS_Subset
<1>6. Total(T) = c.count + Total(T \ {c})
  BY <1>4, <1>5, TotalStep
<1>7. CASE y = c
  BY <1>3, <1>6, <1>7
<1>8. CASE y # c
  <2>1. Total(T \ {c}) = y.count + Total(T \ {c, y})
    <3>1. T \ {c} \notin F /\ T \ {c} \in SUBSET S /\ y \in T \ {c}
      BY <1>2, <1>4, <1>8
    <3>2. (T \ {c}) \ {y} = T \ {c, y}
      OBVIOUS
    <3> QED
      BY <3>1, <3>2
  <2>2. Total(T \ {y}) = c.count + Total(T \ {c, y})
    <3>1. T \ {y} \notin F /\ T \ {y} \in SUBSET S /\ c \in T \ {y}
      BY <1>2, <1>3, <1>4, <1>8
    <3>2. (T \ {y}) \ {c} = T \ {c, y}
      OBVIOUS
    <3> QED
      BY <3>1, <3>2
  <2>3. c.count \in Nat /\ y.count \in Nat /\ Total(T \ {c, y}) \in Nat
    <3>1. T \subseteq S /\ Counted(T \ {c, y})
      BY <1>2 DEF Counted
    <3> QED
      BY <3>1, <1>4, <1>5, TotalIsNat DEF Counted
  <2> HIDE DEF c
  <2> QED
    BY <2>1, <2>2, <2>3, <1>3, <1>6
<1> QED
  BY <1>7, <1>8

LEMMA TotalGrows ==
    ASSUME NEW S, IsFiniteSet(S), Counted(S), NEW Q \in SUBSET S
    PROVE  Total(Q) <= Total(S)
<1> DEFINE F == {s \in SUBSET S : Q \subseteq s /\ ~(Total(Q) <= Total(s))}
<1>1. SUFFICES ASSUME F # {}
               PROVE  FALSE
  OBVIOUS
<1>2. PICK T \in F : \A U \in F : U \subseteq T => U = T
  <2>1. F \in SUBSET SUBSET S
    OBVIOUS
  <2> HIDE DEF F
  <2> QED
    BY <2>1, <1>1, LeastSet
<1>3. IsFiniteSet(T) /\ IsFiniteSet(Q) /\ Counted(T) /\ Counted(Q)
  BY <1>2, FS_Subset DEF Counted
<1>4. Total(Q) \in Nat
  BY <1>3, TotalIsNat
<1>5. PICK x \in T : x \notin Q
  <2>1. Q # T
    BY <1>2, <1>4
  <2> QED
    BY <2>1, <1>2
<1>6. Total(Q) <= Total(T \ {x})
  <2>1. T \ {x} \in SUBSET S /\ Q \subseteq T \ {x} /\ T \ {x} # T
    BY <1>2, <1>5
  <2> QED
    BY <2>1, <1>2
<1>7. Total(T) = x.count + Total(T \ {x})
  BY <1>3, TotalWithout
<1>8. x.count \in Nat /\ Total(T \ {x}) \in Nat
  <2>1. IsFiniteSet(T \ {x}) /\ Counted(T \ {x})
    BY <1>3, FS_Subset DEF Counted
  <2> QED
    BY <2>1, <1>3, TotalIsNat DEF Counted
<1> QED
  BY <1>2, <1>4, <1>6, <1>7, <1>8

LEMMA CardinalityDisjoint ==
    ASSUME NEW A, IsFiniteSet(A), NEW B, IsFiniteSet(B), A \cap B = {}
    PROVE  Cardinality(A \union B) = Cardinality(A) + Cardinality(B)
<1>1. Cardinality(A \union B) = Cardinality(A) + Cardinality(B) - Cardinality(A \cap B)
  BY FS_Union
<1>2. Cardinality(A) \in Nat /\ Cardinality(B) \in Nat
  BY FS_CardinalityType
<1>3. Cardinality(A \cap B) = 0
  BY FS_EmptySet, Zenon
<1> QED
  BY <1>1, <1>2, <1>3

\* Where the rows count the members of disjoint sets, they count their union.
LEMMA TotalOfDisjoint ==
    ASSUME NEW S, IsFiniteSet(S), NEW L, IsFiniteSet(L), NEW behind \in [S -> SUBSET L],
           \A r \in S : r.count = Cardinality(behind[r]),
           \A r, s \in S : r # s => behind[r] \cap behind[s] = {}
    PROVE  Total(S) = Cardinality(UNION {behind[r] : r \in S})
<1> DEFINE All(s) == UNION {behind[r] : r \in s}
           F == {s \in SUBSET S : Total(s) # Cardinality(All(s))}
<1>1. SUFFICES ASSUME F # {}
               PROVE  FALSE
  OBVIOUS
<1>2. PICK T \in F : \A U \in F : U \subseteq T => U = T
  <2>1. F \in SUBSET SUBSET S
    OBVIOUS
  <2> HIDE DEF F
  <2> QED
    BY <2>1, <1>1, LeastSet
<1>3. IsFiniteSet(T)
  BY FS_Subset
<1>4. T # {}
  <2>1. All({}) = {}
    OBVIOUS
  <2>2. IsFiniteSet({}) /\ Cardinality({}) = 0
    BY FS_EmptySet
  <2>3. Total({}) = 0
    BY <2>2, TotalStep
  <2> QED
    BY <2>1, <2>2, <2>3, <1>2
<1> DEFINE c == Some(T)
           R == Rest(T)
<1>5. c \in T /\ R \subseteq T /\ R # T /\ T = R \union {c} /\ c \notin R
  BY <1>4, RestSmaller DEF Rest
<1>6. Total(R) = Cardinality(All(R))
  BY <1>2, <1>5
<1>7. Total(T) = c.count + Total(R)
  BY <1>3, <1>4, TotalStep
<1> HIDE DEF c, R
<1>8. All(T) = behind[c] \union All(R)
  BY <1>5
<1>9. behind[c] \cap All(R) = {}
  BY <1>5
<1>10. IsFiniteSet(behind[c]) /\ IsFiniteSet(All(R)) /\ behind[c] \in SUBSET L /\ All(R) \in SUBSET L
  <2>1. behind[c] \in SUBSET L /\ All(R) \in SUBSET L
    BY <1>5
  <2> QED
    BY <2>1, FS_Subset
<1>11. Cardinality(All(T)) = Cardinality(behind[c]) + Cardinality(All(R))
  <2> HIDE DEF All
  <2> QED
    BY <1>8, <1>9, <1>10, CardinalityDisjoint, Zenon
<1>12. c.count = Cardinality(behind[c])
  BY <1>5
<1> QED
  BY <1>2, <1>6, <1>7, <1>11, <1>12

-----------------------------------------------------------------------------
(* Sums of numbers, for the row a new one is added to, and extremes.         *)

IsAdds(g, S) ==
    g = [s \in SUBSET S |-> IF s = {} THEN 0 ELSE Some(s) + g[Rest(s)]]

LEMMA SumOfNone == SumSet({}) = 0
<1>1. SumSet({}) = (CHOOSE g : IsAdds(g, {}))[{}]
  BY DEF SumSet, FoldSet, MapThenFoldSet, IsAdds, Some, Rest
<1> DEFINE g == [s \in SUBSET {} |-> 0]
<1>2. IsAdds(g, {})
  BY DEF IsAdds
<1>3. IsAdds(CHOOSE h : IsAdds(h, {}), {})
  BY <1>2
<1> QED
  BY <1>1, <1>3 DEF IsAdds

LEMMA SumOfOne ==
    ASSUME NEW n \in Int
    PROVE  SumSet({n}) = n
<1>1. SumSet({n}) = (CHOOSE g : IsAdds(g, {n}))[{n}]
  BY DEF SumSet, FoldSet, MapThenFoldSet, IsAdds, Some, Rest
<1>2. SumSet({n}) = n
  <2> DEFINE g == [s \in SUBSET {n} |-> IF s = {} THEN 0 ELSE n + 0]
  <2>1. IsAdds(g, {n})
    <3>1. ASSUME NEW s \in SUBSET {n}, s # {}
          PROVE  Some(s) = n /\ Rest(s) = {}
      <4>1. s = {n}
        BY <3>1
      <4> QED
        BY <4>1 DEF Some, Rest
    <3>2. g = [s \in SUBSET {n} |-> IF s = {} THEN 0 ELSE Some(s) + g[Rest(s)]]
      BY <3>1
    <3> QED
      BY <3>2 DEF IsAdds
  <2> DEFINE h == CHOOSE h : IsAdds(h, {n})
  <2>2. IsAdds(h, {n})
    BY <2>1
  <2> HIDE DEF h
  <2>3. Some({n}) = n /\ Rest({n}) = {}
    BY DEF Some, Rest
  <2>4. h[{n}] = n + h[{}] /\ h[{}] = 0
    <3>1. {n} \in SUBSET {n} /\ {} \in SUBSET {n} /\ {n} # {}
      OBVIOUS
    <3> QED
      BY <2>2, <2>3, <3>1 DEF IsAdds
  <2>5. SumSet({n}) = h[{n}]
    BY <1>1 DEF h
  <2> QED
    BY <2>4, <2>5
<1> QED
  BY <1>2

LEMMA LeastNatural ==
    ASSUME NEW S \in SUBSET Nat, S # {}
    PROVE  \E x \in S : \A y \in S : x <= y
<1> DEFINE Less == {ss \in Nat \X Nat : ss[1] < ss[2]}
<1>1. IsWellFoundedOn(Less, Nat)
  BY NatLessThanWellFounded, Zenon DEF OpToRel
<1>2. PICK x \in S : \A y \in S : <<y, x>> \notin Less
  <2> HIDE DEF Less
  <2> QED
    BY <1>1, WFMin, Zenon
<1>3. \A y \in S : x <= y
  <2>1. ASSUME NEW y \in S
        PROVE  ~(y < x)
    BY <1>2
  <2> QED
    BY <2>1
<1> QED
  BY <1>3

LEMMA Extremes ==
    ASSUME NEW a \in Int, NEW b \in Int, NEW S \in SUBSET (a .. b), S # {}
    PROVE  /\ Min(S) \in S /\ \A x \in S : Min(S) <= x
           /\ Max(S) \in S /\ \A x \in S : Max(S) >= x
<1>1. \E x \in S : \A y \in S : x <= y
  <2> DEFINE U == {x - a : x \in S}
  <2>1. U \in SUBSET Nat /\ U # {}
    OBVIOUS
  <2>2. PICK u \in U : \A v \in U : u <= v
    <3> HIDE DEF U
    <3> QED
      BY <2>1, LeastNatural
  <2>3. PICK x \in S : u = x - a
    OBVIOUS
  <2>4. ASSUME NEW y \in S
        PROVE  x <= y
    <3>1. y - a \in U
      OBVIOUS
    <3>2. u <= y - a
      BY <2>2, <3>1
    <3> QED
      BY <2>3, <3>2
  <2> QED
    BY <2>4
<1>2. \E x \in S : \A y \in S : x >= y
  <2> DEFINE U == {b - x : x \in S}
  <2>1. U \in SUBSET Nat /\ U # {}
    OBVIOUS
  <2>2. PICK u \in U : \A v \in U : u <= v
    <3> HIDE DEF U
    <3> QED
      BY <2>1, LeastNatural
  <2>3. PICK x \in S : u = b - x
    OBVIOUS
  <2>4. ASSUME NEW y \in S
        PROVE  x >= y
    <3>1. b - y \in U
      OBVIOUS
    <3>2. u <= b - y
      BY <2>2, <3>1
    <3> QED
      BY <2>3, <3>2
  <2> QED
    BY <2>4
<1> QED
  BY <1>1, <1>2 DEF Min, Max

\* The bucket of a moment begins at most BucketSeconds - 1 before it.
LEMMA BucketOfMoment ==
    ASSUME NEW at \in Nat
    PROVE  /\ BucketStart(at) \in Int
           /\ BucketStart(at) <= at /\ at < BucketStart(at) + BucketSeconds
BY BucketAssumption DEF BucketStart

-----------------------------------------------------------------------------
(* The invariant.                                                            *)

Line == [at : Nat, says : Says, pass : Nat]

RowOK(r) ==
    /\ r = Row(r.item, r.count, r.first, r.last)
    /\ r.item = Item(r.item.kind, r.item.what)
    /\ r.item.kind \in {"seen", "clear", "warned", "bucket", "refused"}
    /\ r.count \in Nat
    /\ r.first \in 0 .. now /\ r.last \in 0 .. now

OnePerItem(S) == \A r, s \in S : r.item = s.item => r = s

TypeOK ==
    /\ detector \in Detectors
    /\ now \in Nat
    /\ lines \in Seq(Line)
    /\ \A n \in DOMAIN lines : lines[n].at <= now
    /\ taken \in 0 .. Len(lines)
    /\ \A n \in 1 .. taken : lines[n].pass <= taken
    /\ \A r \in rows : RowOK(r)
    /\ pc \in {"idle", "store", "decide"}
    /\ job = [at |-> job.at, pending |-> job.pending]
    /\ job.at \in 0 .. now
    /\ \A r \in job.pending : RowOK(r)
    /\ pc # "store" => job.pending = {}
    /\ made \in -1 .. now
    /\ history = [torn |-> history.torn, forgotten |-> history.forgotten]
    /\ history.torn \in BOOLEAN
    /\ history.forgotten \in -1 .. now
    /\ OnePerItem(rows) /\ OnePerItem(job.pending)
    /\ verdict.given \in BOOLEAN
    /\ verdict.given => verdict.of \in 0 .. taken /\ verdict.since \in Int

\* The oldest moment a verdict can still ask about.
Edge == (IF pc = "idle" THEN now ELSE job.at) - Window

\* Whether everything read so far has been stored, or is about to be.
Whole == ~history.torn /\ history.forgotten = Never

\* What clears a protocol probe is not always stored.
KeptAlways(i) == ~(i = Clear /\ detector = "protocol_probes")

Observing(i, T) == {n \in T : i \in Observes(lines[n].says, lines[n].at)}

\* r counts lines among T, its times are those of its first and last one, and
\* none is missing that a verdict can ask about.
Counts(r, S) ==
    /\ r.count = Cardinality(S)
    /\ \A n \in S : r.first <= lines[n].at /\ lines[n].at <= r.last
    /\ \E n \in S : lines[n].at = r.first
    /\ \E n \in S : lines[n].at = r.last

Complete(i, S, T) ==
    Whole /\ KeptAlways(i) => \A n \in Observing(i, T) : lines[n].at >= Edge => n \in S

From(r, T) ==
    \E S \in SUBSET Observing(r.item, T) : Counts(r, S) /\ Complete(r.item, S, T)

\* The lines that the stored row of an item has counted: those before the read
\* under way, if that found more of it.
Stored(i, c) == IF \E p \in job.pending : p.item = i THEN 1 .. c ELSE 1 .. taken

Accounted(c) ==
    /\ \A p \in job.pending : From(p, c + 1 .. taken)
    /\ \A r \in rows : From(r, Stored(r.item, c))
    /\ Whole => \A n \in 1 .. taken : \A i \in Observes(lines[n].says, lines[n].at) :
          lines[n].at >= Edge /\ KeptAlways(i) /\ n \in Stored(i, c)
             => \E r \in rows : r.item = i

AllAccounted == \E c \in 0 .. taken : Accounted(c)

\* What clears is on record, for as long as it can be asked about.
ClearsOnRecord ==
    ~history.torn => \A n \in 1 .. taken :
        /\ Clear \in Observes(lines[n].says, lines[n].at)
        /\ lines[n].at >= Edge
        /\ lines[n].at > history.forgotten
        => \/ \E r \in rows \union job.pending : r.item = Clear /\ r.last >= lines[n].at
           \/ /\ detector = "protocol_probes"
              /\ \A m \in 1 .. taken :
                    lines[m].pass = lines[n].pass /\ lines[m].at >= Edge
                       => ~SeenLine(lines[m].says)

EvInv == TypeOK /\ AllAccounted /\ ClearsOnRecord

-----------------------------------------------------------------------------
(* What the operators of the model do to the rows.                           *)

LEMMA ObservedItems ==
    ASSUME detector \in DetectorNames, NEW says, NEW at \in Nat, NEW i \in Observes(says, at)
    PROVE  /\ i = Item(i.kind, i.what)
           /\ i.kind \in {"seen", "clear", "warned", "bucket", "refused"}
<1>1. i \in {Bucket(at), Refused(at), Clear, Warned, Seen(Number(says))}
  BY DEF Observes, DetectorNames
<1> QED
  BY <1>1 DEF Bucket, Refused, Clear, Warned, Seen, Item

LEMMA UpsertAdds ==
    ASSUME now \in Nat, NEW R, OnePerItem(R), \A r \in R : RowOK(r), NEW p, RowOK(p)
    PROVE  \E q : /\ RowOK(q) /\ q.item = p.item
                  /\ Upsert(R, p) = {r \in R : r.item # p.item} \union {q}
                  /\ \/ q = p /\ \A r \in R : r.item # p.item
                     \/ \E r \in R : /\ r.item = p.item
                                     /\ q.count = p.count + r.count
                                     /\ q.first \in {p.first, r.first}
                                     /\ q.first <= p.first /\ q.first <= r.first
                                     /\ q.last \in {p.last, r.last}
                                     /\ q.last >= p.last /\ q.last >= r.last
<1> DEFINE same == {r \in R : r.item = p.item}
           others == {r \in R : r.item # p.item}
           q == Row(p.item,
                    p.count + SumSet({r.count : r \in same}),
                    Min({p.first} \union {r.first : r \in same}),
                    Max({p.last} \union {r.last : r \in same}))
<1>1. Upsert(R, p) = others \union {q}
  BY DEF Upsert
<1>2. CASE \A r \in R : r.item # p.item
  <2>1. /\ {r.count : r \in same} = {} /\ {p.first} \union {r.first : r \in same} = {p.first}
        /\ {p.last} \union {r.last : r \in same} = {p.last}
    BY <1>2
  <2>2. SumSet({}) = 0
    BY SumOfNone
  <2>3. Min({p.first}) = p.first /\ Max({p.last}) = p.last
    BY DEF Min, Max, RowOK
  <2>4. q = Row(p.item, p.count, p.first, p.last)
    <3>1. p.count + 0 = p.count
      BY DEF RowOK
    <3> QED
      BY <2>1, <2>2, <2>3, <3>1
  <2> HIDE DEF q
  <2>5. q = p
    BY <2>4 DEF RowOK
  <2> QED
    BY <1>1, <1>2, <2>5
<1>3. CASE \E r \in R : r.item = p.item
  <2>1. PICK r \in R : r.item = p.item
    BY <1>3
  <2>2. same = {r}
    BY <2>1 DEF OnePerItem
  <2>3. RowOK(r)
    BY <2>1
  <2>4. SumSet({r.count}) = r.count
    BY <2>3, SumOfOne DEF RowOK
  <2> DEFINE f == Min({p.first, r.first})
             l == Max({p.last, r.last})
  <2>5. f \in {p.first, r.first} /\ f <= p.first /\ f <= r.first
    BY <2>3 DEF RowOK, Min
  <2>6. l \in {p.last, r.last} /\ l >= p.last /\ l >= r.last
    BY <2>3 DEF RowOK, Max
  <2>7. q = Row(p.item, p.count + r.count, f, l)
    <3>1. /\ {x.count : x \in same} = {r.count}
          /\ {p.first} \union {x.first : x \in same} = {p.first, r.first}
          /\ {p.last} \union {x.last : x \in same} = {p.last, r.last}
      BY <2>2
    <3> HIDE DEF same
    <3> QED
      BY <3>1, <2>4
  <2> HIDE DEF q, f, l
  <2>8. /\ q.item = p.item /\ q.count = p.count + r.count
        /\ q.first = f /\ q.last = l
    BY <2>7 DEF Row
  <2>9. RowOK(q)
    BY <2>3, <2>5, <2>6, <2>7, <2>8 DEF RowOK
  <2> QED
    BY <1>1, <2>1, <2>5, <2>6, <2>8, <2>9
<1> QED
  BY <1>2, <1>3

\* The lines that a pass from `from` to `to` counts into an item.
CountedNow(i, from, to, since) == {n \in Observing(i, from .. to) : lines[n].at >= since}

\* T has a row of each item that a read observed, of the lines it observed it in.
TalliedRight(T, from, to, since) ==
    /\ OnePerItem(T)
    /\ \A r \in T : RowOK(r) /\ Counts(r, CountedNow(r.item, from, to, since))
    /\ \A n \in from .. to : \A i \in Observes(lines[n].says, lines[n].at) :
          lines[n].at >= since => \E r \in T : r.item = i

LEMMA TalliedRows ==
    ASSUME TypeOK, detector \in DetectorNames,
           NEW from \in Nat \ {0}, NEW to \in 0 .. Len(lines), NEW since \in Int
    PROVE  TalliedRight(Tallied(Observed(from, to, since)), from, to, since)
<1> DEFINE O == Observed(from, to, since)
           Of(i) == {s \in O : s.item = i}
           R(i) == Row(i, Cardinality(Of(i)), Min({s.at : s \in Of(i)}), Max({s.at : s \in Of(i)}))
           T == Tallied(O)
<1>1. T = {R(i) : i \in {s.item : s \in O}}
  BY DEF Tallied
<1>2. \A s : s \in O <=> \E n \in from .. to : /\ lines[n].at >= since
                                              /\ \E i \in Observes(lines[n].says, lines[n].at) :
                                                    s = [item |-> i, at |-> lines[n].at, n |-> n]
  BY DEF Observed
<1>3. \A n \in from .. to : lines[n] \in Line /\ lines[n].at \in 0 .. now
  <2>1. /\ DOMAIN lines = 1 .. Len(lines) /\ \A n \in DOMAIN lines : lines[n] \in Line
        /\ \A n \in DOMAIN lines : lines[n].at <= now
        /\ now \in Nat
    BY DEF TypeOK
  <2> QED
    BY <2>1 DEF Line
<1> HIDE DEF O, T
<1>4. ASSUME NEW i
      PROVE  R(i).item = i
  BY DEF Row
<1>5. OnePerItem(T)
  <2> SUFFICES ASSUME NEW r \in T, NEW s \in T, r.item = s.item
               PROVE  r = s
    BY DEF OnePerItem
  <2>1. PICK i : r = R(i)
    BY <1>1
  <2>2. PICK j : s = R(j)
    BY <1>1
  <2>3. i = j
    BY <2>1, <2>2, <1>4
  <2> QED
    BY <2>1, <2>2, <2>3
<1>6. ASSUME NEW r \in T
      PROVE  RowOK(r) /\ Counts(r, CountedNow(r.item, from, to, since))
  <2>1. PICK s0 \in O : r = R(s0.item)
    BY <1>1, <1>6
  <2> DEFINE i == s0.item
             S == CountedNow(i, from, to, since)
             A == {s.at : s \in Of(i)}
  <2>2. \A n : n \in S <=> /\ n \in from .. to /\ lines[n].at >= since
                           /\ i \in Observes(lines[n].says, lines[n].at)
    BY DEF CountedNow, Observing
  <2>3. /\ \A s \in Of(i) : s.n \in S /\ s = [item |-> i, at |-> lines[s.n].at, n |-> s.n]
        /\ \A n \in S : [item |-> i, at |-> lines[n].at, n |-> n] \in Of(i)
    BY <1>2, <2>2
  <2>4. s0 \in Of(i)
    OBVIOUS
  <2> HIDE DEF i
  <2>5. IsFiniteSet(S) /\ Cardinality(Of(i)) = Cardinality(S)
    <3>1. IsFiniteSet(S)
      <4>1. S \subseteq from .. to /\ IsFiniteSet(from .. to)
        BY <2>2, FS_Interval DEF TypeOK
      <4> QED
        BY <4>1, FS_Subset
    <3> DEFINE f == [n \in S |-> [item |-> i, at |-> lines[n].at, n |-> n]]
    <3>2. f \in Bijection(S, Of(i))
      <4> HIDE DEF S
      <4>0. f \in [S -> Of(i)]
        BY <2>3
      <4>1. \A n, m \in S : f[n] = f[m] => n = m
        OBVIOUS
      <4>2. \A s \in Of(i) : s.n \in S /\ f[s.n] = s
        BY <2>3
      <4> HIDE DEF f, Of
      <4> QED
        BY <4>0, <4>1, <4>2 DEF Bijection, Injection, IsInjective, Surjection
    <3>3. ExistsBijection(S, Of(i))
      BY <3>2 DEF ExistsBijection
    <3> HIDE DEF S, Of, f
    <3> QED
      BY <3>1, <3>3, FS_Bijection
  <2>6. A \in SUBSET (0 .. now) /\ A # {}
    BY <2>2, <2>3, <2>4, <1>3
  <2>7. /\ Min(A) \in A /\ \A x \in A : Min(A) <= x
        /\ Max(A) \in A /\ \A x \in A : Max(A) >= x
    <3>1. 0 \in Int /\ now \in Int
      BY DEF TypeOK
    <3> HIDE DEF A
    <3> QED
      BY <3>1, <2>6, Extremes
  <2>8. A = {lines[n].at : n \in S}
    <3>1. \A s \in Of(i) : s.at = lines[s.n].at /\ s.n \in S
      <4> HIDE DEF S, Of
      <4> QED
        BY <2>3
    <3>2. \A n \in S : \E s \in Of(i) : s.at = lines[n].at
      <4> HIDE DEF S, Of
      <4> QED
        BY <2>3
    <3> HIDE DEF S, Of
    <3> QED
      BY <3>1, <3>2
  <2>9. r = Row(i, Cardinality(S), Min(A), Max(A))
    BY <2>1, <2>5 DEF i
  <2> HIDE DEF S, A, Of, R
  <2>10. r.item = i /\ r.count = Cardinality(S) /\ r.first = Min(A) /\ r.last = Max(A)
    BY <2>9 DEF Row
  <2>11. Counts(r, S)
    BY <2>7, <2>8, <2>10 DEF Counts
  <2>12. Cardinality(S) \in Nat
    BY <2>5, FS_CardinalityType
  <2>13. /\ i = Item(i.kind, i.what)
         /\ i.kind \in {"seen", "clear", "warned", "bucket", "refused"}
    <3>1. PICK n \in from .. to : i \in Observes(lines[n].says, lines[n].at)
      BY <2>4, <1>2 DEF i
    <3> QED
      BY <3>1, <1>3, ObservedItems
  <2>14. RowOK(r)
    BY <2>6, <2>7, <2>9, <2>10, <2>12, <2>13 DEF RowOK
  <2> QED
    BY <2>10, <2>11, <2>14 DEF S
<1>7. ASSUME NEW n \in from .. to, NEW i \in Observes(lines[n].says, lines[n].at),
             lines[n].at >= since
      PROVE  \E r \in T : r.item = i
  <2>1. [item |-> i, at |-> lines[n].at, n |-> n] \in O
    BY <1>2, <1>7
  <2>2. i \in {s.item : s \in O}
    BY <2>1
  <2> QED
    BY <2>2, <1>1, <1>4
<1> QED
  BY <1>5, <1>6, <1>7 DEF T, O, TalliedRight

-----------------------------------------------------------------------------
(* Types.                                                                    *)

LEMMA Actions ==
    ASSUME Next
    PROVE  /\ detector' = detector
           /\ \/ Tick \/ Pass \/ StoreChunk \/ StorePrune \/ Crash
              \/ Decide \/ DecideElsewhere \/ Act
              \/ \E says \in SaysOf[detector] : Log(says)
BY DEF Next, Tick, Log, Pass, StoreChunk, StorePrune, Crash, Decide, DecideElsewhere, Act

LEMMA LinesTyped ==
    ASSUME TypeOK
    PROVE  /\ DOMAIN lines = 1 .. Len(lines) /\ Len(lines) \in Nat
           /\ \A n \in 1 .. Len(lines) : /\ lines[n] \in Line
                                         /\ lines[n].at \in 0 .. now
<1>1. /\ DOMAIN lines = 1 .. Len(lines) /\ Len(lines) \in Nat
      /\ \A n \in 1 .. Len(lines) : lines[n] \in Line
  BY DEF TypeOK
<1>2. \A n \in 1 .. Len(lines) : lines[n].at <= now
  BY <1>1 DEF TypeOK
<1> QED
  BY <1>1, <1>2 DEF TypeOK, Line

\* What a pass finds, and what it makes of the lines it takes.
Found == Tallied(Observed(taken + 1, Len(lines), now - Window))

LEMMA PassLines ==
    ASSUME TypeOK, Pass
    PROVE  /\ lines' \in Seq(Line) /\ Len(lines') = Len(lines)
           /\ \A n \in 1 .. Len(lines) :
                 /\ lines'[n].at = lines[n].at
                 /\ lines'[n].says = lines[n].says
                 /\ lines'[n].pass = IF n > taken THEN Len(lines) ELSE lines[n].pass
           /\ \A n \in 1 .. taken : lines'[n] = lines[n]
<1>1. /\ DOMAIN lines = 1 .. Len(lines) /\ Len(lines) \in Nat
      /\ \A n \in 1 .. Len(lines) : lines[n] \in Line
  BY LinesTyped
<1>2. lines' = [n \in 1 .. Len(lines) |->
                   IF n > taken THEN [lines[n] EXCEPT !.pass = Len(lines)] ELSE lines[n]]
  BY <1>1 DEF Pass
<1>3. \A n \in 1 .. Len(lines) : [lines[n] EXCEPT !.pass = Len(lines)] \in Line
  BY <1>1 DEF Line
<1>4. lines' \in [1 .. Len(lines) -> Line]
  BY <1>1, <1>2, <1>3
<1>5. lines' \in Seq(Line) /\ Len(lines') = Len(lines)
  BY <1>1, <1>4
<1>6. taken \in 0 .. Len(lines)
  BY DEF TypeOK
<1> QED
  BY <1>1, <1>2, <1>5, <1>6 DEF Line

LEMMA FoundRows ==
    ASSUME TypeOK, detector \in DetectorNames
    PROVE  /\ OnePerItem(Found)
           /\ \A r \in Found : /\ RowOK(r)
                               /\ Counts(r, CountedNow(r.item, taken + 1, Len(lines), now - Window))
           /\ \A n \in taken + 1 .. Len(lines) :
                 \A i \in Observes(lines[n].says, lines[n].at) :
                    lines[n].at >= now - Window => \E r \in Found : r.item = i
<1>1. /\ taken + 1 \in Nat \ {0} /\ Len(lines) \in 0 .. Len(lines)
      /\ now - Window \in Int
  BY EvidenceAssumption, LinesTyped DEF TypeOK
<1>2. TalliedRight(Found, taken + 1, Len(lines), now - Window)
  BY <1>1, TalliedRows DEF Found
<1> QED
  BY <1>2 DEF TalliedRight

LEMMA FinishSome ==
    ASSUME NEW S
    PROVE  /\ Finish(S) \subseteq S
           /\ \/ Finish(S) = S
              \/ /\ Finish(S) = {} /\ detector = "protocol_probes"
                 /\ \A r \in S : r.item = Clear
BY DEF Finish

LEMMA ForgetMax ==
    ASSUME TypeOK, NEW before \in 0 .. now, Forget(before)
    PROVE  /\ rows' \subseteq rows
           /\ history' = [torn |-> history.torn, forgotten |-> history'.forgotten]
           /\ history'.forgotten \in -1 .. now
           /\ history'.forgotten >= history.forgotten
           /\ history'.forgotten >= before
           /\ \A r \in rows \ rows' : history'.forgotten >= r.last
<1> DEFINE S == {history.forgotten, before} \union {r.last : r \in rows \ rows'}
<1>1. S \in SUBSET (-1 .. now) /\ S # {} /\ -1 \in Int /\ now \in Int
  BY DEF TypeOK, RowOK
<1>2. \A x \in S : Max(S) >= x /\ Max(S) \in -1 .. now
  <2> HIDE DEF S
  <2>1. Max(S) \in S /\ \A x \in S : Max(S) >= x
    BY <1>1, Extremes
  <2> QED
    BY <2>1, <1>1
<1>3. history' = [history EXCEPT !.forgotten = Max(S)]
  BY DEF Forget
<1>4. history' = [torn |-> history.torn, forgotten |-> Max(S)]
  <2> HIDE DEF S
  <2> QED
    BY <1>3 DEF TypeOK
<1>5. rows' \subseteq rows
  BY DEF Forget, ForgetBefore
<1>6. history.forgotten \in S /\ before \in S /\ \A r \in rows \ rows' : r.last \in S
  OBVIOUS
<1> HIDE DEF S
<1> QED
  BY <1>2, <1>4, <1>5, <1>6

LEMMA TypeInitially ==
    ASSUME Init
    PROVE  TypeOK
BY EvidenceAssumption DEF Init, TypeOK, NoJob, NoVerdict, Never, OnePerItem

LEMMA RowsStay ==
    ASSUME now \in Nat, now' \in Nat, now' >= now
    PROVE  \A r : RowOK(r) => RowOK(r)'
BY DEF RowOK

LEMMA TypeKept ==
    ASSUME RulesAsInCode, TypeOK, [Next]_vars
    PROVE  TypeOK'
<1>0. detector \in DetectorNames
  BY DEF RulesAsInCode, TypeOK
<1>1. CASE UNCHANGED vars
  BY <1>1 DEF vars, TypeOK, RowOK
<1>2. CASE Tick
  <2>1. now \in Nat /\ now' = now + 1
    BY <1>2 DEF Tick, TypeOK
  <2>2. \A r : RowOK(r) => RowOK(r)'
    BY <2>1, RowsStay
  <2>3. \A n \in DOMAIN lines : lines[n].at <= now'
    BY <2>1, LinesTyped
  <2>4. /\ job.at \in 0 .. now' /\ made \in -1 .. now'
        /\ history.forgotten \in -1 .. now'
    BY <2>1 DEF TypeOK
  <2>5. UNCHANGED <<detector, lines, taken, rows, pc, job, verdict, made, history>>
    BY <1>2 DEF Tick
  <2>6. (\A r \in rows : RowOK(r))' /\ (\A r \in job.pending : RowOK(r))'
    BY <2>2, <2>5 DEF TypeOK
  <2> QED
    BY <2>1, <2>3, <2>4, <2>5, <2>6 DEF TypeOK
<1>3. ASSUME NEW says \in SaysOf[detector], Log(says)
      PROVE  TypeOK'
  <2>1. [at |-> now, says |-> says, pass |-> 0] \in Line
    BY EvidenceAssumption DEF TypeOK, Line
  <2>2. /\ lines' \in Seq(Line) /\ Len(lines') = Len(lines) + 1
        /\ \A n \in 1 .. Len(lines) : lines'[n] = lines[n]
        /\ lines'[Len(lines) + 1].at = now
    BY <1>3, <2>1 DEF Log, TypeOK
  <2>3. \A n \in DOMAIN lines' : lines'[n].at <= now
    <3>1. DOMAIN lines' = 1 .. Len(lines) + 1 /\ Len(lines) \in Nat
      BY <2>2 DEF TypeOK
    <3>2. now \in Nat
      BY DEF TypeOK
    <3> QED
      BY <2>2, <3>1, <3>2, LinesTyped
  <2>4. /\ taken' = taken /\ taken' \in 0 .. Len(lines')
        /\ \A n \in 1 .. taken : lines'[n].pass <= taken
    <3>1. taken \in 0 .. Len(lines) /\ Len(lines) \in Nat /\ \A n \in 1 .. taken : lines[n].pass <= taken
      BY DEF TypeOK
    <3>2. taken' = taken
      BY <1>3 DEF Log
    <3> QED
      BY <2>2, <3>1, <3>2
  <2>5. UNCHANGED <<detector, now, rows, pc, job, verdict, made, history>>
    BY <1>3 DEF Log
  <2> QED
    BY <2>2, <2>3, <2>4, <2>5 DEF TypeOK, RowOK
<1>4. CASE Pass
  <2>1. /\ lines' \in Seq(Line) /\ Len(lines') = Len(lines)
        /\ \A n \in 1 .. Len(lines) :
              /\ lines'[n].at = lines[n].at
              /\ lines'[n].pass = IF n > taken THEN Len(lines) ELSE lines[n].pass
    BY <1>4, PassLines
  <2>2. \A n \in DOMAIN lines' : lines'[n].at <= now
    <3>1. DOMAIN lines' = 1 .. Len(lines)
      BY <2>1
    <3> QED
      BY <2>1, <3>1, LinesTyped DEF TypeOK
  <2>3. \A n \in 1 .. Len(lines) : lines'[n].pass <= Len(lines)
    <3>1. taken \in 0 .. Len(lines) /\ Len(lines) \in Nat
          /\ \A n \in 1 .. taken : lines[n].pass <= taken
      BY DEF TypeOK
    <3>2. \A n \in 1 .. Len(lines) : lines[n].pass \in Nat
      BY LinesTyped DEF Line
    <3> QED
      BY <2>1, <3>1, <3>2
  <2>4. /\ taken' = Len(lines) /\ Len(lines) \in Nat /\ taken \in 0 .. Len(lines)
        /\ job' = [at |-> now, pending |-> Finish(Found)]
        /\ pc' = "store"
        /\ UNCHANGED <<detector, now, rows, verdict, made, history>>
    BY <1>4 DEF Pass, Found, TypeOK
  <2>5. /\ \A r \in job'.pending : RowOK(r)
        /\ OnePerItem(job'.pending)
    BY <2>4, <1>0, FoundRows, FinishSome DEF OnePerItem
  <2>6. verdict.given => verdict.of \in 0 .. Len(lines)
    BY <2>4 DEF TypeOK
  <2>7. now \in 0 .. now
    BY DEF TypeOK
  <2> QED
    BY <2>1, <2>2, <2>3, <2>4, <2>5, <2>6, <2>7 DEF TypeOK, RowOK
<1>5. CASE StoreChunk
  <2>1. PICK r \in job.pending : /\ rows' = Upsert(rows, r)
                                 /\ job' = [job EXCEPT !.pending = @ \ {r}]
    BY <1>5 DEF StoreChunk
  <2>2. PICK q : RowOK(q) /\ q.item = r.item
                 /\ rows' = {s \in rows : s.item # r.item} \union {q}
    <3>1. now \in Nat /\ OnePerItem(rows) /\ (\A s \in rows : RowOK(s)) /\ RowOK(r)
      BY DEF TypeOK
    <3> QED
      BY <2>1, <3>1, UpsertAdds
  <2>3. OnePerItem(rows') /\ \A s \in rows' : RowOK(s)
    BY <2>2 DEF TypeOK, OnePerItem
  <2>4. job' = [at |-> job.at, pending |-> job.pending \ {r}]
    BY <2>1 DEF TypeOK
  <2>5. OnePerItem(job'.pending) /\ \A s \in job'.pending : RowOK(s)
    BY <2>4 DEF TypeOK, OnePerItem
  <2>6. pc = "store" /\ UNCHANGED <<detector, now, lines, taken, pc, verdict, made, history>>
    BY <1>5 DEF StoreChunk
  <2> QED
    BY <2>3, <2>4, <2>5, <2>6 DEF TypeOK, RowOK
<1>6. CASE StorePrune
  <2>1. rows' \subseteq rows /\ pc' = "decide"
        /\ UNCHANGED <<detector, now, lines, taken, job, verdict, made, history>>
        /\ job.pending = {}
    BY <1>6 DEF StorePrune, Prune
  <2> QED
    BY <2>1 DEF TypeOK, RowOK, OnePerItem
<1>7. CASE Crash
  BY <1>7 DEF Crash, TypeOK, RowOK, OnePerItem, NoJob
<1>8. ASSUME NEW since \in Int, Judges(since)
      PROVE  /\ verdict'.given \in BOOLEAN
             /\ verdict'.of = taken /\ verdict'.since \in Int
  BY <1>8 DEF Judges
<1>9. CASE Decide
  <2>1. /\ verdict'.given \in BOOLEAN
        /\ verdict'.of = taken /\ verdict'.since \in Int
    <3>1. job.at - Window \in Int
      BY EvidenceAssumption DEF TypeOK
    <3> QED
      BY <3>1, <1>8, <1>9 DEF Decide
  <2> QED
    BY <1>9, <2>1 DEF Decide, TypeOK, RowOK, OnePerItem, NoJob
<1>10. CASE DecideElsewhere
  <2>1. /\ verdict'.given \in BOOLEAN
        /\ verdict'.of = taken /\ verdict'.since \in Int
    <3>1. now - Window \in Int
      BY EvidenceAssumption DEF TypeOK
    <3> QED
      BY <3>1, <1>8, <1>10 DEF DecideElsewhere
  <2> QED
    BY <1>10, <2>1 DEF DecideElsewhere, TypeOK, RowOK, OnePerItem
<1>11. CASE Act
  <2>1. /\ verdict' = NoVerdict
        /\ UNCHANGED <<detector, now, lines, taken, pc, job>>
    BY <1>11 DEF Act
  <2>2. /\ rows' \subseteq rows
        /\ history' = [torn |-> history.torn, forgotten |-> history'.forgotten]
        /\ history'.forgotten \in -1 .. now
        /\ made' \in -1 .. now
    <3>1. CASE Block
      BY <3>1, ForgetMax DEF Block, TypeOK
    <3>2. CASE Covered
      BY <3>2, ForgetMax DEF Covered, TypeOK, Never
    <3>3. CASE Skip
      BY <3>3 DEF Skip, TypeOK
    <3> QED
      BY <1>11, <3>1, <3>2, <3>3 DEF Act
  <2> QED
    BY <2>1, <2>2 DEF TypeOK, RowOK, OnePerItem, NoVerdict
<1> QED
  BY <1>1, <1>2, <1>3, <1>4, <1>5, <1>6, <1>7, <1>9, <1>10, <1>11, Actions

-----------------------------------------------------------------------------
(* Every count is a number of lines.                                         *)

LEMMA EdgeGrows ==
    ASSUME TypeOK, Next
    PROVE  Edge \in Int /\ Edge' \in Int /\ Edge' >= Edge
<1>1. /\ now \in Nat /\ job.at \in 0 .. now /\ Window \in Nat
      /\ pc \in {"idle", "store", "decide"}
  BY EvidenceAssumption DEF TypeOK
<1>2. CASE Tick
  BY <1>1, <1>2 DEF Tick, Edge
<1>3. CASE Pass
  BY <1>1, <1>3 DEF Pass, Edge
<1>4. CASE StoreChunk
  <2>1. now' = now /\ job'.at = job.at /\ pc' = pc
    BY <1>4 DEF StoreChunk, TypeOK
  <2> QED
    BY <1>1, <2>1 DEF Edge
<1>5. CASE StorePrune
  BY <1>1, <1>5 DEF StorePrune, Edge
<1>6. CASE Crash
  BY <1>1, <1>6 DEF Crash, Edge
<1>7. CASE Decide \/ DecideElsewhere
  BY <1>1, <1>7 DEF Decide, DecideElsewhere, Edge
<1>8. CASE Act
  BY <1>1, <1>8 DEF Act, Edge
<1>9. ASSUME NEW says, Log(says)
      PROVE  now' = now /\ job' = job /\ pc' = pc
  BY <1>9 DEF Log
<1>10. CASE now' = now /\ job' = job /\ pc' = pc
  BY <1>1, <1>10 DEF Edge
<1> QED
  BY <1>2, <1>3, <1>4, <1>5, <1>6, <1>7, <1>8, <1>9, <1>10, Actions

LEMMA WholeLost ==
    ASSUME TypeOK, Next
    PROVE  /\ Whole' => Whole
           /\ history.torn => history'.torn
           /\ history'.forgotten >= history.forgotten
<1>1. CASE Act
  <2>1. \/ UNCHANGED history
        \/ /\ history'.torn = history.torn
           /\ history'.forgotten >= history.forgotten
           /\ history'.forgotten >= 0 /\ history'.forgotten \in Int
    <3>1. CASE Block
      BY <3>1, ForgetMax DEF Block, TypeOK
    <3>2. CASE Covered
      BY <3>2, ForgetMax DEF Covered, TypeOK, Never
    <3>3. CASE Skip
      BY <3>3 DEF Skip
    <3> QED
      BY <1>1, <3>1, <3>2, <3>3 DEF Act
  <2> QED
    BY <2>1 DEF Whole, Never, TypeOK
<1>2. CASE Crash
  BY <1>2 DEF Crash, Whole, TypeOK
<1>3. CASE UNCHANGED history
  BY <1>3 DEF Whole, TypeOK
<1> QED
  BY <1>1, <1>2, <1>3, Actions
     DEF Tick, Log, Pass, StoreChunk, StorePrune, Decide, DecideElsewhere

Alike(T) == \A n \in T : lines'[n].at = lines[n].at /\ lines'[n].says = lines[n].says

LEMMA FromStays ==
    ASSUME detector' = detector, Whole' => Whole,
           Edge \in Int, Edge' \in Int, Edge' >= Edge,
           NEW T, Alike(T), \A n \in T : lines[n].at \in Int,
           NEW r, From(r, T)
    PROVE  From(r, T)'
<1>1. PICK S \in SUBSET Observing(r.item, T) : Counts(r, S) /\ Complete(r.item, S, T)
  BY DEF From
<1>2. Observing(r.item, T)' = Observing(r.item, T)
  BY DEF Observing, Alike, Observes, Bucket, Refused
<1>3. S \in SUBSET T
  BY <1>1 DEF Observing
<1>4. Counts(r, S)'
  BY <1>1, <1>3 DEF Counts, Alike
<1>5. Complete(r.item, S, T)'
  BY <1>1, <1>2 DEF Complete, Alike, Observing, KeptAlways
<1> QED
  BY <1>1, <1>2, <1>4, <1>5 DEF From

LEMMA FromLoose ==
    ASSUME detector' = detector, ~Whole',
           NEW T, NEW U, T \subseteq U, Alike(T), NEW r, From(r, T)
    PROVE  From(r, U)'
<1>1. PICK S \in SUBSET Observing(r.item, T) : Counts(r, S)
  BY DEF From
<1>2. S \in SUBSET Observing(r.item, U)'
  BY <1>1 DEF Observing, Alike, Observes, Bucket, Refused
<1>3. S \in SUBSET T
  BY <1>1 DEF Observing
<1>4. Counts(r, S)'
  BY <1>1, <1>3 DEF Counts, Alike
<1> QED
  BY <1>2, <1>4 DEF From, Complete

\* Steps that neither read nor store.
LEMMA AccountedStays ==
    ASSUME TypeOK, Next, NEW c \in 0 .. taken, Accounted(c),
           taken' = taken, rows' = rows, Alike(1 .. taken),
           job'.pending = job.pending
    PROVE  Accounted(c)'
<1>1. /\ detector' = detector /\ (Whole' => Whole)
      /\ Edge \in Int /\ Edge' \in Int /\ Edge' >= Edge
  BY Actions, WholeLost, EdgeGrows
<1>2. /\ \A n \in 1 .. taken : lines[n].at \in Int
      /\ taken \in Nat
  BY LinesTyped DEF TypeOK
<1>3. ASSUME NEW r, NEW T \in SUBSET (1 .. taken), From(r, T)
      PROVE  From(r, T)'
  <2>1. Alike(T) /\ \A n \in T : lines[n].at \in Int
    BY <1>2 DEF Alike
  <2> QED
    BY <2>1, <1>1, <1>3, FromStays
<1>4. \A i : Stored(i, c)' = Stored(i, c) /\ Stored(i, c) \in SUBSET (1 .. taken)
  BY <1>2 DEF Stored
<1>5. ASSUME NEW p \in job'.pending
      PROVE  From(p, c + 1 .. taken)'
  <2>1. c + 1 .. taken \in SUBSET (1 .. taken)
    BY <1>2
  <2> QED
    BY <2>1, <1>3 DEF Accounted
<1>6. ASSUME NEW r \in rows'
      PROVE  From(r, Stored(r.item, c))'
  <2>1. From(r, Stored(r.item, c)) /\ Stored(r.item, c) \in SUBSET (1 .. taken)
    BY <1>4 DEF Accounted
  <2> QED
    BY <2>1, <1>3, <1>4
<1>7. ASSUME Whole', NEW n \in 1 .. taken,
             NEW i \in Observes(lines[n].says, lines[n].at)',
             lines'[n].at >= Edge', KeptAlways(i)', n \in Stored(i, c)
      PROVE  \E r \in rows : r.item = i
  <2>1. /\ lines'[n].at = lines[n].at /\ lines'[n].says = lines[n].says
        /\ lines[n].at >= Edge
    BY <1>1, <1>2, <1>7 DEF Alike
  <2>2. i \in Observes(lines[n].says, lines[n].at)
    BY <2>1, <1>1, <1>7 DEF Observes, Bucket, Refused
  <2>3. KeptAlways(i) /\ Whole
    BY <1>1, <1>7 DEF KeptAlways
  <2> QED
    BY <2>1, <2>2, <2>3, <1>7 DEF Accounted
<1> QED
  BY <1>4, <1>5, <1>6, <1>7 DEF Accounted

\* A row and what a pass found more of its item, put together.
LEMMA CountsTogether ==
    ASSUME TypeOK, NEW c \in 0 .. taken, NEW o, NEW r, NEW q, RowOK(o), RowOK(r),
           o.item = r.item, q.item = r.item, q.count = r.count + o.count,
           q.first \in {r.first, o.first}, q.first <= r.first, q.first <= o.first,
           q.last \in {r.last, o.last}, q.last >= r.last, q.last >= o.last,
           From(o, 1 .. c), From(r, c + 1 .. taken)
    PROVE  From(q, 1 .. taken)
<1> DEFINE i == r.item
<1>1. PICK S \in SUBSET Observing(i, 1 .. c) : Counts(o, S) /\ Complete(i, S, 1 .. c)
  BY DEF From
<1>2. PICK P \in SUBSET Observing(i, c + 1 .. taken) :
             Counts(r, P) /\ Complete(i, P, c + 1 .. taken)
  BY DEF From
<1>3. taken \in Nat /\ c \in Nat /\ c <= taken
  BY LinesTyped DEF TypeOK
<1>4. /\ S \in SUBSET (1 .. c) /\ P \in SUBSET (c + 1 .. taken)
      /\ S \union P \in SUBSET Observing(i, 1 .. taken)
  <2>1. S \in SUBSET (1 .. c) /\ P \in SUBSET (c + 1 .. taken)
    BY <1>1, <1>2 DEF Observing
  <2>2. \A n \in S \union P : n \in 1 .. taken
    BY <2>1, <1>3
  <2>3. \A n \in S \union P : i \in Observes(lines[n].says, lines[n].at)
    BY <1>1, <1>2 DEF Observing
  <2> QED
    BY <2>1, <2>2, <2>3 DEF Observing
<1>5. Cardinality(S \union P) = Cardinality(S) + Cardinality(P)
  <2>1. IsFiniteSet(1 .. c) /\ IsFiniteSet(c + 1 .. taken)
    BY <1>3, FS_Interval
  <2>2. IsFiniteSet(S) /\ IsFiniteSet(P)
    BY <1>4, <2>1, FS_Subset
  <2>3. S \cap P = {}
    BY <1>3, <1>4
  <2> QED
    BY <2>2, <2>3, CardinalityDisjoint
<1>6. \A n \in S \union P : lines[n].at \in Int
  BY <1>3, <1>4, LinesTyped DEF TypeOK
<1>7. Counts(q, S \union P)
  <2>1. q.count = Cardinality(S \union P)
    BY <1>1, <1>2, <1>5 DEF Counts, RowOK
  <2>2. \A n \in S \union P : q.first <= lines[n].at /\ lines[n].at <= q.last
    <3>1. /\ r.first \in Int /\ r.last \in Int /\ o.first \in Int /\ o.last \in Int
          /\ q.first \in Int /\ q.last \in Int
      <4>1. now \in Nat
        BY DEF TypeOK
      <4>2. /\ r.first \in 0 .. now /\ r.last \in 0 .. now
            /\ o.first \in 0 .. now /\ o.last \in 0 .. now
        BY DEF RowOK
      <4>3. \A t \in 0 .. now : t \in Int
        BY <4>1
      <4> QED
        BY <4>2, <4>3
    <3> QED
      BY <1>1, <1>2, <1>6, <3>1 DEF Counts
  <2>3. \E n \in S \union P : lines[n].at = q.first
    BY <1>1, <1>2 DEF Counts
  <2>4. \E n \in S \union P : lines[n].at = q.last
    BY <1>1, <1>2 DEF Counts
  <2> QED
    BY <2>1, <2>2, <2>3, <2>4 DEF Counts
<1>8. Complete(i, S \union P, 1 .. taken)
  <2>1. ASSUME NEW n \in Observing(i, 1 .. taken)
        PROVE  n \in Observing(i, 1 .. c) \/ n \in Observing(i, c + 1 .. taken)
    BY <1>3 DEF Observing
  <2> QED
    BY <1>1, <1>2, <2>1 DEF Complete
<1> QED
  BY <1>4, <1>7, <1>8 DEF From

LEMMA AccountedStored ==
    ASSUME TypeOK, StoreChunk, NEW c \in 0 .. taken, Accounted(c)
    PROVE  Accounted(c)'
<1>1. PICK r \in job.pending : /\ rows' = Upsert(rows, r)
                               /\ job' = [job EXCEPT !.pending = @ \ {r}]
  BY DEF StoreChunk
<1>2. UNCHANGED <<detector, now, lines, taken, pc, verdict, made, history>>
  BY DEF StoreChunk
<1>3. job'.at = job.at /\ job'.pending = job.pending \ {r}
  BY <1>1 DEF TypeOK
<1>4. PICK q : /\ q.item = r.item
               /\ rows' = {s \in rows : s.item # r.item} \union {q}
               /\ \/ q = r /\ \A s \in rows : s.item # r.item
                  \/ \E o \in rows : /\ o.item = r.item
                                     /\ q.count = r.count + o.count
                                     /\ q.first \in {r.first, o.first}
                                     /\ q.first <= r.first /\ q.first <= o.first
                                     /\ q.last \in {r.last, o.last}
                                     /\ q.last >= r.last /\ q.last >= o.last
  <2>1. now \in Nat /\ OnePerItem(rows) /\ (\A s \in rows : RowOK(s)) /\ RowOK(r)
    BY DEF TypeOK
  <2> QED
    BY <1>1, <2>1, UpsertAdds
<1>5. /\ \A x, T : From(x, T)' = From(x, T)
      /\ Whole' = Whole /\ Edge' = Edge /\ \A i : KeptAlways(i)' = KeptAlways(i)
  BY <1>2, <1>3 DEF From, Counts, Complete, Observing, Observes, Bucket, Refused, Whole,
                    Edge, KeptAlways
<1>6. From(r, c + 1 .. taken) /\ RowOK(r)
  BY DEF Accounted, TypeOK
<1>7. Stored(r.item, c) = 1 .. c /\ Stored(r.item, c)' = 1 .. taken
  BY <1>2, <1>3 DEF Stored, TypeOK, OnePerItem
<1>8. \A i : i # r.item => Stored(i, c)' = Stored(i, c)
  BY <1>2, <1>3 DEF Stored
<1>9. From(q, 1 .. taken)
  <2>1. CASE q = r /\ \A s \in rows : s.item # r.item
    <3> DEFINE i == r.item
    <3>1. PICK P \in SUBSET Observing(i, c + 1 .. taken) :
                 Counts(r, P) /\ Complete(i, P, c + 1 .. taken)
      BY <1>6 DEF From
    <3>2. taken \in Nat /\ c \in Nat /\ c <= taken
      BY LinesTyped DEF TypeOK
    <3>3. P \in SUBSET Observing(i, 1 .. taken)
      BY <3>1, <3>2 DEF Observing
    <3>4. Complete(i, P, 1 .. taken)
      <4> SUFFICES ASSUME Whole, KeptAlways(i), NEW n \in Observing(i, 1 .. taken),
                          lines[n].at >= Edge
                   PROVE  n \in P
        BY DEF Complete
      <4>1. CASE n \in 1 .. c
        <5>1. n \in 1 .. taken /\ i \in Observes(lines[n].says, lines[n].at)
          BY DEF Observing
        <5>2. \E s \in rows : s.item = i
          BY <1>7, <4>1, <5>1 DEF Accounted
        <5> QED
          BY <2>1, <5>2
      <4>2. CASE n \notin 1 .. c
        <5>1. n \in Observing(i, c + 1 .. taken)
          BY <3>2, <4>2 DEF Observing
        <5> QED
          BY <3>1, <5>1 DEF Complete
      <4> QED
        BY <4>1, <4>2
    <3> QED
      BY <2>1, <3>1, <3>3, <3>4 DEF From
  <2>2. ASSUME NEW o \in rows, o.item = r.item, q.count = r.count + o.count,
               q.first \in {r.first, o.first}, q.first <= r.first, q.first <= o.first,
               q.last \in {r.last, o.last}, q.last >= r.last, q.last >= o.last
        PROVE  From(q, 1 .. taken)
    <3>1. RowOK(o) /\ From(o, 1 .. c)
      BY <1>7, <2>2 DEF TypeOK, Accounted
    <3> QED
      BY <1>4, <1>6, <2>2, <3>1, CountsTogether
  <2> QED
    BY <1>4, <2>1, <2>2
<1>10. \A p \in job'.pending : From(p, c + 1 .. taken)'
  BY <1>2, <1>3, <1>5 DEF Accounted
<1>11. ASSUME NEW s \in rows'
       PROVE  From(s, Stored(s.item, c))'
  <2>1. CASE s = q
    <3>1. Stored(s.item, c)' = 1 .. taken
      BY <1>4, <1>7, <2>1
    <3> QED
      BY <1>5, <1>9, <2>1, <3>1
  <2>2. CASE s \in rows /\ s.item # r.item
    <3>1. From(s, Stored(s.item, c))
      BY <2>2 DEF Accounted
    <3> QED
      BY <1>5, <1>8, <2>2, <3>1
  <2> QED
    BY <1>4, <2>1, <2>2
<1>12. ASSUME Whole', NEW n \in 1 .. taken,
              NEW i \in Observes(lines[n].says, lines[n].at)',
              lines'[n].at >= Edge', KeptAlways(i)', n \in Stored(i, c)'
       PROVE  \E s \in rows' : s.item = i
  <2>1. CASE i = r.item
    BY <1>4, <2>1
  <2>2. CASE i # r.item
    <3>1. i \in Observes(lines[n].says, lines[n].at)
      BY <1>2, <1>12 DEF Observes, Bucket, Refused
    <3>2. \E s \in rows : s.item = i
      BY <1>2, <1>5, <1>8, <1>12, <2>2, <3>1 DEF Accounted
    <3> QED
      BY <1>4, <2>2, <3>2
  <2> QED
    BY <2>1, <2>2
<1> QED
  BY <1>2, <1>10, <1>11, <1>12 DEF Accounted

LEMMA AccountedPruned ==
    ASSUME TypeOK, StorePrune, NEW c \in 0 .. taken, Accounted(c)
    PROVE  Accounted(c)'
<1>1. /\ job.pending = {} /\ pc = "store" /\ pc' = "decide"
      /\ rows' = Prune(rows, job.at - Window)
      /\ UNCHANGED <<detector, now, lines, taken, job, verdict, made, history>>
  BY DEF StorePrune
<1>2. Edge = job.at - Window /\ Edge' = Edge
  BY <1>1 DEF Edge
<1>3. /\ \A x, T : From(x, T)' = From(x, T)
      /\ Whole' = Whole /\ \A i : KeptAlways(i)' = KeptAlways(i)
  BY <1>1, <1>2 DEF From, Counts, Complete, Observing, Observes, Bucket, Refused, Whole, KeptAlways
<1>4. \A i : Stored(i, c) = 1 .. taken /\ Stored(i, c)' = 1 .. taken
  BY <1>1 DEF Stored
<1>5. rows' \in SUBSET rows
  BY <1>1 DEF Prune
<1>6. ASSUME NEW s \in rows'
      PROVE  From(s, Stored(s.item, c))'
  <2>1. From(s, 1 .. taken)
    BY <1>4, <1>5 DEF Accounted
  <2> QED
    BY <1>3, <1>4, <2>1
<1>7. ASSUME Whole', NEW n \in 1 .. taken,
             NEW i \in Observes(lines[n].says, lines[n].at)',
             lines'[n].at >= Edge', KeptAlways(i)', n \in Stored(i, c)'
      PROVE  \E s \in rows' : s.item = i
  <2>1. i \in Observes(lines[n].says, lines[n].at) /\ Whole /\ KeptAlways(i)
        /\ lines[n].at >= Edge
    BY <1>1, <1>2, <1>3, <1>7 DEF Observes, Bucket, Refused
  <2>2. PICK s \in rows : s.item = i
    BY <1>4, <1>7, <2>1 DEF Accounted
  <2>3. From(s, 1 .. taken)
    BY <1>4 DEF Accounted
  <2>4. lines[n].at <= s.last
    BY <2>1, <2>2, <2>3 DEF From, Counts, Complete, Observing
  <2>5. s.last >= Edge
    <3>1. s.last \in Int /\ lines[n].at \in Int /\ Edge \in Int
      <4>1. now \in Nat /\ taken \in 0 .. Len(lines) /\ RowOK(s)
        BY DEF TypeOK
      <4>2. s.last \in Int
        BY <4>1 DEF RowOK
      <4>3. lines[n].at \in Int
        BY <4>1, LinesTyped
      <4> QED
        BY <1>2, <4>2, <4>3
    <3> QED
      BY <2>1, <2>4, <3>1
  <2> QED
    BY <1>1, <1>2, <2>2, <2>5 DEF Prune
<1> QED
  BY <1>1, <1>6, <1>7 DEF Accounted

LEMMA AccountedRead ==
    ASSUME TypeOK, detector \in DetectorNames, Pass, NEW c \in 0 .. taken, Accounted(c),
           NEW d, d = taken
    PROVE  Accounted(d)'
<1> DEFINE new == taken + 1 .. Len(lines)
<1>1. /\ pc = "idle" /\ pc' = "store" /\ taken' = Len(lines)
      /\ job' = [at |-> now, pending |-> Finish(Found)]
      /\ UNCHANGED <<detector, now, rows, verdict, made, history>>
  BY DEF Pass, Found
<1>2. /\ Edge = now - Window /\ Edge' = now - Window /\ Edge \in Int
      /\ Whole' = Whole /\ \A i : KeptAlways(i)' = KeptAlways(i)
  BY <1>1, EvidenceAssumption DEF Edge, Whole, KeptAlways, TypeOK
<1>3. taken \in Nat /\ Len(lines) \in Nat /\ taken <= Len(lines)
  BY DEF TypeOK
<1>4. /\ Alike(1 .. Len(lines))
      /\ \A n \in 1 .. Len(lines) : lines[n].at \in Int
  BY PassLines, LinesTyped DEF Alike
<1>5. \A i : Stored(i, c) = 1 .. taken
  BY <1>1 DEF Stored, TypeOK
<1>6. \A n \in 1 .. Len(lines) :
         Observes(lines[n].says, lines[n].at)' = Observes(lines[n].says, lines[n].at)
  BY <1>1, <1>4 DEF Alike, Observes, Bucket, Refused
<1>7. \A n \in new : \A i \in Observes(lines[n].says, lines[n].at) :
         lines[n].at >= Edge /\ KeptAlways(i) => \E p \in job'.pending : p.item = i
  BY <1>1, <1>2, FoundRows, FinishSome DEF KeptAlways
<1>8. ASSUME NEW p \in job'.pending
      PROVE  From(p, d + 1 .. taken)'
  <2> DEFINE S == CountedNow(p.item, taken + 1, Len(lines), now - Window)
  <2>1. p \in Found /\ Counts(p, S)
    BY <1>1, <1>8, FoundRows, FinishSome
  <2>2. PICK P : P = S
    OBVIOUS
  <2>3. \A n \in P : n \in new /\ n \in 1 .. Len(lines) /\ lines[n].at >= Edge
                     /\ p.item \in Observes(lines[n].says, lines[n].at)
    BY <1>2, <1>3, <2>2 DEF CountedNow, Observing
  <2>4. Counts(p, P)'
    BY <2>1, <2>2, <2>3, <1>4 DEF Counts, Alike
  <2>5. PICK T : T = new
    OBVIOUS
  <2>6. T = (d + 1 .. taken')
    BY <1>1, <2>5
  <2>7. P \in SUBSET Observing(p.item, T)'
    BY <2>3, <2>5, <1>6 DEF Observing
  <2>8. Complete(p.item, P, T)'
    <3>1. ASSUME NEW n \in Observing(p.item, T)', lines'[n].at >= Edge'
          PROVE  n \in P
      <4>1. n \in new /\ n \in 1 .. Len(lines)
        BY <1>3, <2>5, <3>1 DEF Observing
      <4>2. p.item \in Observes(lines[n].says, lines[n].at) /\ lines[n].at >= now - Window
        BY <1>2, <1>4, <1>6, <3>1, <4>1 DEF Observing, Alike
      <4> QED
        BY <2>2, <4>1, <4>2 DEF CountedNow, Observing
    <3> QED
      BY <3>1 DEF Complete
  <2>9. From(p, T)'
    BY <2>4, <2>7, <2>8 DEF From
  <2> QED
    BY <2>6, <2>9
<1>9. \A i : Stored(i, d)' = IF \E p \in job'.pending : p.item = i THEN 1 .. taken
                                                               ELSE 1 .. Len(lines)
  BY <1>1 DEF Stored
<1>10. ASSUME NEW r \in rows
       PROVE  From(r, Stored(r.item, d))'
  <2>1. PICK T : T = 1 .. taken
    OBVIOUS
  <2>2. From(r, T)
    BY <2>1, <1>5 DEF Accounted
  <2>3. Alike(T) /\ \A n \in T : lines[n].at \in Int
    BY <1>3, <1>4, <2>1 DEF Alike
  <2>4. CASE \E p \in job'.pending : p.item = r.item
    <3>1. From(r, T)'
      BY <1>1, <1>2, <2>2, <2>3, FromStays
    <3> QED
      BY <1>9, <2>1, <2>4, <3>1
  <2>5. CASE ~\E p \in job'.pending : p.item = r.item
    <3>1. PICK U : U = 1 .. Len(lines)
      OBVIOUS
    <3>2. PICK S \in SUBSET Observing(r.item, T) : Counts(r, S) /\ Complete(r.item, S, T)
      BY <2>2 DEF From
    <3>3. S \in SUBSET T /\ S \in SUBSET U
      BY <1>3, <2>1, <3>1, <3>2 DEF Observing
    <3>4. S \in SUBSET Observing(r.item, U)'
      BY <1>6, <3>1, <3>2, <3>3 DEF Observing
    <3>5. Counts(r, S)'
      BY <2>3, <3>2, <3>3 DEF Counts, Alike
    <3>6. Complete(r.item, S, U)'
      <4> SUFFICES ASSUME Whole, KeptAlways(r.item), NEW n \in U,
                          r.item \in Observes(lines[n].says, lines[n].at),
                          lines[n].at >= Edge
                   PROVE  n \in S
        BY <1>2, <1>4, <1>6, <3>1 DEF Complete, Observing, Alike
      <4>1. n \in T
        BY <1>3, <1>7, <2>1, <2>5, <3>1
      <4> QED
        BY <3>2, <4>1 DEF Complete, Observing
    <3>7. From(r, U)'
      BY <3>4, <3>5, <3>6 DEF From
    <3> QED
      BY <1>9, <2>5, <3>1, <3>7
  <2> QED
    BY <2>4, <2>5
<1>11. ASSUME Whole', NEW n \in 1 .. taken',
              NEW i \in Observes(lines[n].says, lines[n].at)',
              lines'[n].at >= Edge', KeptAlways(i)', n \in Stored(i, d)'
       PROVE  \E r \in rows : r.item = i
  <2>1. /\ n \in 1 .. Len(lines) /\ i \in Observes(lines[n].says, lines[n].at)
        /\ lines[n].at >= Edge /\ Whole /\ KeptAlways(i)
    BY <1>1, <1>2, <1>4, <1>6, <1>11 DEF Alike
  <2>2. n \in 1 .. taken
    BY <1>3, <1>7, <1>9, <1>11, <2>1
  <2> QED
    BY <1>5, <2>1, <2>2 DEF Accounted
<1> QED
  BY <1>1, <1>8, <1>10, <1>11 DEF Accounted

\* A pass that stops, and evidence that is spent.
LEMMA AccountedLost ==
    ASSUME TypeOK, NEW c \in 0 .. taken, Accounted(c), ~Whole',
           rows' \in SUBSET rows, job'.pending \in SUBSET job.pending,
           UNCHANGED <<detector, lines, taken>>
    PROVE  Accounted(c)'
<1>1. taken \in Nat /\ c \in Nat /\ c <= taken
  BY DEF TypeOK
<1>2. ASSUME NEW p \in job'.pending
      PROVE  From(p, c + 1 .. taken)'
  <2>1. PICK T : T = c + 1 .. taken
    OBVIOUS
  <2>2. From(p, T) /\ Alike(T)
    BY <2>1 DEF Accounted, Alike
  <2>3. From(p, T)'
    BY <2>2, FromLoose
  <2> QED
    BY <2>1, <2>3
<1>3. ASSUME NEW r \in rows'
      PROVE  From(r, Stored(r.item, c))'
  <2>1. PICK T : T = Stored(r.item, c)
    OBVIOUS
  <2>2. PICK U : U = Stored(r.item, c)'
    OBVIOUS
  <2>3. T \subseteq U
    BY <1>1, <2>1, <2>2 DEF Stored
  <2>4. From(r, T) /\ Alike(T)
    BY <2>1 DEF Accounted, Alike
  <2>5. From(r, U)'
    BY <2>3, <2>4, FromLoose
  <2> QED
    BY <2>2, <2>5
<1> QED
  BY <1>2, <1>3 DEF Accounted

LEMMA AccountedInitially ==
    ASSUME Init
    PROVE  AllAccounted
BY DEF Init, AllAccounted, Accounted, NoJob

LEMMA AccountedKept ==
    ASSUME RulesAsInCode, TypeOK, AllAccounted, [Next]_vars
    PROVE  AllAccounted'
<1>1. CASE UNCHANGED vars
  <2>1. UNCHANGED <<detector, now, lines, taken, rows, pc, job, history>>
    BY <1>1 DEF vars
  <2>2. \A x, T : From(x, T)' = From(x, T)
    BY <2>1 DEF From, Counts, Complete, Observing, Observes, Bucket, Refused, Whole, Edge,
                KeptAlways
  <2>3. \A says, at : Observes(says, at)' = Observes(says, at)
    BY <2>1 DEF Observes, Bucket, Refused
  <2>4. \A i, c : Stored(i, c)' = Stored(i, c)
    BY <2>1 DEF Stored
  <2>5. ASSUME NEW c, Accounted(c)
        PROVE  Accounted(c)'
    BY <2>1, <2>2, <2>3, <2>4, <2>5 DEF Accounted, Whole, Edge, KeptAlways
  <2> QED
    BY <2>1, <2>5 DEF AllAccounted
<1>2. SUFFICES ASSUME Next
               PROVE  AllAccounted'
  BY <1>1
<1>3. PICK c \in 0 .. taken : Accounted(c)
  BY DEF AllAccounted
<1>4. taken \in Nat /\ taken <= Len(lines) /\ Len(lines) \in Nat
  BY DEF TypeOK
<1>5. CASE taken' = taken /\ Accounted(c)'
  BY <1>5 DEF AllAccounted
<1>6. CASE Tick
  <2>1. taken' = taken /\ rows' = rows /\ Alike(1 .. taken) /\ job'.pending = job.pending
    BY <1>6 DEF Tick, Alike
  <2> QED
    BY <1>2, <1>3, <1>5, <2>1, AccountedStays
<1>7. ASSUME NEW says \in SaysOf[detector], Log(says)
      PROVE  AllAccounted'
  <2>1. \A n \in 1 .. taken : lines'[n] = lines[n]
    BY <1>4, <1>7 DEF Log, TypeOK
  <2>2. taken' = taken /\ rows' = rows /\ Alike(1 .. taken) /\ job'.pending = job.pending
    BY <1>7, <2>1 DEF Log, Alike
  <2> QED
    BY <1>2, <1>3, <1>5, <2>2, AccountedStays
<1>8. CASE Pass
  <2>1. PICK d : d = taken
    OBVIOUS
  <2>2. detector \in DetectorNames
    BY DEF TypeOK, RulesAsInCode
  <2>3. Accounted(d)'
    BY <1>3, <1>8, <2>1, <2>2, AccountedRead
  <2>4. d \in 0 .. taken'
    BY <1>4, <1>8, <2>1 DEF Pass
  <2> QED
    BY <2>3, <2>4 DEF AllAccounted
<1>9. CASE StoreChunk
  <2>1. taken' = taken
    BY <1>9 DEF StoreChunk
  <2> QED
    BY <1>3, <1>5, <1>9, <2>1, AccountedStored
<1>10. CASE StorePrune
  <2>1. taken' = taken
    BY <1>10 DEF StorePrune
  <2> QED
    BY <1>3, <1>5, <1>10, <2>1, AccountedPruned
<1>11. CASE Crash
  <2>1. /\ UNCHANGED <<detector, now, lines, taken, rows>> /\ job'.pending = {}
        /\ history'.torn = (job.pending # {})
    BY <1>11 DEF Crash, NoJob, TypeOK
  <2>2. CASE job.pending = {}
    <3>1. Alike(1 .. taken)
      BY <2>1 DEF Alike
    <3> QED
      BY <1>2, <1>3, <1>5, <2>1, <2>2, <3>1, AccountedStays
  <2>3. CASE job.pending # {}
    <3>1. ~Whole'
      BY <2>1, <2>3 DEF Whole
    <3> QED
      BY <1>3, <1>5, <2>1, <3>1, AccountedLost
  <2> QED
    BY <2>2, <2>3
<1>12. CASE Decide \/ DecideElsewhere
  <2>1. taken' = taken /\ rows' = rows /\ Alike(1 .. taken) /\ job'.pending = job.pending
    <3>1. CASE Decide
      BY <3>1 DEF Decide, Alike, NoJob, TypeOK
    <3>2. CASE DecideElsewhere
      BY <3>2 DEF DecideElsewhere, Alike
    <3> QED
      BY <1>12, <3>1, <3>2
  <2> QED
    BY <1>2, <1>3, <1>5, <2>1, AccountedStays
<1>13. CASE Act
  <2>1. UNCHANGED <<detector, lines, taken, job>>
    BY <1>13 DEF Act
  <2>2. CASE Skip
    <3>1. taken' = taken /\ rows' = rows /\ Alike(1 .. taken) /\ job'.pending = job.pending
      BY <2>1, <2>2 DEF Skip, Alike
    <3> QED
      BY <1>2, <1>3, <1>5, <3>1, AccountedStays
  <2>3. CASE Block \/ Covered
    <3>1. rows' \in SUBSET rows /\ ~Whole'
      <4>1. PICK before \in 0 .. now : Forget(before)
        BY <2>3 DEF Block, Covered, TypeOK, Never
      <4>2. rows' \subseteq rows /\ history'.forgotten >= before /\ history'.forgotten \in -1 .. now
        BY <4>1, ForgetMax
      <4>3. history'.forgotten # Never
        BY <4>2 DEF Never, TypeOK
      <4> QED
        BY <4>2, <4>3 DEF Whole
    <3> QED
      BY <1>3, <1>5, <2>1, <3>1, AccountedLost
  <2> QED
    BY <1>13, <2>2, <2>3 DEF Act
<1> QED
  BY <1>2, <1>6, <1>7, <1>8, <1>9, <1>10, <1>11, <1>12, <1>13, Actions

-----------------------------------------------------------------------------
(* What clears is on record.                                                 *)

\* What kind of thing a line shows does not depend on when it was written.
LEMMA LineKinds ==
    ASSUME detector \in DetectorNames, NEW says, NEW at
    PROVE  /\ SeenLine(says) <=> Seen(Number(says)) \in Observes(says, at)
           /\ ClearLine(says) <=> Clear \in Observes(says, at)
           /\ \A i \in Observes(says, at) : i.kind = "seen" => i = Seen(Number(says))
BY DEF SeenLine, ClearLine, Observes, DetectorNames, Seen, Clear, Warned, Bucket, Refused, Item,
       IsPage

LEMMA ClearsStay ==
    ASSUME TypeOK, TypeOK', Next, ClearsOnRecord, lines' = lines \/ \E says : Log(says), taken' = taken,
           \A r \in rows \union job.pending : r.item = Clear /\ ~history'.torn =>
              \/ \E q \in rows' \union job'.pending : q.item = Clear /\ q.last >= r.last
              \/ r.last < Edge'
              \/ r.last <= history'.forgotten
    PROVE  ClearsOnRecord'
<1>1. /\ detector' = detector
      /\ Edge \in Int /\ Edge' \in Int /\ Edge' >= Edge
      /\ history.torn => history'.torn
      /\ history.forgotten \in Int /\ history'.forgotten >= history.forgotten
  BY Actions, EdgeGrows, WholeLost DEF TypeOK
<1>2. \A n \in 1 .. taken : lines'[n] = lines[n] /\ lines[n].at \in Int
  <2>1. taken \in 0 .. Len(lines) /\ lines \in Seq(Line)
    BY DEF TypeOK
  <2>2. ASSUME NEW says, Log(says)
        PROVE  \A n \in 1 .. taken : lines'[n] = lines[n]
    BY <2>1, <2>2 DEF Log
  <2> QED
    BY <2>1, <2>2, LinesTyped
<1>3. /\ history'.forgotten \in Int
      /\ \A r \in rows \union job.pending : r.last \in Int
      /\ \A q \in rows' \union job'.pending : q.last \in Int
  BY DEF TypeOK, RowOK
<1> SUFFICES ASSUME ~history'.torn, NEW n \in 1 .. taken,
                    (Clear \in Observes(lines[n].says, lines[n].at))',
                    lines'[n].at >= Edge', lines'[n].at > history'.forgotten
             PROVE  \/ \E q \in rows' \union job'.pending : q.item = Clear /\ q.last >= lines'[n].at
                    \/ /\ detector = "protocol_probes"
                       /\ \A m \in 1 .. taken :
                             lines'[m].pass = lines'[n].pass /\ lines'[m].at >= Edge'
                                => ~SeenLine(lines[m].says)'
  BY <1>1 DEF ClearsOnRecord
<1>4. /\ ~history.torn /\ lines'[n] = lines[n]
      /\ Clear \in Observes(lines[n].says, lines[n].at)
      /\ lines[n].at >= Edge /\ lines[n].at > history.forgotten
  <2>1. Observes(lines[n].says, lines[n].at)' = Observes(lines[n].says, lines[n].at)
    BY <1>1, <1>2 DEF Observes, Bucket, Refused
  <2> QED
    BY <1>1, <1>2, <1>3, <2>1
<1>5. CASE \E r \in rows \union job.pending : r.item = Clear /\ r.last >= lines[n].at
  <2>1. PICK r \in rows \union job.pending : r.item = Clear /\ r.last >= lines[n].at
    BY <1>5
  <2>2. \E q \in rows' \union job'.pending : q.item = Clear /\ q.last >= r.last
    BY <2>1, <1>1, <1>2, <1>3, <1>4
  <2> QED
    BY <2>1, <2>2, <1>2, <1>3, <1>4
<1>6. CASE /\ detector = "protocol_probes"
           /\ \A m \in 1 .. taken :
                 lines[m].pass = lines[n].pass /\ lines[m].at >= Edge => ~SeenLine(lines[m].says)
  <2>1. ASSUME NEW m \in 1 .. taken, lines'[m].pass = lines'[n].pass, lines'[m].at >= Edge'
        PROVE  ~SeenLine(lines[m].says)'
    <3>1. lines'[m] = lines[m] /\ lines[m].at >= Edge
      BY <1>1, <1>2, <2>1
    <3>2. ~SeenLine(lines[m].says)
      BY <1>4, <1>6, <2>1, <3>1
    <3> QED
      BY <1>1, <3>1, <3>2 DEF SeenLine, Observes, Bucket, Refused
  <2> QED
    BY <1>6, <2>1
<1> QED
  BY <1>4, <1>5, <1>6 DEF ClearsOnRecord

LEMMA ClearsRead ==
    ASSUME TypeOK, detector \in DetectorNames, Pass, ClearsOnRecord
    PROVE  ClearsOnRecord'
<1>1. /\ pc = "idle" /\ pc' = "store" /\ taken' = Len(lines)
      /\ job' = [at |-> now, pending |-> Finish(Found)]
      /\ UNCHANGED <<detector, now, rows, verdict, made, history>>
  BY DEF Pass, Found
<1>2. Edge = now - Window /\ Edge' = now - Window /\ Edge \in Int
  BY <1>1, EvidenceAssumption DEF Edge, TypeOK
<1>3. /\ taken \in Nat /\ Len(lines) \in Nat /\ taken <= Len(lines)
      /\ \A n \in 1 .. taken : lines[n].pass \in Nat /\ lines[n].pass <= taken
      /\ job.pending = {}
  <2>1. taken \in Nat /\ Len(lines) \in Nat /\ taken <= Len(lines)
    BY DEF TypeOK
  <2>2. \A n \in 1 .. taken : lines[n].pass \in Nat
    BY <2>1, LinesTyped DEF Line
  <2> QED
    BY <1>1, <2>1, <2>2 DEF TypeOK
<1>4. \A n \in 1 .. Len(lines) :
         /\ lines'[n].at = lines[n].at
         /\ lines'[n].says = lines[n].says
         /\ lines'[n].pass = IF n > taken THEN Len(lines) ELSE lines[n].pass
         /\ lines[n].at \in Int
  BY PassLines, LinesTyped
<1>5. \A n \in 1 .. Len(lines) :
         /\ Observes(lines[n].says, lines[n].at)' = Observes(lines[n].says, lines[n].at)
         /\ SeenLine(lines[n].says)' <=> SeenLine(lines[n].says)
  BY <1>1, <1>4 DEF SeenLine, Observes, Bucket, Refused
<1> SUFFICES ASSUME ~history'.torn, NEW n \in 1 .. Len(lines),
                    Clear \in Observes(lines[n].says, lines[n].at),
                    lines[n].at >= Edge, lines[n].at > history.forgotten
             PROVE  \/ \E q \in rows' \union job'.pending : q.item = Clear /\ q.last >= lines[n].at
                    \/ /\ detector = "protocol_probes"
                       /\ \A m \in 1 .. Len(lines) :
                             lines'[m].pass = lines'[n].pass /\ lines[m].at >= Edge
                                => ~SeenLine(lines[m].says)
  BY <1>1, <1>2, <1>4, <1>5 DEF ClearsOnRecord
<1>6. CASE n <= taken
  <2>1. n \in 1 .. taken
    BY <1>3, <1>6
  <2>2. CASE \E r \in rows : r.item = Clear /\ r.last >= lines[n].at
    BY <1>1, <2>2
  <2>3. CASE /\ detector = "protocol_probes"
             /\ \A m \in 1 .. taken :
                   lines[m].pass = lines[n].pass /\ lines[m].at >= Edge => ~SeenLine(lines[m].says)
    <3>1. ASSUME NEW m \in 1 .. Len(lines), lines'[m].pass = lines'[n].pass
          PROVE  m \in 1 .. taken /\ lines[m].pass = lines[n].pass
      BY <1>3, <1>4, <2>1, <3>1
    <3> QED
      BY <2>3, <3>1
  <2> QED
    BY <1>1, <1>3, <2>1, <2>2, <2>3 DEF ClearsOnRecord
<1>7. CASE n > taken
  <2>1. n \in taken + 1 .. Len(lines)
    BY <1>3, <1>7
  <2>2. PICK p \in Found : p.item = Clear
    BY <1>2, <2>1, FoundRows
  <2>3. p.last >= lines[n].at
    <3>1. Counts(p, CountedNow(p.item, taken + 1, Len(lines), now - Window)) /\ RowOK(p)
      BY FoundRows
    <3>2. n \in CountedNow(p.item, taken + 1, Len(lines), now - Window)
      BY <1>2, <2>1, <2>2 DEF CountedNow, Observing
    <3> QED
      BY <1>4, <3>1, <3>2 DEF Counts, RowOK, TypeOK
  <2>4. CASE Finish(Found) = Found
    BY <1>1, <2>2, <2>3, <2>4
  <2>5. CASE detector = "protocol_probes" /\ \A r \in Found : r.item = Clear
    <3>1. ASSUME NEW m \in 1 .. Len(lines), lines'[m].pass = lines'[n].pass,
                 lines[m].at >= Edge, SeenLine(lines[m].says)
          PROVE  FALSE
      <4>1. m \in taken + 1 .. Len(lines)
        <5>1. lines'[n].pass = Len(lines)
          BY <1>4, <1>7
        <5>2. m <= taken => lines'[m].pass <= taken /\ lines'[m].pass \in Nat
          BY <1>3, <1>4
        <5>3. ~(m <= taken)
          BY <1>3, <1>7, <3>1, <5>1, <5>2
        <5> QED
          BY <1>3, <5>3
      <4>2. Seen(Number(lines[m].says)) \in Observes(lines[m].says, lines[m].at)
        BY <3>1, LineKinds
      <4>3. \E r \in Found : r.item = Seen(Number(lines[m].says))
        BY <1>2, <3>1, <4>1, <4>2, FoundRows
      <4> QED
        BY <2>5, <4>3 DEF Seen, Clear, Item
    <3> QED
      BY <2>5, <3>1
  <2> QED
    BY <2>4, <2>5, FinishSome
<1> QED
  BY <1>3, <1>6, <1>7

LEMMA ClearsInitially ==
    ASSUME Init
    PROVE  ClearsOnRecord
BY DEF Init, ClearsOnRecord

LEMMA ClearsKept ==
    ASSUME RulesAsInCode, TypeOK, TypeOK', ClearsOnRecord, [Next]_vars
    PROVE  ClearsOnRecord'
<1>1. CASE UNCHANGED vars
  <2>1. UNCHANGED <<detector, now, lines, taken, rows, pc, job, history>>
    BY <1>1 DEF vars
  <2>2. \A says, at : Observes(says, at)' = Observes(says, at)
    BY <2>1 DEF Observes, Bucket, Refused
  <2>3. \A says : SeenLine(says)' <=> SeenLine(says)
    BY <2>1, <2>2 DEF SeenLine
  <2> QED
    BY <2>1, <2>2, <2>3 DEF ClearsOnRecord, Edge
<1>2. SUFFICES ASSUME Next
               PROVE  ClearsOnRecord'
  BY <1>1
<1>3. /\ \A r \in rows \union job.pending : r.last \in Int
      /\ taken \in 0 .. Len(lines)
      /\ job = [at |-> job.at, pending |-> job.pending]
  BY DEF TypeOK, RowOK
<1>4. CASE /\ lines' = lines \/ \E says : Log(says)
           /\ taken' = taken /\ rows' = rows /\ job'.pending = job.pending
  BY <1>2, <1>3, <1>4, ClearsStay
<1>5. CASE Tick
  BY <1>4, <1>5 DEF Tick
<1>6. ASSUME NEW says \in SaysOf[detector], Log(says)
      PROVE  ClearsOnRecord'
  <2>1. taken' = taken /\ rows' = rows /\ job'.pending = job.pending
    BY <1>6 DEF Log
  <2> QED
    BY <1>4, <1>6, <2>1
<1>7. CASE Pass
  BY <1>7, ClearsRead DEF RulesAsInCode, TypeOK
<1>8. CASE StoreChunk
  <2>1. PICK r \in job.pending : /\ rows' = Upsert(rows, r)
                                 /\ job' = [job EXCEPT !.pending = @ \ {r}]
    BY <1>8 DEF StoreChunk
  <2>2. PICK q : /\ q.item = r.item /\ rows' = {s \in rows : s.item # r.item} \union {q}
                 /\ \/ q = r /\ \A s \in rows : s.item # r.item
                    \/ \E o \in rows : o.item = r.item /\ q.last >= r.last /\ q.last >= o.last
    <3>1. now \in Nat /\ OnePerItem(rows) /\ (\A s \in rows : RowOK(s)) /\ RowOK(r)
      BY DEF TypeOK
    <3> QED
      BY <2>1, <3>1, UpsertAdds
  <2>3. /\ job'.pending = job.pending \ {r}
        /\ lines' = lines /\ taken' = taken
    BY <1>3, <1>8, <2>1 DEF StoreChunk
  <2>4. ASSUME NEW s \in rows \union job.pending
        PROVE  \E x \in rows' \union job'.pending : x.item = s.item /\ x.last >= s.last
    <3>1. CASE s = r \/ (s \in rows /\ s.item = r.item)
      <4>1. q.last >= s.last
        BY <1>3, <2>2, <3>1 DEF TypeOK, OnePerItem
      <4> QED
        BY <2>2, <3>1, <4>1
    <3>2. CASE s \in rows /\ s.item # r.item
      BY <1>3, <2>2, <3>2
    <3>3. CASE s \in job.pending /\ s # r
      BY <1>3, <2>3, <3>3
    <3> QED
      BY <3>1, <3>2, <3>3
  <2> QED
    BY <1>2, <2>3, <2>4, ClearsStay
<1>9. CASE StorePrune
  <2>1. /\ rows' = Prune(rows, job.at - Window) /\ Edge' = job.at - Window
        /\ lines' = lines /\ taken' = taken /\ job' = job
    BY <1>9 DEF StorePrune, Edge
  <2>2. job.at - Window \in Int
    <3>1. now \in Nat /\ job.at \in 0 .. now
      BY DEF TypeOK
    <3> QED
      BY <3>1, EvidenceAssumption
  <2>3. ASSUME NEW r \in rows \union job.pending
        PROVE  \/ \E q \in rows' \union job'.pending : q.item = r.item /\ q.last >= r.last
               \/ r.last < Edge'
    BY <1>3, <2>1, <2>2 DEF Prune
  <2> QED
    BY <1>2, <2>1, <2>3, ClearsStay
<1>10. CASE Crash
  <2>1. /\ lines' = lines /\ taken' = taken /\ rows' = rows /\ job'.pending = {}
        /\ history'.torn = (job.pending # {})
    BY <1>10 DEF Crash, NoJob, TypeOK
  <2>2. CASE history'.torn
    BY <2>2 DEF ClearsOnRecord
  <2>3. CASE job.pending = {}
    BY <1>4, <2>1, <2>3
  <2> QED
    BY <2>1, <2>2, <2>3
<1>11. CASE Decide
  BY <1>4, <1>11 DEF Decide, NoJob, TypeOK
<1>12. CASE DecideElsewhere
  BY <1>4, <1>12 DEF DecideElsewhere
<1>13. CASE Act
  <2>1. lines' = lines /\ taken' = taken /\ job' = job
    BY <1>13 DEF Act
  <2>2. CASE Skip
    BY <1>4, <2>1, <2>2 DEF Skip
  <2>3. CASE Block \/ Covered
    <3>1. PICK before \in 0 .. now : Forget(before)
      BY <2>3 DEF Block, Covered, TypeOK, Never
    <3>2. \A r \in rows \ rows' : r.last <= history'.forgotten
      BY <1>3, <3>1, ForgetMax DEF TypeOK
    <3>3. ASSUME NEW r \in rows \union job.pending
          PROVE  \/ \E q \in rows' \union job'.pending : q.item = r.item /\ q.last >= r.last
                 \/ r.last <= history'.forgotten
      BY <1>3, <2>1, <3>2
    <3> QED
      BY <1>2, <2>1, <3>3, ClearsStay
  <2> QED
    BY <1>13, <2>2, <2>3 DEF Act
<1> QED
  BY <1>2, <1>5, <1>6, <1>7, <1>8, <1>9, <1>10, <1>11, <1>12, <1>13, Actions

-----------------------------------------------------------------------------
(* What the rows say of the lines.                                           *)

LEMMA Behind ==
    ASSUME TypeOK, AllAccounted
    PROVE  /\ \A r \in rows : \E S \in SUBSET Observing(r.item, 1 .. taken) :
                 /\ Counts(r, S)
                 /\ job.pending = {} => Complete(r.item, S, 1 .. taken)
           /\ job.pending = {} /\ Whole =>
                 \A n \in 1 .. taken : \A i \in Observes(lines[n].says, lines[n].at) :
                    lines[n].at >= Edge /\ KeptAlways(i) => \E r \in rows : r.item = i
<1>1. PICK c \in 0 .. taken : Accounted(c)
  BY DEF AllAccounted
<1>2. \A i : Stored(i, c) \subseteq 1 .. taken
  BY DEF Stored, TypeOK
<1>3. job.pending = {} => \A i : Stored(i, c) = 1 .. taken
  BY DEF Stored
<1>4. ASSUME NEW r \in rows
      PROVE  \E S \in SUBSET Observing(r.item, 1 .. taken) :
                /\ Counts(r, S)
                /\ job.pending = {} => Complete(r.item, S, 1 .. taken)
  <2>1. PICK S \in SUBSET Observing(r.item, Stored(r.item, c)) :
               Counts(r, S) /\ Complete(r.item, S, Stored(r.item, c))
    BY <1>1 DEF Accounted, From
  <2>2. S \in SUBSET Observing(r.item, 1 .. taken)
    BY <1>2, <2>1 DEF Observing
  <2> QED
    BY <1>3, <2>1, <2>2
<1>5. ASSUME job.pending = {}, Whole
      PROVE  \A n \in 1 .. taken : \A i \in Observes(lines[n].says, lines[n].at) :
                lines[n].at >= Edge /\ KeptAlways(i) => \E r \in rows : r.item = i
  BY <1>1, <1>3, <1>5 DEF Accounted
<1> QED
  BY <1>4, <1>5

\* Two items of one kind that a line shows are the same.
LEMMA OneOfKind ==
    ASSUME detector \in DetectorNames, NEW says, NEW at,
           NEW i \in Observes(says, at), NEW j \in Observes(says, at), i.kind = j.kind
    PROVE  i = j
BY DEF Observes, DetectorNames, Seen, Clear, Warned, Bucket, Refused, Item, IsPage

Kinds == {"seen", "clear", "warned", "bucket", "refused"}

LEMMA RowsFinite ==
    ASSUME TypeOK, detector \in DetectorNames, AllAccounted
    PROVE  IsFiniteSet(rows)
<1> DEFINE Shows(r, n) == r.item \in Observes(lines[n].says, lines[n].at)
           f == [r \in rows |-> <<r.item.kind, CHOOSE n \in 1 .. taken : Shows(r, n)>>]
<1>1. ASSUME NEW r \in rows
      PROVE  \E n \in 1 .. taken : Shows(r, n)
  BY Behind DEF Counts, Observing
<1>2. ASSUME NEW r \in rows
      PROVE  f[r][2] \in 1 .. taken /\ Shows(r, f[r][2]) /\ f[r][1] = r.item.kind
  BY <1>1
<1>3. \A r \in rows : r.item.kind \in Kinds
  BY DEF TypeOK, RowOK, Kinds
<1>4. f \in [rows -> Kinds \X (1 .. taken)]
  BY <1>2, <1>3
<1>5. ASSUME NEW r \in rows, NEW s \in rows, f[r] = f[s]
      PROVE  r = s
  <2>1. r.item = s.item
    BY <1>2, <1>5, OneOfKind
  <2> QED
    BY <2>1 DEF TypeOK, OnePerItem
<1> HIDE DEF f
<1>6. f \in Injection(rows, Kinds \X (1 .. taken))
  BY <1>4, <1>5 DEF Injection, IsInjective
<1>7. IsFiniteSet(Kinds)
  <2>1. Kinds = {"seen"} \union ({"clear"} \union ({"warned"} \union ({"bucket"} \union {"refused"})))
    BY DEF Kinds
  <2> QED
    BY <2>1, FS_Singleton, FS_Union, Zenon
<1>8. IsFiniteSet(Kinds \X (1 .. taken))
  <2>1. IsFiniteSet(1 .. taken)
    <3>1. 1 \in Int /\ taken \in Int
      BY DEF TypeOK
    <3> QED
      BY <3>1, FS_Interval
  <2> QED
    BY <1>7, <2>1, FS_Product
<1> QED
  BY <1>6, <1>8, FS_Injection

\* The rows of a kind whose bucket begins at or after a moment.
Late(S, kinds, since) == {r \in Kind(S, kinds) : r.item.what >= since}

LEMMA LinesTotal ==
    ASSUME NEW S, NEW kinds, NEW since
    PROVE  Lines(S, kinds, since) = Total(Late(S, kinds, since))
BY DEF Lines, Total, Late

LEMMA WorthTotal ==
    ASSUME NEW S, NEW rule
    PROVE  /\ rule.kind = "AtLeast" => (Worth(S, rule) <=> Total(S) >= rule.n)
           /\ rule.kind = "Rate" => (Worth(S, rule) <=> Total(S) >= Min({rule.n, rule.m}))
BY DEF Worth, Total

\* A bucket's row was last seen in it or later.
LEMMA BucketsLast ==
    ASSUME TypeOK, detector \in DetectorNames, AllAccounted, NEW r \in rows,
           r.item.kind \in {"bucket", "refused"}
    PROVE  r.item.what \in Int /\ r.item.what <= r.last
<1>1. PICK n \in 1 .. taken : /\ r.item \in Observes(lines[n].says, lines[n].at)
                              /\ lines[n].at <= r.last
  BY Behind DEF Counts, Observing
<1>2. lines[n].at \in Nat /\ r.last \in Nat
  BY LinesTyped DEF TypeOK, RowOK
<1>3. r.item.what = BucketStart(lines[n].at)
  BY <1>1 DEF Observes, DetectorNames, Seen, Clear, Warned, Bucket, Refused, Item
<1> QED
  BY <1>1, <1>2, <1>3, BucketOfMoment

LEMMA CountedRows ==
    ASSUME TypeOK, NEW S \in SUBSET rows
    PROVE  Counted(S)
BY DEF TypeOK, RowOK, Counted

\* The SQL's copy of each rule lets through every address the rule convicts.
LEMMA ReadWhole ==
    ASSUME RulesAsInCode, TypeOK, AllAccounted, NEW since \in Int,
           Guilty(rows, Rule, since)
    PROVE  Convicts(rows, Rule, since)
<1> DEFINE inside == Prune(rows, since)
<1>0. detector \in DetectorNames /\ Rule.n \in Nat /\ Rule.m \in Nat
  BY DEF RulesAsInCode, TypeOK, Rule
<1>1. IsFiniteSet(rows)
  BY <1>0, RowsFinite
<1>2. inside \in SUBSET rows /\ IsFiniteSet(inside)
  <2>1. inside \in SUBSET rows
    BY DEF Prune
  <2> HIDE DEF inside
  <2> QED
    BY <1>1, <2>1, FS_Subset
<1>3. SeenInside(inside, since) = SeenInside(rows, since)
  BY DEF SeenInside, Kind, Prune
<1>4. Cleared(inside, since) <=> Cleared(rows, since)
  BY DEF Cleared, Kind, Prune
<1>5. SeenInside(inside, since) \in SUBSET inside
  BY DEF SeenInside, Kind
<1>6. ASSUME NEW kinds \in SUBSET {"bucket", "refused"}
      PROVE  Late(inside, kinds, since) = Late(rows, kinds, since)
  <2>1. ASSUME NEW r \in rows, r.item.kind \in kinds, r.item.what >= since
        PROVE  r.last >= since
    <3>1. r.last \in Int
      BY DEF TypeOK, RowOK
    <3>2. r.item.what \in Int /\ r.item.what <= r.last
      BY <1>0, <2>1, BucketsLast
    <3> QED
      BY <2>1, <3>1, <3>2
  <2> QED
    BY <2>1 DEF Late, Kind, Prune
<1>7. ASSUME NEW kinds \in SUBSET {"bucket", "refused"}
      PROVE  /\ Lines(inside, kinds, since) = Lines(rows, kinds, since)
             /\ Total(inside) >= Lines(rows, kinds, since)
             /\ Total(inside) \in Nat /\ Lines(rows, kinds, since) \in Nat
  <2>1. Late(inside, kinds, since) \in SUBSET inside
    BY DEF Late, Kind
  <2>2. Counted(inside) /\ Counted(Late(inside, kinds, since))
    BY <1>2, <2>1, CountedRows
  <2>3. IsFiniteSet(Late(inside, kinds, since))
    BY <1>2, <2>1, FS_Subset
  <2> HIDE DEF inside
  <2>4. /\ Total(Late(inside, kinds, since)) <= Total(inside)
        /\ Total(inside) \in Nat /\ Total(Late(inside, kinds, since)) \in Nat
    BY <1>2, <2>1, <2>2, <2>3, TotalGrows, TotalIsNat
  <2> QED
    BY <1>6, <2>4, LinesTotal
<1>8. SUFFICES Worth(inside, Rule) /\ Guilty(inside, Rule, since)
  BY DEF Convicts, Read
<1> HIDE DEF inside
<1>9. CASE Rule.kind = "AtLeast"
  <2>1. Lines(rows, {"bucket"}, since) >= Rule.n
    BY <1>9 DEF Guilty
  <2>2. Total(inside) >= Rule.n
    <3>1. {"bucket"} \in SUBSET {"bucket", "refused"}
      OBVIOUS
    <3>2. /\ Total(inside) >= Lines(rows, {"bucket"}, since)
          /\ Total(inside) \in Nat /\ Lines(rows, {"bucket"}, since) \in Nat
      BY <1>7, <3>1
    <3> QED
      BY <1>0, <2>1, <3>2
  <2>3. Worth(inside, Rule)
    BY <1>9, <2>2, WorthTotal
  <2> QED
    BY <1>7, <1>9, <2>1, <2>3 DEF Guilty
<1>10. CASE Rule.kind = "Rate"
  <2>1. \/ Lines(rows, {"bucket", "refused"}, since) >= Rule.n
        \/ Lines(rows, {"refused"}, since) >= Rule.m
    BY <1>10 DEF Guilty
  <2>2. Min({Rule.n, Rule.m}) <= Rule.n /\ Min({Rule.n, Rule.m}) <= Rule.m
        /\ Min({Rule.n, Rule.m}) \in Int
    BY <1>0 DEF Min
  <2>3. Total(inside) >= Min({Rule.n, Rule.m})
    BY <1>0, <1>7, <2>1, <2>2
  <2>4. Worth(inside, Rule)
    BY <1>10, <2>3, WorthTotal
  <2> QED
    BY <1>7, <1>10, <2>1, <2>4 DEF Guilty
<1>11. CASE Rule.kind \in {"Distinct", "DistinctOrRepeated"}
  <2>1. CASE Cardinality(SeenInside(rows, since)) >= Rule.n
    <3>1. Cardinality(inside) >= Rule.n
      <4>1. /\ Cardinality(SeenInside(inside, since)) <= Cardinality(inside)
            /\ IsFiniteSet(SeenInside(inside, since))
        BY <1>2, <1>5, FS_Subset
      <4>2. Cardinality(inside) \in Nat /\ Cardinality(SeenInside(inside, since)) \in Nat
        BY <1>2, <4>1, FS_CardinalityType
      <4>3. Cardinality(SeenInside(inside, since)) >= Rule.n
        BY <1>3, <2>1
      <4> QED
        BY <1>0, <4>1, <4>2, <4>3
    <3> QED
      BY <1>3, <1>4, <1>11, <2>1, <3>1 DEF Guilty, Worth
  <2>2. CASE Rule.kind = "DistinctOrRepeated" /\ RepeatedPage(rows, since, Rule.m)
    <3>1. PICK r \in SeenInside(rows, since) :
                 r.first >= since /\ r.count >= Rule.m /\ r.item.what \in Pages
      BY <2>2 DEF RepeatedPage
    <3>2. r \in SeenInside(inside, since) /\ r \in inside
      BY <1>3, <1>5, <3>1
    <3>3. RepeatedPage(inside, since, Rule.m)
      BY <3>1, <3>2 DEF RepeatedPage
    <3>4. ~Cleared(rows, since)
      BY <2>2 DEF Guilty
    <3>5. Worth(inside, Rule)
      BY <2>2, <3>1, <3>2 DEF Worth
    <3> QED
      BY <1>4, <2>2, <3>3, <3>4, <3>5 DEF Guilty
  <2> QED
    BY <1>11, <2>1, <2>2 DEF Guilty
<1>12. CASE Rule.kind = "AfterWarning"
  <2>1. PICK w \in Kind(rows, {"warned"}), r \in SeenInside(rows, since) :
               w.last >= since /\ r.last >= w.first
    BY <1>12 DEF Guilty
  <2>2. w \in inside /\ w.item.kind = "warned" /\ w \in Kind(inside, {"warned"})
    BY <2>1 DEF inside, Prune, Kind
  <2>3. r \in inside /\ r.item.kind = "seen" /\ r \in SeenInside(inside, since)
    BY <1>3, <1>5, <2>1 DEF SeenInside, Kind
  <2>4. Cardinality(inside) >= 2
    <3>1. {w, r} \in SUBSET inside /\ w # r
      BY <2>2, <2>3
    <3>2. IsFiniteSet({w}) /\ Cardinality({w}) = 1
      BY FS_Singleton
    <3>3. Cardinality({w} \union {r}) = 2 /\ IsFiniteSet({w} \union {r})
      <4>1. r \notin {w}
        BY <3>1
      <4>2. /\ IsFiniteSet({w} \union {r})
            /\ Cardinality({w} \union {r}) = Cardinality({w}) + 1
        BY <3>2, <4>1, FS_AddElement
      <4> QED
        BY <3>2, <4>2
    <3>4. {w} \union {r} \in SUBSET inside
      BY <3>1
    <3>5. Cardinality({w} \union {r}) <= Cardinality(inside)
      BY <1>2, <3>4, FS_Subset
    <3>6. Cardinality(inside) \in Nat
      BY <1>2, FS_CardinalityType
    <3> QED
      BY <3>3, <3>5, <3>6
  <2> QED
    BY <1>12, <2>1, <2>2, <2>3, <2>4 DEF Guilty, Worth
<1>13. CASE Rule.kind = "Once"
  BY <1>3, <1>5, <1>13 DEF Guilty, Worth
<1>14. CASE Rule.kind = "OnceUnlessCleared"
  <2>1. PICK r \in SeenInside(rows, since) : TRUE
    BY <1>14 DEF Guilty
  <2>2. r \in inside /\ r.item.kind = "seen"
    BY <1>3, <1>5, <2>1 DEF SeenInside, Kind
  <2> QED
    BY <1>3, <1>4, <1>14, <2>2 DEF Guilty, Worth
<1> QED
  BY <1>9, <1>10, <1>11, <1>12, <1>13, <1>14 DEF Guilty

LEMMA OneBucket ==
    ASSUME detector \in DetectorNames, NEW says, NEW at,
           NEW i \in Observes(says, at), NEW j \in Observes(says, at),
           i.kind \in {"bucket", "refused"}, j.kind \in {"bucket", "refused"}
    PROVE  i = j
BY DEF Observes, DetectorNames, Seen, Clear, Warned, Bucket, Refused, Item, IsPage

\* A sum over buckets is a number of lines: of some that show such a bucket,
\* and of all of those once everything is stored.
LEMMA LinesCounted ==
    ASSUME TypeOK, detector \in DetectorNames, AllAccounted,
           NEW kinds \in SUBSET {"bucket", "refused"}, NEW since \in Int
    PROVE  \E U \in SUBSET (1 .. taken) :
              /\ Lines(rows, kinds, since) = Cardinality(U)
              /\ \A n \in U : \E i \in Observes(lines[n].says, lines[n].at) :
                    i.kind \in kinds /\ i.what >= since
              /\ job.pending = {} /\ Whole =>
                    \A n \in 1 .. taken : \A i \in Observes(lines[n].says, lines[n].at) :
                       lines[n].at >= Edge /\ i.kind \in kinds /\ i.what >= since => n \in U
<1> DEFINE R == Late(rows, kinds, since)
           Fits(r, S) == /\ Counts(r, S)
                         /\ job.pending = {} => Complete(r.item, S, 1 .. taken)
           behind == [r \in R |-> CHOOSE S \in SUBSET Observing(r.item, 1 .. taken) : Fits(r, S)]
           U == UNION {behind[r] : r \in R}
<1>1. R \in SUBSET rows /\ \A r \in R : r.item.kind \in kinds /\ r.item.what >= since
  BY DEF Late, Kind
<1>2. ASSUME NEW r \in R
      PROVE  behind[r] \in SUBSET Observing(r.item, 1 .. taken) /\ Fits(r, behind[r])
  <2>1. \E S \in SUBSET Observing(r.item, 1 .. taken) : Fits(r, S)
    BY <1>1, Behind
  <2> QED
    BY <2>1
<1> HIDE DEF behind, R
<1>3. ASSUME NEW r \in R
      PROVE  \A n \in behind[r] : n \in 1 .. taken /\ r.item \in Observes(lines[n].says, lines[n].at)
  BY <1>2 DEF Observing
<1>4. behind \in [R -> SUBSET (1 .. taken)]
  <2>1. behind = [r \in R |-> behind[r]]
    BY DEF behind
  <2> QED
    BY <2>1, <1>3
<1>5. ASSUME NEW r \in R, NEW s \in R, NEW n \in behind[r], n \in behind[s]
      PROVE  r = s
  <2>1. /\ r.item \in Observes(lines[n].says, lines[n].at)
        /\ s.item \in Observes(lines[n].says, lines[n].at)
        /\ r.item.kind \in {"bucket", "refused"} /\ s.item.kind \in {"bucket", "refused"}
    BY <1>1, <1>3, <1>5
  <2>2. r.item = s.item
    BY <2>1, OneBucket
  <2> QED
    BY <1>1, <2>2 DEF TypeOK, OnePerItem
<1>6. Total(R) = Cardinality(U)
  <2>1. IsFiniteSet(R)
    BY <1>1, RowsFinite, FS_Subset
  <2>2. IsFiniteSet(1 .. taken)
    <3>1. 1 \in Int /\ taken \in Int
      BY DEF TypeOK
    <3> QED
      BY <3>1, FS_Interval
  <2>3. \A r \in R : r.count = Cardinality(behind[r])
    BY <1>2 DEF Counts
  <2>4. \A r, s \in R : r # s => behind[r] \cap behind[s] = {}
    BY <1>5
  <2>5. PICK Q, L, b : Q = R /\ L = 1 .. taken /\ b = behind
    OBVIOUS
  <2>6. Total(Q) = Cardinality(UNION {b[r] : r \in Q})
    <3>1. /\ IsFiniteSet(Q) /\ IsFiniteSet(L) /\ b \in [Q -> SUBSET L]
          /\ \A r \in Q : r.count = Cardinality(b[r])
          /\ \A r, s \in Q : r # s => b[r] \cap b[s] = {}
      BY <1>4, <2>1, <2>2, <2>3, <2>4, <2>5
    <3> QED
      BY <3>1, TotalOfDisjoint
  <2> QED
    BY <2>5, <2>6
<1>7. Lines(rows, kinds, since) = Cardinality(U)
  BY <1>6, LinesTotal DEF R
<1>8. U \in SUBSET (1 .. taken)
  BY <1>3
<1>9. \A n \in U : \E i \in Observes(lines[n].says, lines[n].at) : i.kind \in kinds /\ i.what >= since
  BY <1>1, <1>3
<1>10. ASSUME job.pending = {}, Whole, NEW n \in 1 .. taken,
              NEW i \in Observes(lines[n].says, lines[n].at),
              lines[n].at >= Edge, i.kind \in kinds, i.what >= since
       PROVE  n \in U
  <2>1. KeptAlways(i)
    BY <1>10 DEF KeptAlways, Clear, Item
  <2>2. PICK r \in rows : r.item = i
    BY <1>10, <2>1, Behind
  <2>3. r \in R
    BY <1>10, <2>2 DEF R, Late, Kind
  <2>4. n \in behind[r]
    BY <1>2, <1>10, <2>1, <2>2, <2>3 DEF Complete, Observing
  <2> QED
    BY <2>3, <2>4
<1> HIDE DEF U
<1> QED
  BY <1>7, <1>8, <1>9, <1>10

-----------------------------------------------------------------------------
(* Verdicts.                                                                 *)

\* The lines a verdict given now is about.
Reached(since) == {n \in 1 .. taken : lines[n].at >= since}

LEMMA Judged ==
    ASSUME verdict'.of = taken, UNCHANGED <<detector, lines>>
    PROVE  /\ Rule' = Rule
           /\ \A since : Heard(since)' = Reached(since)
           /\ \A since : That(since, SeenLine)' = {n \in Reached(since) : SeenLine(lines[n].says)}
           /\ \A since : That(since, ClearLine)' = {n \in Reached(since) : ClearLine(lines[n].says)}
           /\ \A since : That(since, RefusedLine)' = {n \in Reached(since) : lines[n].says = "refused"}
           /\ \A since : That(since, AnyLine)' = Reached(since)
           /\ \A since : ThingsSeen(since)' =
                 {Number(lines[n].says) : n \in {m \in Reached(since) : SeenLine(lines[m].says)}}
           /\ \A page, since : Times(page, since)' =
                 {n \in Reached(since) : Number(lines[n].says) = page}
<1>1. Rule' = Rule
  BY DEF Rule
<1>2. \A since : Heard(since)' = Reached(since)
  BY DEF Heard, Reached
<1>3. /\ \A says, at : Observes(says, at)' = Observes(says, at)
      /\ \A says : SeenLine(says)' <=> SeenLine(says)
      /\ \A says : ClearLine(says)' <=> ClearLine(says)
  BY DEF SeenLine, ClearLine, Observes, Bucket, Refused
<1>4. \A since : That(since, SeenLine)' = {n \in Reached(since) : SeenLine(lines[n].says)}
  BY <1>2, <1>3 DEF That
<1>5. \A since : That(since, ClearLine)' = {n \in Reached(since) : ClearLine(lines[n].says)}
  BY <1>2, <1>3 DEF That
<1>6. \A since : That(since, RefusedLine)' = {n \in Reached(since) : lines[n].says = "refused"}
  BY <1>2 DEF That, RefusedLine
<1>7. \A since : That(since, AnyLine)' = Reached(since)
  BY <1>2 DEF That, AnyLine
<1>8. \A since : ThingsSeen(since)' =
         {Number(lines[n].says) : n \in {m \in Reached(since) : SeenLine(lines[m].says)}}
  BY <1>4 DEF ThingsSeen
<1>9. \A page, since : Times(page, since)' = {n \in Reached(since) : Number(lines[n].says) = page}
  BY <1>2 DEF Times
<1> QED
  BY <1>1, <1>2, <1>4, <1>5, <1>6, <1>7, <1>8, <1>9

LEMMA ReachedFinite ==
    ASSUME TypeOK, NEW since
    PROVE  IsFiniteSet(Reached(since)) /\ Reached(since) \in SUBSET (1 .. taken)
<1>1. 1 \in Int /\ taken \in Int
  BY DEF TypeOK
<1>2. IsFiniteSet(1 .. taken) /\ Reached(since) \in SUBSET (1 .. taken)
  BY <1>1, FS_Interval DEF Reached
<1> QED
  BY <1>2, FS_Subset

\* A row seen inside the window stands for a line inside the window.
LEMMA SeenByLine ==
    ASSUME TypeOK, detector \in DetectorNames, AllAccounted, NEW since \in Int,
           NEW r \in SeenInside(rows, since)
    PROVE  \E n \in Reached(since) : /\ SeenLine(lines[n].says)
                                     /\ lines[n].at = r.last
                                     /\ r.item = Seen(Number(lines[n].says))
<1>1. r \in rows /\ r.item.kind = "seen" /\ r.last >= since
  BY DEF SeenInside, Kind
<1>2. PICK n \in 1 .. taken : /\ r.item \in Observes(lines[n].says, lines[n].at)
                              /\ lines[n].at = r.last
  BY <1>1, Behind DEF Counts, Observing
<1>3. r.item = Seen(Number(lines[n].says)) /\ SeenLine(lines[n].says)
  BY <1>1, <1>2, LineKinds
<1> QED
  BY <1>1, <1>2, <1>3 DEF Reached

LEMMA CardinalityLeq ==
    ASSUME NEW S, IsFiniteSet(S), NEW T \in SUBSET S, NEW k \in Int, Cardinality(T) >= k
    PROVE  Cardinality(S) >= k
<1>1. IsFiniteSet(T) /\ Cardinality(T) <= Cardinality(S)
  BY FS_Subset
<1>2. Cardinality(T) \in Nat /\ Cardinality(S) \in Nat
  BY <1>1, FS_CardinalityType
<1> QED
  BY <1>1, <1>2

\* As many rows seen as things that lines show, at most.
LEMMA SeenAtMost ==
    ASSUME TypeOK, detector \in DetectorNames, AllAccounted, NEW since \in Int,
           NEW k \in Int, NEW Q \in SUBSET SeenInside(rows, since), Cardinality(Q) >= k
    PROVE  Cardinality({Number(lines[n].says) : n \in {m \in Reached(since) : SeenLine(lines[m].says)}})
              >= k
<1> DEFINE A == {m \in Reached(since) : SeenLine(lines[m].says)}
           N == {Number(lines[n].says) : n \in A}
           f == [r \in Q |-> r.item.what]
<1>1. IsFiniteSet(A)
  <2>1. A \in SUBSET Reached(since) /\ IsFiniteSet(Reached(since))
    BY ReachedFinite
  <2> HIDE DEF A
  <2> QED
    BY <2>1, FS_Subset
<1>2. IsFiniteSet(N)
  <2> DEFINE g == [n \in A |-> Number(lines[n].says)]
  <2> HIDE DEF A
  <2>1. g \in Surjection(A, N)
    BY DEF Surjection
  <2> HIDE DEF g, N
  <2> QED
    BY <1>1, <2>1, FS_Surjection
<1>3. ASSUME NEW r \in Q
      PROVE  r.item.what \in N /\ r.item = Seen(r.item.what) /\ r \in rows
  <2>1. r \in SeenInside(rows, since) /\ r \in rows
    BY DEF SeenInside, Kind
  <2>2. PICK n \in A : r.item = Seen(Number(lines[n].says))
    BY <2>1, SeenByLine
  <2> QED
    BY <2>1, <2>2 DEF Seen, Item
<1>4. f \in Injection(Q, N)
  <2>1. f \in [Q -> N]
    BY <1>3
  <2>2. \A r, s \in Q : f[r] = f[s] => r = s
    <3>1. ASSUME NEW r \in Q, NEW s \in Q, f[r] = f[s]
          PROVE  r = s
      <4>1. r.item = s.item /\ r \in rows /\ s \in rows
        BY <1>3, <3>1
      <4> QED
        BY <4>1 DEF TypeOK, OnePerItem
    <3> QED
      BY <3>1
  <2> HIDE DEF f, N
  <2> QED
    BY <2>1, <2>2 DEF Injection, IsInjective
<1> HIDE DEF f, N
<1>5. IsFiniteSet(Q) /\ Cardinality(Q) <= Cardinality(N)
  BY <1>2, <1>4, FS_Injection
<1>6. Cardinality(Q) \in Nat /\ Cardinality(N) \in Nat
  BY <1>2, <1>5, FS_CardinalityType
<1>7. Cardinality(N) >= k
  BY <1>5, <1>6
<1> QED
  BY <1>7 DEF N

\* The lines a bucket's rows count are inside the window with it.
LEMMA LinesAtMost ==
    ASSUME TypeOK, detector \in DetectorNames, AllAccounted, NEW since \in Int,
           NEW kinds \in SUBSET {"bucket", "refused"}, NEW Q \in SUBSET rows,
           NEW k \in Int, Lines(Q, kinds, since) >= k,
           NEW T \in SUBSET Reached(since),
           \A n \in Reached(since) :
              (\E i \in Observes(lines[n].says, lines[n].at) : i.kind \in kinds) => n \in T
    PROVE  Cardinality(T) >= k
<1>1. PICK U \in SUBSET (1 .. taken) :
             /\ Lines(rows, kinds, since) = Cardinality(U)
             /\ \A n \in U : \E i \in Observes(lines[n].says, lines[n].at) :
                   i.kind \in kinds /\ i.what >= since
  BY LinesCounted
<1>2. ASSUME NEW n \in U
      PROVE  n \in T
  <2>1. PICK i \in Observes(lines[n].says, lines[n].at) : i.kind \in kinds /\ i.what >= since
    BY <1>1
  <2>2. n \in 1 .. taken /\ lines[n].at \in Nat
    BY <1>1, LinesTyped DEF TypeOK
  <2>3. i.what = BucketStart(lines[n].at)
    BY <2>1 DEF Observes, DetectorNames, Seen, Clear, Warned, Bucket, Refused, Item
  <2>4. lines[n].at >= since
    BY <2>1, <2>2, <2>3, BucketOfMoment
  <2> QED
    BY <2>1, <2>2, <2>4 DEF Reached
<1>3. /\ Late(Q, kinds, since) \in SUBSET Late(rows, kinds, since)
      /\ Late(rows, kinds, since) \in SUBSET rows
  BY DEF Late, Kind
<1>4. IsFiniteSet(Late(rows, kinds, since)) /\ Counted(Late(rows, kinds, since))
  BY <1>3, RowsFinite, FS_Subset, CountedRows
<1>5. /\ Lines(Q, kinds, since) <= Lines(rows, kinds, since)
      /\ Lines(Q, kinds, since) \in Nat
  <2>1. /\ IsFiniteSet(Late(Q, kinds, since)) /\ Counted(Late(Q, kinds, since))
    BY <1>3, <1>4, FS_Subset, CountedRows
  <2> QED
    BY <1>3, <1>4, <2>1, TotalGrows, TotalIsNat, LinesTotal
<1>6. IsFiniteSet(T)
  BY ReachedFinite, FS_Subset
<1>7. U \in SUBSET T
  BY <1>2
<1>8. Cardinality(U) \in Nat
  BY <1>6, <1>7, FS_Subset, FS_CardinalityType
<1>9. Cardinality(U) >= k
  BY <1>1, <1>5, <1>8
<1> QED
  BY <1>6, <1>7, <1>9, CardinalityLeq

LEMMA NeverOverJudged ==
    ASSUME RulesAsInCode, TypeOK, AllAccounted, NEW since \in Int, Judges(since),
           UNCHANGED <<detector, lines, taken>>
    PROVE  NeverOver'
<1> SUFFICES ASSUME Convicts(rows, Rule, since)
             PROVE  Deserved(since)'
  BY DEF Judges, NeverOver
<1>0. detector \in DetectorNames /\ Rule.n \in Nat /\ Rule.m \in Nat /\ Rule.kind = RuleKind(detector)
  BY DEF RulesAsInCode, TypeOK, Rule
<1>1. verdict'.of = taken
  BY DEF Judges
<1> DEFINE Q == Read(rows, Rule, since)
           S == {n \in Reached(since) : SeenLine(lines[n].says)}
<1>2. Q \in SUBSET rows /\ Guilty(Q, Rule, since)
  BY DEF Read, Prune, Convicts
<1> HIDE DEF Q
<1>3. /\ Rule' = Rule
      /\ That(since, SeenLine)' = S
      /\ That(since, RefusedLine)' = {n \in Reached(since) : lines[n].says = "refused"}
      /\ That(since, AnyLine)' = Reached(since)
      /\ ThingsSeen(since)' = {Number(lines[n].says) : n \in S}
      /\ \A page : Times(page, since)' = {n \in Reached(since) : Number(lines[n].says) = page}
  BY <1>1, Judged
<1>4. SeenInside(Q, since) \in SUBSET SeenInside(rows, since)
  BY <1>2 DEF SeenInside, Kind
<1>5. CASE Rule.kind = "AtLeast"
  <2>1. detector = "login_attempts"
    BY <1>0, <1>5 DEF RuleKind, DetectorNames
  <2>2. \A n \in Reached(since) :
           (\E i \in Observes(lines[n].says, lines[n].at) : i.kind \in {"bucket"}) => n \in S
    BY <2>1 DEF Observes, SeenLine, Bucket, Seen, Item
  <2>3. Lines(Q, {"bucket"}, since) >= Rule.n
    BY <1>2, <1>5 DEF Guilty
  <2>4. Cardinality(S) >= Rule.n
    <3>1. S \in SUBSET Reached(since) /\ {"bucket"} \in SUBSET {"bucket", "refused"}
      OBVIOUS
    <3> HIDE DEF S
    <3> QED
      BY <1>0, <1>2, <2>2, <2>3, <3>1, LinesAtMost
  <2> QED
    BY <1>3, <1>5, <2>4 DEF Deserved
<1>6. CASE Rule.kind = "Rate"
  <2>1. detector = "request_rate"
    BY <1>0, <1>6 DEF RuleKind, DetectorNames
  <2>2. CASE Lines(Q, {"bucket", "refused"}, since) >= Rule.n
    <3>1. Cardinality(Reached(since)) >= Rule.n
      BY <1>0, <1>2, <2>2, LinesAtMost
    <3> QED
      BY <1>3, <1>6, <3>1 DEF Deserved
  <2>3. CASE Lines(Q, {"refused"}, since) >= Rule.m
    <3> DEFINE T == {n \in Reached(since) : lines[n].says = "refused"}
    <3>1. \A n \in Reached(since) :
             (\E i \in Observes(lines[n].says, lines[n].at) : i.kind \in {"refused"}) => n \in T
      BY <2>1 DEF Observes, Bucket, Refused, Item
    <3>2. T \in SUBSET Reached(since) /\ {"refused"} \in SUBSET {"bucket", "refused"}
      OBVIOUS
    <3>3. Cardinality(T) >= Rule.m
      <4> HIDE DEF T
      <4> QED
        BY <1>0, <1>2, <2>3, <3>1, <3>2, LinesAtMost
    <3> QED
      BY <1>3, <1>6, <3>3 DEF Deserved
  <2> QED
    BY <1>2, <1>6, <2>2, <2>3 DEF Guilty
<1>7. CASE /\ Rule.kind \in {"Distinct", "DistinctOrRepeated"}
           /\ Cardinality(SeenInside(Q, since)) >= Rule.n
  <2>1. Cardinality({Number(lines[n].says) : n \in S}) >= Rule.n
    BY <1>0, <1>4, <1>7, SeenAtMost
  <2> QED
    BY <1>3, <1>7, <2>1 DEF Deserved
<1>8. CASE Rule.kind = "DistinctOrRepeated" /\ RepeatedPage(Q, since, Rule.m)
  <2>1. PICK r \in SeenInside(Q, since) :
               r.first >= since /\ r.count >= Rule.m /\ r.item.what \in Pages
    BY <1>8 DEF RepeatedPage
  <2>2. r \in rows /\ r.item.kind = "seen" /\ r.first \in Int
    BY <1>2, <2>1 DEF SeenInside, Kind, TypeOK, RowOK
  <2>3. PICK B \in SUBSET Observing(r.item, 1 .. taken) : Counts(r, B)
    BY <2>2, Behind
  <2> DEFINE T == {n \in Reached(since) : Number(lines[n].says) = r.item.what}
  <2>4. ASSUME NEW n \in B
        PROVE  n \in T
    <3>1. n \in 1 .. taken /\ r.item \in Observes(lines[n].says, lines[n].at)
          /\ r.first <= lines[n].at
      BY <2>3 DEF Observing, Counts
    <3>2. lines[n].at \in Int
      BY <3>1, LinesTyped DEF TypeOK
    <3>3. r.item = Seen(Number(lines[n].says))
      BY <1>0, <2>2, <3>1, LineKinds
    <3> QED
      BY <2>1, <2>2, <3>1, <3>2, <3>3 DEF Reached, Seen, Item
  <2>5. B \in SUBSET T /\ T \in SUBSET Reached(since)
    BY <2>4
  <2>6. Cardinality(B) >= Rule.m
    BY <2>1, <2>3 DEF Counts
  <2>7. Cardinality(T) >= Rule.m
    <3> HIDE DEF T
    <3>1. IsFiniteSet(T)
      BY <2>5, ReachedFinite, FS_Subset
    <3> QED
      BY <1>0, <2>5, <2>6, <3>1, CardinalityLeq
  <2> QED
    BY <1>3, <1>8, <2>1, <2>7 DEF Deserved
<1>9. CASE Rule.kind = "AfterWarning"
  <2>1. PICK w \in Kind(Q, {"warned"}), r \in SeenInside(Q, since) :
               w.last >= since /\ r.last >= w.first
    BY <1>2, <1>9 DEF Guilty
  <2>2. w \in rows /\ w.item.kind = "warned"
    BY <1>2, <2>1 DEF Kind
  <2>3. PICK v \in 1 .. taken : /\ w.item \in Observes(lines[v].says, lines[v].at)
                                /\ lines[v].at = w.first
    BY <2>2, Behind DEF Counts, Observing
  <2>4. lines[v].says = "robots"
    BY <1>0, <2>2, <2>3 DEF Observes, DetectorNames, Seen, Clear, Warned, Bucket, Refused, Item
  <2>5. PICK n \in Reached(since) : SeenLine(lines[n].says) /\ lines[n].at = r.last
    BY <1>0, <1>4, <2>1, SeenByLine
  <2>6. lines[v].at <= lines[n].at
    <3>1. r.last \in Int /\ w.first \in Int
      BY <1>2, <2>1, <2>2 DEF SeenInside, Kind, TypeOK, RowOK
    <3> QED
      BY <2>1, <2>3, <2>5, <3>1
  <2>7. n \in That(since, SeenLine)' /\ lines'[v].says = "robots" /\ lines'[v].at <= lines'[n].at
        /\ v \in 1 .. verdict'.of
    BY <1>1, <1>3, <2>3, <2>4, <2>5, <2>6
  <2> QED
    BY <1>3, <1>9, <2>7 DEF Deserved
<1>10. CASE Rule.kind \in {"Once", "OnceUnlessCleared"}
  <2>1. PICK r \in SeenInside(Q, since) : TRUE
    BY <1>2, <1>10 DEF Guilty
  <2>2. \E n \in Reached(since) : SeenLine(lines[n].says)
    BY <1>0, <1>4, <2>1, SeenByLine
  <2> QED
    BY <1>3, <1>10, <2>2 DEF Deserved
<1> QED
  BY <1>2, <1>5, <1>6, <1>7, <1>8, <1>9, <1>10 DEF Guilty

\* Once everything is stored, the row of an item has every line that shows it.
LEMMA RowOfItem ==
    ASSUME TypeOK, AllAccounted, job.pending = {}, Whole,
           NEW since \in Int, since >= Edge, Edge \in Int,
           NEW n \in Reached(since), NEW i \in Observes(lines[n].says, lines[n].at), KeptAlways(i)
    PROVE  \E r \in rows : /\ r.item = i
                           /\ r.first <= lines[n].at /\ lines[n].at <= r.last /\ r.last >= since
                           /\ \E B \in SUBSET Observing(i, 1 .. taken) :
                                 /\ Counts(r, B)
                                 /\ \A k \in Reached(since) :
                                       i \in Observes(lines[k].says, lines[k].at) => k \in B
<1>1. n \in 1 .. taken /\ lines[n].at >= since
  BY DEF Reached
<1>2. \A k \in 1 .. taken : lines[k].at \in Int
  BY LinesTyped DEF TypeOK
<1>3. lines[n].at >= Edge
  BY <1>1, <1>2
<1>4. PICK r \in rows : r.item = i
  BY <1>1, <1>3, Behind
<1>5. PICK B \in SUBSET Observing(i, 1 .. taken) : Counts(r, B) /\ Complete(i, B, 1 .. taken)
  BY <1>4, Behind
<1>6. ASSUME NEW k \in Reached(since), i \in Observes(lines[k].says, lines[k].at)
      PROVE  k \in B
  <2>1. k \in 1 .. taken /\ lines[k].at >= Edge
    BY <1>2, <1>6 DEF Reached
  <2> QED
    BY <1>5, <1>6, <2>1 DEF Complete, Observing
<1>7. n \in B
  BY <1>6
<1>8. r.first <= lines[n].at /\ lines[n].at <= r.last /\ r.last \in Int
  BY <1>4, <1>5, <1>7 DEF Counts, TypeOK, RowOK
<1>9. r.last >= since
  BY <1>1, <1>2, <1>8
<1> QED
  BY <1>4, <1>5, <1>6, <1>8, <1>9

\* Every thing that lines show has a row that was seen.
LEMMA SeenAtLeast ==
    ASSUME TypeOK, detector \in DetectorNames, AllAccounted, job.pending = {}, Whole,
           NEW since \in Int, since >= Edge, Edge \in Int, NEW k \in Int,
           Cardinality({Number(lines[n].says) : n \in {m \in Reached(since) : SeenLine(lines[m].says)}})
              >= k
    PROVE  Cardinality(SeenInside(rows, since)) >= k
<1> DEFINE A == {m \in Reached(since) : SeenLine(lines[m].says)}
           N == {Number(lines[n].says) : n \in A}
           Q == SeenInside(rows, since)
           f == [x \in N |-> CHOOSE r \in Q : r.item = Seen(x)]
<1>1. ASSUME NEW x \in N
      PROVE  \E r \in Q : r.item = Seen(x)
  <2>1. PICK n \in A : x = Number(lines[n].says)
    BY <1>1
  <2>2. Seen(x) \in Observes(lines[n].says, lines[n].at) /\ KeptAlways(Seen(x))
    BY <2>1, LineKinds DEF KeptAlways, Seen, Clear, Item
  <2>3. PICK r \in rows : r.item = Seen(x) /\ r.last >= since
    BY <2>2, RowOfItem
  <2> QED
    BY <2>3 DEF SeenInside, Kind, Seen, Item
<1>2. ASSUME NEW x \in N
      PROVE  f[x] \in Q /\ f[x].item = Seen(x)
  BY <1>1
<1>3. IsFiniteSet(Q)
  <2>1. Q \in SUBSET rows
    BY DEF SeenInside, Kind
  <2> HIDE DEF Q
  <2> QED
    BY <2>1, RowsFinite, FS_Subset
<1>4. f \in Injection(N, Q)
  <2>1. f \in [N -> Q]
    BY <1>2
  <2>2. ASSUME NEW x \in N, NEW y \in N, f[x] = f[y]
        PROVE  x = y
    <3>1. Seen(x) = Seen(y)
      BY <1>2, <2>2
    <3> QED
      BY <3>1 DEF Seen, Item
  <2> HIDE DEF f, N, Q
  <2> QED
    BY <2>1, <2>2 DEF Injection, IsInjective
<1> HIDE DEF f, Q, N
<1>5. IsFiniteSet(N) /\ Cardinality(N) <= Cardinality(Q)
  BY <1>3, <1>4, FS_Injection
<1>6. Cardinality(Q) \in Nat /\ Cardinality(N) \in Nat
  BY <1>3, <1>5, FS_CardinalityType
<1>7. Cardinality(N) >= k
  BY DEF N
<1>8. Cardinality(Q) >= k
  BY <1>5, <1>6, <1>7
<1> QED
  BY <1>8 DEF Q

\* Lines whose bucket begins inside the window are all in its rows.
LEMMA LinesAtLeast ==
    ASSUME TypeOK, detector \in DetectorNames, AllAccounted, job.pending = {}, Whole,
           NEW since \in Int, since >= Edge, Edge \in Int,
           NEW kinds \in SUBSET {"bucket", "refused"}, NEW k \in Int,
           NEW T \in SUBSET Reached(since + BucketSeconds - 1), Cardinality(T) >= k,
           \A n \in T : \E i \in Observes(lines[n].says, lines[n].at) : i.kind \in kinds
    PROVE  Lines(rows, kinds, since) >= k
<1>1. PICK U \in SUBSET (1 .. taken) :
             /\ Lines(rows, kinds, since) = Cardinality(U)
             /\ \A n \in 1 .. taken : \A i \in Observes(lines[n].says, lines[n].at) :
                   lines[n].at >= Edge /\ i.kind \in kinds /\ i.what >= since => n \in U
  BY LinesCounted
<1>2. ASSUME NEW n \in T
      PROVE  n \in U
  <2>1. PICK i \in Observes(lines[n].says, lines[n].at) : i.kind \in kinds
    OBVIOUS
  <2>2. n \in 1 .. taken /\ lines[n].at \in Nat /\ lines[n].at >= since + BucketSeconds - 1
    BY LinesTyped DEF TypeOK, Reached
  <2>3. i.what = BucketStart(lines[n].at)
    BY <2>1 DEF Observes, DetectorNames, Seen, Clear, Warned, Bucket, Refused, Item
  <2>4. i.what >= since /\ lines[n].at >= Edge
    BY <2>2, <2>3, BucketOfMoment, BucketAssumption
  <2> QED
    BY <1>1, <2>1, <2>2, <2>4
<1>3. IsFiniteSet(U)
  <2>1. 1 \in Int /\ taken \in Int
    BY DEF TypeOK
  <2> QED
    BY <2>1, FS_Interval, FS_Subset
<1>4. T \in SUBSET U
  BY <1>2
<1>5. Cardinality(U) >= k
  BY <1>3, <1>4, CardinalityLeq
<1> QED
  BY <1>1, <1>5

\* What clears the rows is a line that clears.
LEMMA ClearedByLine ==
    ASSUME TypeOK, detector \in DetectorNames, AllAccounted, NEW since \in Int, Cleared(rows, since)
    PROVE  \E n \in Reached(since) : ClearLine(lines[n].says) /\ lines[n].at >= 0
<1>1. PICK r \in rows : r.item.kind = "clear" /\ r.last >= since
  BY DEF Cleared, Kind
<1>2. PICK n \in 1 .. taken : r.item \in Observes(lines[n].says, lines[n].at) /\ lines[n].at = r.last
  BY <1>1, Behind DEF Counts, Observing
<1>3. r.item = Clear
  BY <1>1, <1>2 DEF Observes, DetectorNames, Seen, Clear, Warned, Bucket, Refused, Item
<1>4. lines[n].at >= 0
  BY <1>2, LinesTyped DEF TypeOK
<1> QED
  BY <1>1, <1>2, <1>3, <1>4, LineKinds DEF Reached

LEMMA NotMissedJudged ==
    ASSUME RulesAsInCode, TypeOK, AllAccounted, NEW since \in Int, Judges(since),
           since >= Edge, Edge \in Int, UNCHANGED <<detector, lines, taken>>
    PROVE  NotMissed'
<1> SUFFICES ASSUME ~Convicts(rows, Rule, since), Whole, job.pending = {}, Certain(since)'
             PROVE  FALSE
  BY DEF Judges, NotMissed, Whole
<1>0. /\ detector \in DetectorNames /\ Rule.n \in Nat /\ Rule.m \in Nat
      /\ Rule.kind = RuleKind(detector)
      /\ detector = "web_scanners" => Rule.m # 0
      /\ Asset \notin Pages
  BY DEF RulesAsInCode, TypeOK, Rule
<1> SUFFICES Guilty(rows, Rule, since)
  BY ReadWhole
<1> DEFINE Shown(from) == {n \in Reached(from) : SeenLine(lines[n].says)}
           S == Shown(since)
           late == since + BucketSeconds - 1
<1>1. verdict'.of = taken
  BY DEF Judges
<1>2. /\ Rule' = Rule
      /\ Heard(since)' = Reached(since)
      /\ That(since, SeenLine)' = S
      /\ That(since, ClearLine)' = {n \in Reached(since) : ClearLine(lines[n].says)}
      /\ That(0, ClearLine)' = {n \in Reached(0) : ClearLine(lines[n].says)}
      /\ That(late, SeenLine)' = Shown(late)
      /\ That(late, RefusedLine)' = {n \in Reached(late) : lines[n].says = "refused"}
      /\ That(late, AnyLine)' = Reached(late)
      /\ ThingsSeen(since)' = {Number(lines[n].says) : n \in S}
      /\ \A page, from : Times(page, from)' = {n \in Reached(from) : Number(lines[n].says) = page}
  BY <1>1, Judged
<1>3. CASE Rule.kind = "AtLeast"
  <2>1. detector = "login_attempts"
    BY <1>0, <1>3 DEF RuleKind, DetectorNames
  <2>2. Deserved(late)'
    BY <1>2, <1>3 DEF Certain
  <2>3. Cardinality(Shown(late)) >= Rule.n
    BY <1>2, <1>3, <2>2 DEF Deserved
  <2>4. \A n \in Shown(late) :
           \E i \in Observes(lines[n].says, lines[n].at) : i.kind \in {"bucket"}
    BY <2>1 DEF Observes, SeenLine, Bucket, Seen, Item
  <2>5. Lines(rows, {"bucket"}, since) >= Rule.n
    <3>1. PICK T : T = Shown(late)
      OBVIOUS
    <3>2. T \in SUBSET Reached(late) /\ {"bucket"} \in SUBSET {"bucket", "refused"}
      BY <3>1
    <3>3. \A n \in T : \E i \in Observes(lines[n].says, lines[n].at) : i.kind \in {"bucket"}
      BY <2>4, <3>1
    <3>4. Cardinality(T) >= Rule.n
      BY <2>3, <3>1
    <3> HIDE DEF Shown
    <3> QED
      BY <1>0, <3>2, <3>3, <3>4, LinesAtLeast
  <2> QED
    BY <1>3, <2>5 DEF Guilty
<1>4. CASE Rule.kind = "Rate"
  <2>1. detector = "request_rate"
    BY <1>0, <1>4 DEF RuleKind, DetectorNames
  <2>2. Deserved(late)'
    BY <1>2, <1>4 DEF Certain
  <2>3. CASE Cardinality(Reached(late)) >= Rule.n
    <3>1. \A n \in Reached(late) :
             \E i \in Observes(lines[n].says, lines[n].at) : i.kind \in {"bucket", "refused"}
      BY <2>1 DEF Observes, Bucket, Refused, Item
    <3>2. Lines(rows, {"bucket", "refused"}, since) >= Rule.n
      BY <1>0, <2>3, <3>1, LinesAtLeast
    <3> QED
      BY <1>4, <3>2 DEF Guilty
  <2>4. CASE Cardinality({n \in Reached(late) : lines[n].says = "refused"}) >= Rule.m
    <3>1. PICK T : T = {n \in Reached(late) : lines[n].says = "refused"}
      OBVIOUS
    <3>2. T \in SUBSET Reached(late) /\ {"refused"} \in SUBSET {"bucket", "refused"}
      BY <3>1
    <3>3. \A n \in T : \E i \in Observes(lines[n].says, lines[n].at) : i.kind \in {"refused"}
      BY <2>1, <3>1 DEF Observes, Refused, Item
    <3>4. Cardinality(T) >= Rule.m
      BY <2>4, <3>1
    <3>5. Lines(rows, {"refused"}, since) >= Rule.m
      BY <1>0, <3>2, <3>3, <3>4, LinesAtLeast
    <3> QED
      BY <1>4, <3>5 DEF Guilty
  <2> QED
    BY <1>2, <1>4, <2>2, <2>3, <2>4 DEF Deserved
<1>5. CASE Rule.kind = "Distinct"
  <2>1. /\ Cardinality({Number(lines[n].says) : n \in S}) >= Rule.n
        /\ \A n \in Reached(since) : ~ClearLine(lines[n].says)
    BY <1>2, <1>5 DEF Certain, Deserved
  <2>2. ~Cleared(rows, since)
    BY <1>0, <2>1, ClearedByLine
  <2>3. Cardinality(SeenInside(rows, since)) >= Rule.n
    BY <1>0, <2>1, SeenAtLeast
  <2> QED
    BY <1>5, <2>2, <2>3 DEF Guilty
<1>6. CASE Rule.kind = "DistinctOrRepeated"
  <2>1. detector = "web_scanners"
    BY <1>0, <1>6 DEF RuleKind, DetectorNames
  <2>2. ~Cleared(rows, since)
    <3>1. \A n \in Reached(since) : ~ClearLine(lines[n].says)
      BY <2>1 DEF ClearLine, Observes, Seen, Clear, Item
    <3> QED
      BY <1>0, <3>1, ClearedByLine
  <2>3. CASE Cardinality({Number(lines[n].says) : n \in S}) >= Rule.n
    <3>1. Cardinality(SeenInside(rows, since)) >= Rule.n
      BY <1>0, <2>3, SeenAtLeast
    <3> QED
      BY <1>6, <2>2, <3>1 DEF Guilty
  <2>4. ASSUME NEW p \in Pages, Cardinality(Times(p, since)') >= Rule.m,
               Times(p, since)' = Times(p, 0)'
        PROVE  RepeatedPage(rows, since, Rule.m)
    <3> DEFINE T == {n \in Reached(since) : Number(lines[n].says) = p}
    <3>1. T = {n \in Reached(0) : Number(lines[n].says) = p} /\ Cardinality(T) >= Rule.m
      BY <1>2, <2>4
    <3>2. T # {}
      <4>1. Cardinality({}) = 0
        BY FS_EmptySet
      <4>2. Rule.m \in Nat /\ Rule.m # 0
        BY <1>0, <2>1 DEF RulesAsInCode, DetectorNames, TypeOK, Rule
      <4>3. ~(0 >= Rule.m)
        BY <4>2
      <4> QED
        BY <3>1, <4>1, <4>3
    <3>3. PICK n \in T : TRUE
      BY <3>2
    <3>4. ASSUME NEW x \in T
          PROVE  Seen(p) \in Observes(lines[x].says, lines[x].at)
      BY <1>0, <2>1 DEF Number, Asset, Observes, IsPage
    <3>5. KeptAlways(Seen(p))
      BY DEF KeptAlways, Seen, Clear, Item
    <3>6. PICK r \in rows : /\ r.item = Seen(p) /\ r.last >= since
                            /\ \E B \in SUBSET Observing(Seen(p), 1 .. taken) :
                                  /\ Counts(r, B)
                                  /\ \A k \in Reached(since) :
                                        Seen(p) \in Observes(lines[k].says, lines[k].at) => k \in B
      BY <3>3, <3>4, <3>5, RowOfItem
    <3>7. PICK B \in SUBSET Observing(Seen(p), 1 .. taken) :
                 /\ Counts(r, B)
                 /\ \A k \in Reached(since) :
                       Seen(p) \in Observes(lines[k].says, lines[k].at) => k \in B
      BY <3>6
    <3>8. T \in SUBSET B
      BY <3>4, <3>7
    <3>9. ASSUME NEW x \in B
          PROVE  x \in T
      <4>1. x \in 1 .. taken /\ Seen(p) \in Observes(lines[x].says, lines[x].at)
        BY <3>7 DEF Observing
      <4>2. Seen(p) = Seen(Number(lines[x].says))
        BY <1>0, <4>1, LineKinds DEF Seen, Item
      <4>3. lines[x].at >= 0
        BY <4>1, LinesTyped DEF TypeOK
      <4> QED
        BY <3>1, <4>1, <4>2, <4>3 DEF Reached, Seen, Item
    <3>10. r.first >= since
      BY <3>7, <3>9 DEF Counts, Reached
    <3>11. B = T
      BY <3>8, <3>9
    <3>12. r.count >= Rule.m
      BY <3>1, <3>7, <3>11 DEF Counts
    <3>13. r \in SeenInside(rows, since) /\ r.item.what = p
      BY <3>6 DEF SeenInside, Kind, Seen, Item
    <3> QED
      BY <3>10, <3>12, <3>13 DEF RepeatedPage
  <2>5. \/ Cardinality({Number(lines[n].says) : n \in S}) >= Rule.n
        \/ \E p \in Pages : Cardinality(Times(p, since)') >= Rule.m /\ Times(p, since)' = Times(p, 0)'
    BY <1>2, <1>6 DEF Certain
  <2> QED
    BY <1>6, <2>2, <2>3, <2>4, <2>5 DEF Guilty
<1>7. CASE Rule.kind = "AfterWarning"
  <2>1. detector = "robots_violators"
    BY <1>0, <1>7 DEF RuleKind, DetectorNames
  <2>2. PICK w \in Reached(since), n \in S :
               lines[w].says = "robots" /\ lines[w].at <= lines[n].at
    BY <1>2, <1>7 DEF Certain
  <2>3. /\ Warned \in Observes(lines[w].says, lines[w].at) /\ KeptAlways(Warned)
        /\ Seen(Number(lines[n].says)) \in Observes(lines[n].says, lines[n].at)
        /\ KeptAlways(Seen(Number(lines[n].says)))
    <3>1. Seen(Number(lines[n].says)) \in Observes(lines[n].says, lines[n].at)
      BY <1>0, <2>2, LineKinds
    <3>2. Warned \in Observes(lines[w].says, lines[w].at)
      BY <2>1, <2>2 DEF Observes, IsPage
    <3>3. KeptAlways(Warned) /\ KeptAlways(Seen(Number(lines[n].says)))
      BY <2>1 DEF KeptAlways, Warned, Clear, Seen, Item
    <3> QED
      BY <3>1, <3>2, <3>3
  <2>4. PICK a \in rows : a.item = Warned /\ a.first <= lines[w].at /\ a.last >= since
    BY <2>3, RowOfItem
  <2>5. PICK r \in rows : /\ r.item = Seen(Number(lines[n].says))
                          /\ lines[n].at <= r.last /\ r.last >= since
    BY <2>3, RowOfItem
  <2>6. r.last >= a.first
    <3>1. /\ r.last \in Int /\ a.first \in Int
          /\ lines[n].at \in Int /\ lines[w].at \in Int
      <4>1. n \in 1 .. taken /\ w \in 1 .. taken
        BY <2>2 DEF Reached
      <4>2. lines[n].at \in Int /\ lines[w].at \in Int
        <5>1. taken \in 0 .. Len(lines) /\ now \in Nat /\ Len(lines) \in Nat
          BY LinesTyped DEF TypeOK
        <5>2. n \in 1 .. Len(lines) /\ w \in 1 .. Len(lines)
          BY <4>1, <5>1
        <5> QED
          BY <5>1, <5>2, LinesTyped
      <4> QED
        BY <4>2 DEF TypeOK, RowOK
    <3> QED
      BY <2>2, <2>4, <2>5, <3>1
  <2>7. a \in Kind(rows, {"warned"}) /\ r \in SeenInside(rows, since)
    BY <2>4, <2>5 DEF Kind, SeenInside, Warned, Seen, Item
  <2> QED
    BY <1>7, <2>4, <2>6, <2>7 DEF Guilty
<1>8. CASE Rule.kind \in {"Once", "OnceUnlessCleared"}
  <2>1. PICK n \in S : TRUE
    BY <1>2, <1>8 DEF Certain, Deserved
  <2>2. /\ Seen(Number(lines[n].says)) \in Observes(lines[n].says, lines[n].at)
        /\ KeptAlways(Seen(Number(lines[n].says)))
    BY <1>0, LineKinds DEF KeptAlways, Seen, Clear, Item
  <2>3. PICK r \in rows : r.item = Seen(Number(lines[n].says)) /\ r.last >= since
    BY <2>2, RowOfItem
  <2>4. SeenInside(rows, since) # {}
    BY <2>3 DEF SeenInside, Kind, Seen, Item
  <2>5. CASE Rule.kind = "Once"
    BY <2>4, <2>5 DEF Guilty
  <2>6. CASE Rule.kind = "OnceUnlessCleared"
    <3>1. \A x \in Reached(0) : ~ClearLine(lines[x].says)
      BY <1>2, <2>6 DEF Certain
    <3>2. ~Cleared(rows, since)
      BY <1>0, <3>1, ClearedByLine DEF Reached
    <3> QED
      BY <2>4, <2>6, <3>2 DEF Guilty
  <2> QED
    BY <1>8, <2>5, <2>6
<1> QED
  BY <1>0, <1>3, <1>4, <1>5, <1>6, <1>7, <1>8 DEF RuleKind, DetectorNames

LEMMA ClearedJudged ==
    ASSUME RulesAsInCode, TypeOK, AllAccounted, ClearsOnRecord, NEW since \in Int, Judges(since),
           since >= Edge, Edge \in Int, UNCHANGED <<detector, lines, taken>>
    PROVE  ClearedIsSpared'
<1>0. /\ detector \in DetectorNames /\ Rule.n \in Nat
      /\ Rule.kind = RuleKind(detector)
  BY DEF RulesAsInCode, TypeOK, Rule
<1>1. /\ verdict'.of = taken /\ verdict'.since = since
      /\ verdict'.guilty = Convicts(rows, Rule, since)
      /\ verdict'.whole = (~history.torn /\ job.pending = {})
      /\ verdict'.forgotten = history.forgotten
  BY DEF Judges
<1>2. /\ Rule' = Rule
      /\ That(since, SeenLine)' = {n \in Reached(since) : SeenLine(lines[n].says)}
      /\ That(since, ClearLine)' = {n \in Reached(since) : ClearLine(lines[n].says)}
  BY <1>1, Judged
<1> SUFFICES ASSUME Convicts(rows, Rule, since), ~history.torn, job.pending = {},
                    NEW n \in Reached(since), ClearLine(lines[n].says),
                    lines[n].at > history.forgotten,
                    Rule.kind \in {"Distinct", "OnceUnlessCleared"}
             PROVE  /\ Rule.kind = "OnceUnlessCleared"
                    /\ \A m \in Reached(since) :
                          SeenLine(lines[m].says) => lines[n].pass # lines[m].pass
  BY <1>1, <1>2 DEF ClearedIsSpared
<1>3. /\ n \in 1 .. taken /\ lines[n].at >= since /\ lines[n].at >= Edge
      /\ Clear \in Observes(lines[n].says, lines[n].at)
      /\ lines[n].at \in Int
  <2>1. n \in 1 .. taken /\ lines[n].at >= since
    BY DEF Reached
  <2>2. lines[n].at \in Int
    BY <2>1, LinesTyped DEF TypeOK
  <2>3. Clear \in Observes(lines[n].says, lines[n].at)
    BY <1>0, LineKinds
  <2> QED
    BY <2>1, <2>2, <2>3
<1>4. ASSUME NEW r \in rows, r.item = Clear, r.last >= lines[n].at
      PROVE  FALSE
  <2> DEFINE inside == Prune(rows, since)
             Q == Read(rows, Rule, since)
  <2>1. r.last >= since
    BY <1>3, <1>4 DEF TypeOK, RowOK
  <2>2. Cleared(inside, since)
    BY <1>4, <2>1 DEF Cleared, Kind, Prune, Clear, Item
  <2>3. Guilty(Q, Rule, since)
    BY DEF Convicts
  <2>4. ~Cleared(Q, since)
    BY <2>3 DEF Guilty
  <2>5. Q = {} /\ ~Worth(inside, Rule)
    BY <2>2, <2>4 DEF Read
  <2>6. SeenInside(Q, since) = {}
    BY <2>5 DEF SeenInside, Kind
  <2>7. CASE Rule.kind = "Distinct"
    <3>1. Cardinality({}) >= Rule.n
      BY <2>3, <2>6, <2>7 DEF Guilty
    <3>2. Rule.n = 0
      BY <1>0, <3>1, FS_EmptySet
    <3>3. Cardinality(inside) \in Nat
      <4>1. inside \in SUBSET rows
        BY DEF Prune
      <4> HIDE DEF inside
      <4> QED
        BY <1>0, <4>1, RowsFinite, FS_Subset, FS_CardinalityType
    <3>4. Worth(inside, Rule)
      BY <2>7, <3>2, <3>3 DEF Worth
    <3> QED
      BY <2>5, <3>4
  <2>8. CASE Rule.kind = "OnceUnlessCleared"
    BY <2>3, <2>6, <2>8 DEF Guilty
  <2> QED
    BY <2>7, <2>8
<1>5. /\ detector = "protocol_probes"
      /\ \A m \in 1 .. taken :
            lines[m].pass = lines[n].pass /\ lines[m].at >= Edge => ~SeenLine(lines[m].says)
  BY <1>3, <1>4 DEF ClearsOnRecord
<1>6. ASSUME NEW m \in Reached(since), SeenLine(lines[m].says)
      PROVE  lines[n].pass # lines[m].pass
  <2>1. m \in 1 .. taken /\ lines[m].at >= since /\ lines[m].at \in Int
    BY LinesTyped DEF Reached, TypeOK
  <2> QED
    BY <1>5, <1>6, <2>1
<1> QED
  BY <1>0, <1>5, <1>6 DEF RuleKind

-----------------------------------------------------------------------------
(* A verdict, once given, is about lines that no step changes.               *)

JudgedWell == NeverOver /\ NotMissed /\ ClearedIsSpared

LEMMA LinesRead ==
    ASSUME TypeOK, Next
    PROVE  \A n \in 1 .. taken : lines'[n] = lines[n]
<1>1. Len(lines) \in Nat /\ taken \in 0 .. Len(lines) /\ lines \in Seq(Line)
  BY DEF TypeOK
<1>2. ASSUME NEW says, Log(says)
      PROVE  \A n \in 1 .. taken : lines'[n] = lines[n]
  BY <1>1, <1>2 DEF Log
<1>3. CASE Pass
  BY <1>3, PassLines
<1>4. CASE UNCHANGED lines
  BY <1>4
<1> QED
  BY <1>2, <1>3, <1>4, Actions
     DEF Tick, StoreChunk, StorePrune, Crash, Decide, DecideElsewhere, Act

LEMMA VerdictStands ==
    ASSUME JudgedWell, UNCHANGED <<detector, verdict>>,
           \A n \in 1 .. verdict.of : lines'[n] = lines[n]
    PROVE  JudgedWell'
<1>1. detector' = detector
  OBVIOUS
<1>2. \A n \in 1 .. verdict.of : lines'[n] = lines[n]
  OBVIOUS
<1>4. Rule' = Rule
  BY <1>1 DEF Rule
<1>5. \A since : Heard(since)' = Heard(since)
  BY <1>2 DEF Heard
<1>6. /\ \A says, at : Observes(says, at)' = Observes(says, at)
      /\ \A says : SeenLine(says)' <=> SeenLine(says)
      /\ \A says : ClearLine(says)' <=> ClearLine(says)
  BY <1>1 DEF SeenLine, ClearLine, Observes, Bucket, Refused
<1>7. \A since : \A n \in Heard(since) : lines'[n] = lines[n]
  BY <1>2 DEF Heard
<1>8. /\ \A since : That(since, SeenLine)' = That(since, SeenLine)
      /\ \A since : That(since, ClearLine)' = That(since, ClearLine)
  BY <1>5, <1>6, <1>7 DEF That
<1>9. /\ \A since : That(since, RefusedLine)' = That(since, RefusedLine)
      /\ \A since : That(since, AnyLine)' = That(since, AnyLine)
  BY <1>5, <1>7 DEF That, RefusedLine, AnyLine
<1>10. /\ \A since : \A n \in That(since, SeenLine) : n \in 1 .. verdict.of
       /\ \A since : \A n \in That(since, ClearLine) : n \in 1 .. verdict.of
  BY DEF That, Heard
<1>11. \A since : ThingsSeen(since)' = ThingsSeen(since)
  <2> SUFFICES ASSUME NEW since
               PROVE  ThingsSeen(since)' = ThingsSeen(since)
    OBVIOUS
  <2>1. \A n \in That(since, SeenLine) : lines'[n] = lines[n]
    BY <1>2, <1>10
  <2> QED
    BY <1>8, <2>1 DEF ThingsSeen
<1>12. \A page, since : Times(page, since)' = Times(page, since)
  BY <1>5, <1>7 DEF Times
<1>13. \A since : Deserved(since)' <=> Deserved(since)
  <2> SUFFICES ASSUME NEW since
               PROVE  Deserved(since)' <=> Deserved(since)
    OBVIOUS
  <2> DEFINE Hit == \E w \in 1 .. verdict.of, n \in That(since, SeenLine) :
                       lines[w].says = "robots" /\ lines[w].at <= lines[n].at
  <2>1. Hit' <=> Hit
    BY <1>2, <1>8, <1>10
  <2> QED
    BY <1>4, <1>8, <1>9, <1>11, <1>12, <2>1 DEF Deserved
<1>14. \A since : Certain(since)' <=> Certain(since)
  <2> SUFFICES ASSUME NEW since
               PROVE  Certain(since)' <=> Certain(since)
    OBVIOUS
  <2> DEFINE Hit == \E w \in Heard(since), n \in That(since, SeenLine) :
                       lines[w].says = "robots" /\ lines[w].at <= lines[n].at
  <2>1. Hit' <=> Hit
    BY <1>2, <1>5, <1>7, <1>8, <1>10
  <2>2. (That(since, ClearLine) = {})' <=> That(since, ClearLine) = {}
    BY <1>8
  <2>3. (That(0, ClearLine) = {})' <=> That(0, ClearLine) = {}
    BY <1>8
  <2> QED
    BY <1>4, <1>11, <1>12, <1>13, <2>1, <2>2, <2>3 DEF Certain
<1>15. NeverOver'
  BY <1>13 DEF NeverOver, JudgedWell
<1>16. NotMissed'
  BY <1>14 DEF NotMissed, JudgedWell
<1>17. ClearedIsSpared'
  <2> DEFINE since == verdict.since
             clearing == {n \in That(since, ClearLine) : lines[n].at > verdict.forgotten}
             Apart == \A n \in clearing, m \in That(since, SeenLine) :
                         lines[n].pass # lines[m].pass
  <2>1. clearing' = clearing
    BY <1>2, <1>8, <1>10
  <2>2. clearing \in SUBSET That(since, ClearLine)
    OBVIOUS
  <2>3. Apart' <=> Apart
    BY <1>2, <1>8, <1>10, <2>1, <2>2
  <2> QED
    BY <1>4, <2>1, <2>3 DEF ClearedIsSpared, JudgedWell
<1> QED
  BY <1>15, <1>16, <1>17 DEF JudgedWell

LEMMA NoVerdictNoFault ==
    ASSUME ~verdict.given
    PROVE  JudgedWell
BY DEF JudgedWell, NeverOver, NotMissed, ClearedIsSpared

LEMMA JudgedWellKept ==
    ASSUME RulesAsInCode, EvInv, JudgedWell, EvInv', [Next]_vars
    PROVE  JudgedWell'
<1>0. TypeOK /\ AllAccounted /\ ClearsOnRecord
  BY DEF EvInv
<1>1. CASE UNCHANGED vars
  <2>1. UNCHANGED <<detector, lines, verdict>>
    BY <1>1 DEF vars
  <2> QED
    BY <2>1, VerdictStands
<1>2. CASE Next /\ verdict' = verdict
  <2>1. CASE verdict.given
    <3>1. detector' = detector
      BY <1>2, Actions
    <3>2. verdict.of \in 0 .. taken /\ taken \in Nat
      BY <1>0, <2>1 DEF TypeOK
    <3>3. \A n \in 1 .. verdict.of : n \in 1 .. taken
      BY <3>2
    <3>4. \A n \in 1 .. verdict.of : lines'[n] = lines[n]
      BY <1>0, <1>2, <3>3, LinesRead
    <3> QED
      BY <1>2, <3>1, <3>4, VerdictStands
  <2>2. CASE ~verdict.given
    <3>1. ~verdict'.given
      BY <1>2, <2>2
    <3> QED
      BY <3>1 DEF JudgedWell, NeverOver, NotMissed, ClearedIsSpared
  <2> QED
    BY <2>1, <2>2
<1>3. CASE Act
  <2>1. ~verdict'.given
    BY <1>3 DEF Act, NoVerdict
  <2> QED
    BY <2>1 DEF JudgedWell, NeverOver, NotMissed, ClearedIsSpared
<1>4. ASSUME NEW since \in Int, since >= Edge, Edge \in Int, Judges(since),
             UNCHANGED <<detector, lines, taken>>
      PROVE  JudgedWell'
  BY <1>0, <1>4, NeverOverJudged, NotMissedJudged, ClearedJudged DEF JudgedWell
<1>5. now \in Nat /\ job.at \in 0 .. now /\ Window \in Nat
  BY <1>0, EvidenceAssumption DEF TypeOK
<1>6. CASE Decide
  <2>1. Judges(job.at - Window) /\ UNCHANGED <<detector, lines, taken>> /\ pc = "decide"
    BY <1>6 DEF Decide
  <2>2. job.at - Window \in Int /\ Edge = job.at - Window
    BY <1>5, <2>1 DEF Edge
  <2> QED
    BY <1>4, <2>1, <2>2
<1>7. CASE DecideElsewhere
  <2>1. Judges(now - Window) /\ UNCHANGED <<detector, lines, taken>> /\ pc = "store"
    BY <1>7 DEF DecideElsewhere
  <2>2. /\ now - Window \in Int /\ Edge = job.at - Window
        /\ Edge \in Int /\ now - Window >= Edge
    BY <1>5, <2>1 DEF Edge
  <2> QED
    BY <1>4, <2>1, <2>2
<1>8. ASSUME NEW says, Log(says)
      PROVE  verdict' = verdict
  BY <1>8 DEF Log
<1> QED
  BY <1>1, <1>2, <1>3, <1>6, <1>7, <1>8, Actions DEF Tick, Pass, StoreChunk, StorePrune, Crash

-----------------------------------------------------------------------------
(* The theorems.                                                             *)

\* Every stored row and every row of the read under way stands for lines of the
\* log that were counted once each, with the times of the first and the last of
\* them; unless a stopped pass or a block took evidence away, no line that a
\* verdict can still ask about is missing; and what clears an address is on
\* record until its time is spent or falls out of the window (evidence.rs
\* upsert_evidence, logscan.rs Storing::step, store_evidence).
THEOREM EvidenceInvariant ==
    Spec => []EvInv
<1>1. Init => EvInv
  BY TypeInitially, AccountedInitially, ClearsInitially DEF EvInv
<1>2. EvInv /\ [Next]_vars => EvInv'
  BY TypeKept, AccountedKept, ClearsKept, RulesAssumption DEF EvInv
<1> QED
  BY <1>1, <1>2, PTL DEF Spec

LEMMA VerdictsHold ==
    Spec => []JudgedWell
<1>1. Init => JudgedWell
  BY NoVerdictNoFault DEF Init, NoVerdict
<1>2. EvInv /\ EvInv' /\ JudgedWell /\ [Next]_vars => JudgedWell'
  BY JudgedWellKept, RulesAssumption
<1> QED
  BY <1>1, <1>2, EvidenceInvariant, PTL DEF Spec

\* Short of, never over (scanblock.rs BUCKET_SECONDS, decide): nobody is
\* convicted by any detector unless lines of its own inside the window meet the
\* rule, for every window, bucket, threshold and log, whatever was lost with a
\* stopped pass, spent by a block or decided half-way through a store.
THEOREM NeverOverHolds ==
    Spec => []NeverOver
<1>1. JudgedWell => NeverOver
  BY DEF JudgedWell
<1> QED
  BY <1>1, VerdictsHold, PTL

\* How far short a count may fall (evidence_rows, scanblock.rs decide): whoever
\* meets the rule without the lines of the oldest bucket is convicted.
THEOREM NotMissedHolds ==
    Spec => []NotMissed
<1>1. JudgedWell => NotMissed
  BY DEF JudgedWell
<1> QED
  BY <1>1, VerdictsHold, PTL

\* What clears an address inside the window spares it (scanblock.rs asset_ratio
\* and protocol_probes), unless a block has spent it.
THEOREM ClearedSpared ==
    Spec => []ClearedIsSpared
<1>1. JudgedWell => ClearedIsSpared
  BY DEF JudgedWell
<1> QED
  BY <1>1, VerdictsHold, PTL

\* The rule narrows the read, never the decision (db/evidence.rs evidence_rows):
\* what the query leaves in the database would not have changed the verdict.
THEOREM ReadLosesNothingHolds ==
    Spec => []ReadLosesNothing
<1>1. EvInv => ReadLosesNothing
  <2> SUFFICES ASSUME EvInv, NEW since \in 0 .. now, Guilty(rows, Rule, since)
               PROVE  Convicts(rows, Rule, since)
    BY DEF ReadLosesNothing
  <2>1. since \in Int
    OBVIOUS
  <2> QED
    BY <2>1, ReadWhole, RulesAssumption DEF EvInv
<1> QED
  BY <1>1, EvidenceInvariant, PTL

=============================================================================
