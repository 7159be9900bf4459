----------------------------- MODULE DetectProofs -----------------------------
(* What TLAPS proves of Detect, for any hosts, any number of processes and   *)
(* any lengths of blocks, memories and records.                              *)
EXTENDS Detect, TLAPS

LEMMA MaxTwo ==
    ASSUME NEW x \in Int, NEW y \in Int
    PROVE  /\ Max({x, y}) \in {x, y} /\ Max({x, y}) >= x /\ Max({x, y}) >= y
<1>1. \E m \in {x, y} : \A n \in {x, y} : m >= n
  <2>1. CASE x >= y BY <2>1
  <2>2. CASE x < y BY <2>2
  <2>3. QED BY <2>1, <2>2
<1>2. QED BY <1>1 DEF Max

LEMMA MinTwo ==
    ASSUME NEW x \in Int, NEW y \in Int
    PROVE  /\ Min({x, y}) \in {x, y} /\ Min({x, y}) <= x /\ Min({x, y}) <= y
<1>1. \E m \in {x, y} : \A n \in {x, y} : m <= n
  <2>1. CASE x <= y BY <2>1
  <2>2. CASE x > y BY <2>2
  <2>3. QED BY <2>1, <2>2
<1>2. QED BY <1>1 DEF Min

\* A block of an offence lasts at least a Ttl, so it is never born lapsed.
LEMMA EscalatedIsPositive ==
    ASSUME NEW n \in Nat \ {0}
    PROVE  EscalatedTtl(n) \in Nat /\ EscalatedTtl(n) >= Ttl
<1> DEFINE len == Len(Multipliers)
           i == Min({n, len})
           m == Multipliers[i]
           most == Max({MaxTtl, Ttl})
<1>1. len \in Nat \ {0} /\ Ttl \in Nat \ {0} /\ MaxTtl \in Nat \ {0}
      /\ \A k \in 1 .. len : Multipliers[k] \in Nat \ {0}
  BY DetectAssumption
<1>2. i \in 1 .. len
  <2> HIDE DEF len
  <2>1. i \in {n, len} /\ i <= n /\ i <= len
    <3>1. n \in Int /\ len \in Int
      BY <1>1
    <3>2. QED
      BY <3>1, MinTwo, Zenon
  <2>2. QED
    BY <1>1, <2>1
<1>3. Ttl * m \in Nat /\ Ttl * m >= Ttl
  <2>1. m \in Nat \ {0}
    BY <1>1, <1>2
  <2> HIDE DEF m
  <2>2. QED
    BY <1>1, <2>1
<1>4. most \in Nat /\ most >= Ttl
  <2>1. MaxTtl \in Int /\ Ttl \in Int
    BY <1>1
  <2>2. most \in {MaxTtl, Ttl} /\ most >= Ttl
    BY <2>1, MaxTwo, Zenon
  <2>3. QED
    BY <1>1, <2>2
<1>5. EscalatedTtl(n) = Min({Ttl * m, most})
  BY DEF EscalatedTtl
<1> HIDE DEF m, most
<1>6. EscalatedTtl(n) \in {Ttl * m, most}
  <2>1. Ttl * m \in Int /\ most \in Int
    BY <1>3, <1>4
  <2>2. QED
    BY <2>1, <1>5, MinTwo, Zenon
<1>7. QED
  BY <1>3, <1>4, <1>6

-----------------------------------------------------------------------------
(* Types.                                                                    *)

Rules    == [by : {"detector", "hand"}, made : Int, until : Int]
Offences == [count : Nat, until : Nat]
Jobs     == [at : Int, guilty : SUBSET Hosts]

(* What the operator's tables and the passes hold: a rule was made in the    *)
(* past and ends after it was made.                                          *)
RulesOK ==
    /\ rules \in [Addresses -> Rules \union {NoRule}]
    /\ \A a \in Addresses : rules[a] # NoRule =>
          rules[a].made \in 1 .. now /\ (rules[a].until = Forever \/ rules[a].until > rules[a].made)

Shape ==
    /\ now \in 1 .. MaxNow /\ events \in 0 .. MaxEvents
    /\ crowd \subseteq Hosts
    /\ RulesOK
    /\ offences \in [Addresses -> Offences]
    /\ unblocked \in [Addresses -> Nat]
    /\ logins \in [Hosts -> Int] /\ \A h \in Hosts : logins[h] \in Never .. now
    /\ trusted \subseteq Addresses
    /\ spared \in [Hosts -> Nat]
    /\ pc \in [Procs -> {"idle", "write"}] /\ job \in [Procs -> Jobs]

LEMMA ShapeAtFirst ==
    ASSUME Init
    PROVE  Shape
BY DetectAssumption
   DEF Init, Shape, RulesOK, NoRule, NoOffence, Offences, NoJob, Jobs, Never, Hosts

LEMMA NoRuleIsNone == NoRule \notin Rules
BY DEF NoRule, Rules

LEMMA PrunedOK ==
    ASSUME Shape, NEW a \in Addresses
    PROVE  /\ Pruned(a) \in {rules[a], NoRule}
           /\ Pruned(a) \in Rules \union {NoRule}
BY DEF Pruned, Shape, RulesOK

LEMMA NewBlockOK ==
    ASSUME Shape, NEW a \in Addresses
    PROVE  /\ NewBlock(a) \in Rules /\ NewBlock(a).by = "detector"
           /\ NewBlock(a).made = now /\ NewBlock(a).until \in Nat
           /\ NewBlock(a).until > now
           /\ NewOffence(a) \in Offences
           /\ NewOffence(a).count > 0 /\ NewOffence(a).until = NewBlock(a).until
<1> DEFINE n == OffencesBefore(a) + 1
<1>1. n \in Nat \ {0}
  BY DEF OffencesBefore, Shape, Offences
<1>2. EscalatedTtl(n) \in Nat /\ EscalatedTtl(n) >= Ttl
  BY <1>1, EscalatedIsPositive
<1>3. now \in Nat /\ Ttl \in Nat /\ Ttl >= 2
  BY DetectAssumption DEF Shape
<1>4. NewBlock(a) = [by |-> "detector", made |-> now, until |-> now + EscalatedTtl(n)]
  BY DEF NewBlock
<1>5. NewOffence(a) = [count |-> n, until |-> now + EscalatedTtl(n)]
  BY DEF NewOffence
<1> HIDE DEF n
<1>6. QED
  BY <1>1, <1>2, <1>3, <1>4, <1>5 DEF Rules, Offences

LEMMA SparedUntilOK ==
    ASSUME Shape, NEW a \in Addresses, rules[a] # NoRule
    PROVE  SparedUntil(rules[a]) \in Nat
<1> DEFINE life == IF rules[a].until = Forever THEN 0 ELSE rules[a].until - rules[a].made
<1>1. life \in Int /\ UnblockMin \in Int /\ UnblockMin >= 1 /\ now \in Nat
  BY DetectAssumption DEF Shape, RulesOK, Rules
<1>2. SparedUntil(rules[a]) = now + Max({life, UnblockMin})
  BY DEF SparedUntil
<1> HIDE DEF life
<1>3. Max({life, UnblockMin}) \in {life, UnblockMin} /\ Max({life, UnblockMin}) >= UnblockMin
  BY <1>1, MaxTwo, Zenon
<1>4. QED
  BY <1>1, <1>2, <1>3

(* What a pass blocks is an address, and never a v6 host by itself.          *)
LEMMA TargetIsAddress ==
    ASSUME NEW g \in SUBSET Hosts, NEW h \in Hosts
    PROVE  TargetOf(h, g) \in Addresses /\ TargetOf(h, g) \notin V6
<1>1. NetOf[h] \in Nets /\ Nets \intersect Hosts = {}
  BY DetectAssumption DEF Nets
<1>2. QED
  BY <1>1 DEF TargetOf, Addresses, Hosts

(* The addresses a Write blocks, and what it does to the tables.             *)
Judged(p) ==
    {a \in {TargetOf(h, job[p].guilty) : h \in job[p].guilty} :
        ~LoggedIn(a) /\ ~Trusted(a) /\ ~Excused(a)}
New(p) == {a \in Judged(p) : Pruned(a) = NoRule}

LEMMA Written ==
    ASSUME NEW p \in Procs, Write(p)
    PROVE  /\ rules' = [a \in Addresses |-> IF a \in New(p) THEN NewBlock(a) ELSE Pruned(a)]
           /\ offences' = [a \in Addresses |-> IF a \in New(p) THEN NewOffence(a) ELSE offences[a]]
           /\ unblocked' = [a \in Addresses |-> IF unblocked[a] > now THEN unblocked[a] ELSE 0]
           /\ pc' = [pc EXCEPT ![p] = "idle"] /\ job' = [job EXCEPT ![p] = NoJob]
           /\ UNCHANGED <<now, events, crowd, logins, trusted, spared>>
<1> DEFINE target == [h \in job[p].guilty |-> TargetOf(h, job[p].guilty)]
<1>1. {target[h] : h \in job[p].guilty} = {TargetOf(h, job[p].guilty) : h \in job[p].guilty}
  OBVIOUS
<1>2. QED
  BY <1>1, Zenon DEF Write, New, Judged

LEMMA NewIsAddress ==
    ASSUME Shape, NEW p \in Procs
    PROVE  New(p) \subseteq Addresses /\ New(p) \intersect V6 = {}
<1>1. job[p].guilty \in SUBSET Hosts
  BY DEF Shape, Jobs
<1>2. QED
  BY <1>1, TargetIsAddress DEF New, Judged

LEMMA BoundsAreNat == MaxNow \in Nat /\ MaxEvents \in Nat
BY DetectAssumption

LEMMA ShapeKept ==
    ASSUME Shape, [Next]_vars
    PROVE  Shape'
<1> USE BoundsAreNat DEF Never
<1>1. CASE Tick
  BY <1>1 DEF Tick, Shape, RulesOK, tables
<1>2. ASSUME NEW h \in crowd, Line(h) PROVE Shape'
  BY <1>2 DEF Line, Shape, RulesOK
<1>3. ASSUME NEW h \in crowd, Login(h) PROVE Shape'
  BY <1>3 DEF Login, Operator, Shape, RulesOK
<1>4. ASSUME NEW p \in Procs, Judge(p) PROVE Shape'
  <2>1. \E g \in SUBSET Hosts : job' = [job EXCEPT ![p] = [at |-> now, guilty |-> g]]
    BY <1>4 DEF Judge, Shape
  <2>2. QED
    BY <1>4, <2>1 DEF Judge, Shape, RulesOK, Jobs
<1>5. ASSUME NEW p \in Procs, Write(p) PROVE Shape'
  <2>1. RulesOK'
    <3>1. rules' = [a \in Addresses |-> IF a \in New(p) THEN NewBlock(a) ELSE Pruned(a)]
          /\ now' = now
      BY <1>5, Written
    <3>2. ASSUME NEW a \in Addresses
          PROVE  /\ rules'[a] \in Rules \union {NoRule}
                 /\ rules'[a] # NoRule =>
                       /\ rules'[a].made \in 1 .. now
                       /\ rules'[a].until = Forever \/ rules'[a].until > rules'[a].made
      <4>1. CASE a \in New(p)
        BY <3>1, <4>1, NewBlockOK DEF Shape
      <4>2. CASE a \notin New(p)
        BY <3>1, <4>2, PrunedOK DEF Shape, RulesOK
      <4>3. QED
        BY <4>1, <4>2
    <3>3. QED
      BY <3>1, <3>2 DEF RulesOK
  <2>2. offences' \in [Addresses -> Offences]
    BY <1>5, Written, NewBlockOK DEF Shape
  <2>3. unblocked' \in [Addresses -> Nat]
    BY <1>5, Written DEF Shape
  <2>4. /\ pc' = [pc EXCEPT ![p] = "idle"] /\ job' = [job EXCEPT ![p] = NoJob]
        /\ UNCHANGED <<now, events, crowd, logins, trusted, spared>>
    BY <1>5, Written
  <2>5. pc' \in [Procs -> {"idle", "write"}] /\ job' \in [Procs -> Jobs]
    BY <2>4 DEF Shape, Jobs, NoJob
  <2>6. QED
    BY <2>1, <2>2, <2>3, <2>4, <2>5 DEF Shape
<1>6. ASSUME NEW p \in Procs, Crash(p) PROVE Shape'
  BY <1>6 DEF Crash, Shape, RulesOK, tables, Jobs, NoJob
<1>7. ASSUME NEW a \in Addresses, BlockByHand(a) PROVE Shape'
  <2>1. /\ rules' = [b \in Addresses |->
                       IF b # a THEN Pruned(b)
                       ELSE IF Pruned(a) = NoRule
                            THEN [by |-> "hand", made |-> now, until |-> Forever]
                            ELSE [rules[a] EXCEPT !.until = Forever]]
        /\ UNCHANGED <<offences, unblocked, logins, trusted, spared>>
    BY <1>7, Zenon DEF BlockByHand
  <2>2. events < MaxEvents /\ events' = events + 1 /\ UNCHANGED <<now, crowd, pc, job>>
    BY <1>7 DEF BlockByHand, Operator
  <2>3. ASSUME NEW b \in Addresses
        PROVE  /\ rules'[b] \in Rules \union {NoRule}
               /\ rules'[b] # NoRule =>
                     /\ rules'[b].made \in 1 .. now
                     /\ rules'[b].until = Forever \/ rules'[b].until > rules'[b].made
    <3>1. CASE b # a
      BY <2>1, <3>1, PrunedOK DEF Shape, RulesOK
    <3>2. CASE b = a /\ Pruned(a) = NoRule
      BY <2>1, <3>2 DEF Shape, Rules, Forever
    <3>3. CASE b = a /\ Pruned(a) # NoRule
      <4>1. rules[a] \in Rules /\ rules[a].made \in 1 .. now
        BY <3>3, PrunedOK DEF Shape, RulesOK
      <4>2. rules'[b] = [rules[a] EXCEPT !.until = Forever]
        BY <2>1, <3>3
      <4>3. QED
        BY <4>1, <4>2 DEF Rules, Forever
    <3>4. QED
      BY <3>1, <3>2, <3>3
  <2>4. RulesOK'
    BY <2>1, <2>2, <2>3 DEF RulesOK
  <2>5. QED
    BY <2>1, <2>2, <2>4 DEF Shape
<1>8. ASSUME NEW a \in Addresses, Unblock(a) PROVE Shape'
  <2> DEFINE until == SparedUntil(rules[a])
  <2>1. RulesOK'
    BY <1>8 DEF Unblock, Operator, Shape, RulesOK
  <2>2. unblocked' \in [Addresses -> Nat] /\ spared' \in [Hosts -> Nat]
    <3>1. until \in Nat
      BY <1>8, SparedUntilOK DEF Unblock
    <3> HIDE DEF until
    <3>2. ASSUME NEW x \in Nat PROVE Max({x, until}) \in Nat
      <4>1. Max({x, until}) \in {x, until}
        <5>1. x \in Int /\ until \in Int
          BY <3>1
        <5>2. QED
          BY <5>1, MaxTwo, Zenon
      <4>2. QED
        BY <3>1, <4>1
    <3>3. CASE rules[a].by = "detector"
      <4>1. /\ unblocked' = [unblocked EXCEPT ![a] = Max({@, until})]
            /\ spared' = [h \in Hosts |-> IF h \in Covers(a) THEN Max({spared[h], until})
                                          ELSE spared[h]]
        BY <1>8, <3>3, Zenon DEF Unblock, until
      <4>2. Max({unblocked[a], until}) \in Nat /\ \A h \in Hosts : Max({spared[h], until}) \in Nat
        BY <3>2 DEF Shape
      <4>3. QED
        BY <4>1, <4>2 DEF Shape
    <3>4. CASE rules[a].by # "detector"
      BY <1>8, <3>4 DEF Unblock, Shape
    <3>5. QED
      BY <3>3, <3>4
  <2>3. offences' \in [Addresses -> Offences]
    <3>1. \/ offences' = [offences EXCEPT ![a] = NoOffence]
          \/ offences' = offences
      BY <1>8, Zenon DEF Unblock
    <3>2. QED
      BY <3>1 DEF Shape, NoOffence, Offences
  <2>4. /\ events < MaxEvents /\ events' = events + 1
        /\ UNCHANGED <<now, crowd, pc, job, logins, trusted>>
    BY <1>8, Zenon DEF Unblock, Operator
  <2>5. QED
    BY <2>1, <2>2, <2>3, <2>4 DEF Shape
<1>9. ASSUME NEW a \in Addresses, Trust(a) PROVE Shape'
  BY <1>9 DEF Trust, Operator, Shape, RulesOK
<1>10. CASE UNCHANGED vars
  BY <1>10 DEF vars, tables, Shape, RulesOK
<1>11. QED
  BY <1>1, <1>2, <1>3, <1>4, <1>5, <1>6, <1>7, <1>8, <1>9, <1>10 DEF Next, Busy

(* What the tables and the passes hold has its type, always.                 *)
THEOREM ShapeCorrect == Spec => []Shape
<1>1. QED
  BY ShapeAtFirst, ShapeKept, PTL DEF Spec

-----------------------------------------------------------------------------
(* Records.                                                                  *)

LEMMA RecordKept ==
    ASSUME Shape, BlockOnRecord, [Next]_vars
    PROVE  BlockOnRecord'
<1> DEFINE Recorded(r, o) == r # NoRule /\ r.by = "detector" /\ r.until # Forever =>
                                 o.count > 0 /\ o.until = r.until
<1>1. \A a \in Addresses : Recorded(rules[a], offences[a])
  BY DEF BlockOnRecord
<1>2. SUFFICES ASSUME NEW a \in Addresses
               PROVE  Recorded(rules'[a], offences'[a])
  BY DEF BlockOnRecord
<1>3. ASSUME UNCHANGED <<rules, offences>> PROVE Recorded(rules'[a], offences'[a])
  BY <1>1, <1>3
<1>4. ASSUME NEW p \in Procs, Write(p) PROVE Recorded(rules'[a], offences'[a])
  <2>1. CASE a \in New(p)
    <3>1. rules'[a] = NewBlock(a) /\ offences'[a] = NewOffence(a)
      BY <1>4, <2>1, Written
    <3>2. QED
      BY <3>1, NewBlockOK
  <2>2. CASE a \notin New(p)
    <3>1. rules'[a] = Pruned(a) /\ offences'[a] = offences[a]
      BY <1>4, <2>2, Written
    <3>2. QED
      BY <1>1, <3>1, PrunedOK
  <2>3. QED
    BY <2>1, <2>2
<1>5. ASSUME NEW b \in Addresses, BlockByHand(b) PROVE Recorded(rules'[a], offences'[a])
  <2>1. /\ rules' = [c \in Addresses |->
                       IF c # b THEN Pruned(c)
                       ELSE IF Pruned(b) = NoRule
                            THEN [by |-> "hand", made |-> now, until |-> Forever]
                            ELSE [rules[b] EXCEPT !.until = Forever]]
        /\ offences' = offences
    BY <1>5, Zenon DEF BlockByHand
  <2>2. CASE a # b
    BY <1>1, <2>1, <2>2, PrunedOK
  <2>3. CASE a = b
    <3>1. CASE Pruned(b) = NoRule
      BY <2>1, <2>3, <3>1
    <3>2. CASE Pruned(b) # NoRule
      <4>1. rules[a] \in Rules /\ rules'[a] = [rules[a] EXCEPT !.until = Forever]
        BY <2>1, <2>3, <3>2, PrunedOK
      <4>2. rules'[a].until = Forever
        BY <4>1 DEF Rules
      <4>3. QED
        BY <4>2
    <3>3. QED
      BY <3>1, <3>2
  <2>4. QED
    BY <2>2, <2>3
<1>6. ASSUME NEW b \in Addresses, Unblock(b) PROVE Recorded(rules'[a], offences'[a])
  <2>1. /\ rules' = [rules EXCEPT ![b] = NoRule]
        /\ offences' = [offences EXCEPT ![b] = NoOffence] \/ offences' = offences
    BY <1>6, Zenon DEF Unblock
  <2>2. CASE a = b
    BY <2>1, <2>2 DEF Shape, RulesOK
  <2>3. CASE a # b
    BY <1>1, <2>1, <2>3 DEF Shape, RulesOK
  <2>4. QED
    BY <2>2, <2>3
<1>7. QED
  BY <1>3, <1>4, <1>5, <1>6 DEF Next, Busy, vars, tables, Tick, Line, Login, Judge, Crash, Trust

(* A temporary block in force is on its address's record, to the moment it   *)
(* ends: the write that makes it records it in the same transaction, and     *)
(* only an unblock, which drops the rule too, forgets the record             *)
(* (add_block_rules_now in scanblock.rs, forget_offences in db/offences.rs). *)
THEOREM RecordCorrect == Spec => []BlockOnRecord
<1>1. Init => BlockOnRecord
  BY DEF Init, BlockOnRecord
<1>2. QED
  BY <1>1, RecordKept, ShapeCorrect, PTL DEF Spec

-----------------------------------------------------------------------------
(* What a pass may not block.                                                *)

(* Only the transaction of a pass blocks, and only what it judged.           *)
LEMMA BlocksAreNew ==
    ASSUME Shape, [Next]_vars, NEW a \in Addresses, Blocks(a)
    PROVE  \E p \in Procs : Write(p) /\ a \in New(p)
<1>1. PICK p \in Procs : pc[p] = "write" /\ pc'[p] = "idle"
  BY DEF Blocks
<1>2. rules'[a] # NoRule /\ rules'[a] # rules[a]
  BY DEF Blocks
<1>3. ~ (pc' = pc) /\ ~ (rules' = rules)
  BY <1>1, <1>2
<1>4. ASSUME NEW q \in Procs, Judge(q) PROVE FALSE
  BY <1>3, <1>4 DEF Judge
<1>5. ASSUME NEW q \in Procs, Write(q) PROVE a \in New(q)
  <2>1. a \notin New(q) => rules'[a] = Pruned(a)
    BY <1>5, Written
  <2>2. QED
    BY <1>2, <2>1, PrunedOK
<1>6. ASSUME NEW q \in Procs, Crash(q) PROVE FALSE
  BY <1>3, <1>6 DEF Crash, tables
<1>7. ASSUME NEW act, Operator(act) PROVE FALSE
  BY <1>3, <1>7 DEF Operator
<1>8. QED
  BY <1>3, <1>4, <1>5, <1>6, <1>7
     DEF Next, Busy, vars, tables, Tick, Line, Login, BlockByHand, Unblock, Trust

LEMMA NewIsAllowed ==
    ASSUME NEW p \in Procs, NEW a \in New(p)
    PROVE  ~LoggedIn(a) /\ ~Trusted(a) /\ ~Excused(a)
BY DEF New, Judged

LEMMA CoversHosts ==
    ASSUME NEW a \in Addresses
    PROVE  /\ Covers(a) \subseteq Hosts
           /\ a \in Hosts => Covers(a) = {a}
           /\ a \notin Hosts => \A h \in Covers(a) : NetOf[h] = a
BY DEF Covers

(* No block a detector writes, however wide, covers a host the operator      *)
(* logged in from within the login memory, or a trusted one: the two tables  *)
(* are read in the transaction that writes, by range.                        *)
THEOREM OperatorNeverBlocked == Spec => OperatorSpared
<1>1. ASSUME Shape, [Next]_vars, NEW a \in Addresses, Blocks(a), NEW h \in Covers(a)
      PROVE  /\ logins[h] = Never \/ logins[h] <= now - LoginMemory
             /\ \A t \in trusted : h \notin Covers(t)
  <2>1. PICK p \in Procs : a \in New(p)
    BY <1>1, BlocksAreNew
  <2>2. ~LoggedIn(a) /\ ~Trusted(a)
    BY <2>1, NewIsAllowed
  <2>3. logins[h] \in Int /\ now \in Int /\ LoginMemory \in Int
    BY <1>1, CoversHosts, DetectAssumption DEF Shape
  <2>4. logins[h] = Never \/ logins[h] <= now - LoginMemory
    BY <1>1, <2>2, <2>3 DEF LoggedIn
  <2>5. \A t \in trusted : h \notin Covers(t)
    BY <1>1, <2>2 DEF Trusted, Overlap
  <2>6. QED
    BY <2>4, <2>5
<1>2. Shape /\ [Next]_vars =>
          \A a \in Addresses : Blocks(a) =>
              \A h \in Covers(a) :
                 /\ logins[h] = Never \/ logins[h] <= now - LoginMemory
                 /\ \A t \in trusted : h \notin Covers(t)
  BY <1>1
<1>3. QED
  BY <1>2, ShapeCorrect, PTL DEF Spec, OperatorSpared

-----------------------------------------------------------------------------
(* Unblocks.                                                                 *)

(* A v6 host is blocked by its /64: only an operator blocks the host itself, *)
(* so no unblock of it is recorded.                                          *)
V6ByItself ==
    \A h \in V6 : unblocked[h] = 0 /\ (rules[h] # NoRule => rules[h].by = "hand")

(* What a host is spared by is on the detectors' record of unblocks.         *)
SparedOnRecord ==
    \A h \in Hosts : spared[h] > now =>
        \E u \in Addresses : h \in Covers(u) /\ unblocked[u] >= spared[h]

LEMMA V6Kept ==
    ASSUME Shape, V6ByItself, [Next]_vars
    PROVE  V6ByItself'
<1>1. SUFFICES ASSUME NEW h \in V6
               PROVE  unblocked'[h] = 0 /\ (rules'[h] # NoRule => rules'[h].by = "hand")
  BY DEF V6ByItself
<1>2. unblocked[h] = 0 /\ (rules[h] # NoRule => rules[h].by = "hand") /\ h \in Addresses
  BY DEF V6ByItself, Addresses, Hosts
<1>3. ASSUME UNCHANGED <<rules, unblocked>>
      PROVE  unblocked'[h] = 0 /\ (rules'[h] # NoRule => rules'[h].by = "hand")
  BY <1>2, <1>3
<1>4. ASSUME NEW p \in Procs, Write(p)
      PROVE  unblocked'[h] = 0 /\ (rules'[h] # NoRule => rules'[h].by = "hand")
  <2>1. h \notin New(p)
    BY NewIsAddress
  <2>2. rules'[h] = Pruned(h) /\ unblocked'[h] \in {unblocked[h], 0}
    BY <1>2, <1>4, <2>1, Written
  <2>3. QED
    BY <1>2, <2>2, PrunedOK
<1>5. ASSUME NEW b \in Addresses, BlockByHand(b)
      PROVE  unblocked'[h] = 0 /\ (rules'[h] # NoRule => rules'[h].by = "hand")
  <2>1. /\ rules' = [c \in Addresses |->
                       IF c # b THEN Pruned(c)
                       ELSE IF Pruned(b) = NoRule
                            THEN [by |-> "hand", made |-> now, until |-> Forever]
                            ELSE [rules[b] EXCEPT !.until = Forever]]
        /\ unblocked' = unblocked
    BY <1>5, Zenon DEF BlockByHand
  <2>2. CASE h # b
    BY <1>2, <2>1, <2>2, PrunedOK
  <2>3. CASE h = b /\ Pruned(b) = NoRule
    BY <1>2, <2>1, <2>3
  <2>4. CASE h = b /\ Pruned(b) # NoRule
    <3>1. rules[h] \in Rules /\ rules'[h] = [rules[h] EXCEPT !.until = Forever]
      BY <1>2, <2>1, <2>4, PrunedOK
    <3>2. rules[h] # NoRule
      BY <3>1, NoRuleIsNone
    <3>3. rules'[h].by = rules[h].by
      BY <3>1 DEF Rules
    <3>4. QED
      BY <1>2, <2>1, <3>2, <3>3
  <2>5. QED
    BY <2>2, <2>3, <2>4
<1>6. ASSUME NEW b \in Addresses, Unblock(b)
      PROVE  unblocked'[h] = 0 /\ (rules'[h] # NoRule => rules'[h].by = "hand")
  <2> DEFINE until == SparedUntil(rules[b])
  <2>1. /\ rules[b] # NoRule /\ rules' = [rules EXCEPT ![b] = NoRule]
        /\ \/ rules[b].by = "detector" /\ unblocked' = [unblocked EXCEPT ![b] = Max({@, until})]
           \/ unblocked' = unblocked
    BY <1>6, Zenon DEF Unblock
  <2>2. rules'[h] \in {rules[h], NoRule}
    BY <1>2, <2>1 DEF Shape, RulesOK
  <2>3. unblocked'[h] = 0
    <3>1. h = b => unblocked' = unblocked
      BY <1>2, <2>1
    <3>2. QED
      BY <1>2, <2>1, <3>1 DEF Shape
  <2>4. QED
    BY <1>2, <2>2, <2>3
<1>7. QED
  BY <1>3, <1>4, <1>5, <1>6 DEF Next, Busy, vars, tables, Tick, Line, Login, Judge, Crash, Trust

LEMMA SparedKept ==
    ASSUME Shape, SparedOnRecord, [Next]_vars
    PROVE  SparedOnRecord'
<1>1. SUFFICES ASSUME NEW h \in Hosts, spared'[h] > now'
               PROVE  \E u \in Addresses : h \in Covers(u) /\ unblocked'[u] >= spared'[h]
  BY DEF SparedOnRecord, Covers
<1>2. now \in Int /\ spared[h] \in Int /\ \A u \in Addresses : unblocked[u] \in Int
  BY DEF Shape
<1>3. spared[h] > now => \E u \in Addresses : h \in Covers(u) /\ unblocked[u] >= spared[h]
  BY DEF SparedOnRecord
<1>4. CASE Tick
  BY <1>1, <1>2, <1>3, <1>4 DEF Tick, tables
<1>5. ASSUME UNCHANGED <<now, unblocked, spared>>
      PROVE  \E u \in Addresses : h \in Covers(u) /\ unblocked'[u] >= spared'[h]
  BY <1>1, <1>3, <1>5
<1>6. ASSUME NEW p \in Procs, Write(p)
      PROVE  \E u \in Addresses : h \in Covers(u) /\ unblocked'[u] >= spared'[h]
  <2>1. /\ unblocked' = [a \in Addresses |-> IF unblocked[a] > now THEN unblocked[a] ELSE 0]
        /\ UNCHANGED <<now, spared>>
    BY <1>6, Written
  <2>2. PICK u \in Addresses : h \in Covers(u) /\ unblocked[u] >= spared[h]
    BY <1>1, <1>3, <2>1
  <2>3. unblocked[u] > now
    BY <1>1, <1>2, <2>1, <2>2
  <2>4. QED
    BY <2>1, <2>2, <2>3
<1>7. ASSUME NEW b \in Addresses, Unblock(b)
      PROVE  \E u \in Addresses : h \in Covers(u) /\ unblocked'[u] >= spared'[h]
  <2> DEFINE until == SparedUntil(rules[b])
  <2>1. until \in Nat /\ now' = now
    <3>1. rules[b] # NoRule /\ now' = now
      BY <1>7, Zenon DEF Unblock, Operator
    <3>2. QED
      BY <3>1, SparedUntilOK
  <2>2. CASE rules[b].by = "detector"
    <3>1. /\ unblocked' = [unblocked EXCEPT ![b] = Max({@, until})]
          /\ spared' = [g \in Hosts |-> IF g \in Covers(b) THEN Max({spared[g], until})
                                        ELSE spared[g]]
      BY <1>7, <2>2, Zenon DEF Unblock
    <3> HIDE DEF until
    <3>2. /\ Max({unblocked[b], until}) >= until /\ Max({unblocked[b], until}) >= unblocked[b]
          /\ Max({unblocked[b], until}) \in Int
          /\ Max({spared[h], until}) \in {spared[h], until}
      <4>1. until \in Int /\ unblocked[b] \in Int /\ spared[h] \in Int
        BY <1>2, <2>1
      <4>2. Max({unblocked[b], until}) \in {unblocked[b], until}
            /\ Max({unblocked[b], until}) >= until /\ Max({unblocked[b], until}) >= unblocked[b]
        BY <4>1, MaxTwo, Zenon
      <4>3. Max({spared[h], until}) \in {spared[h], until}
        BY <4>1, MaxTwo, Zenon
      <4>4. QED
        BY <4>1, <4>2, <4>3
    <3>3. unblocked'[b] = Max({unblocked[b], until})
          /\ \A u \in Addresses : u # b => unblocked'[u] = unblocked[u]
      BY <3>1 DEF Shape
    <3>4. spared'[h] = spared[h] \/ (h \in Covers(b) /\ spared'[h] = until)
      BY <3>1, <3>2
    <3>5. CASE h \in Covers(b) /\ spared'[h] = until
      BY <3>2, <3>3, <3>5
    <3>6. CASE spared'[h] = spared[h]
      <4>1. PICK u \in Addresses : h \in Covers(u) /\ unblocked[u] >= spared[h]
        BY <1>1, <1>3, <2>1, <3>6
      <4>2. unblocked'[u] \in Int /\ unblocked'[u] >= unblocked[u]
        BY <1>2, <3>2, <3>3
      <4>3. QED
        BY <1>2, <3>6, <4>1, <4>2
    <3>7. QED
      BY <3>4, <3>5, <3>6
  <2>3. CASE rules[b].by # "detector"
    <3>1. UNCHANGED <<now, unblocked, spared>>
      BY <1>7, <2>1, <2>3, Zenon DEF Unblock
    <3>2. QED
      BY <1>5, <3>1
  <2>4. QED
    BY <2>2, <2>3
<1>8. QED
  BY <1>4, <1>5, <1>6, <1>7
     DEF Next, Busy, vars, tables, Line, Login, Judge, Crash, BlockByHand, Trust, Operator

(* While an operator's unblock of a host lasts, no detector blocks the host, *)
(* or the /64 it is in, again: an unblock is recorded in the transaction     *)
(* that drops the rule, kept while it lasts, and looked up by range in the   *)
(* transaction that would block.  An escalated /24 is outside the property:  *)
(* only unblocked ranges are looked up by overlap, so that of one of its     *)
(* hosts does not spare it.                                                  *)
THEOREM UnblocksStick == Spec => UnblockSticksForHosts
<1>1. Init => V6ByItself /\ SparedOnRecord
  BY DetectAssumption DEF Init, V6ByItself, SparedOnRecord, Addresses, Hosts
<1>2. ASSUME Shape, V6ByItself, SparedOnRecord, [Next]_vars,
             NEW a \in Addresses \ {NetOf[h] : h \in V4}, Blocks(a), NEW h \in Covers(a)
      PROVE  spared[h] <= now
  <2>1. PICK p \in Procs : a \in New(p)
    BY <1>2, BlocksAreNew
  <2>2. ~Excused(a)
    BY <2>1, NewIsAllowed
  <2>3. h \in Hosts /\ now \in Nat /\ now >= 1 /\ spared[h] \in Nat
    BY <1>2, CoversHosts DEF Shape
  <2>4. SUFFICES ASSUME spared[h] > now PROVE FALSE
    BY <2>3
  <2>5. PICK u \in Addresses : h \in Covers(u) /\ unblocked[u] >= spared[h]
    BY <1>2, <2>3, <2>4 DEF SparedOnRecord
  <2>6. unblocked[u] > now
    <3>1. unblocked[u] \in Nat
      BY <1>2 DEF Shape
    <3>2. QED
      BY <2>3, <2>4, <2>5, <3>1
  <2>7. u \in Unblocked /\ Overlap(u, a)
    BY <1>2, <2>5, <2>6 DEF Unblocked, Overlap
  <2>8. a # u /\ u \notin Nets
    BY <2>2, <2>7 DEF Excused
  <2>9. u = h
    BY <2>5, <2>8, CoversHosts DEF Addresses
  <2>10. CASE a \in Hosts
    BY <1>2, <2>8, <2>9, <2>10, CoversHosts
  <2>11. CASE a \notin Hosts
    <3>1. NetOf[h] = a
      BY <1>2, <2>11, CoversHosts
    <3>2. h \in V6
      BY <1>2, <2>3, <3>1 DEF Hosts
    <3>3. unblocked[u] = 0
      BY <1>2, <2>9, <3>2 DEF V6ByItself
    <3>4. QED
      BY <2>3, <2>6, <3>3
  <2>12. QED
    BY <2>10, <2>11
<1>3. Shape /\ V6ByItself /\ SparedOnRecord /\ [Next]_vars =>
          \A a \in Addresses \ {NetOf[h] : h \in V4} :
              Blocks(a) => \A h \in Covers(a) : spared[h] <= now
  BY <1>2
<1>4. QED
  BY <1>1, <1>3, V6Kept, SparedKept, ShapeCorrect, PTL DEF Spec, UnblockSticksForHosts

-----------------------------------------------------------------------------
(* Repeat offenders.                                                         *)

(* Each multiplier is twice the one before: 1 << doublings, up to            *)
(* ESCALATION_MAX_MULTIPLIER (protection::escalated_ttl_days).               *)
Doubling ==
    \A i \in 1 .. Len(Multipliers) - 1 : Multipliers[i + 1] = 2 * Multipliers[i]

LEMMA WrittenHistory ==
    ASSUME NEW p \in Procs, Write(p)
    PROVE  /\ evidence' = [h \in Hosts |->
                              IF /\ h \in job[p].guilty
                                 /\ TargetOf(h, job[p].guilty) \in Judged(p)
                              THEN Spent(h, TargetOf(h, job[p].guilty), New(p))
                              ELSE evidence[h]]
           /\ fresh' = fresh \ {h \in job[p].guilty : TargetOf(h, job[p].guilty) \in New(p)}
           /\ previous' = [a \in Addresses |->
                              IF a \in New(p)
                              THEN [life |-> rules'[a].until - now, until |-> rules'[a].until]
                              ELSE previous[a]]
<1> DEFINE guilty == job[p].guilty
           target == [h \in guilty |-> TargetOf(h, guilty)]
<1>1. {target[h] : h \in guilty} = {TargetOf(h, guilty) : h \in guilty}
  OBVIOUS
<1>2. /\ evidence' = [h \in Hosts |->
                         IF h \in guilty /\ target[h] \in Judged(p)
                         THEN Spent(h, target[h], New(p)) ELSE evidence[h]]
      /\ fresh' = fresh \ {h \in guilty : target[h] \in New(p)}
      /\ previous' = [a \in Addresses |->
                         IF a \in New(p)
                         THEN [life |-> rules'[a].until - now, until |-> rules'[a].until]
                         ELSE previous[a]]
  BY <1>1, Zenon DEF Write, New, Judged
<1>3. \A h \in guilty : target[h] = TargetOf(h, guilty)
  OBVIOUS
<1> HIDE DEF target
<1>4. QED
  BY <1>2, <1>3

(* The last block of an address is its offence on record, and as long as     *)
(* that offence earns.                                                       *)
LastOnRecord ==
    /\ previous \in [Addresses -> [life : Int, until : Int]]
    /\ \A a \in Addresses : previous[a].life > 0 =>
          /\ offences[a].count > 0 /\ offences[a].until = previous[a].until
          /\ previous[a].life = EscalatedTtl(offences[a].count)

LEMMA LastKept ==
    ASSUME Shape, LastOnRecord, [Next]_vars
    PROVE  LastOnRecord'
<1> DEFINE Last(v, o) == v.life > 0 =>
              o.count > 0 /\ o.until = v.until /\ v.life = EscalatedTtl(o.count)
           Typed(v) == v \in [life : Int, until : Int]
<1>1. /\ previous = [a \in Addresses |-> previous[a]]
      /\ \A a \in Addresses : Typed(previous[a]) /\ Last(previous[a], offences[a])
  BY DEF LastOnRecord
<1>2. ASSUME UNCHANGED <<previous, offences>> PROVE LastOnRecord'
  BY <1>2 DEF LastOnRecord
<1>3. ASSUME NEW p \in Procs, Write(p) PROVE LastOnRecord'
  <2>1. /\ rules' = [a \in Addresses |-> IF a \in New(p) THEN NewBlock(a) ELSE Pruned(a)]
        /\ offences' = [a \in Addresses |-> IF a \in New(p) THEN NewOffence(a) ELSE offences[a]]
        /\ previous' = [a \in Addresses |->
                           IF a \in New(p)
                           THEN [life |-> rules'[a].until - now, until |-> rules'[a].until]
                           ELSE previous[a]]
    BY <1>3, Written, WrittenHistory
  <2>2. ASSUME NEW a \in Addresses
        PROVE  Typed(previous'[a]) /\ Last(previous'[a], offences'[a])
    <3>1. CASE a \in New(p)
      <4>1. PICK r, o : r = NewBlock(a) /\ o = NewOffence(a)
        OBVIOUS
      <4>2. previous'[a] = [life |-> r.until - now, until |-> r.until] /\ offences'[a] = o
        BY <2>1, <3>1, <4>1
      <4>3. r.until \in Nat /\ o.count > 0 /\ o.until = r.until /\ now \in Int
        BY <4>1, NewBlockOK DEF Shape
      <4>4. r.until - now = EscalatedTtl(o.count)
        <5>1. PICK n : n = OffencesBefore(a) + 1
          OBVIOUS
        <5>2. n \in Nat \ {0}
          BY <5>1 DEF OffencesBefore, Shape, Offences
        <5>3. EscalatedTtl(n) \in Nat
          BY <5>2, EscalatedIsPositive
        <5>4. r.until = now + EscalatedTtl(n) /\ o.count = n
          BY <4>1, <5>1 DEF NewBlock, NewOffence
        <5>5. QED
          BY <4>3, <5>3, <5>4
      <4>5. QED
        BY <4>2, <4>3, <4>4
    <3>2. CASE a \notin New(p)
      BY <1>1, <2>1, <3>2
    <3>3. QED
      BY <3>1, <3>2
  <2>3. QED
    BY <2>1, <2>2 DEF LastOnRecord
<1>4. ASSUME NEW b \in Addresses, Unblock(b) PROVE LastOnRecord'
  <2>1. CASE rules[b].by = "detector"
    <3>1. /\ previous' = [previous EXCEPT ![b] = NoBlock]
          /\ offences' = [offences EXCEPT ![b] = NoOffence]
      BY <1>4, <2>1, Zenon DEF Unblock
    <3>2. ASSUME NEW a \in Addresses
          PROVE  Typed(previous'[a]) /\ Last(previous'[a], offences'[a])
      <4>1. CASE a = b
        BY <1>1, <3>1, <4>1 DEF NoBlock
      <4>2. CASE a # b
        <5>1. previous'[a] = previous[a] /\ offences'[a] = offences[a]
          BY <3>1, <4>2 DEF Shape, LastOnRecord
        <5>2. QED
          BY <1>1, <5>1
      <4>3. QED
        BY <4>1, <4>2
    <3>3. previous' = [a \in Addresses |-> previous'[a]]
      BY <3>1 DEF LastOnRecord
    <3>4. QED
      BY <3>2, <3>3 DEF LastOnRecord
  <2>2. CASE rules[b].by # "detector"
    BY <1>2, <1>4, <2>2 DEF Unblock
  <2>3. QED
    BY <2>1, <2>2
<1>5. QED
  BY <1>2, <1>3, <1>4
     DEF Next, Busy, vars, tables, Tick, Line, Login, Judge, Crash, BlockByHand, Trust, Operator

(* The next offence earns twice what the last one did, or the longest.       *)
LEMMA NextEarnsMore ==
    ASSUME Doubling, NEW n \in Nat \ {0}
    PROVE  /\ EscalatedTtl(n + 1) >= EscalatedTtl(n)
           /\ EscalatedTtl(n + 1) >= Min({2 * EscalatedTtl(n), Longest})
<1> DEFINE len == Len(Multipliers)
           most == Max({MaxTtl, Ttl})
           Time(i) == Min({Ttl * Multipliers[i], most})
<1>1. len \in Nat \ {0} /\ Ttl \in Nat \ {0} /\ MaxTtl \in Nat \ {0}
      /\ \A k \in 1 .. len : Multipliers[k] \in Nat \ {0}
  BY DetectAssumption
<1>2. most \in Nat
  <2>1. most \in {MaxTtl, Ttl}
    <3>1. MaxTtl \in Int /\ Ttl \in Int
      BY <1>1
    <3>2. QED
      BY <3>1, MaxTwo, Zenon
  <2>2. QED
    BY <1>1, <2>1
<1>3. \A k \in Nat \ {0} : EscalatedTtl(k) = Time(Min({k, len}))
  BY DEF EscalatedTtl
<1>4. Longest = Time(len)
  BY DEF Longest
<1>5. \A k \in Nat : Min({k, len}) = IF k <= len THEN k ELSE len
  <2>1. SUFFICES ASSUME NEW k \in Nat
                 PROVE  Min({k, len}) = IF k <= len THEN k ELSE len
    OBVIOUS
  <2>2. len \in Int /\ k \in Int
    BY <1>1
  <2> HIDE DEF len
  <2>3. Min({k, len}) \in {k, len} /\ Min({k, len}) <= k /\ Min({k, len}) <= len
    BY <2>2, MinTwo, Zenon
  <2>4. QED
    BY <2>2, <2>3
<1> HIDE DEF most
<1>6. \A i \in 1 .. len : /\ Ttl * Multipliers[i] \in Nat
                          /\ Time(i) = IF Ttl * Multipliers[i] <= most
                                       THEN Ttl * Multipliers[i] ELSE most
  <2>1. SUFFICES ASSUME NEW i \in 1 .. len
                 PROVE  /\ Ttl * Multipliers[i] \in Nat
                        /\ Time(i) = IF Ttl * Multipliers[i] <= most
                                     THEN Ttl * Multipliers[i] ELSE most
    OBVIOUS
  <2>2. PICK m \in Nat : m = Multipliers[i]
    BY <1>1
  <2>3. PICK x : x = Ttl * m
    OBVIOUS
  <2>4. x \in Nat
    BY <1>1, <2>2, <2>3
  <2>5. Min({x, most}) \in {x, most} /\ Min({x, most}) <= x /\ Min({x, most}) <= most
    <3>1. x \in Int /\ most \in Int
      BY <1>2, <2>4
    <3>2. QED
      BY <3>1, MinTwo, Zenon
  <2>6. Time(i) = Min({x, most})
    BY <2>2, <2>3
  <2>7. Min({x, most}) = IF x <= most THEN x ELSE most
    BY <1>2, <2>4, <2>5
  <2>8. QED
    BY <2>2, <2>3, <2>4, <2>6, <2>7
<1>7. \A x, y \in Int : Min({x, y}) \in {x, y} /\ Min({x, y}) <= x /\ Min({x, y}) <= y
  BY MinTwo, Zenon
<1>8. CASE n < len
  <2>1. PICK m \in Nat : m = Multipliers[n]
    BY <1>1, <1>8
  <2>2. Multipliers[n + 1] = 2 * m /\ n \in 1 .. len /\ n + 1 \in 1 .. len
    BY <1>1, <1>8, <2>1 DEF Doubling
  <2>3. PICK x : x = Ttl * m
    OBVIOUS
  <2>4. x \in Nat /\ Ttl * (2 * m) = 2 * x
    BY <1>1, <2>1, <2>3
  <2>5. EscalatedTtl(n) = Time(n) /\ EscalatedTtl(n + 1) = Time(n + 1)
    <3>1. n + 1 \in Nat \ {0} /\ Min({n, len}) = n /\ Min({n + 1, len}) = n + 1
      BY <1>1, <1>5, <1>8
    <3>2. QED
      BY <1>3, <3>1
  <2>6. /\ Time(n) = IF x <= most THEN x ELSE most
        /\ Time(n + 1) = IF 2 * x <= most THEN 2 * x ELSE most
    BY <1>6, <2>1, <2>2, <2>3, <2>4
  <2>7. Longest \in Nat /\ Longest <= most
    <3>1. len \in 1 .. len
      BY <1>1
    <3>2. QED
      BY <1>2, <1>4, <1>6, <3>1
  <2>8. PICK t, u : t = EscalatedTtl(n) /\ u = EscalatedTtl(n + 1)
    OBVIOUS
  <2>9. /\ t = IF x <= most THEN x ELSE most
        /\ u = IF 2 * x <= most THEN 2 * x ELSE most
    BY <2>5, <2>6, <2>8
  <2> HIDE DEF Time
  <2>10. t \in Nat /\ u \in Nat /\ u >= t /\ (u >= 2 * t \/ u = most)
    BY <1>2, <2>4, <2>9
  <2>11. Min({2 * t, Longest}) <= 2 * t /\ Min({2 * t, Longest}) <= Longest
         /\ Min({2 * t, Longest}) \in Int
    <3>1. 2 * t \in Int /\ Longest \in Int
      BY <2>7, <2>10
    <3>2. QED
      BY <1>7, <3>1
  <2>12. u >= Min({2 * t, Longest})
    BY <1>2, <2>7, <2>10, <2>11
  <2>13. QED
    BY <2>8, <2>10, <2>12
<1>9. CASE n >= len
  <2>1. EscalatedTtl(n) = Time(len) /\ EscalatedTtl(n + 1) = Time(len)
    <3>1. n + 1 \in Nat \ {0} /\ Min({n, len}) = len /\ Min({n + 1, len}) = len
      BY <1>1, <1>5, <1>9
    <3>2. QED
      BY <1>3, <3>1
  <2>2. PICK t : t = Time(len)
    OBVIOUS
  <2>3. t \in Nat
    <3>1. len \in 1 .. len
      BY <1>1
    <3>2. QED
      BY <1>2, <1>6, <2>2, <3>1
  <2>4. Min({2 * t, t}) <= t
    <3>1. 2 * t \in Int /\ t \in Int
      BY <2>3
    <3>2. QED
      BY <1>7, <3>1
  <2>5. QED
    BY <1>4, <2>1, <2>2, <2>3, <2>4
<1>10. QED
  BY <1>1, <1>8, <1>9

(* A repeat offence within the memory of the last is blocked for no shorter, *)
(* and twice as long as far as the longest goes: the record is written with  *)
(* the block, outlives its expiry, and is read in the transaction that makes *)
(* the next one (offences_before, escalated_ttl_days, record_offence).       *)
THEOREM RepeatsLastLonger ==
    ASSUME Doubling
    PROVE  Spec => RepeatLasts
<1>1. Init => LastOnRecord
  BY DEF Init, LastOnRecord, NoBlock
<1>2. ASSUME Shape, LastOnRecord, [Next]_vars, NEW a \in Addresses, Blocks(a),
             previous[a].life > 0, now <= previous[a].until + Memory
      PROVE  /\ rules'[a].until - now >= previous[a].life
             /\ rules'[a].until - now >= Min({2 * previous[a].life, Longest})
  <2>1. PICK p \in Procs : Write(p) /\ a \in New(p)
    BY <1>2, BlocksAreNew
  <2>2. rules'[a] = NewBlock(a)
    BY <2>1, Written
  <2>3. PICK n : n = offences[a].count
    OBVIOUS
  <2>4. n \in Nat \ {0} /\ previous[a].life = EscalatedTtl(n)
        /\ offences[a].until = previous[a].until
    BY <1>2, <2>3 DEF LastOnRecord, Shape, Offences
  <2>5. OffencesBefore(a) = n
    BY <1>2, <2>3, <2>4 DEF OffencesBefore
  <2>6. NewBlock(a).until = now + EscalatedTtl(n + 1)
    BY <2>5 DEF NewBlock
  <2>7. EscalatedTtl(n + 1) \in Nat /\ now \in Nat
    <3>1. n + 1 \in Nat \ {0}
      BY <2>4
    <3>2. QED
      BY <1>2, <3>1, EscalatedIsPositive DEF Shape
  <2>8. rules'[a].until - now = EscalatedTtl(n + 1)
    BY <2>2, <2>6, <2>7
  <2>9. QED
    BY <2>4, <2>8, NextEarnsMore
<1>3. Shape /\ LastOnRecord /\ [Next]_vars =>
          \A a \in Addresses :
              Blocks(a) /\ previous[a].life > 0 /\ now <= previous[a].until + Memory =>
                  /\ rules'[a].until - now >= previous[a].life
                  /\ rules'[a].until - now >= Min({2 * previous[a].life, Longest})
  BY <1>2
<1>4. QED
  BY <1>1, <1>3, LastKept, ShapeCorrect, PTL DEF Spec, RepeatLasts

-----------------------------------------------------------------------------
(* New offences.                                                             *)

(* An unblock outlasts a pass, as a block does: a day, and a pass is one     *)
(* tick at most (UNBLOCK_MIN_SECONDS).                                       *)
UnblockOutlastsPass == UnblockMin >= 2

(* The evidence of a host is one row at most, and not of the future; a host  *)
(* that has some has been seen since the last was spent.                     *)
EvidenceOK ==
    /\ evidence = [h \in Hosts |-> evidence[h]]
    /\ \A h \in Hosts :
          /\ \A r \in evidence[h] : r.item = Probe /\ r.first \in Int /\ r.first <= now
          /\ \A q, r \in evidence[h] : q = r
          /\ evidence[h] # {} => h \in fresh

(* What becomes of a host a pass convicted at t, until the pass is over: it  *)
(* is still to answer for, or a block does, or an unblock excuses it.        *)
Blocked(h, t) ==
    \E b \in Addresses :
        /\ h \in Covers(b) /\ rules[b] # NoRule /\ rules[b].by = "detector"
        /\ rules[b].until = Forever \/ rules[b].until > t + 1
Answered(h, t) == h \in fresh \/ spared[h] > t + 1 \/ Blocked(h, t)

PassOK(p) ==
    \E t \in Int :
        /\ job[p].at = t /\ t <= now /\ now <= t + 1
        /\ \A h \in job[p].guilty : Answered(h, t)
PassesOK == \A p \in Procs : pc[p] = "write" => PassOK(p)

(* A row stands for the line that is new and the one that was there.         *)
LEMMA UpsertOne ==
    ASSUME NEW rows, NEW at \in Int,
           \A r \in rows : r.item = Probe /\ r.first \in Int,
           \A q, r \in rows : q = r
    PROVE  \E c, f, l : /\ Upsert(rows, Row(Probe, 0, at, at)) = {Row(Probe, c, f, l)}
                        /\ f \in Int /\ f <= at
<1> DEFINE new == Row(Probe, 0, at, at)
           f == Min({at} \union {r.first : r \in rows})
           c == new.count + SumSet({r.count : r \in rows})
           l == Max({new.last} \union {r.last : r \in rows})
<1>1. new.item = Probe /\ new.first = at
  BY DEF Row
<1>2. {r \in rows : r.item # new.item} = {} /\ {r \in rows : r.item = new.item} = rows
  BY <1>1
<1>3. Upsert(rows, new) = {Row(Probe, c, f, l)}
  <2>1. Upsert(rows, new) =
          {} \union { Row(new.item,
                          new.count + SumSet({r.count : r \in same}),
                          Min({new.first} \union {r.first : r \in same}),
                          Max({new.last} \union {r.last : r \in same}))
                      : same \in {rows} }
    BY <1>2, Zenon DEF Upsert
  <2>2. QED
    BY <1>1, <2>1
<1>4. f \in Int /\ f <= at
  <2>1. CASE rows = {}
    <3>1. {at} \union {r.first : r \in rows} = {at, at}
      BY <2>1
    <3>2. Min({at, at}) \in {at, at}
      BY MinTwo, Zenon
    <3>3. QED
      BY <3>1, <3>2
  <2>2. CASE rows # {}
    <3>1. PICK r \in rows : TRUE
      BY <2>2
    <3>2. PICK x : x = r.first
      OBVIOUS
    <3>3. {at} \union {q.first : q \in rows} = {at, x} /\ x \in Int
      <4>1. rows = {r}
        BY <3>1
      <4>2. QED
        BY <3>2, <4>1
    <3>4. Min({at, x}) \in {at, x} /\ Min({at, x}) <= at
      BY <3>3, MinTwo, Zenon
    <3>5. QED
      BY <3>3, <3>4
  <2>3. QED
    BY <2>1, <2>2
<1> HIDE DEF c, f, l
<1>5. QED
  BY <1>3, <1>4, Zenon

LEMMA ConvictsOnEvidence ==
    ASSUME NEW rows, NEW since, Convicts(rows, Once, since)
    PROVE  rows # {}
<1>1. Guilty(Read(rows, Once, since), Once, since)
  BY DEF Convicts
<1>2. SeenInside(Read(rows, Once, since), since) # {}
  <2>1. Once.kind = "Once"
    BY DEF Once
  <2>2. QED
    BY <1>1, <2>1 DEF Guilty
<1>3. Read(rows, Once, since) # {}
  BY <1>2 DEF SeenInside, Kind
<1>4. QED
  BY <1>3 DEF Read, Prune

LEMMA NewBlockLasts ==
    ASSUME Shape, NEW a \in Addresses
    PROVE  NewBlock(a).until >= now + 2
<1> DEFINE n == OffencesBefore(a) + 1
<1>1. n \in Nat \ {0}
  BY DEF OffencesBefore, Shape, Offences
<1>2. EscalatedTtl(n) \in Nat /\ EscalatedTtl(n) >= Ttl
  BY <1>1, EscalatedIsPositive
<1>3. now \in Nat /\ Ttl \in Nat /\ Ttl >= 2
  BY DetectAssumption DEF Shape
<1>4. NewBlock(a).until = now + EscalatedTtl(n)
  BY DEF NewBlock
<1> HIDE DEF n
<1>5. QED
  BY <1>2, <1>3, <1>4

LEMMA UnblockLasts ==
    ASSUME Shape, UnblockOutlastsPass, NEW a \in Addresses, rules[a] # NoRule
    PROVE  SparedUntil(rules[a]) \in Nat /\ SparedUntil(rules[a]) >= now + 2
<1> DEFINE life == IF rules[a].until = Forever THEN 0 ELSE rules[a].until - rules[a].made
<1>1. life \in Int /\ UnblockMin \in Int /\ UnblockMin >= 2 /\ now \in Nat
  BY DetectAssumption DEF Shape, RulesOK, Rules, UnblockOutlastsPass
<1>2. SparedUntil(rules[a]) = now + Max({life, UnblockMin})
  BY DEF SparedUntil
<1> HIDE DEF life
<1>3. Max({life, UnblockMin}) \in {life, UnblockMin} /\ Max({life, UnblockMin}) >= UnblockMin
  BY <1>1, MaxTwo, Zenon
<1>4. QED
  BY <1>1, <1>2, <1>3

(* What an unblock leaves of what spares a host.                             *)
LEMMA UnblockSpares ==
    ASSUME Shape, UnblockOutlastsPass, NEW a \in Addresses, Unblock(a), NEW h \in Hosts
    PROVE  /\ spared'[h] >= spared[h]
           /\ rules[a].by = "detector" /\ h \in Covers(a) => spared'[h] >= now + 2
<1>1. rules[a] # NoRule
  BY Zenon DEF Unblock
<1>2. PICK until : until = SparedUntil(rules[a])
  OBVIOUS
<1>3. until \in Nat /\ until >= now + 2 /\ spared[h] \in Nat /\ now \in Nat
  BY <1>1, <1>2, UnblockLasts DEF Shape
<1>4. CASE rules[a].by = "detector"
  <2>1. spared' = [g \in Hosts |-> IF g \in Covers(a) THEN Max({spared[g], until})
                                   ELSE spared[g]]
    BY <1>2, <1>4, Zenon DEF Unblock
  <2>2. Max({spared[h], until}) \in {spared[h], until}
        /\ Max({spared[h], until}) >= spared[h] /\ Max({spared[h], until}) >= until
    <3>1. spared[h] \in Int /\ until \in Int
      BY <1>3
    <3>2. QED
      BY <3>1, MaxTwo, Zenon
  <2>3. QED
    BY <1>3, <2>1, <2>2
<1>5. CASE rules[a].by # "detector"
  BY <1>3, <1>5 DEF Unblock
<1>6. QED
  BY <1>4, <1>5

LEMMA EvidenceKept ==
    ASSUME Shape, EvidenceOK, [Next]_vars
    PROVE  EvidenceOK'
<1> DEFINE OK(h, rows, at) ==
              /\ \A r \in rows : r.item = Probe /\ r.first \in Int /\ r.first <= at
              /\ \A q, r \in rows : q = r
<1>1. /\ evidence = [h \in Hosts |-> evidence[h]] /\ now \in Int
      /\ \A h \in Hosts : OK(h, evidence[h], now) /\ (evidence[h] # {} => h \in fresh)
  BY DEF EvidenceOK, Shape
<1>2. ASSUME UNCHANGED <<evidence, fresh>>, now' \in Int, now' >= now
      PROVE  EvidenceOK'
  BY <1>1, <1>2 DEF EvidenceOK
<1>3. ASSUME NEW g \in crowd, Line(g) PROVE EvidenceOK'
  <2>1. /\ evidence' = [evidence EXCEPT ![g] = Upsert(@, Row(Probe, 0, now, now))]
        /\ fresh' = fresh \union {g} /\ now' = now
    BY <1>3 DEF Line
  <2>2. g \in Hosts
    BY DEF Shape
  <2>3. \E c, f, l : /\ Upsert(evidence[g], Row(Probe, 0, now, now)) = {Row(Probe, c, f, l)}
                     /\ f \in Int /\ f <= now
    BY <1>1, <2>2, UpsertOne
  <2>4. OK(g, Upsert(evidence[g], Row(Probe, 0, now, now)), now)
    BY <2>3 DEF Row
  <2>5. ASSUME NEW h \in Hosts
        PROVE  OK(h, evidence'[h], now) /\ (evidence'[h] # {} => h \in fresh')
    <3>1. evidence'[h] = IF h = g THEN Upsert(evidence[g], Row(Probe, 0, now, now))
                         ELSE evidence[h]
      BY <1>1, <2>1
    <3>2. CASE h = g
      BY <2>1, <2>4, <3>1, <3>2
    <3>3. CASE h # g
      BY <1>1, <2>1, <3>1, <3>3
    <3>4. QED
      BY <3>2, <3>3
  <2>6. evidence' = [h \in Hosts |-> evidence'[h]]
    BY <1>1, <2>1
  <2>7. QED
    BY <2>1, <2>5, <2>6 DEF EvidenceOK
<1>4. ASSUME NEW p \in Procs, Judge(p) PROVE EvidenceOK'
  <2>1. /\ evidence' = [h \in Hosts |-> Prune(evidence[h], now - Window)]
        /\ UNCHANGED <<now, fresh>>
    BY <1>4 DEF Judge
  <2>2. \A h \in Hosts : evidence'[h] \subseteq evidence[h]
    BY <2>1 DEF Prune
  <2>3. QED
    BY <1>1, <2>1, <2>2 DEF EvidenceOK
<1>5. ASSUME NEW p \in Procs, Write(p) PROVE EvidenceOK'
  <2> DEFINE target(h) == TargetOf(h, job[p].guilty)
  <2>1. /\ evidence' = [h \in Hosts |->
                           IF h \in job[p].guilty /\ target(h) \in Judged(p)
                           THEN Spent(h, target(h), New(p)) ELSE evidence[h]]
        /\ fresh' = fresh \ {h \in job[p].guilty : target(h) \in New(p)} /\ now' = now
    BY <1>5, Written, WrittenHistory
  <2> HIDE DEF target
  <2>2. ASSUME NEW h \in Hosts
        PROVE  /\ evidence'[h] \subseteq evidence[h]
               /\ h \in job[p].guilty /\ target(h) \in New(p) => evidence'[h] = {}
    <3>1. evidence'[h] \subseteq evidence[h]
      BY <2>1 DEF Spent, ForgetBefore
    <3>2. ASSUME h \in job[p].guilty, target(h) \in New(p)
          PROVE  evidence'[h] = {}
      <4>1. evidence'[h] = ForgetBefore(evidence[h], now)
        BY <2>1, <3>2 DEF Spent, New
      <4>2. QED
        BY <1>1, <4>1 DEF ForgetBefore
    <3>3. QED
      BY <3>1, <3>2
  <2>3. \A h \in Hosts : OK(h, evidence'[h], now')
    BY <1>1, <2>1, <2>2
  <2>4. \A h \in Hosts : evidence'[h] # {} => h \in fresh'
    BY <1>1, <2>1, <2>2
  <2>5. evidence' = [h \in Hosts |-> evidence'[h]]
    BY <2>1
  <2>6. QED
    BY <2>3, <2>4, <2>5 DEF EvidenceOK
<1>6. ASSUME NEW a \in Addresses, Unblock(a) PROVE EvidenceOK'
  <2>1. now' = now
    BY <1>6, Zenon DEF Unblock, Operator
  <2>2. CASE rules[a].by = "detector"
    <3>1. /\ evidence' = [h \in Hosts |-> IF h = a THEN ForgetBefore(evidence[h], now)
                                          ELSE evidence[h]]
          /\ fresh' = fresh \ {a}
      BY <1>6, <2>2, Zenon DEF Unblock
    <3>2. ASSUME NEW h \in Hosts
          PROVE  OK(h, evidence'[h], now) /\ (evidence'[h] # {} => h \in fresh')
      <4>1. CASE h = a
        <5>1. evidence'[h] = {}
          BY <1>1, <3>1, <4>1 DEF ForgetBefore
        <5>2. QED
          BY <5>1
      <4>2. CASE h # a
        BY <1>1, <3>1, <4>2
      <4>3. QED
        BY <4>1, <4>2
    <3>3. evidence' = [h \in Hosts |-> evidence'[h]]
      BY <3>1
    <3>4. QED
      BY <2>1, <3>2, <3>3 DEF EvidenceOK
  <2>3. CASE rules[a].by # "detector"
    BY <1>1, <1>2, <1>6, <2>1, <2>3 DEF Unblock
  <2>4. QED
    BY <2>2, <2>3
<1>7. CASE Tick
  BY <1>1, <1>2, <1>7 DEF Tick, tables
<1>8. QED
  BY <1>1, <1>2, <1>3, <1>4, <1>5, <1>6, <1>7
     DEF Next, Busy, vars, tables, Login, Crash, BlockByHand, Trust, Operator

(* Neither another pass nor the operator makes a host answer once more for   *)
(* what it was convicted of a tick ago at most.                              *)
LEMMA AnsweredKept ==
    ASSUME Shape, UnblockOutlastsPass, [Next]_vars,
           NEW t \in Int, t <= now, now <= t + 1, NEW h \in Hosts, Answered(h, t)
    PROVE  Answered(h, t)'
<1>1. now \in Nat /\ spared[h] \in Nat /\ h \in Addresses /\ h \in Covers(h)
  BY DEF Shape, Addresses, Covers
<1>2. ASSUME UNCHANGED <<rules, spared>>, fresh \subseteq fresh'
      PROVE  Answered(h, t)'
  BY <1>2 DEF Answered, Blocked, Covers
<1>3. ASSUME NEW b \in Addresses, rules[b] # NoRule,
             rules[b].until = Forever \/ rules[b].until > t + 1
      PROVE  Pruned(b) = rules[b]
  <2>1. rules[b].until \in Int
    BY <1>3 DEF Shape, RulesOK, Rules
  <2>2. QED
    BY <1>1, <1>3, <2>1 DEF Pruned, Lapsed
<1>4. ASSUME NEW p \in Procs, Write(p) PROVE Answered(h, t)'
  <2>1. /\ rules' = [a \in Addresses |-> IF a \in New(p) THEN NewBlock(a) ELSE Pruned(a)]
        /\ fresh' = fresh \ {g \in job[p].guilty : TargetOf(g, job[p].guilty) \in New(p)}
        /\ spared' = spared
    BY <1>4, Written, WrittenHistory
  <2>2. CASE h \in fresh
    <3>1. CASE h \in job[p].guilty /\ TargetOf(h, job[p].guilty) \in New(p)
      <4>1. PICK b : b = TargetOf(h, job[p].guilty)
        OBVIOUS
      <4>2. b \in New(p) /\ b \in Addresses
        BY <3>1, <4>1, NewIsAddress
      <4>3. h \in Covers(b)
        <5>1. b = h \/ (b = NetOf[h] /\ NetOf[h] \in Nets)
          BY <4>1 DEF TargetOf, Nets
        <5>2. NetOf[h] \notin Hosts
          BY DetectAssumption DEF Nets
        <5>3. QED
          BY <5>1, <5>2 DEF Covers
      <4>4. rules'[b] = NewBlock(b)
        BY <2>1, <4>2
      <4>5. /\ rules'[b] # NoRule /\ rules'[b].by = "detector"
            /\ rules'[b].until > t + 1
        <5>1. NewBlock(b) \in Rules /\ NewBlock(b).by = "detector"
              /\ NewBlock(b).until \in Nat /\ NewBlock(b).until >= now + 2
          BY <4>2, NewBlockOK, NewBlockLasts
        <5>2. QED
          BY <1>1, <4>4, <5>1, NoRuleIsNone
      <4>6. Blocked(h, t)'
        BY <4>2, <4>3, <4>5 DEF Blocked, Covers
      <4>7. QED
        BY <4>6 DEF Answered
    <3>2. CASE ~(h \in job[p].guilty /\ TargetOf(h, job[p].guilty) \in New(p))
      BY <2>1, <2>2, <3>2 DEF Answered
    <3>3. QED
      BY <3>1, <3>2
  <2>3. CASE spared[h] > t + 1
    BY <2>1, <2>3 DEF Answered
  <2>4. CASE Blocked(h, t)
    <3>1. PICK b \in Addresses :
              /\ h \in Covers(b) /\ rules[b] # NoRule /\ rules[b].by = "detector"
              /\ rules[b].until = Forever \/ rules[b].until > t + 1
      BY <2>4 DEF Blocked
    <3>2. Pruned(b) = rules[b]
      BY <1>3, <3>1
    <3>3. b \notin New(p)
      BY <3>1, <3>2 DEF New
    <3>4. rules'[b] = rules[b]
      BY <2>1, <3>2, <3>3
    <3>5. Blocked(h, t)'
      BY <3>1, <3>4 DEF Blocked, Covers
    <3>6. QED
      BY <3>5 DEF Answered
  <2>5. QED
    BY <2>2, <2>3, <2>4 DEF Answered
<1>5. ASSUME NEW a \in Addresses, BlockByHand(a) PROVE Answered(h, t)'
  <2>1. /\ rules' = [c \in Addresses |->
                       IF c # a THEN Pruned(c)
                       ELSE IF Pruned(a) = NoRule
                            THEN [by |-> "hand", made |-> now, until |-> Forever]
                            ELSE [rules[a] EXCEPT !.until = Forever]]
        /\ spared' = spared /\ fresh' = fresh
    BY <1>5, Zenon DEF BlockByHand
  <2>2. CASE Blocked(h, t)
    <3>1. PICK b \in Addresses :
              /\ h \in Covers(b) /\ rules[b] # NoRule /\ rules[b].by = "detector"
              /\ rules[b].until = Forever \/ rules[b].until > t + 1
      BY <2>2 DEF Blocked
    <3>2. Pruned(b) = rules[b]
      BY <1>3, <3>1
    <3>3. /\ rules'[b] # NoRule /\ rules'[b].by = "detector"
          /\ rules'[b].until = Forever \/ rules'[b].until > t + 1
      <4>1. CASE b = a
        <5>1. rules[b] \in Rules /\ rules'[b] = [rules[b] EXCEPT !.until = Forever]
          BY <2>1, <3>1, <3>2, <4>1 DEF Shape, RulesOK
        <5>2. rules'[b] \in Rules /\ rules'[b].by = "detector" /\ rules'[b].until = Forever
          BY <3>1, <5>1 DEF Rules, Forever
        <5>3. QED
          BY <5>2, NoRuleIsNone
      <4>2. CASE b # a
        BY <2>1, <3>1, <3>2, <4>2
      <4>3. QED
        BY <4>1, <4>2
    <3>4. Blocked(h, t)'
      BY <3>1, <3>3 DEF Blocked, Covers
    <3>5. QED
      BY <3>4 DEF Answered
  <2>3. QED
    BY <2>1, <2>2 DEF Answered
<1>6. ASSUME NEW a \in Addresses, Unblock(a) PROVE Answered(h, t)'
  <2>1. spared'[h] >= spared[h] /\ spared'[h] \in Int
        /\ (rules[a].by = "detector" /\ h \in Covers(a) => spared'[h] > t + 1)
    <3>1. spared'[h] \in Nat
      <4>1. Shape'
        BY ShapeKept
      <4>2. QED
        BY <4>1 DEF Shape
    <3>2. QED
      BY <1>1, <1>6, <3>1, UnblockSpares
  <2>2. /\ rules' = [rules EXCEPT ![a] = NoRule]
        /\ (rules[a].by = "detector" /\ fresh' = fresh \ {a}) \/ fresh' = fresh
    BY <1>6, Zenon DEF Unblock
  <2>3. CASE h \in fresh
    BY <1>1, <2>1, <2>2, <2>3 DEF Answered
  <2>4. CASE spared[h] > t + 1
    BY <1>1, <2>1, <2>4 DEF Answered
  <2>5. CASE Blocked(h, t)
    <3>1. PICK b \in Addresses :
              /\ h \in Covers(b) /\ rules[b] # NoRule /\ rules[b].by = "detector"
              /\ rules[b].until = Forever \/ rules[b].until > t + 1
      BY <2>5 DEF Blocked
    <3>2. CASE b = a
      BY <2>1, <3>1, <3>2 DEF Answered
    <3>3. CASE b # a
      <4>1. rules'[b] = rules[b]
        BY <2>2, <3>3 DEF Shape, RulesOK
      <4>2. Blocked(h, t)'
        BY <3>1, <4>1 DEF Blocked, Covers
      <4>3. QED
        BY <4>2 DEF Answered
    <3>4. QED
      BY <3>2, <3>3
  <2>6. QED
    BY <2>3, <2>4, <2>5 DEF Answered
<1>7. QED
  BY <1>2, <1>4, <1>5, <1>6
     DEF Next, Busy, vars, tables, Tick, Line, Login, Judge, Crash, Trust, Operator

LEMMA PassesKept ==
    ASSUME Shape, UnblockOutlastsPass, EvidenceOK, PassesOK, [Next]_vars
    PROVE  PassesOK'
<1>1. /\ now \in Nat /\ job \in [Procs -> Jobs] /\ pc \in [Procs -> {"idle", "write"}]
      /\ \A p \in Procs : job[p].at \in Int /\ job[p].guilty \subseteq Hosts
  BY DEF Shape, Jobs
<1>2. ASSUME NEW p \in Procs, pc[p] = "write", job'[p] = job[p],
             now' \in Int, now <= now', now' <= job[p].at + 1
      PROVE  PassOK(p)'
  <2>1. PICK t \in Int : /\ job[p].at = t /\ t <= now /\ now <= t + 1
                         /\ \A h \in job[p].guilty : Answered(h, t)
    BY <1>2 DEF PassesOK, PassOK
  <2>2. \A h \in job[p].guilty : Answered(h, t)'
    BY <1>1, <2>1, AnsweredKept
  <2>3. job'[p].at = t /\ t <= now' /\ now' <= t + 1
    BY <1>1, <1>2, <2>1
  <2>4. QED
    BY <1>2, <2>2, <2>3 DEF PassOK
<1>3. ASSUME NEW p \in Procs, pc[p] = "write", job'[p] = job[p], now' = now
      PROVE  PassOK(p)'
  <2>1. now <= job[p].at + 1
    BY <1>3 DEF PassesOK, PassOK
  <2>2. QED
    BY <1>1, <1>2, <1>3, <2>1
<1>4. CASE Tick
  <2>1. SUFFICES ASSUME NEW p \in Procs, pc'[p] = "write"
                 PROVE  PassOK(p)'
    BY DEF PassesOK
  <2>2. pc[p] = "write" /\ job[p].at = now /\ job' = job /\ now' = now + 1
    BY <1>4, <2>1 DEF Tick
  <2>3. QED
    BY <1>1, <1>2, <2>2
<1>5. ASSUME NEW q \in Procs, Judge(q) PROVE PassesOK'
  <2>1. SUFFICES ASSUME NEW p \in Procs, pc'[p] = "write"
                 PROVE  PassOK(p)'
    BY DEF PassesOK
  <2> DEFINE guilty == {h \in crowd : Convicts(evidence[h], Once, now - Window)}
  <2>2. /\ job' = [job EXCEPT ![q] = [at |-> now, guilty |-> guilty]]
        /\ pc' = [pc EXCEPT ![q] = "write"] /\ UNCHANGED <<now, fresh>>
    BY <1>5 DEF Judge
  <2>3. \A h \in guilty : h \in fresh
    <3>1. \A h \in guilty : h \in Hosts /\ evidence[h] # {}
      BY ConvictsOnEvidence DEF Shape
    <3>2. QED
      BY <3>1 DEF EvidenceOK
  <2> HIDE DEF guilty
  <2>4. CASE p = q
    <3>1. job'[p].at = now /\ job'[p].guilty = guilty
      BY <1>1, <2>2, <2>4
    <3>2. PICK t \in Int : t = now
      BY <1>1
    <3>3. \A h \in guilty : Answered(h, t)'
      BY <2>2, <2>3 DEF Answered
    <3>4. job'[p].at = t /\ t <= now' /\ now' <= t + 1
      BY <1>1, <2>2, <3>1, <3>2
    <3>5. QED
      BY <3>1, <3>3, <3>4 DEF PassOK
  <2>5. CASE p # q
    BY <1>1, <1>3, <2>1, <2>2, <2>5
  <2>6. QED
    BY <2>4, <2>5
<1>6. ASSUME NEW q \in Procs, Write(q) \/ Crash(q) PROVE PassesOK'
  <2>1. SUFFICES ASSUME NEW p \in Procs, pc'[p] = "write"
                 PROVE  PassOK(p)'
    BY DEF PassesOK
  <2>2. /\ pc' = [pc EXCEPT ![q] = "idle"] /\ job' = [job EXCEPT ![q] = NoJob]
        /\ now' = now
    BY <1>6, Zenon DEF Write, Crash
  <2>3. p # q /\ pc[p] = "write" /\ job'[p] = job[p]
    BY <1>1, <2>1, <2>2
  <2>4. QED
    BY <1>3, <2>2, <2>3
<1>7. ASSUME UNCHANGED <<now, pc, job>> PROVE PassesOK'
  BY <1>3, <1>7 DEF PassesOK
<1>8. QED
  BY <1>4, <1>5, <1>6, <1>7
     DEF Next, Busy, vars, tables, Line, Login, BlockByHand, Unblock, Trust, Operator

(* When nothing else blocks an address and no host of it is unblocked by     *)
(* hand, a pass blocks it only if one of its hosts has been seen since its   *)
(* evidence was spent: the verdict is a pass old, and another process may    *)
(* have written its blocks, or an operator lifted one, in between.           *)
(* add_block_rules_now looks for a block, answered_by and                    *)
(* forget_evidence_before spend the evidence in the same transaction, and a  *)
(* block or an unblock outlasts every verdict from before it.                *)
THEOREM OnlyNewOffencesBlock ==
    ASSUME UnblockOutlastsPass
    PROVE  Spec => OnlyNewOffences
<1>1. Init => EvidenceOK /\ PassesOK
  BY DEF Init, EvidenceOK, PassesOK
<1>2. ASSUME Shape, PassesOK, [Next]_vars, NEW a \in Addresses, Blocks(a),
             \A b \in Addresses \ {a} : Overlap(a, b) => Pruned(b) = NoRule,
             \A h \in Covers(a) : spared[h] <= now
      PROVE  Covers(a) \intersect fresh # {}
  <2>1. PICK p \in Procs : Write(p) /\ a \in New(p)
    BY <1>2, BlocksAreNew
  <2>2. pc[p] = "write" /\ job[p].guilty \subseteq Hosts /\ now \in Nat
    BY <1>2, <2>1 DEF Write, Shape, Jobs
  <2>3. PICK t \in Int : /\ t <= now /\ now <= t + 1
                         /\ \A h \in job[p].guilty : Answered(h, t)
    BY <1>2, <2>2 DEF PassesOK, PassOK
  <2>4. PICK h \in job[p].guilty : a = TargetOf(h, job[p].guilty)
    BY <2>1 DEF New, Judged
  <2>5. h \in Hosts /\ h \in Covers(a)
    <3>1. h \in Hosts
      BY <2>2
    <3>2. a = h \/ a = NetOf[h]
      BY <2>4 DEF TargetOf
    <3>3. NetOf[h] \notin Hosts
      BY <3>1, DetectAssumption DEF Nets
    <3>4. QED
      BY <3>1, <3>2, <3>3 DEF Covers
  <2>6. Answered(h, t)
    BY <2>3
  <2>7. ~(spared[h] > t + 1)
    <3>1. spared[h] \in Nat /\ spared[h] <= now
      BY <1>2, <2>5 DEF Shape
    <3>2. QED
      BY <2>2, <2>3, <3>1
  <2>8. ASSUME Blocked(h, t) PROVE FALSE
    <3>1. PICK b \in Addresses :
              /\ h \in Covers(b) /\ rules[b] # NoRule
              /\ rules[b].until = Forever \/ rules[b].until > t + 1
      BY <2>8 DEF Blocked
    <3>2. rules[b].until \in Int
      BY <1>2, <3>1 DEF Shape, RulesOK, Rules
    <3>3. Pruned(b) # NoRule
      BY <2>2, <2>3, <3>1, <3>2 DEF Pruned, Lapsed
    <3>4. Overlap(a, b)
      BY <2>5, <3>1 DEF Overlap
    <3>5. QED
      BY <1>2, <2>1, <3>3, <3>4 DEF New
  <2>9. h \in fresh
    BY <2>6, <2>7, <2>8 DEF Answered
  <2>10. QED
    BY <2>5, <2>9
<1>3. Shape /\ PassesOK /\ [Next]_vars =>
          \A a \in Addresses :
              /\ Blocks(a)
              /\ \A b \in Addresses \ {a} : Overlap(a, b) => Pruned(b) = NoRule
              /\ \A h \in Covers(a) : spared[h] <= now
              => Covers(a) \intersect fresh # {}
  BY <1>2
<1>4. QED
  BY <1>1, <1>3, EvidenceKept, PassesKept, ShapeCorrect, PTL DEF Spec, OnlyNewOffences

=============================================================================
