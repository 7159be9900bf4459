-------------------------------- MODULE Detect --------------------------------
(* The detectors' blocks: evidence against hosts, passes that convict on it, *)
(* the blocks they write, widen and lengthen, and what an operator does      *)
(* about them.  Following scanblock.rs, db.rs (firewall rules), db/blocks.rs *)
(* and db/offences.rs.  One detector that convicts on a single request       *)
(* (Rule::Once, so evidence is one row per host), one verdict (Block), no    *)
(* ports.                                                                    *)
EXTENDS EvidenceRules, Sequences

CONSTANTS V4, V6,           \* hosts
          NetOf,            \* [Hosts -> the /24 or /64 it is in]
          Crowds,           \* bound: sets of hosts, one of which misbehaves
          Procs,            \* processes that run the detector
          Window,           \* how far back evidence counts
          Ttl, MaxTtl,      \* how long a block lasts, and the longest it gets
          Multipliers,      \* what the first, second, ... offence multiplies it by
          Memory,           \* OFFENCE_MEMORY_SECONDS
          UnblockMin,       \* UNBLOCK_MIN_SECONDS
          LoginMemory,      \* SSH_LOGIN_MEMORY_SECONDS
          SubnetMin,        \* hosts that make their /24 blocked; 0 for never
          MaxNow,           \* bound: the clock
          MaxEvents,        \* bound: what operators do, in one behaviour
          Acts              \* what operators do: "block", "unblock", "login", "trust"

Hosts     == V4 \union V6
Nets      == {NetOf[h] : h \in Hosts}
Addresses == Hosts \union Nets

ASSUME DetectAssumption ==
    /\ V4 \intersect V6 = {}
    /\ \A h \in V4, g \in V6 : NetOf[h] # NetOf[g]
    /\ Nets \intersect Hosts = {}
    /\ Crowds \subseteq SUBSET Hosts
    /\ {Window, Ttl, MaxTtl, UnblockMin, LoginMemory, MaxNow} \subseteq Nat \ {0}
    /\ {Memory, MaxEvents} \subseteq Nat
    /\ Multipliers \in Seq(Nat \ {0}) /\ Multipliers # <<>>
    /\ UnblockMin <= Ttl            \* both a day, at least
    /\ Ttl >= 2                     \* a block outlasts a pass, which is one tick
    /\ SubnetMin \in Nat \ {1}      \* MIN_THRESHOLD
    /\ Acts \subseteq {"block", "unblock", "login", "trust"}

VARIABLES now, events, crowd,
          evidence,     \* log_evidence, [Hosts -> rows]
          rules,        \* firewall_rules, [Addresses -> rule or NoRule]
          offences,     \* [Addresses -> [count, until]]
          unblocked,    \* unblocked_addresses, [Addresses -> until, 0 for none]
          logins,       \* ssh_login_ips, [Hosts -> seen_at or Never]
          trusted,      \* trusted_addresses
          pc, job,      \* per process: what its pass convicted
          fresh,        \* history: hosts seen since their evidence was spent
          previous,     \* history: the last block of an address, [life, until]
          spared        \* history: until when a host is unblocked by hand

tables == <<evidence, rules, offences, unblocked, logins, trusted>>
vars   == <<now, events, crowd, tables, pc, job, fresh, previous, spared>>

Covers(a)     == IF a \in Hosts THEN {a} ELSE {h \in Hosts : NetOf[h] = a}
Overlap(a, b) == Covers(a) \intersect Covers(b) # {}

Once == [kind |-> "Once", n |-> 0, m |-> 0]
Probe == Seen(1)

Never     == -1
Forever   == -1
NoRule    == [by |-> "nobody"]
NoOffence == [count |-> 0, until |-> 0]
NoBlock   == [life |-> 0, until |-> 0]
NoJob     == [at |-> Never, guilty |-> {}]

Lapsed(rule) == rule # NoRule /\ rule.until # Forever /\ rule.until <= now

(* list_firewall_rules and prune_expired_firewall_rules.                     *)
Pruned(a) == IF Lapsed(rules[a]) THEN NoRule ELSE rules[a]

-----------------------------------------------------------------------------
(* What a pass blocks.                                                       *)

(* blockable_address makes a v6 host its /64, and escalate_subnets a v4 host *)
(* its /24 when enough of its neighbours were convicted with it.             *)
Crowded(n, guilty) ==
    SubnetMin > 0 /\ Cardinality({h \in guilty \intersect V4 : NetOf[h] = n}) >= SubnetMin

TargetOf(h, guilty) == IF h \in V6 \/ Crowded(NetOf[h], guilty) THEN NetOf[h] ELSE h

(* Mutant: the address is looked up as it stands, not as a range.            *)
LoggedInAs(a) == a \in Hosts /\ logins[a] # Never /\ logins[a] > now - LoginMemory

LoggedIn(a) == \E h \in Covers(a) : logins[h] # Never /\ logins[h] > now - LoginMemory
Trusted(a)  == \E t \in trusted : Overlap(t, a)

(* unblocked_addresses.                                                      *)
Unblocked == {a \in Addresses : unblocked[a] > now}
(* Mutant: only the very address.                                            *)
ExcusedItself(a) == a \in Unblocked

(* What of it spares an address: itself, or a range that overlaps it.        *)
Excused(a) == a \in Unblocked \/ \E u \in Unblocked \intersect Nets : Overlap(u, a)

(* Mutant: the memory begins with the offence, not with the end of its block.*)
OffencesSince(a) == IF now <= offences[a].until - Ttl + Memory THEN offences[a].count ELSE 0

(* offences_before, ...                                                      *)
OffencesBefore(a) == IF now <= offences[a].until + Memory THEN offences[a].count ELSE 0

(* ... and escalated_ttl_days.                                               *)
EscalatedTtl(offence) ==
    LET n == Min({offence, Len(Multipliers)})
    IN  Min({Ttl * Multipliers[n], Max({MaxTtl, Ttl})})

NewBlock(a) ==
    [by |-> "detector", made |-> now, until |-> now + EscalatedTtl(OffencesBefore(a) + 1)]

(* Mutant: the offence remembers the block's length before it was escalated. *)
NewOffenceBase(a) ==
    [count |-> OffencesBefore(a) + 1, until |-> now + Ttl]

NewOffence(a) ==
    LET n == OffencesBefore(a) + 1 IN [count |-> n, until |-> now + EscalatedTtl(n)]

(* Mutant: the evidence is looked up by the address that was blocked.        *)
SpentByAddress(h, target, new) ==
    IF target # h THEN evidence[h]
    ELSE ForgetBefore(evidence[h], IF target \in new THEN now ELSE rules[target].made)

(* answered_by and forget_evidence_before: a new block spends the evidence   *)
(* of the convicted hosts it stands for up to now, one already there spends  *)
(* it up to when it was made.                                                *)
Spent(h, target, new) ==
    ForgetBefore(evidence[h], IF target \in new THEN now ELSE rules[target].made)

-----------------------------------------------------------------------------
Init ==
    /\ now = 1 /\ events = 0
    /\ crowd \in Crowds
    /\ evidence = [h \in Hosts |-> {}]
    /\ rules = [a \in Addresses |-> NoRule]
    /\ offences = [a \in Addresses |-> NoOffence]
    /\ unblocked = [a \in Addresses |-> 0]
    /\ logins = [h \in Hosts |-> Never]
    /\ trusted = {}
    /\ pc = [p \in Procs |-> "idle"] /\ job = [p \in Procs |-> NoJob]
    /\ fresh = {}
    /\ previous = [a \in Addresses |-> NoBlock]
    /\ spared = [h \in Hosts |-> 0]

(* A pass is over within the tick after it began.                            *)
Tick ==
    /\ now < MaxNow
    /\ \A p \in Procs : pc[p] = "write" => job[p].at = now
    /\ now' = now + 1
    /\ UNCHANGED <<events, crowd, tables, pc, job, fresh, previous, spared>>

(* A line that incriminates a host is read.  A blocked host may still cause  *)
(* one: its block need not be applied yet.  How many there were is not       *)
(* counted: Once does not ask.                                               *)
Line(h) ==
    /\ evidence' = [evidence EXCEPT ![h] = Upsert(@, Row(Probe, 0, now, now))]
    /\ fresh' = fresh \union {h}
    /\ UNCHANGED <<now, events, crowd, rules, offences, unblocked, logins, trusted,
                   pc, job, previous, spared>>

(* run_detector up to add_block_rules: outside the transaction.              *)
Judge(p) ==
    /\ pc[p] = "idle"
    /\ LET since == now - Window
           guilty == {h \in crowd : Convicts(evidence[h], Once, since)}
       IN  /\ guilty # {}
           /\ job' = [job EXCEPT ![p] = [at |-> now, guilty |-> guilty]]
           /\ evidence' = [h \in Hosts |-> Prune(evidence[h], since)]
    /\ pc' = [pc EXCEPT ![p] = "write"]
    /\ UNCHANGED <<now, events, crowd, rules, offences, unblocked, logins, trusted,
                   fresh, previous, spared>>

(* add_block_rules_now, one transaction.                                     *)
Write(p) ==
    /\ pc[p] = "write"
    /\ LET guilty == job[p].guilty
           target == [h \in guilty |-> TargetOf(h, guilty)]
           judged == {a \in {target[h] : h \in guilty} :
                         ~LoggedIn(a) /\ ~Trusted(a) /\ ~Excused(a)}
           new    == {a \in judged : Pruned(a) = NoRule}
       IN  /\ rules' = [a \in Addresses |-> IF a \in new THEN NewBlock(a) ELSE Pruned(a)]
           /\ offences' = [a \in Addresses |-> IF a \in new THEN NewOffence(a) ELSE offences[a]]
           /\ evidence' = [h \in Hosts |->
                              IF h \in guilty /\ target[h] \in judged
                              THEN Spent(h, target[h], new) ELSE evidence[h]]
           /\ fresh' = fresh \ {h \in guilty : target[h] \in new}
           /\ previous' = [a \in Addresses |->
                              IF a \in new
                              THEN [life |-> rules'[a].until - now, until |-> rules'[a].until]
                              ELSE previous[a]]
    /\ unblocked' = [a \in Addresses |-> IF unblocked[a] > now THEN unblocked[a] ELSE 0]
    /\ pc' = [pc EXCEPT ![p] = "idle"]
    /\ job' = [job EXCEPT ![p] = NoJob]
    /\ UNCHANGED <<now, events, crowd, logins, trusted, spared>>

(* A process that stops between the two, or whose transaction fails.         *)
Crash(p) ==
    /\ pc[p] = "write"
    /\ pc' = [pc EXCEPT ![p] = "idle"]
    /\ job' = [job EXCEPT ![p] = NoJob]
    /\ UNCHANGED <<now, events, crowd, tables, fresh, previous, spared>>

-----------------------------------------------------------------------------
(* The operator.                                                             *)

Operator(act) ==
    /\ act \in Acts
    /\ events < MaxEvents
    /\ events' = events + 1
    /\ UNCHANGED <<now, crowd, pc, job>>

(* block_address_permanently: a rule that is there keeps its source.         *)
BlockByHand(a) ==
    /\ Operator("block")
    /\ rules' = [b \in Addresses |->
                    IF b # a THEN Pruned(b)
                    ELSE IF Pruned(a) = NoRule THEN [by |-> "hand", made |-> now, until |-> Forever]
                    ELSE [rules[a] EXCEPT !.until = Forever]]
    /\ UNCHANGED <<evidence, offences, unblocked, logins, trusted, fresh, previous, spared>>

(* record_unblocks: how long the detectors leave the address alone.          *)
SparedUntil(rule) ==
    LET life == IF rule.until = Forever THEN 0 ELSE rule.until - rule.made
    IN  now + Max({life, UnblockMin})

(* unblock_address, remove_firewall_rule: of a row that need not be pruned.  *)
Unblock(a) ==
    /\ Operator("unblock")
    /\ rules[a] # NoRule
    /\ rules' = [rules EXCEPT ![a] = NoRule]
    /\ IF rules[a].by = "detector"
       THEN LET until == SparedUntil(rules[a]) IN
            /\ unblocked' = [unblocked EXCEPT ![a] = Max({@, until})]
            /\ evidence' = [h \in Hosts |-> IF h = a THEN ForgetBefore(evidence[h], now)
                                            ELSE evidence[h]]
            /\ offences' = [offences EXCEPT ![a] = NoOffence]
            /\ fresh' = fresh \ {a}
            /\ previous' = [previous EXCEPT ![a] = NoBlock]
            /\ spared' = [h \in Hosts |-> IF h \in Covers(a) THEN Max({spared[h], until})
                                          ELSE spared[h]]
       ELSE UNCHANGED <<evidence, offences, unblocked, fresh, previous, spared>>
    /\ UNCHANGED <<logins, trusted>>

Login(h) ==
    /\ Operator("login")
    /\ logins' = [logins EXCEPT ![h] = now]
    /\ UNCHANGED <<evidence, rules, offences, unblocked, trusted, fresh, previous, spared>>

(* trust_address and untrust_address: storage only.                          *)
Trust(a) ==
    /\ Operator("trust")
    /\ trusted' = IF a \in trusted THEN trusted \ {a} ELSE trusted \union {a}
    /\ UNCHANGED <<evidence, rules, offences, unblocked, logins, fresh, previous, spared>>

(* Only addresses that something happens at.                                 *)
Busy == {a \in Addresses : Covers(a) \intersect crowd # {}}

Next ==
    \/ Tick
    \/ \E h \in crowd : Line(h) \/ Login(h)
    \/ \E p \in Procs : Judge(p) \/ Write(p) \/ Crash(p)
    \/ \E a \in Busy : BlockByHand(a) \/ Unblock(a) \/ Trust(a)

Spec == Init /\ [][Next]_vars

-----------------------------------------------------------------------------
(* A block of `a` a detector writes in this step.                            *)
Blocks(a) ==
    /\ rules'[a] # NoRule /\ rules'[a] # rules[a]
    /\ rules'[a].by = "detector" /\ rules'[a].made = now /\ rules'[a].until # Forever
    /\ \E p \in Procs : pc[p] = "write" /\ pc'[p] = "idle"

(* "If it expires, only what they did after it may bring it back": when      *)
(* nothing else blocks an address and none of its hosts is unblocked by hand *)
(* (see UnblockSticks), a detector blocks it only if some host it stands for *)
(* has been seen since its evidence was last spent, by a block that answered *)
(* for it or an unblock of it; whoever else wrote blocks since the pass      *)
(* judged.                                                                   *)
OnlyNewOffences ==
    [][\A a \in Addresses :
          /\ Blocks(a)
          /\ \A b \in Addresses \ {a} : Overlap(a, b) => Pruned(b) = NoRule
          /\ \A h \in Covers(a) : spared[h] <= now
          => Covers(a) \intersect fresh # {}]_vars

(* While an operator's unblock of a host lasts, no detector blocks the host, *)
(* or the /64 it is in, again.  An escalated /24 may: see UnblockSticks.     *)
UnblockSticksForHosts ==
    [][\A a \in Addresses \ {NetOf[h] : h \in V4} :
          Blocks(a) => \A h \in Covers(a) : spared[h] <= now]_vars

(* "An operator's unblock sticks ... which every detector skips for as long  *)
(* as the block was meant to last" (blocks.rs): no block covers the host.    *)
UnblockSticks ==
    [][\A a \in Addresses : Blocks(a) => \A h \in Covers(a) : spared[h] <= now]_vars

(* No block a detector writes, however wide, covers a host the operator      *)
(* logged in from lately or a trusted one.                                   *)
OperatorSpared ==
    [][\A a \in Addresses : Blocks(a) =>
          \A h \in Covers(a) :
             /\ logins[h] = Never \/ logins[h] <= now - LoginMemory
             /\ \A t \in trusted : h \notin Covers(t)]_vars

(* The longest an offence is blocked for: the last multiplier, and the cap.  *)
Longest == Min({Ttl * Multipliers[Len(Multipliers)], Max({MaxTtl, Ttl})})

(* An address that offends again within Memory of the end of its last block  *)
(* is blocked for no shorter, and for twice as long as far as the longest    *)
(* goes, unless the last block was lifted by hand.                           *)
RepeatLasts ==
    [][\A a \in Addresses :
          Blocks(a) /\ previous[a].life > 0 /\ now <= previous[a].until + Memory =>
              /\ rules'[a].until - now >= previous[a].life
              /\ rules'[a].until - now >= Min({2 * previous[a].life, Longest})]_vars

(* A temporary block that is in force is on its address's record, to the     *)
(* moment it ends, which is when its Memory begins.                          *)
BlockOnRecord ==
    \A a \in Addresses :
        rules[a] # NoRule /\ rules[a].by = "detector" /\ rules[a].until # Forever =>
            offences[a].count > 0 /\ offences[a].until = rules[a].until

=============================================================================
