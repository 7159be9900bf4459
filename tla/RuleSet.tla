------------------------------- MODULE RuleSet -------------------------------
(***************************************************************************)
(* From the database to what the kernel does with a connection: the rules  *)
(* in the order they are evaluated (all_rules), the lockout guard, the     *)
(* sets or chain a render makes of them (Plan::new of each backend), and   *)
(* the script in the kernel, whose elements run out by themselves.         *)
(* A range is the set of the addresses in it, and a time is in ticks.      *)
(***************************************************************************)
EXTENDS Integers, FiniteSets, Sequences, SequencesExt

CONSTANTS
    Hosts,      \* addresses
    V6,         \* those of them that are IPv6
    Ranges,     \* addresses and CIDR ranges, each the set of hosts in it
    Private,    \* PRIVATE_RANGES, in their order
    Ports,
    AcmePort,   \* ACME_HTTP_PORT
    NoPort,     \* a rule for every port
    Forever,    \* no expiry
    Dbs,        \* what may be in the database
    Logs,       \* what the SSH log may say, if it can be read
    MaxNow      \* where the clock stops

Actions == {"allow", "block", "reject"}
Rules == [address : Ranges, port : Ports \union {NoPort}, action : Actions,
          enabled : BOOLEAN, expires : Nat \union {Forever}]

V4 == Hosts \ V6
Packets == [host : Hosts, port : Ports]

\* What the tables and settings hold: addresses are valid (add_firewall_rule
\* checks), and only a block has an expiry.
ASSUME RulesAssumption ==
    /\ Hosts # {} /\ V6 \subseteq Hosts /\ Hosts \ V6 \in Ranges /\ V6 \in Ranges
    /\ Private \in Seq(Ranges) /\ AcmePort \in Ports /\ NoPort \notin Ports
    /\ Forever \notin Int /\ MaxNow \in Nat
    /\ Logs \subseteq [read : BOOLEAN, clients : SUBSET Hosts]
    /\ \A d \in Dbs :
        /\ {d.checked, d.port80, d.selected} \subseteq BOOLEAN
        /\ d.geo \in {"blocklist", "allowlist"}
        /\ {d.logins, d.trusted, d.banned, d.crawlers, d.abuse, d.cloud, d.countries}
             \subseteq Seq(Ranges)
        /\ d.admin \in Seq(Rules)
        /\ \A i \in DOMAIN d.admin :
            d.admin[i].action = "allow" => d.admin[i].expires = Forever

\* Two ranges are nested or apart, and every address is a range.
ASSUME RangesAssumption ==
    /\ IsFiniteSet(Hosts) /\ Ranges \subseteq SUBSET Hosts
    /\ \A h \in Hosts : {h} \in Ranges
    /\ \A r, q \in Ranges : r \subseteq q \/ q \subseteq r \/ r \cap q = {}

VARIABLES
    db,        \* the tables and settings the rules come from
    backend,   \* "nftables" or "iptables"
    step,      \* "idle", "render", "loaded"
    rules,     \* the rules of this render, in order
    log,       \* what the guard reads: the connected clients
    stages,    \* what the rules rendered so far have become
    count,     \* how many those are
    loaded,    \* the stages in the kernel
    built,     \* when the rules were read
    since,     \* when the script was loaded
    now

vars == <<db, backend, step, rules, log, stages, count, loaded, built, since, now>>

-----------------------------------------------------------------------------
(* The rules, in order (all_rules).                                        *)

Permanent(action, port, ranges) ==
    [i \in DOMAIN ranges |->
        [address |-> ranges[i], port |-> port, action |-> action,
         enabled |-> TRUE, expires |-> Forever]]

\* Holes::punch, of each range: what is left of it without the crawlers'
\* addresses, in the fewest ranges.  The order does not matter.
Left(range) == {r \in Ranges : r # {} /\ r \subseteq range \ UNION Range(db.crawlers)}
Pieces(range) == {r \in Left(range) : ~\E q \in Left(range) : r \subseteq q /\ r # q}
Punched(ranges) == SetToSeq(UNION {Pieces(r) : r \in Range(ranges)})

\* geo_firewall_rules: an allow-list ends with a catch-all for each family it
\* has ranges of, or for both if no country is selected.
CatchAll(family) ==
    IF ~db.selected \/ \E r \in Range(db.countries) : r \subseteq family
      THEN Permanent("block", NoPort, <<family>>) ELSE <<>>
Geo ==
    IF db.geo = "blocklist" THEN Permanent("block", NoPort, db.countries)
    ELSE Permanent("allow", NoPort, db.countries) \o CatchAll(V4) \o CatchAll(V6)

Blocked(ranges) == Permanent("block", NoPort, ranges)
Open == Permanent("allow", AcmePort, Punched(db.cloud))

\* Mutant: the open port comes ahead of the countries.
DerivedOpenFirst ==
    Blocked(db.banned) \o Blocked(Punched(db.abuse))
        \o IF db.geo = "blocklist" /\ db.port80
             THEN Open \o Geo \o Blocked(Punched(db.cloud))
             ELSE Blocked(Punched(db.cloud)) \o Geo
\* derived_firewall_entries: a cloud's addresses keep port 80 if nothing else
\* blocks them; with an allow-list they are blocked ahead of the countries.
Derived ==
    Blocked(db.banned) \o Blocked(Punched(db.abuse))
        \o IF db.geo = "blocklist" /\ db.port80
             THEN Geo \o Open \o Blocked(Punched(db.cloud))
             ELSE Blocked(Punched(db.cloud)) \o Geo

AllRules ==
    Permanent("allow", NoPort, db.logins) \o Permanent("allow", NoPort, db.trusted)
        \o db.admin
        \o (IF Derived = <<>> THEN <<>> ELSE Permanent("allow", NoPort, Private))
        \o Derived

Lives(rule, t) == rule.expires = Forever \/ rule.expires > t

\* What a disabled rule, or one that has expired when the rules are read, is
\* to everybody who reads them (build_script_at drops the latter).
Counts(rule) == rule.enabled /\ Lives(rule, built)

-----------------------------------------------------------------------------
(* The lockout guard.                                                      *)

\* Mutant: an Allow of one port counts.
DecidesAny(rule, h) == Counts(rule) /\ h \in rule.address
\* A rule that may decide an SSH connection, whatever port sshd has.
DecidesSsh(rule, h) ==
    /\ Counts(rule) /\ h \in rule.address
    /\ rule.port = NoPort \/ rule.action # "allow"

\* lockout_risks: the first of them is not an Allow.
AtRisk(h) ==
    \E i \in DOMAIN rules :
        /\ DecidesSsh(rules[i], h) /\ rules[i].action # "allow"
        /\ \A j \in 1 .. i - 1 : ~DecidesSsh(rules[j], h)

BlocksAll(rule) ==
    /\ Counts(rule) /\ rule.port = NoPort /\ rule.action # "allow"
    /\ rule.address \in {V4, V6}

Passed ==
    \/ ~db.checked
    \/ /\ log.read
       /\ IF log.clients = {} THEN \A i \in DOMAIN rules : ~BlocksAll(rules[i])
          ELSE \A h \in log.clients : ~AtRisk(h)

-----------------------------------------------------------------------------
(* The scripts (nftables.rs, iptables.rs).                                 *)

AsLongAs(a, b) == a = Forever \/ (b # Forever /\ a >= b)

Remaining(rule) == IF rule.expires = Forever THEN Forever ELSE rule.expires - built

\* An element of a stage, with the longest life asked of it.
With(elements, range, life) ==
    [r \in DOMAIN elements \union {range} |->
        IF r # range THEN elements[r]
        ELSE IF range \in DOMAIN elements /\ ~AsLongAs(life, elements[range])
          THEN elements[range] ELSE life]

\* Mutant: a stage is joined past one with another verdict.
JoinableFar(rule) ==
    {i \in DOMAIN stages : stages[i].port = rule.port /\ stages[i].action = rule.action}
\* The stages a rule may join: those behind them have its verdict too.
Joinable(rule) ==
    {i \in DOMAIN stages :
        /\ stages[i].port = rule.port
        /\ \A j \in i .. Len(stages) : stages[j].action = rule.action}

Stage(rule, elements) ==
    [action |-> rule.action, port |-> rule.port, elements |-> elements]

\* nftables: the latest of them, or a new one.
Staged(rule) ==
    IF Joinable(rule) = {}
      THEN Append(stages, Stage(rule, With(<<>>, rule.address, Remaining(rule))))
      ELSE LET i == Max(Joinable(rule))
           IN  [stages EXCEPT ![i].elements = With(@, rule.address, Remaining(rule))]

\* iptables: a line of its own, which stays.
Line(rule) == Append(stages, Stage(rule, With(<<>>, rule.address, Forever)))

Inside(r, q) == r \subseteq q /\ r # q

\* layers: an element in another that lasts as long is left out; the others
\* go in a set by how many they are inside of.
Kept(elements) ==
    {r \in DOMAIN elements :
        ~\E q \in DOMAIN elements : Inside(r, q) /\ AsLongAs(elements[q], elements[r])}
Depth(elements, r) == Cardinality({q \in Kept(elements) : Inside(r, q)})
Layer(elements, depth) == {r \in Kept(elements) : Depth(elements, r) = depth}

-----------------------------------------------------------------------------
(* A render, from the database to the kernel.                              *)

\* build_script: iptables cannot do an allow-list.
Read ==
    /\ step = "idle"
    /\ ~(backend = "iptables" /\ db.geo = "allowlist")
    /\ rules' = AllRules
    /\ built' = now /\ step' = "render"
    /\ UNCHANGED <<db, backend, log, stages, count, loaded, since, now>>

Render ==
    /\ step = "render" /\ count < Len(rules)
    /\ LET rule == rules[count + 1]
       IN  stages' = IF ~Counts(rule) THEN stages
                     ELSE IF backend = "nftables" THEN Staged(rule) ELSE Line(rule)
    /\ count' = count + 1
    /\ UNCHANGED <<db, backend, step, rules, log, loaded, built, since, now>>

\* An apply the guard lets pass.
Load ==
    /\ step = "render" /\ count = Len(rules) /\ Passed
    /\ loaded' = stages /\ since' = now /\ step' = "loaded"
    /\ UNCHANGED <<db, backend, rules, log, stages, count, built, now>>

\* The boot unit loads the same script again.
Boot ==
    /\ step = "loaded"
    /\ since' = now
    /\ UNCHANGED <<db, backend, step, rules, log, stages, count, loaded, built, now>>

Tick ==
    /\ now < MaxNow /\ now' = now + 1
    /\ UNCHANGED <<db, backend, step, rules, log, stages, count, loaded, built, since>>

Init ==
    /\ db \in Dbs /\ backend \in {"nftables", "iptables"} /\ log \in Logs
    /\ step = "idle" /\ rules = <<>> /\ stages = <<>> /\ count = 0 /\ loaded = <<>>
    /\ built = 0 /\ since = 0 /\ now = 0

Next == Read \/ Render \/ Load \/ Boot \/ Tick

Spec == Init /\ [][Next]_vars

-----------------------------------------------------------------------------
(* What decides a new connection: the first rule, or stage, that matches.  *)

ForPort(x, pkt) == x.port = NoPort \/ x.port = pkt.port

Matching(list, pkt, t) ==
    {i \in DOMAIN list : /\ list[i].enabled /\ Lives(list[i], t)
                         /\ ForPort(list[i], pkt) /\ pkt.host \in list[i].address}

Verdict(list, matching) == IF matching = {} THEN "none" ELSE list[Min(matching)].action

RuleVerdict(list, pkt, t) == Verdict(list, Matching(list, pkt, t))

\* In the kernel a set has the elements of one layer, for as long as they
\* last from when they were loaded.
InSets(elements, h, t) ==
    \E depth \in 0 .. Cardinality(Kept(elements)) : \E r \in Layer(elements, depth) :
        h \in r /\ (elements[r] = Forever \/ t < since + elements[r])

Catching(pkt) ==
    {i \in DOMAIN loaded :
        ForPort(loaded[i], pkt) /\ InSets(loaded[i].elements, pkt.host, now)}

KernelVerdict(pkt) == Verdict(loaded, Catching(pkt))

Dropped(pkt) == KernelVerdict(pkt) \in {"block", "reject"}

-----------------------------------------------------------------------------
(* Properties.                                                             *)

\* What time it is by the kernel's sets: a script loaded late keeps what is
\* in it for that much longer, and a chain has no expiry.
KernelTime == IF backend = "nftables" THEN built + (now - since) ELSE built

\* nft takes the script, since no set has overlapping elements, and "every
\* address gets the verdict a plain first-match walk of the rule list gives
\* it" (nftables.rs 1447), at each moment: whatever joins which stage, is
\* left out inside a range, or is put in a set of its own.
ScriptDecides ==
    /\ \A i \in DOMAIN stages : LET e == stages[i].elements IN
        \A r, q \in Kept(e) : Depth(e, r) = Depth(e, q) => r = q \/ r \cap q = {}
    /\ step = "loaded" =>
        \A pkt \in Packets : KernelVerdict(pkt) = RuleVerdict(rules, pkt, KernelTime)

\* The guard's word holds: no client it knew of is dropped by what was then
\* loaded, on any port sshd may have, now or when timed blocks have run out,
\* and after a reboot.
GuardHolds ==
    step = "loaded" /\ db.checked =>
        \A pkt \in Packets : pkt.host \in log.clients => ~Dropped(pkt)

Covered(ranges, h) == \E r \in Range(ranges) : h \in r

\* Who is meant to be dropped, list by list, without any order: nobody who
\* logged in or is trusted; who the operator's rules say; and of the others,
\* no private address, and no crawler for what a downloaded list says.
MeantByGeo(h) ==
    IF db.geo = "blocklist" THEN Covered(db.countries, h)
    ELSE /\ ~Covered(db.countries, h)
         /\ \/ ~db.selected
            \/ \E r \in Range(db.countries) : \E f \in {V4, V6} : r \subseteq f /\ h \in f

MeantByLists(pkt) ==
    LET h == pkt.host
        crawler == Covered(db.crawlers, h)
        opened == pkt.port = AcmePort /\ db.geo = "blocklist" /\ db.port80
    IN  /\ ~Covered(Private, h)
        /\ \/ Covered(db.banned, h)
           \/ Covered(db.abuse, h) /\ ~crawler
           \/ Covered(db.cloud, h) /\ ~crawler /\ ~opened
           \/ MeantByGeo(h)

Meant(pkt) ==
    /\ ~Covered(db.logins, pkt.host) /\ ~Covered(db.trusted, pkt.host)
    /\ LET byHand == RuleVerdict(db.admin, pkt, KernelTime)
       IN  byHand \in {"block", "reject"} \/ (byHand = "none" /\ MeantByLists(pkt))

\* The kernel drops who is meant to be dropped, and nobody else: the order of
\* the lists, which is all that says so in the code, comes to that.
PolicyHolds == step = "loaded" => \A pkt \in Packets : Dropped(pkt) = Meant(pkt)
=============================================================================
