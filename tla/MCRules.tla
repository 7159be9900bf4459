------------------------------- MODULE MCRules -------------------------------
(* The constants of RuleSet that TLC needs by name, and its databases.     *)
EXTENDS RuleSet

CONSTANTS a, b, c, s

Pair == {a, b}
All4 == {a, b, c}
MCRanges == {{a}, {b}, {c}, {s}, Pair, All4}

Plain(action, port, r, expires) ==
    [address |-> r, port |-> port, action |-> action, enabled |-> TRUE, expires |-> expires]

Empty == [checked |-> TRUE, port80 |-> TRUE, selected |-> TRUE, geo |-> "blocklist", logins |-> <<>>,
          trusted |-> <<>>, admin |-> <<>>, banned |-> <<>>, crawlers |-> <<>>,
          abuse |-> <<>>, cloud |-> <<>>, countries |-> <<>>]

UpTo(n, S) == UNION {[1 .. k -> S] : k \in 0 .. n}

\* Rules by hand and by detectors, that nest, overlap and run out.
ByHand ==
    {Plain("allow", p, r, Forever) : p \in {NoPort, 22}, r \in {{a}, Pair}}
      \union {Plain("block", p, r, e) : p \in {NoPort}, r \in {{a}, Pair, All4}, e \in {1, 2, Forever}}
      \union {Plain("block", 22, {a}, Forever), Plain("reject", NoPort, Pair, Forever),
              [Plain("block", NoPort, {a}, Forever) EXCEPT !.enabled = FALSE]}

Few ==
    {Plain("allow", NoPort, r, Forever) : r \in {{a}, Pair}}
      \union {Plain("allow", 22, Pair, Forever), Plain("block", NoPort, Pair, 1),
              Plain("block", NoPort, {a}, Forever), Plain("block", 22, {a}, Forever)}

HandDbs == {[Empty EXCEPT !.admin = rs] : rs \in UpTo(3, ByHand) \union UpTo(4, Few)}

\* Every kind of list, over a range, one address of it, and IPv6.
ListDbs ==
    {[Empty EXCEPT !.geo = g, !.port80 = o, !.admin = h, !.trusted = tr, !.banned = k,
                   !.crawlers = k \o w, !.abuse = u, !.cloud = d, !.countries = n] :
        g \in {"blocklist", "allowlist"}, o \in BOOLEAN,
        h \in {<<>>, <<Plain("block", NoPort, {b}, 1)>>, <<Plain("allow", 22, Pair, Forever)>>},
        tr \in {<<>>, <<{a}>>}, k \in {<<>>, <<{b}>>}, w \in {<<>>, <<{a}>>},
        u \in {<<>>, <<Pair>>}, d \in {<<>>, <<All4>>}, n \in {<<>>, <<Pair>>, <<{c}, {s}>>}}

\* The guard turned off, and a login it knows nothing of.
OtherDbs ==
    {[Empty EXCEPT !.checked = FALSE, !.geo = "allowlist", !.logins = <<{a}>>],
     [Empty EXCEPT !.geo = "allowlist", !.selected = FALSE],
     [Empty EXCEPT !.countries = <<All4>>, !.logins = <<{a}>>]}

AllDbs == HandDbs \union ListDbs \union OtherDbs
SshLogs == {[read |-> TRUE, clients |-> {}], [read |-> TRUE, clients |-> {a}],
            [read |-> FALSE, clients |-> {}]}
MCPrivate == <<{c}>>
=============================================================================
