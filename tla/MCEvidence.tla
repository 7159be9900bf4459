------------------------------ MODULE MCEvidence ------------------------------
(* Instances of Evidence for TLC: every detector of the access log that has  *)
(* a rule of its own, with thresholds a few lines reach.                     *)
EXTENDS Evidence

MCDetectors == DetectorNames

MCRule(kind, n, m) == [kind |-> kind, n |-> n, m |-> m]

MCRuleOf ==
    [d \in MCDetectors |->
       CASE d = "login_attempts"   -> MCRule("AtLeast", 2, 0)
         [] d = "web_scanners"     -> MCRule("DistinctOrRepeated", 3, 2)
         [] d = "asset_ratio"      -> MCRule("Distinct", 2, 0)
         [] d = "probe_paths"      -> MCRule("Once", 0, 0)
         [] d = "protocol_probes"  -> MCRule("OnceUnlessCleared", 0, 0)
         [] d = "request_rate"     -> MCRule("Rate", 3, 2)
         [] d = "robots_violators" -> MCRule("AfterWarning", 0, 0)]

MCMaxLines == [d \in MCDetectors |-> IF d = "protocol_probes" THEN 4 ELSE 3]

MCSaysOf ==
    [d \in MCDetectors |->
       CASE d = "web_scanners"     -> {"page1", "page2", "asset"}
         [] d = "asset_ratio"      -> {"page1", "page2", "asset"}
         [] d = "protocol_probes"  -> {"page1", "asset"}
         [] d = "request_rate"     -> {"page1", "refused"}
         [] d = "robots_violators" -> {"page1", "robots"}
         [] OTHER                  -> {"page1"}]
=============================================================================
