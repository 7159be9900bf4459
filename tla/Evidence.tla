------------------------------- MODULE Evidence -------------------------------
(* One address and one detector: the lines the address causes in the log, a  *)
(* process that reads them into log_evidence a chunk at a time, and the      *)
(* decisions taken on what is stored, by that process and by another one     *)
(* (tick, the TUI and batch all decide). Following: accesslog::Observer,     *)
(* logscan::Storing, db::evidence and scanblock::run_detector.               *)
EXTENDS EvidenceRules, Sequences

CONSTANTS Detectors,        \* the detectors to choose from
          RuleOf,           \* [Detectors -> what each needs to see]
          SaysOf,           \* [Detectors -> the kinds of lines the log has]
          Window,           \* how far back its evidence counts
          MaxNow,           \* bound: the clock
          MaxLines,         \* bound: [Detectors -> the lines in the log]
          Faults            \* "crash": a pass may stop between two chunks

(* What a line says, by what kind of line it is: a page or another, an asset *)
(* (or a referer, or an ordinary answer), a refused request, robots.txt.     *)
Says == {"page1", "page2", "asset", "refused", "robots"}

ASSUME EvidenceAssumption ==
    /\ Window \in Nat \ {0}
    /\ SaysOf \in [Detectors -> SUBSET Says]
    /\ MaxNow \in Nat /\ MaxLines \in [Detectors -> Nat]
    /\ Faults \subseteq {"crash"}

(* The kind of rule each detector goes by.                                   *)
RuleKind(d) ==
    CASE d = "login_attempts"   -> "AtLeast"
      [] d = "web_scanners"     -> "DistinctOrRepeated"
      [] d = "asset_ratio"      -> "Distinct"
      [] d = "probe_paths"      -> "Once"
      [] d = "protocol_probes"  -> "OnceUnlessCleared"
      [] d = "request_rate"     -> "Rate"
      [] d = "robots_violators" -> "AfterWarning"

DetectorNames ==
    {"login_attempts", "web_scanners", "asset_ratio", "probe_paths",
     "protocol_probes", "request_rate", "robots_violators"}

(* What stands for an asset, or a referer.                                   *)
Asset == 3

(* A threshold is any number but WEB_SCANNERS_REPEATS, which is not a        *)
(* setting.                                                                  *)
RulesAsInCode ==
    /\ Detectors \subseteq DetectorNames
    /\ \A d \in Detectors : /\ RuleOf[d].kind = RuleKind(d)
                            /\ RuleOf[d].n \in Nat /\ RuleOf[d].m \in Nat
                            /\ d = "web_scanners" => RuleOf[d].m # 0
    /\ Asset \notin Pages

ASSUME RulesAssumption == RulesAsInCode

VARIABLES detector, now,
          lines,      \* the log: [at, says, pass], pass naming the read that took it
          taken,      \* lines the stored cursor is past
          rows,       \* log_evidence
          pc, job,    \* the pass that reads: its time, what it has yet to store
          verdict,    \* a decision not yet acted on, or NoVerdict
          made,       \* when the newest block of the address was made, or Never
          history     \* read by properties only: evidence lost by a stopped
                      \* pass, and up to when it was spent

vars == <<detector, now, lines, taken, rows, pc, job, verdict, made, history>>

Rule == RuleOf[detector]

Number(says) == CASE says = "page1" -> 1
                  [] says = "page2" -> 2
                  [] OTHER -> Asset

IsPage(says) == says \in {"page1", "page2"}

(* Observer::observe and the bucket a login attempt is counted into besides. *)
Observes(says, at) ==
    CASE detector = "login_attempts" ->
           IF IsPage(says) THEN {Bucket(at), Seen(Number(says))} ELSE {}
      [] detector = "web_scanners" ->
           IF IsPage(says) \/ says = "asset" THEN {Seen(Number(says))} ELSE {}
      [] detector \in {"asset_ratio", "protocol_probes"} ->
           CASE IsPage(says) -> {Seen(Number(says))}
             [] says = "asset" -> {Clear}
             [] OTHER -> {}
      [] detector = "probe_paths" ->
           IF IsPage(says) THEN {Seen(Number(says))} ELSE {}
      [] detector = "request_rate" ->
           IF says = "refused" THEN {Refused(at)} ELSE {Bucket(at)}
      [] detector = "robots_violators" ->
           CASE says = "robots" -> {Warned}
             [] IsPage(says) -> {Seen(Number(says))}
             [] OTHER -> {}

Observed(from, to, since) ==
    UNION { {[item |-> i, at |-> lines[n].at, n |-> n]
             : i \in Observes(lines[n].says, lines[n].at)}
            : n \in {m \in from .. to : lines[m].at >= since} }

(* Mutant: what clears is dropped when it stands alone, for every detector.  *)
FinishAll(found) == IF \A r \in found : r.item = Clear THEN {} ELSE found

(* Observer::finish: an ordinary answer is kept only beside a probe.         *)
Finish(found) ==
    IF detector = "protocol_probes" /\ \A r \in found : r.item = Clear
      THEN {} ELSE found

-----------------------------------------------------------------------------
NoJob     == [at |-> 0, pending |-> {}]
NoVerdict == [given |-> FALSE]
Never     == -1

Init ==
    /\ detector \in Detectors
    /\ now = 0
    /\ lines = <<>> /\ taken = 0 /\ rows = {}
    /\ pc = "idle" /\ job = NoJob
    /\ verdict = NoVerdict
    /\ made = Never
    /\ history = [torn |-> FALSE, forgotten |-> Never]

(* A bound: a verdict is acted on before the clock moves on, and lines are   *)
(* written between passes (in a pass, they would wait for the next one).     *)
Quiet == verdict = NoVerdict

Tick ==
    /\ Quiet
    /\ now < MaxNow
    /\ now' = now + 1
    /\ UNCHANGED <<detector, lines, taken, rows, pc, job, verdict, made, history>>

(* The web server writes a line about a request of the address.              *)
Log(says) ==
    /\ Quiet /\ pc = "idle"
    /\ Len(lines) < MaxLines[detector]
    /\ lines' = Append(lines, [at |-> now, says |-> says, pass |-> 0])
    /\ UNCHANGED <<detector, now, taken, rows, pc, job, verdict, made, history>>

(* A pass reads what was appended since the last one and claims it.          *)
Pass ==
    /\ pc = "idle"
    /\ pc' = "store"
    /\ job' = [at |-> now,
               pending |-> Finish(Tallied(Observed(taken + 1, Len(lines), now - Window)))]
    /\ taken' = Len(lines)
    /\ lines' = [n \in DOMAIN lines |->
                    IF n > taken THEN [lines[n] EXCEPT !.pass = Len(lines)] ELSE lines[n]]
    /\ UNCHANGED <<detector, now, rows, verdict, made, history>>

(* One transaction of the store; in_rows is a HashMap's order, so any row.   *)
StoreChunk ==
    /\ pc = "store"
    /\ \E r \in job.pending :
          /\ rows' = Upsert(rows, r)
          /\ job' = [job EXCEPT !.pending = @ \ {r}]
    /\ UNCHANGED <<detector, now, lines, taken, pc, verdict, made, history>>

(* Once everything is stored, what fell out of the window is dropped.        *)
StorePrune ==
    /\ pc = "store" /\ job.pending = {}
    /\ rows' = Prune(rows, job.at - Window)
    /\ pc' = "decide"
    /\ UNCHANGED <<detector, now, lines, taken, job, verdict, made, history>>

(* A process that stops, or a transaction that fails: what it had not yet    *)
(* stored is lost, and the lines are behind the cursor.                      *)
Crash ==
    /\ "crash" \in Faults
    /\ pc = "store" /\ ~history.torn
    /\ history' = [history EXCEPT !.torn = job.pending # {}]
    /\ pc' = "idle" /\ job' = NoJob
    /\ UNCHANGED <<detector, now, lines, taken, rows, verdict, made>>

(* run_detector up to its verdict, on the evidence since `since`.            *)
Judges(since) ==
    /\ verdict = NoVerdict
    /\ verdict' = [given |-> TRUE, guilty |-> Convicts(rows, Rule, since), since |-> since,
                   of |-> taken, whole |-> ~history.torn /\ job.pending = {},
                   forgotten |-> history.forgotten]

Decide ==
    /\ pc = "decide"
    /\ Judges(job.at - Window)
    /\ pc' = "idle" /\ job' = NoJob
    /\ UNCHANGED <<detector, now, lines, taken, rows, made, history>>

(* Another process decides half-way through this one's store; at any other   *)
(* time it decides as this one would on a pass with nothing to read.         *)
DecideElsewhere ==
    /\ pc = "store"
    /\ Judges(now - Window)
    /\ UNCHANGED <<detector, now, lines, taken, rows, pc, job, made, history>>

(* What add_block_rules does about it to the evidence: a new block spends    *)
(* what is stored up to now; a block there already spends what is older than *)
(* itself; an address that is skipped keeps its evidence.                    *)
Forget(before) ==
    /\ rows' = ForgetBefore(rows, before)
    /\ history' = [history EXCEPT !.forgotten =
                      Max({@, before} \union {r.last : r \in rows \ rows'})]

Block   == made' = now /\ Forget(now)
Covered == made # Never /\ made' = made /\ Forget(made)
Skip    == UNCHANGED <<rows, made, history>>

Act ==
    /\ verdict # NoVerdict
    /\ verdict' = NoVerdict
    /\ \/ verdict.guilty /\ Block
       \/ verdict.guilty /\ Covered
       \/ Skip
    /\ UNCHANGED <<detector, now, lines, taken, pc, job>>

Next ==
    \/ Tick
    \/ \E s \in SaysOf[detector] : Log(s)
    \/ Pass \/ StoreChunk \/ StorePrune \/ Crash
    \/ Decide \/ DecideElsewhere \/ Act

Spec == Init /\ [][Next]_vars

-----------------------------------------------------------------------------
(* The lines themselves, as the verdict's pass could have counted them.      *)

Heard(since)       == {n \in 1 .. verdict.of : lines[n].at >= since}
That(since, test(_)) == {n \in Heard(since) : test(lines[n].says)}

SeenLine(says) == \E i \in Observes(says, 0) : i.kind = "seen"
ClearLine(says) == Clear \in Observes(says, 0)
RefusedLine(says) == says = "refused"
AnyLine(says) == TRUE

ThingsSeen(since) == {Number(lines[n].says) : n \in That(since, SeenLine)}

Times(page, since) == {n \in Heard(since) : Number(lines[n].says) = page}

(* The rule as the lines since `since` meet it, clearing lines apart.        *)
Deserved(since) ==
    \/ Rule.kind = "AtLeast" /\ Cardinality(That(since, SeenLine)) >= Rule.n
    \/ Rule.kind = "Distinct" /\ Cardinality(ThingsSeen(since)) >= Rule.n
    \/ /\ Rule.kind = "DistinctOrRepeated"
       /\ \/ Cardinality(ThingsSeen(since)) >= Rule.n
          \/ \E p \in Pages : Cardinality(Times(p, since)) >= Rule.m
    \/ /\ Rule.kind = "Rate"
       /\ \/ Cardinality(That(since, AnyLine)) >= Rule.n
          \/ Cardinality(That(since, RefusedLine)) >= Rule.m
    \/ /\ Rule.kind = "AfterWarning"
       /\ \E w \in 1 .. verdict.of, n \in That(since, SeenLine) :
              lines[w].says = "robots" /\ lines[w].at <= lines[n].at
    \/ Rule.kind \in {"Once", "OnceUnlessCleared"} /\ That(since, SeenLine) # {}

(* What an address needs not to be missed for: a page asked for over and     *)
(* over only counts if it was never asked for before the window, a warning   *)
(* only inside it, and lines in buckets that may begin before it do not.     *)
Certain(since) ==
    CASE Rule.kind \in {"AtLeast", "Rate"} -> Deserved(since + BucketSeconds - 1)
      [] Rule.kind = "DistinctOrRepeated" ->
           \/ Cardinality(ThingsSeen(since)) >= Rule.n
           \/ \E p \in Pages : Cardinality(Times(p, since)) >= Rule.m
                              /\ Times(p, since) = Times(p, 0)
      [] Rule.kind = "AfterWarning" ->
           \E w \in Heard(since), n \in That(since, SeenLine) :
              lines[w].says = "robots" /\ lines[w].at <= lines[n].at
      [] Rule.kind = "Distinct" -> Deserved(since) /\ That(since, ClearLine) = {}
      [] Rule.kind = "OnceUnlessCleared" -> Deserved(since) /\ That(0, ClearLine) = {}
      [] OTHER -> Deserved(since)

(* "Short of, never over" (BUCKET_SECONDS, decide): an address is convicted  *)
(* only if lines of it inside the window meet the detector's rule, whatever  *)
(* was read when, lost with a stopped pass, forgotten or decided half-way    *)
(* through a store.                                                          *)
NeverOver ==
    verdict.given /\ verdict.guilty => Deserved(verdict.since)

(* An address that did something inside the window that clears it is not     *)
(* convicted: an asset or a referer since its evidence was last spent, or an *)
(* ordinary answer read together with the probe.  Only while no store is     *)
(* under way and none was cut short: the row that clears may be the one that *)
(* is not there yet.                                                         *)
ClearedIsSpared ==
    verdict.given /\ verdict.guilty /\ verdict.whole =>
        LET clearing == {n \in That(verdict.since, ClearLine) : lines[n].at > verdict.forgotten}
        IN  CASE Rule.kind = "Distinct" -> clearing = {}
              [] Rule.kind = "OnceUnlessCleared" ->
                   \A n \in clearing, m \in That(verdict.since, SeenLine) :
                       lines[n].pass # lines[m].pass
              [] OTHER -> TRUE

(* How far short a count may fall: an address whose lines meet the rule even *)
(* without those of the bucket at the window's oldest edge is convicted, if  *)
(* its evidence was stored whole and none of it spent.                       *)
NotMissed ==
    verdict.given /\ ~verdict.guilty /\ verdict.whole /\ verdict.forgotten = Never =>
        ~Certain(verdict.since)

(* "The rule narrows the read, never the decision" (evidence_rows): leaving  *)
(* an address's rows in the database never acquits it.                       *)
ReadLosesNothing ==
    \A since \in 0 .. now : Guilty(rows, Rule, since) => Convicts(rows, Rule, since)

=============================================================================
