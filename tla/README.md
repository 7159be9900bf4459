# A model of stop-bots

stop-bots blocks bots on a Linux host. Its front ends (a terminal UI, a
command line, a cron `tick` and an unattended `batch`) share one SQLite
database: they read the host's logs, decide which addresses and user agents to
block, write web server and firewall configuration, and apply it. The front
ends are separate processes; a `flock` (`applylock`), a few database rows and
file renames are all that keeps them out of each other's way.

This directory holds TLA+ modules translated from the source, the TLC
configurations that check them on small instances, and theorems TLAPS proves
about them. `PROJECT.json` lists the runs, the lines every definition stands
for, one mutant per property (a plausible bug under which TLC finds the
property violated), the disagreements found between the code and its own
documentation, and the hazards the properties are for. Paths below are relative
to `src/src/`.

Run a configuration with `tlc -config <cfg> <module>` and a proof with
`tlapm <module>`.

## The system

| Component | State it keeps | Operations | What is hard | What makes it correct |
| --- | --- | --- | --- | --- |
| Firewall apply (`firewall.rs`, `revert.rs`, `applylock.rs`) | the applied, rendered and previous scripts, the record of a waiting change, two signatures in the database, the kernel's rules, the lock | prepare, write, arm, load, promote, record, ask, keep, revert, roll back | several processes, a timer outside all of them, crashes, reboots, a lock that is given up on after 10 s | only guarded and kept rules boot; what is tried and not kept is put back; a change is settled once |
| Firewall rule set (`firewall.rs`, `nftables.rs`, `iptables.rs`) | none: computed from the database | order the rules, find lockout risks, render sets | overlap and precedence of rules, expiry | the guard's verdict agrees with what the loaded rules do to a client |
| Web server apply (`webserver.rs`, `nginx.rs`, `apache.rs`, `traefik.rs`, `npmplus.rs`) | configuration files, rows of managed files, the running configuration | snapshot, write, test, put back, reload | a test that fails half way, a crash, two applies | a failed apply leaves the files as they were; a file is never written unless a row says it is ours |
| Schedule (`cron.rs`, `refresh.rs`) | last-run rows, the download lease | due, start, run, finish | TUI and `tick` racing, a process killed while it holds the lease | a job runs once per interval, a lost lease expires |
| Log reading (`logread.rs`, `hostlog.rs`, `logscan.rs`, `db/evidence.rs`) | a cursor per log, evidence in ten-minute buckets | locate, read a chunk, record, move the cursor | rotation, truncation in place, two readers, a crash between chunks | a line is counted at most once, and none is skipped without a rotation being lost |
| Detectors and blocks (`evidence.rs`, `scanblock.rs`, `blocks.rs`, `db/offences.rs`, `protection.rs`) | evidence, rules with an expiry, offences, unblocks | decide, block, escalate, unblock, forgive | repeat offenders, an unblock that must stick, trust that changes | nobody trusted is blocked, an unblocked address is not blocked again for the same evidence |
| Outbound guard (`egress.rs`, `contain.rs`, `sinkhole.rs`) | containments, the breaker's count, refused connections | contain, release, re-pause, follow an address change | containers that restart, a breaker at its limit | the breaker bounds how much is contained; a release sticks |
| Schema and settings (`db/schema.rs`, `hostconf.rs`) | the version, a backup, the settings file | migrate, back up, refuse a newer database | a crash between two steps, an older program | a migration happens whole or not at all |
| Install and uninstall (`install.rs`, `uninstall.rs`) | cron file, boot unit, live rules, files | install, remove in order | a step that fails | nothing puts back what was removed |
| TUI (`app.rs`, `tui/`) | jobs in flight, rows on the screen | start a job, coalesce, finish | results that come back late | no two jobs of a kind run, and no request is lost |
| Lists and ranges (`botlist/`, `ipranges/`) | none | parse, convert to CIDR blocks | ends of the address space | the blocks cover the range exactly |

Health reports, page layout, help texts and host inspection only read, and are
not modelled.

## FirewallApply and BootScript: the firewall apply path

**State.** `rules`, `renderedSig` and `appliedSig` are database rows; `next`,
`applied` and `prev` the three scripts on disk (`sibling_path`); `pending` the
record of a waiting change, by its token; `age` where its deadline stands;
`kernel` the rules that run; `lock` the holder of the `flock`. A front end's
`pc` is the line it is at and `job` what it has in memory. A token is also the
name of the timer that runs `revert-firewall --token`, so timers have a `pc`
too. A rule set stands for its script and its signature. `cleared`, `endorsed`
and `fate` are history, read by properties only.

**Actions.** One per step that another process can come between: the write
(rename) of each file, the load, the record and its removal, taking the lock,
the database writes after it is dropped. Functions that hold the lock drop it
in the step that returns (`ReturnTo`, `End`). Where the code ignores a failed
removal of the record (`undo`, `disarm`, `arm` without a timer), `Discard` may
leave it. `Crash` kills a front end at any
label of `CrashAt` and gives its lock back; `Reboot` loads the applied script
and loses front ends and timers, but not the record. `SiteApply` is a web
server apply that holds the same lock.

**Assumptions.** The loader is atomic when it fails, as the code's comment says
of `nft -f` and `iptables-restore`. The lock file can be opened (otherwise the
code applies unlocked). The wall clock only jumps when `"clock"` is among the
faults: a record is stale by the wall clock, while the timer and the prompt run
on the monotonic one.

| Run | Instance | Shows |
| --- | --- | --- |
| `fw`, scene `Troubled` | one front end at a time, one token, every fault, a crash at every label, reverts by hand | `BootScriptCleared`: what boots, and what a rollback goes back to, passed the lockout guard or was forced; `BootScriptEndorsed`; `SettledOnce`; `WaitingFreezesRules`; the refinement of `BootScript`: the boot script is only ever replaced by what the kernel runs. A change whose revert could not remove its record is excepted from `SettledOnce` and the refinement, see below |
| `fw`, scene `Racing` | two front ends and a timer, crashes and reboots; no render without an apply | the same, of processes that interleave |
| `fw_live`, scene `Abandoned` | one front end, one token, timers that may not start, killed before the load or at the prompt | `KernelMatchesBoot`, `AppliedIsLoaded`, `KernelConverges` |
| `fw_render_race`, scene `Rendering` | a render beside an apply | `KernelMatchesBoot` fails |

A scene is what one behaviour may meet: who runs, what is asked for, what goes
wrong and where a process may be killed. It is chosen in `Init` and never
changes, so that one run covers several environments.

Two rule sets are enough to tell the old rules from the new ones, and a third
party's script is one of the two; one token lets a change be armed, kept,
undone, lost to a reboot or found stale. Tokens are never drawn twice, as in the
code, so their number bounds how many changes are confirmed in one behaviour;
unattended applies, which follow it, are not bounded.

**Fairness.** A front end that runs makes progress, a timer fires after its
deadline, the prompt ends by itself (`ask` returns at its timeout, the TUI's
`check_keep_firewall` on a tick). The lock is polled every 50 ms for ten
seconds and held for the length of a load, so in a scene without `"busy"` every
waiter gets it: strong fairness of the steps after it.

**What disagrees with the code's own words:**

- `fw_render_race`, a run that ends in a violation: a render that is not
  applied, or an apply whose lock was busy, writes the shared `.next` file
  without the lock. It can land between another apply's write and its load, and
  the kernel and the boot script end up with different rules, which is what the
  comment at `firewall.rs:1377` says the lock is for. `Racing` therefore
  has no front end that writes unlocked.
- `undo` ignores a failed removal of the record (`let _ = remove_file`,
  `revert.rs:484`) and puts the old rules back all the same. A yes at the prompt
  then finds its own token, removes the record and promotes: a change that was
  undone is kept, and what boots is not what the kernel runs, where
  `revert.rs` 43-44 has a keep and a revert settle a change exactly once.
  `fate` records `"left"` for such a change; `SettledOnce` excepts a change that
  is `"left"`, and `BootScriptSpec` allows one step more, `KeepsUndone`, the
  promotion of a change that is kept, undone and `"left"`. Without these
  exceptions `fw` finds both violated. They show that there is no other way to
  settle a change twice or to promote what does not run. `disarm` (352) and `arm`
  when no timer starts (248) ignore a failed removal too, which no property minds.
- Two `Procs` in `fw_live` that need not be `alone`: signatures are recorded after the lock is dropped, in
  the other order (`AppliedIsLoaded` fails).
- `"busy"` among the faults of `Abandoned`: a revert gives up on a lock held longer than ten seconds,
  and nobody tries again (`KernelConverges` fails).
- `"reboot"` among them: a revert by hand takes a stale record for a waiting
  change and runs the boot script again, where `revert.rs:458` promises a
  rollback (`NothingWaitingRollsBack` fails).
- `render-firewall --out <applied script>` without `--apply` replaces what loads
  at boot (`OnlyApplyReplaces` fails, and `BootScriptEndorsed` excepts such renders;
  `main.rs:3418` says that only `--apply` does).

**Proved** (`FirewallApplyProofs`, for any constants that satisfy
`ConstantsAssumption`, any scenes and any number of processes):

- `TypeCorrect`: `[]TypeOK`, by one step lemma with one case per action.
- `LockExclusion`: `[]LockHeld`, who writes the files an apply loads and boots
  from has the lock. `LockHeld` is not inductive by itself: a run that will apply
  writes its script under the lock but a render writes it without, so `LockInv`
  adds that a front end about to write on its way to an apply has the lock.
- `BootOnlyGuarded` and `BootOnlyKept`: `BootScriptCleared` and
  `BootScriptEndorsed`, if no render names the applied script as its output
  (`OverNever`). `CarryInv` follows the script in a front end's memory from the
  guard to the promotion, and the one a rollback carries.
- `WaitingFreezes`: the action property `WaitingFreezesRules`: while a change waits,
  neither the scripts nor the kernel's rules are anybody else's. `FreezeInv` says
  that whoever is about to promote has seen, since it took the lock, that
  nothing waits; with `LockInv` nobody can arm a change behind its back.
- `SettledAtMostOnce`: a token is drawn once (`used`) and loses its record when
  it is settled, unless a revert left the record behind, and then the change is
  one that was undone (`FateInv`).

- `BootScriptHolds`: `FirewallApply` implements `BootScript`, with the step
  `KeepsUndone` above. Its hypothesis
  `WritesLocked` is about the scenes: a front end is alone (its steps do not
  overlap another's), or nobody writes `.next` outside the lock, which is what
  `fw_render_race` breaks. The invariant has one part per place a script is
  held: in memory between guard and load (`KindInv`, `RenderedInv`), in a record
  (`TokensOK`, `RecordInv`), in the kernel (`KernelInv`, which excepts a change that
  was undone and left), and says which step may bring it to the boot script.
- `KernelAgrees`: `KernelMatchesBoot`, if moreover no sequence that is started
  ends by a fault half way (`Completes`: only a timer that does not start and a
  reboot are left, so that no record is left behind either). `WatchedInv` says who is to bring kernel and boot script
  together again: a front end, a timer, or the record of a change that waits.
- `SignatureAgrees`: `AppliedIsLoaded`, if moreover the front end is alone and
  gets to record what it did (`RecordsIt`). Each hypothesis is one the run shows
  to be needed: see the disagreements above.

Only checked by TLC: `KernelConverges`, which is liveness.

## LogIngest and EachLineOnce: from the log to the evidence

**State.** `content`, `live`, `old` and `fd` are the host: files by inode, the
inode behind the log's name and behind `<path>.1`, and the one the daemon
writes to. A line is its number. `cursor` is the stored cursor
(`keys::log_cursor`): inode, offset in lines, and the digest of the file's
start, which stands for its first line. `counted` says how often each line was
added to the evidence. A reader (`tick`, the TUI, `batch`) has a `pc` and a
`job`: the cursor its pass was planned from, where it got to, and what it
found. `crashed` is history: lines a stopped reader had claimed.

**Actions.** `Plan` reads the database (`logscan::plan`); `Read` is one request
(`hostlog::read`), answered by `FileReply` or `JournalReply`; `ReadCopies` and
`Newest` are the second looks of a first read; `Claim`, `Theirs` and `Store`
are the transactions of `Ingest::step`. `Crash` is a process that stops or a
transaction that fails (`apply` returns at once). A request is one step: it
opens the log, and its copy, within one function. The host is external:
`Write`, `Rename`, `Create` (which may hand out an old inode number again),
`Reopen`, `CopyTruncate`.

**Left out.** What a line means to a detector, the age of a line (`OldLines`
stands for what a first journal read does not look back to), lines still
without a newline, lines over `MAX_LINE`, older copies than `.1`, the offset
0.0.x kept, and pruning.

| Run | Instance | Shows |
| --- | --- | --- |
| `log_safe` | two readers, four lines; three kinds of host: a journal within one request; a log with two rotations by renaming, crashes, logs that cannot be read; and readers that take turns at a log that is renamed or truncated in place, faster than it is read, by a daemon slow to reopen | `NothingSkipped`, what the stored cursor is past was taken or lost whole; `EachOnce`, the refinement of `EachLineOnce` |
| `log_live` | two readers, a journal or one rotation they keep up with | `EveryLineCounted` |

Budgets of two lines and a chunk of one row make every path short: a drain that
takes the whole budget and one that leaves room, a pass that ends at
`MAX_REQUESTS`, a store of several transactions. Three inodes let one be handed
out again.

**Fairness.** A pass starts every minute and goes on by itself (`cron`), and
logrotate finishes a rotation it has begun. Nothing is assumed about the
daemon's writing or about when a rotation comes.

**What disagrees with the code's own words.** The environment has to be held
back for the runs above to pass, by what `Kinds` leaves out (`MCLog.tla`) or by
the bounds. Each is reproduced by a kind of host or a bound:

- a journal, with a `JournalBudget` no larger than the journal: the second
  request of a pass finds nothing and has no cursor (`hostlog.rs` 516-519), the
  pass stores what it read and leaves the stored cursor where it was, and every
  pass counts it again until an entry arrives (`EachOnce` fails), against
  `db/evidence.rs` 68-69, "nothing is counted twice, however their steps
  interleave".
- `"between"`: an entry between the two journal reads of a first pass is lost
  (`NothingSkipped` fails).
- `"mid"`: a rotation between a first read's first piece and its copies is
  counted twice (`EachOnce` fails).
- `"copytruncate"` with two readers at once, or `"slow"`: the cursor of an
  empty file comes back, and an overtaken pass claims its lines again
  (`EachOnce` fails).
- `"rename"` with `"outpaced"` and two readers at once: the log is renamed and
  renamed again while a pass is out, and its new file has an old inode number:
  the cursor of an empty file comes back here too (`EachOnce` fails).
- `"outpaced"` with `OldLines = 0`: a drain that stops at its budget keeps the
  digest of an empty file, which matches every file (`NothingSkipped` fails).
- `"late"`: what is written to a rotated file after the pass moved on is lost
  (`EveryLineCounted` fails).

**Proved** (`LogIngestProofs`), for any readers, inodes, lines, budgets and turns:

- `EachOnceHolds`: every step maps to a step of `EachLineOnce` or to a stutter,
  if the kinds of host are `Orderly`: no `"mid"`; readers take turns, or the host
  is steady (a journal, or renaming only, that is neither slow to reopen nor
  faster than a pass); a journal is read in one request. All of `SafetyKinds`
  is. What `Orderly` leaves out are the disagreements above, no more.
- `NothingSkippedHolds`, if in addition the kinds are `KeepsPace`: no
  `"between"`, and no renaming by a host that is faster than its reader. The
  first two of `SafetyKinds` are. `Truncated` would be without its `"rename"`:
  with it the property holds under the bounds of `log_safe` only, as the
  disagreement about `OldLines = 0` shows, and stays with TLC.

The inductive invariant of the first, `Invariant`, is `FilesInv` (a line is in
one place of one file), `TypesInv`, `TurnsInv` (readers that take turns),
`GoneInv` (what is claimed was written, is held by one reader, and is not read
again from the stored cursor), `FoundInv` (what a pass has found nobody has
claimed, nor is it read again from the cursor the pass has got to) and
`SteadyInv`. The last is needed because `Ingest::step` claims by comparing the
stored cursor with the one the pass began at, which says that nobody claimed in
between only if a cursor never comes back: on a steady host `Passed` orders the
cursors, and a pass that was overtaken has been left behind for good. The
second adds `SkipInv`: what a cursor is past is taken (`Past`), as long as the
file it names is still the one it was made from, which the digest tells unless
it is of an empty file; and such a file is the copy (`Kept`, `Near`).

`EveryLineCounted` is liveness and stays with TLC.

## SiteApply: the web server apply

**State.** `rate` and `trust` are the settings that decide which files there
are, `rows` the table `managed_files`. `disk` gives each generated file its body
or `Absent`, and each site file whether the operator's part of it is sound
(`own`) and which generated files its block refers to. `served` is the tree the
web server loaded last. A process is at `pc`; its `job` is the `ApplyPlan` or
the locals of the apply: what to write and to drop, the snapshot, the files the
present loop has left. `job.found` and `torn` are history.

**Actions.** `Flow` gives the order of each kind of apply: of every site (`tick`,
`batch`, the command line), of one, the removal that `uninstall web-server`
does, and the two the TUI runs on a thread of its own, without the lock. Each
file written, removed or put back is a step. `TestFails` and `WriteFails` go to
`restore`; the TUI only restores after a test. The web server, the operator's
editor and certbot's reload are external: `Loads` is `nginx -t` as far as
stop-bots' own files can make it fail.

**Left out.** The other servers' trees, settings of one site and several server
blocks in a file, the other generated files (`robots.txt`, the exploit rules,
ModSecurity's: they are written, removed and put back like these), `--no-reload`
(it leaves an untested config, as it says), roots that are not root's, and a
snapshot that cannot be read, which ends an apply before it wrote anything.

| Run | Instance | Shows |
| --- | --- | --- |
| `site`, scene `Killed` | one process, two sites, every kind of apply; each step refused or the process killed at it; edits and changed settings between applies | `AlwaysResolves`: no file on disk refers to one that is missing; `RecordedFirst`; `PutBack` |
| `site`, scene `Refusing` | two processes that take the lock, one site, four trust lists of which the server refuses one | `QuietLoads`, `UpToDateIsLoaded`, `SettingsServed`, and the same |

What is said of a server that serves what the settings ask for is said of
behaviours in which nobody was killed (`NobodyKilled`): a killed apply leaves
what it had written, untested, until the next one.

Three generated files are all that refer to each other: the trust file, the zone
for everybody and the one for the untrusted. A scene's `most` bounds how many times
something is changed, edited, refused or killed in one behaviour; three are
enough for a change, a refusal and a crash in the apply that follows. Settings
do not change half-way through an apply: the code reads them up to three times,
and an apply that mixes two settings can write a reference to a file it does
not create. The next apply mends it, and the config test catches it.

**Fairness.** An apply goes on by itself, the lock is polled, and cron asks for
an apply of every site each hour.

**What disagrees with the code's own words**, each reproduced by a scene's fields:

- two `procs`, requests `{"all", "tuiAll"}`, trusts `{"none", "bad"}`: `run_apply`
  (`tui/nginx.rs` 1544) takes no lock, against `applylock.rs` 18-24; an apply of the
  TUI's and a locked one that is refused put each other's files back, and what
  is left does not load (`QuietLoads` fails).
- requests `{"tuiAll"}`, refused at `"generate"`: when a generated file cannot
  be written the TUI neither tests nor puts back the ones before it, against its
  comment that "what did land must not be left" (`QuietLoads` fails).
- refused at `"reload"` in `Refusing`: an apply that changes nothing does not
  reload, though the reload of the apply before it failed (`UpToDateIsLoaded`
  fails).
- refused at `"test"`: rows are forgotten before the test, so that a file which
  is put back has none, and nobody will remove it any more.
- killed at `"restore"`: a put-back takes a new zone away before the sites that
  refer to it (`AlwaysResolves` fails; `Killed` leaves that label out).

**Proved** (`SiteApplyProofs`, for any number of processes, sites, trust lists
and scenes), all from `SiteConstants` and `OneAtATime`: the front ends take the
lock or there is one process, settings do not change midway, and nobody is
killed at `restore`. Each hypothesis is one of the disagreements above, or the
bound explained there; the scenes `Killed` and `Refusing` satisfy all of them.

- `ResolvesAlways`: `AlwaysResolves`.
- `RecordedHolds`: `RecordedFirst`.
- `PutBackHolds`: `PutBack`, if nobody edits a site file during an apply
  (`NoHands`).
- `QuietLoadsHolds`: `QuietLoads`, if no generated file is refused to the TUI
  when nobody is killed (`RefusalsUndone`).
- `UpToDateHolds`: `UpToDateIsLoaded`, if when nobody is killed no reload fails
  for a reason of its own, nobody edits or reloads behind an apply's back, and
  the TUI is refused neither a generated file nor a removal (`ReloadsWork`).

`AlwaysResolves` is not inductive: it says nothing of what an apply has in
memory, which is what it writes next. `Invariant` adds that one process is past
the lock (`TurnInv`), and for that process what its plan and snapshot hold
(`ShapeOf`, `PlanOf`), what its loops have done (`PhaseOf`: what a block needs is
on disk before the first block is written, and what is dropped is no longer
referred to when the first file goes), that what the snapshot does not hold is as
it was found (`KeptOf`), that rows come before files (`RowsOf`), that an apply
which noticed no change has the tree it found (`ChangedOf`), and that the tree
it would go back to resolves too (`ResolvesInv`). The last two theorems put
`LoadableInv` and `ServedInv` on top: the tree that was found loads, and it is
the one that is served.

The proof of `UpToDateHolds` showed a case no run had reached: a removal loop of
the TUI that fails part-way (`tui/nginx.rs` 1587-1592) loses the count of what it
had removed. The apply can then end as one that changed nothing, without a
reload, though a generated file is gone. That is why `ReloadsWork` names
removals. `SettingsServed` is liveness and stays with TLC.

## EvidenceRules and Evidence: from evidence to a verdict

**State.** `EvidenceRules` has no state: an address's rows in `log_evidence` are
a set of records, and `Guilty` is `evidence::decide` for each kind of rule. In
`Evidence`, `lines` is what an address caused in the log, `taken` how far the
stored cursor is, `rows` the table, `job` what a pass has yet to store, `verdict`
a decision that is not acted on yet, `made` when the newest block was made.
`history` is read by properties only: whether evidence was lost with a stopped
pass, and up to when it was spent, the last times of the rows that went included.

**Actions.** `Pass` reads what was appended and claims it, `StoreChunk` is one
transaction (`INGEST_CHUNK` rows, here one), `StorePrune` the pruning after the
last; `Crash` a pass that stops in between. `Decide` is `run_detector` after the
pass, `DecideElsewhere` the same by another process in the middle of the store.
`Act` is what `add_block_rules` does to the evidence: a new block spends it, a
block that is there spends what is older than itself, a skipped address keeps
it.

| Run | Instance | Shows |
| --- | --- | --- |
| `evidence` | seven detectors, one per kind of rule, thresholds of two and three, three lines (four for `protocol_probes`) of up to three kinds, windows of two seconds, buckets of two | `NeverOver`: no verdict counts more than there is; `NotMissed`: what it may fall short by; `ClearedIsSpared`; `ReadLosesNothing`: the copy of each rule in SQL never acquits |

Four moments and a window of two let a bucket begin before the window and end
in it, evidence fall out, and a row be older than a block. `Deserved` states
each rule over the lines, and `Certain` the part of it that the buckets and the
rows' two times cannot lose.

**What disagrees with the code's own words.** `ClearedIsSpared` only speaks of a
verdict taken on a whole store. A crash between two transactions, or another
process that decides between them, can leave out the row that clears an address
and convict it, where `db/evidence.rs` 85-90 says that stopping half-way "can only
make a count smaller, which is the side the detectors err on". Take
`verdict.whole` out of the property to see it.

It also excepts what a block has spent, and more than one would think.
`db/evidence.rs` 298-299 says of a row that reaches back to before a block that
dropping it "can only make a later count smaller". Where the row is the one that
clears the address, a smaller count is what convicts: an asset fetched before and
after the block is one row, which goes with the block, and once the block has
ended the pages since then stand alone. So `history.forgotten` is the later of
the block and the last times of what it dropped. Take the last times out of
`Forget` to see it.

**Proved** (`EvidenceProofs`), for any window, bucket width, thresholds and
pages, any log and any number of passes, stopped or not. `RulesAssumption`, which
the run evaluates, says what `scanblock::rule` does: which kind of rule each
detector goes by, and that `WEB_SCANNERS_REPEATS` is not zero (it is 50; with
zero, a page nobody asked for would be asked for often enough).

- `EvidenceInvariant`: `[]EvInv`, in three parts. `TypeOK`. `AllAccounted`: every
  row stands for a set of lines of its item, as many as it counts and as old as
  its times say; a row yet to be stored for lines the stored one does not have,
  which is why the two can be added up; and unless a stopped pass or a block took
  some away (`Whole`), no line after `Edge`, the oldest moment a verdict can still
  ask about, is without one. `ClearsOnRecord`: a line that clears has its row or,
  for a protocol probe, was read with no probe beside it, which is all that
  `Finish` drops.
- `ReadLosesNothingHolds`: `[]ReadLosesNothing`, a rule at a time (`ReadWhole`):
  what the SQL takes for not worth reading, the rule would have acquitted.
- `NeverOverHolds`, `NotMissedHolds`, `ClearedSpared`: `[]NeverOver`,
  `[]NotMissed` and `[]ClearedIsSpared`. A verdict is right when it is given
  (`NeverOverJudged`, `NotMissedJudged`, `ClearedJudged`) and the lines it is about
  do not change after (`VerdictStands`). For the rules that count lines the sum of
  the buckets is at most the lines after `since`, because a row that begins there
  counts no other (`LinesAtMost`), and at least those a bucket's width later
  (`LinesAtLeast`).

Both need what the sum over a set of rows is, which `FiniteSetsExt` defines by
recursion. The library's induction theorem takes a predicate, which no prover
here can be given; the lemmas about `Total` are proved from a least
counterexample among the finite subsets instead (`WFMin`, with
`FS_StrictSubsetOrderingWellFounded`).

## Detect: blocks

**State.** The database tables a pass reads and writes: `evidence`, `rules` (one
per address), `offences`, `unblocked`, `logins`, `trusted`. An address is a host
or the net it is in: the /64 of a v6 host, which is always what is blocked, or
the /24 of a v4 host, which is blocked when `SubnetMin` of its hosts are
convicted together. A process's `job` is its verdict. `fresh`, `previous` and
`spared` are history.

**Actions.** `Judge` is `run_detector` up to its verdict; `Write` is
`add_block_rules_now`, one transaction, which reads every table anew but trusts
the verdict. `Crash` is a process that stops in between. The operator's
`BlockByHand`, `Unblock`, `Trust` and `Login` are one transaction each; `Line` is
a request of a host that reaches the evidence.

**Left out.** Several detectors at once, rules with ports, Allow and Reject,
rules switched off, the exclusion of crawlers and CDN edges, `--dry-run`, and
unblocking every block of a source at once.

| Run | Instance | Shows |
| --- | --- | --- |
| `detect` | two processes; two neighbours of a /24 or a host of a /64; three moments, one act of the operator | `OnlyNewOffences`, `UnblockSticksForHosts`, `OperatorSpared`, `RepeatLasts`, `BlockOnRecord` |

The days of the code are ticks: a block of two, a cap of three, so that the
second block is longer and capped (`Multipliers` is 1, 2, 4), a memory of one
after a block's end. A pass
is over within the tick after it began: the code's take seconds, and its blocks
days (`Ttl >= 2`). One act of the operator in a behaviour is a bound on the
state space; the run passes with two as well, in over four minutes.

**What disagrees with the code's own words.** `UnblockSticks` is in the module
and in no run. It fails with `SubnetMin = 2`: `scanblock.rs` 1238-1241 excuses the
exact address or an unblocked range, so that a /24 that is escalated covers a
host unblocked by hand, where `blocks.rs` 26-36 says that "an operator's unblock
sticks". Two more, which no property states:

- A host whose /24 is blocked already is blocked, and gains an offence, once it
  is convicted alone: the check for an existing rule is exact (line 1252).
- Unblocking a /64 spends no evidence, since evidence is kept per host
  (`db/blocks.rs` 251-255 leaves it to the record's overlap check). Where a
  detector's window is longer than the record, old evidence brings the block
  back once the record lapses, though "only a new offence" should.

**Proved** (`DetectProofs`), from `DetectAssumption` and for any hosts, nets,
number of processes, lengths and steps of escalation:

- `RecordCorrect`: `[]BlockOnRecord`. It is inductive beside `Shape`, the types
  of the tables: the case that matters is `Write`, where `NewBlockOK` shows that
  a block and its offence end at the same moment, after now (so a new block is
  never pruned by the write that makes it), because an escalated time is at
  least `Ttl` whatever `Multipliers` holds.
- `OperatorNeverBlocked`: `OperatorSpared`. `BlocksAreNew` shows that a step that
  blocks is a `Write` and the address one it judged; the rest is that `LoggedIn`
  and `Trusted` go by range and are read in that same step.
- `UnblocksStick`: `UnblockSticksForHosts`. Two invariants carry it. In
  `SparedOnRecord`, what spares a host is in `unblocked` for as long as it lasts,
  under the host or a range over it: it survives the expiry in `Write` and a
  second, shorter unblock. In `V6ByItself`, a v6 host is never in `unblocked`
  itself, since detectors block its /64: without it an unblock of a host could be
  on record and its /64, which is not looked up by overlap, be blocked.

- `RepeatsLastLonger`: `RepeatLasts`, if each multiplier is twice the one before
  (`Doubling`; `protection.rs` 1090-1098 shifts a one). `LastOnRecord` says that
  an address's last block is its offence on record and lasted what that offence
  earns; `NextEarnsMore` is the arithmetic. The longest an offence is blocked for
  is the last multiplier's time or the cap (`Longest`): a detector of one day
  never reaches the ninety.
- `OnlyNewOffencesBlock`: `OnlyNewOffences`, if an unblock outlasts a pass
  (`UnblockOutlastsPass`: a day against the tick a pass takes). `EvidenceOK` says
  that only a host that is `fresh` has evidence. The verdict is older than the
  write, and by then the evidence may be spent: `PassesOK` says that a host a
  pass convicted is still `fresh`, or is covered by a detector's block that ends
  after the pass does, or by an unblock that does. `AnsweredKept` is the step
  that matters: another pass's `Write` turns the first into the second, an
  `Unblock` the second into the third, and neither `BlockByHand` nor expiry ends
  the second in time.

## Contain: what a connection to a listed address brings about

**State.** `rows` is the table `containments`, each with its target, whether it
is open, and the addresses it cut off; `hits` what the kernel logged of
connections to listed destinations. `box` is the container runtime: each
container's state and address. `kernel` is the firewall's set of what is cut
off and whether the loaded script declares one, `boot` the same of the script
that loads at boot. `settings` has the mode, whether containing is automatic,
whether users and containers may be contained, and who never is; `tripped` is
the breaker. A process's `job` is what it has in memory: the host as it looked
at the start of the pass (`host`), the hits it read, whom it is about to
contain, and the rows its `maintain` listed.

**Actions.** `Look` (or `LookInVain`) is the slow half of a pass, on what the
host looks like; `Respond` decides, with the breaker; `Answer` marks the hits;
`OpenRow`, `Cut`, `ActOn` are the three steps of `contain`, row first;
`Release`, `Drop`, `Unpause`, `Close` those of `release`, row last; `List`,
`KeepKnown`, `KeepContainer`, `Move`, `Recut`, `Repause` are `maintain`, which
goes by the list and the host it has. `Restart`, `RemoveBox` and `Reboot` are
the runtime and the host, behind every process's back; `Apply` is a firewall
apply, whose script is rendered from the rows and is also the boot script;
`Kill` stops a process between any two steps.

**Left out.** A container with more than one address; the query and insert of
`open_containment`, which a unique index makes one step; the mark on each hit,
made one by one and here at once; the user kill, which changes nothing the
program keeps; the sinkhole and the trap, which only log.

| Run | Instance | Shows |
| --- | --- | --- |
| `contain`, scene `Deciding` | passes of `tick`, hits of a container, a user and an address, kills, reboots, the clock, settings that change, a breaker of one an hour | `BreakerHolds`: no hour has more automatic containments than the breaker lets through, however passes are cut short; `TrippedMeansNone`; `StaysContained` |
| `contain`, scene `ByHand` | the pass beside an operator who contains and releases, restarts, removals, applies, reboots, a runtime that does not answer, a log that cannot be read | `StaysContained`: once nothing moves any more, no contained container runs where it is not cut off, or runs though it should be paused |

One container, one user and two addresses let a container move to an address
that another row knows, come back paused or running, and be taken for an
address. A scene's `most` bounds what happens to the host (four events, or
three); a breaker of one and an hour of one tick over three ticks let an hour
run out and the breaker be reset and trip again.

**Fairness.** `tick` runs every minute and what has begun goes on, so each
process's steps are weakly fair. Nothing is assumed of the host or of the
operator.

**What disagrees with the code's own words:**

- `NoneLeftBehind` is in the module and in no run: an address that no open row
  has is not cut off for ever. With `Scenes <- JustReleased` TLC finds a release
  between a pass's `List` and its `Recut`: the pass cuts off again what the
  release let go (`contain.rs` 880 cuts off from the list of 816), and with the
  row closed nothing lets it go until the next apply or reboot.
- Two passes at once (`Passes = {"tick", "tui"}` with `JustDeciding`): both count
  the hour's containments before either opens a row, and the breaker lets
  through more than it says (`BreakerHolds` fails). `tick` is kept single by its
  lock; the TUI's pass is not kept from running beside it.
- A container that was removed or stopped keeps its address in the rendered
  script and the kernel's set, where `contain.rs` 913 says that "a container
  that is gone has no address to keep"; whoever is given the address next is cut
  off.
- `release` leaves the boot script as it is, so a reboot before the next apply
  cuts off again what was released.

**Proved** (`ContainProofs`): `TripHolds`, `[][...]` of `TrippedMeansNone` with
one pass at a time (`OnePass`), for any containers, users, addresses and
settings. Its invariant is `Shape`, the types, with `Untripped`: a pass that is
on its way to open rows by itself saw the breaker untripped when it decided,
and only itself can trip it. `BreakerNeverPassed`, `[]BreakerHolds` under the same
`OnePass`, for any breaker and hour and finitely many targets (`FewTargets`,
which counting needs). Its invariant is a budget: a pass that contains by
itself has room, in every hour its next row can fall into, for as many rows as
it still has to open (`Budgeted`). The breaker is only asked once, when the pass
decides, and the budget is what carries that answer to the rows it opens.

`StaysContained` is liveness and stays with TLC.

## Schedule and AppJobs: what runs when, and the TUI's jobs

`Schedule` is the downloads of every front end and the lease they share;
`AppJobs` extends it with what one TUI has in flight beside them, and is what
TLC runs.

**State.** In `Schedule`, `age` is how long ago each job was recorded and
`fetched` how old the lists are; `lease` is the row that says who downloads, and
for how long it has shown no life; `checked` and `todo` are a front end's last
check of the schedule and what it found due, `run` its downloads that are out.
In `AppJobs`, `flight` is `jobs_in_flight`, `plan` what each job was planned
from, `queue` the events the pool's threads have sent, `again`, `cronApply` and
`everything` the flags of `App`; settings, the files on disk and what the server
has loaded are version numbers, `tags` what the screen shows and from which
versions.

**Actions.** `Check` reads what is due, once; `Begin` claims the lease,
`Fetch` stores a list and renews it, `Record` and `Release` end a run;
`AskAll` and `AskOne` are downloads asked for by hand, `Stop` a process that is
killed. `Pass` is time: a piece of work takes no longer than its downloads may,
a `tick` is started every minute. In `AppJobs`, each `start_` and `finish_`
function of the main thread is a function of its state (`StartApply`,
`FinishApply`...), since they call one another; `RunApply`, `RunReload`,
`RunCheck`, `RunRender` are the pool's threads.

A unit of time is what one list may take (70 s), so that the lease of
`LEASE_SECONDS` is over eight units and here three. "ranges" stands for all
crawlers' lists; the log pass of a `tick` is the time between its `Check` and
its next step; the main thread's own processing is counted in `Takes`.

**Left out.** The jitter of a schedule, `--no-reload`, what a download changes
in the settings' version, a panic in a pool thread (it leaves its key in
`jobs_in_flight`, and the job is never started again), and `fetched` once
nobody reads it. With "apply by itself" switched off the sites' job is only
recorded; the feeds are a job in the scenes where they are enabled.

| Run | Instance | Shows |
| --- | --- | --- |
| `jobs`, scenes `Killing`, `Feeding`, `Together`, `ClockBack`, `New` | `tick`, a TUI and a `batch`, lists old or never downloaded, kills, failed downloads, a clock set back | `OneDownloader`: no two downloads at once in any front ends; `DueIsRun`: what is due is run, whoever died with the lease |
| `jobs`, scenes `Reloading`, `Tagging`, `Scheduling`, `Flagging` | one TUI: edits, applies, reloads, screens shown and left, an apply the server refuses, settings that cannot be read, the schedule's own apply, a kill | `LastWriteReloaded`: files the server has not loaded are in the hands of a job that is still to load them; `TagsSettle`; `FlagsHaveAnApply` |

Each scene has the jobs, front ends and faults of one question, and `most`
bounds how often anything is asked for or goes wrong; with all of them in one
scene the state space is out of reach.

**Fairness.** A `tick` is started every minute, downloads have a timeout and the
TUI's loop comes back for what is done: weak fairness of each process's `Steps`
and of `Pass`.

**What disagrees with the code's own words:**

- `refresh.rs` 359-362 says a holder that lives never loses the lease. The feeds
  fetch all their lists before they renew it once, so nine slow ones outlast it
  and a second download begins (`Takes["feeds"] = 3`, which is `LeaseTime`:
  `OneDownloader` fails).
- `refresh.rs` 320-323 says two front ends do not fetch the same lists one after
  the other; what is due is read before the lease is taken and not again, and
  the feeds give the lease back before they are recorded. So they do.
- `app.rs` 1105-1110 says the flag comes back down when the apply was not started.
  `start_cron_apply_nginx` with an apply already out leaves it up and records
  the operator's apply as the schedule's own.
- `refresh.rs` 184-186 says a failed download is not recorded; `store_ip_ranges`
  records with some of them failed.
- Tags are shown as current from a check that is older than the last edit, until
  the one that was started again is back; and "Apply everything" drops its
  firewall half if a render of a popup is out.

**Proved**, for any constants that satisfy the assumptions:

- `OneDownloaderHolds` (`AppJobsProofs`), if no piece of work takes as long as
  the lease lasts (`TakesLess`). The invariant relates the lease's age to how
  long its holder has been at work: whoever downloads has the lease, and it is
  younger than `LeaseTime`.
- `LastWriteHolds` and `FlagsHold` (`AppJobsProofs`): the properties
  `LastWriteReloaded` and `FlagsHaveAnApply`. `JInv` is `QueueOK` (an event in
  the queue is of a job in flight, once), `FlagsOK` (a flag is up only while
  an apply is out), and `Ahead`: if the server runs older files than the disk
  holds, a finished apply that changed something is in the queue, or a reload is
  out that has not loaded yet or is asked for again, or the last reload failed.
- `TagsHold` (`AppJobsProofs`): the property `TagsSettle`. `TagsInv` says where
  the next true answer comes from while the tags are not known to be stale: a
  check that is out and is asked for again, or whose answer will be true unless
  an apply's answer is still in the queue, or the tags are true already but for
  such an answer. A screen of sites is never shown over stale tags.

`DueIsRun` is liveness and stays with TLC.

## RuleSet: from the database to what the kernel does

**State.** `db` is what the rules come from: the operator's and detectors'
rules, the lists, the settings that say which apply. `rules` is `all_rules`, in
order, as a render reads them; `log` what the guard reads of the SSH log;
`stages` what `Plan::new` has made of the first `count` of them: for nftables a
stage has a verdict, a port and elements with what is left of their lives, for
iptables it is one line. `loaded` is the script in the kernel, `built` when the
rules were read, `since` when the script was loaded. A range is the set of the
addresses in it.

**Actions.** `Read` is `build_script_at`; `Render` takes one rule more (it joins
the latest stage it may, or opens one); `Load` is an apply the guard lets pass;
`Boot` loads the same script again, so that lives start anew; `Tick` is the
clock. What a packet meets is `KernelVerdict`: the layers of each stage's sets,
whose elements run out by themselves.

**Left out.** The script's text, the sections for the trap and for what is sent
out, addresses that cannot be parsed, `--force`, the signature that skips a load
(`FirewallApply` has it). The tables are read as one snapshot, and a behaviour
has one render.

| Run | Instance | Shows |
| --- | --- | --- |
| `rules` | four addresses, one IPv6; every list of up to three rules of sixteen, or four of six, that nest, overlap, name a port or run out (`HandDbs`); every mix of the lists (`ListDbs`) and of the switches (`OtherDbs`); both backends; three moments | `ScriptDecides`, `GuardHolds`, `PolicyHolds` |

`ScriptDecides` is what the repository's own randomised test samples
(`nftables.rs` 1447): at every moment, each packet gets the verdict of the first
rule that matches, although rules join stages that are evaluated before others,
elements inside others are left out and the rest are spread over layers that
must not overlap. It says at which moment: a set's timeouts count from the
load, so what is loaded late lasts that much longer (`KernelTime`). `GuardHolds`
relates the guard's reading of the rules, which skips an Allow of one port and
looks at the rules as of now, to what is loaded, on any port sshd may have, when
timed blocks have run out, and after a reboot. `PolicyHolds` is the order: who
is dropped is stated list by list, without one.

**Proved** (`RuleSetProofs`), for every database, rule list and number of
addresses that satisfies `RulesAssumption` and `RangesAssumption` (ranges are
nested or apart, as CIDR ranges are): all three, as `ScriptKeepsOrder`,
`GuardKeepsItsWord` and `PolicyIsKept`.

- The inductive invariant is `TypeInv`, `Steps` (what is loaded is the finished
  stages of `AllRules`, passed by the guard) and `Faithful`: at each moment the
  stages decide as the first `count` rules do. `Faithful` for one rule more is
  `RenderedVerdict`. A rule that opens a stage only decides what nothing before
  it did (`Appended`); one that joins a stage catches packets ahead of later
  ones, which all have its verdict (`Joined`, from `Joinable`).
- `ScriptKeepsOrder` then needs that layers lose nobody and do not overlap
  (`LayersCover`, `LayersApart`): among the elements that hold an address at a
  moment, an outermost one is kept, and two elements of a layer that met would
  be nested and so of different depths.
- `GuardKeepsItsWord`: the first rule that drops a client would be one the guard
  looked at; the guard saw an Allow before it, which has no port and, since no
  Allow has an expiry, is still there.
- `PolicyIsKept` computes the verdict of each list (`ListDecides`) and of lists
  that follow each other (`ConcatDecides`).
## Upgrade and Uninstall: opening the database, and leaving the host

`Upgrade` is what every command does when it opens the database, and the
commands that change the host's settings. `Uninstall` extends it and
`FirewallApply`: a host that runs stop-bots, and the steps that take it out.

**State.** In `Upgrade`, `base` is the committed database (its version, whether
it has tables, whether its defaults are today's), `copies` the files
`<db>.bak-v<n>` beside it, `writer` who has SQLite's write lock, `rows` the
settings as releases before had them, `conf` the file `host.conf`, `disk` that
file as a power cut would leave it, `mem` the locals of `migrate` and
`move_settings`. `ran`, `chosen` and `unsure` are history: how often each
migration was done, what the operator chose last, whether two root processes had
the settings in memory at once or the power took the file back. A `host` is
chosen in `UpInit`: the database, the release of each process, who is root, and
what can go wrong. In `Uninstall`, `cron`, `unit` and `web` are the schedule,
the boot unit and the configurations with blocks in them; the kernel's rules and
the scripts are `FirewallApply`'s; `tick` is an apply of the sites by cron
between its plan and its writes; `step` is where the uninstall is; `missed` is
history, that rules which are loaded were taken for gone.

**Actions.** `Look` to `Commit` are `schema::migrate`, `Create`, `Vacuum` and
`Sync` its `backup`; `MoveLook`, `ReadRow`, `Save` and `ForgetRow` are
`move_settings`; `LoadConf` and `Store` any of the three setting commands. A
process is killed (`Kill`) or the power goes (`Power`) at every label. The power
leaves a copy nobody synced as anything, and takes `host.conf` back to what it
was before a rename that has not reached the disk (`Flush`): `write_file` syncs
the new file and not its directory (`hostconf.rs` 440-447). `ReadRows`, `ReadConf` and `Opened` are
`Plan::resolve` and `release_for_uninstall`, the rest is `uninstall::run` in its
`Order`. `RemoveTable` may find no rules where there are some (`"unlisted"`).
`Refused` is a step that is reported as failed; `Boots` loads what the
boot unit would.

**Assumption.** A file system keeps the name of a *new* file once the file itself
is synced, which is all `backup` does (`schema.rs:335`). ext4, XFS and Btrfs do;
POSIX does not promise it, and without it a power loss after the upgrade could
leave no copy of what was upgraded.

**Left out.** What a migration does to a table; who owns the database and its
copies (`db/guard.rs`); `--purge`, `--prefix` and single targets; the sinkhole;
containments, which are `Contain`'s; `systemctl stop`; managed files under
another root. A tick's apply of the sites is one step under the lock, since
`SiteApply` shows what can happen inside it.

| Run | Instance | Shows |
| --- | --- | --- |
| `lifecycle`, `UpgradeHosts` | two processes of one release or of two, on a new database, one from before there were versions and one of version 1; killed, without power, refused anywhere, kept waiting for the lock | `Upgraded` |
| `lifecycle`, `SettingsHosts` | one root process or two, two settings that are right, another user's or of no use, changed meanwhile; one process with the power going | `SettingsKept` |
| `lifecycle`, `LeavingCases` | an uninstall with a step refused, live rules that cannot be listed, killed, or followed by a boot; beside ticks, an apply, a person who is asked whether to keep it, and another command | `CleanStaysClean` |

Versions 0 to 2 let an upgrade have one step or two and let one release stop
where the other goes on; two processes are the fewest that can overtake each
other, and one name beyond the first (`MaxCopies`) is what two of them need.
`MaxTries` is two: one uninstall that stops half way and the one after it; one
step of each may be refused.

**What the properties except.** `SettingsKept` excepts behaviours in which two
root processes had the settings in memory at once (`unsure`): one can delete
the rows while the other, which read them before, has not written the file, and
the change made first is lost when both change it, against hostconf.rs 596-597,
"never settings that are nowhere". It excepts, by the same variable, a power loss
that takes the file back, see below. `CleanStaysClean` excepts both, live rules
that were not found (`missed`, for the kernel only), a run with a failed
step, and an apply that was on its way when the schedule went (`flight`): no step
waits for it, and the deletion of the table takes no lock, so a tick that is under
way, a TUI or a revert timer can put rules back.

**What disagrees with the code's own words:**

- `uninstall --dry-run` opens the database (`release_for_uninstall` calls
  `open_db`), which copies and upgrades it and moves the settings, against
  `uninstall.rs` 157-160, "`--dry-run` must change nothing, and an uninstall has
  no business migrating a database it is about to leave behind".
- The rows are deleted once `host.conf` is renamed into place, but nothing makes
  the rename durable before that: a power loss can leave the settings nowhere, or
  take a `Store` back, against the same comment at `hostconf.rs` 596-597.
- `nft list table` or `iptables -S` failing for any reason is reported as "no
  table" (`uninstall.rs` 579-581): the rules stay loaded until the next boot, and
  the uninstall reports no failure.
- With two releases, the copy is of the version that was there first; the
  versions in between, and what is written between the copy and the upgrade, are
  in no copy. When two upgrade at once the second copy may be of the upgraded
  database, under the older version's name.
- A row nothing can use ends `Plan::resolve` with an error, where the move takes
  it for no setting.
- When `systemctl disable` fails but the file goes, a second run finds no file
  and does not try again.

**Proved** (in `FirewallApplyProofs`, which holds the proofs about these two as well, for
any number of processes, releases, settings and names of copies):

- `UpTypeCorrect`: `[]UpTypeOK`.
- `UpgradeHolds`: `[]Upgraded`. `Upgraded` alone says nothing of a process half
  way: `UpgradeInv` adds that a database only grows (`Grown`), that what a
  process found is not newer than what is there (`Found`), that from its making
  to the upgrade a copy is its process's own and holds what the first upgrade
  will replace (`Copied`, `OwnCopy`), and that who migrates has the lock and
  read the version under it (`MoveLocked`).
- `SettingsHold`: `[]SettingsKept`. Rows go and settings are changed only once
  there is a file (`Placed`); unless it is `unsure`, who moves the settings has them
  as they are (`Replaces`), and is the only one (`OneReplaces`).
- `UninstallHolds`: `UnSpec => []CleanStaysClean`, of any front ends, timers,
  scripts and faults, where nobody changes the settings of a host that is being
  uninstalled (`Unedited`: the blocks could be in two configurations, of which
  it finds one) and hosts boot by `Boots`, which knows that the unit may be gone,
  and not by `FirewallApply`'s `Reboot` (`OneBoot`); every instance of
  `lifecycle` meets both. `UninstallInv` has a part for each step: once the
  schedule goes with nothing on its way, no run is under way and none begins
  (`GoneInv`, `QuietRuns`), so that the boot unit, the rules and the blocks stay
  gone one after the other; every script that is there is still on the list
  (`ListedInv`), since nobody writes one; and what the uninstall takes the
  configuration to be is where the blocks are, before and after the settings
  move (`SameRoot`, `FoundInv`).
- `KeptBeside`: `[](Upgraded /\ SettingsKept)` under `UnSpec`, with no
  hypothesis: applies, uninstalls and boots take nothing from either.


## What was built, and what is left

In this order, most important behaviour first:

1. `FirewallApply`, `BootScript`, `FirewallApplyProofs`: done.
2. `LogIngest`, `EachLineOnce`, `LogIngestProofs`: done.
3. `EvidenceRules`, `Evidence`, `EvidenceProofs`, `Detect`, `DetectProofs`:
   done.
4. `SiteApply`, `SiteApplyProofs`: done.
5. `Schedule`, `AppJobs`, `AppJobsProofs` (of both): done.
6. `Contain`, `ContainProofs`: done.
7. `RuleSet`, `RuleSetProofs`: done.
8. `Upgrade`, `Uninstall` (proofs in `FirewallApplyProofs`): done.
9. `Ranges` (the conversion of a range to CIDR blocks): to come.

## Not modelled

- `health.rs`, `tui/` (screens and their layout), help texts, host inspection,
  the command line's parsing and printing: they read what the modules here
  write, and a wrong reading is not a wrong state. They are a large part of the
  program's lines. What the TUI does to state is in `AppJobs`, `FirewallApply`,
  `SiteApply` and `Contain`.
- Parsers and generators of text (`accesslog.rs`, the configuration files of
  `nginx.rs` and its siblings, the bot lists): sequential functions over
  strings, which the repository's own tests cover and a model would only copy.
- The sinkhole and the port scan trap: they log, and the pass that reads what
  they log is `Contain`'s.
- `db.rs` beyond the statements the modules cite: one transaction each, so that
  a model of them alone has no interleaving.
