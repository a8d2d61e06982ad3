# mamotama: TLA+ models and proofs

mamotama is a reverse proxy with a web application firewall (`coraza/src`, Go).
Several processes ("nodes") may run against one database; each keeps its own
configuration files and its own runtime state. This directory models the parts
of it in which steps of several actors meet: the rate limiter, the challenges of
the request pipeline, the admin-editable configurations with their watchers, the base
WAF rule files with the false-positive tuner, the event log with its ingest into the
database, and the line index of log files.

Paths below are relative to `coraza/src/`; `internal/handler/` is left out.

## 1. The system

### Components

| Component | State | Operations | Right when |
|---|---|---|---|
| Rate limiter (`rate_limit_store.go`) | runtime configuration, counters per policy and key, sweep counter | evaluate a request; reload | nobody gets more than `limit + burst` per window, nobody is refused before that |
| Configuration rules: country block, rate limit, bot defense, semantic (`*_rules.go`, `config_blob_sync.go`) | a file and a runtime per node, a row of `config_blobs` | GET, PUT, startup and periodic sync | runtime follows file, file follows row, failed PUTs are rolled back, If-Match protects updates |
| Base WAF rule files (`admin.go`, `waf/waf.go`) | several files per node, a row for each, one base WAF built from all of them | GET, PUT, sync, reload, start | the WAF is built from what the files say, the files load, and follow the rows |
| False-positive tuner (`fp_tuner.go`) | approval tokens in the memory of a process | propose, apply | only approved proposals are applied, each token once, and what was applied stays |
| Configuration store (`logs_db.go`) | table `config_blobs` | read a row, replace a row | each statement is atomic |
| WAF event log and ingest (`proxy.go`, `logs_db.go`) | a log file per node; tables `waf_events`, `ingest_state` | append, rotate; ingest the log tail, prune | every complete line is ingested once, in order, and kept as long as it should |
| Log pages (`logs_db.go`, `logs.go`, `Logs.tsx`) | the bounds of the page shown | read the page before or after it | pages neither skip nor repeat lines |
| Line index (`logs.go`) | line offsets per log file | extend the index, read a page at a cursor | the offsets are those of the file's lines |
| Request pipeline (`proxy.go`) | none of its own | country block, bot defense, semantic, rate limit, WAF, proxy | every request passes all checks under configurations that were in force |
| Bot-defense and semantic challenges (`*_store.go`) | runtime with the signing secret | challenge, verify | a client that passed a challenge is let through until the cookie expires |
| Bypass rules, override WAFs (`bypassconf`, `waf/waf.go`) | rule list, cache of built WAFs | match, watch, reload | a request gets the WAF its path asks for, as the file is now |
| CRS selection (`crs_rule_sets.go`, `crsselection`) | file of disabled rule files, its row | GET, PUT, sync | the selection survives the round trip through the file |
| Cache rules (`cacheconf`) | rule set, debounce timer | watch, reload, GET, PUT | the rules in force are the file's |
| Start (`cmd/server/main.go`) | – | rule sync, InitWAF, then each configuration: init, sync; then the sync loop | |
| Environment, API key, admin UI, nginx, scripts | – | – | outside the models |

### Interaction

The admin handlers and the sync loop of a node run in goroutines of their own.
They share files (replaced atomically by `AtomicWriteWithBackup`), the database
(one statement at a time) and runtime variables (assigned under a lock of their
own). *No lock covers a whole handler*, and the sync's lock only excludes other
syncs. Nodes meet in the database only. A request reads the runtimes one after
the other as it passes the checks of `ProxyHandler` (country block, bot defense,
semantic, rate limit, WAF), each as it is at that moment.

### What is hard

- A handler reads file and row, decides, and acts later; other handlers, the
  sync and other nodes act in between.
- A reload is read, build and assign; several overlap and overtake one another.
- Each file or database operation may fail, also inside a rollback; a database
  statement may be committed although it reported an error.
- A process may die anywhere and start again from its files and the rows.
- Rule files are valid or not *together*, but stored and synchronised one by one.
- Counters are updated in lock order, but windows come from clock readings made
  before the lock was taken.

`PROJECT.json` lists the hazards, each at its line, with the properties for it.

## 2. Modules

| Module | Models | 
|---|---|
| `RateLimitRules` | pure part of the limiter: policy choice, key, cap, exemptions |
| `RateLimit` | evaluations and reloads that overlap |
| `RateLimitProof` | proofs about `RateLimit` |
| `ConfigSync` | one configuration over file, row and runtime, on several nodes |
| `ConfigSyncProof` | proofs about `ConfigSync` |
| `RuleFiles` | base rule files, base WAF, false-positive tuner |
| `Approvals` | abstract: what approval tokens promise |
| `RuleFilesProof` | proofs about `RuleFiles`, and that it implements `Approvals` |
| `HotReload` | cache rules, bypass rules and CRS selection: handlers, sync, watchers, override WAFs |
| `HotReloadProof` | proofs about `HotReload` |
| `EventLog` | the event log of each node, appended to by requests and rotated from outside |
| `LogPages` | pure: which lines a page shows |
| `Ingest` | the event store: `EventLog` and `LogPages` composed with `syncWAFEvents` and the page queries |
| `LineIndex` | log files without the event store: `EventLog` and `LogPages` composed with `buildOrUpdateIndex` and `readByLine` |
| `EventLogProof` | lemmas about `EventLog` and `LogPages`: logs, readings, page bounds |
| `IngestProof` | proofs about `Ingest` |
| `LineIndexProof` | proofs about `LineIndex` |
| `Pipeline` | requests in `ProxyHandler` up to the rate limit: bot-defense and semantic challenges |
| `PipelineProof` | proofs about `Pipeline` |
| `MC_*` | constants of the runs |

### RateLimit

`EvaluateRateLimit` is three steps: the caller reads the clock (`Arrive`), the
runtime is read and policy and key are chosen (`PickPolicy`), the counter is
updated under its lock (`Count`). `ReloadRateLimit` is three as well:
`ReloadBuild`, `ReloadSwap`, `ReloadReset`. Any configuration that loads may be
on disk at any time. Times are seconds. The variables `admitted`, `remembered`,
`last`, `high` and `calm` are history: what was let through since the counters were
last reset; that without what the limiter may have forgotten; when each key was last
counted; the latest clock reading counted; and whether counting has followed clock
order.

*Windows longer than the retention time.* The sweep deletes a counter that was idle for
more than ten minutes (`rate_limit_store.go:203`), and a policy may have a longer
window (`normalizeRateLimitPolicy` has no upper limit). In such a window the cap is not
kept: a key that stays silent for more than ten minutes may get `limit + burst` again.
`AdmitsWithinQuota` says exactly that much: what was let through in the window counts,
unless the window is longer than `Retain` and the key was silent for longer than
`Retain` since (`MayForget`). For all other windows it is the cap of `README.md`.

Not in the model: status codes and Retry-After, regex and CIDR evaluation (a
rule matches a set of paths, an allowlist covers a set of addresses).

### ConfigSync

One instance stands for any of the four configurations that share this protocol
(country block, rate limit, bot defense, semantic). A PUT is `PutStart`,
`PutCheck`, `PutWrite`, `PutLoad`, `PutSwap`, `PutUpsert`, with the rollback
`UndoWrite`, `UndoLoad`, `UndoSwap`; a GET is `GetStart`, `GetRow`, `GetSeed`
(it seeds an absent row); the sync is `SyncTick`, `SyncRead`, `SyncRow`,
`SyncWrite`, `SyncLoad`, `SyncSwap`, `SyncSeed`; `OpenStore` and `Boot` are the
opening of the database and the initialisation that precede the sync at startup,
`Crash` the death of a process. Every file and database operation has a branch in
which it fails. `missed` is history: the node's last reload failed or was overtaken
by a write.

*A start that fails.* When the database does not open (`main.go:19`), the process runs
without one (`storeOpen`); when the file cannot be ensured (`rate_limit_store.go:99`
and the same in its siblings), the configuration's path stays empty (`pathSet`): its
handlers then read an empty file and cannot write one. In both cases every sync of the
process returns at once (`config_blob_sync.go:23-31`), so that one fault at the start
leaves the node's file apart from the row until it is restarted. `FilesConverge`
therefore speaks of the nodes in `Syncing`, those with both.

`RuleFiles` and `HotReload` take the database for open. There is no path that a fault
could leave unset there: the rule files, the bypass file (`SyncBypassStorage` uses
`config.BypassFile`, and `bypassconf.Init` sets its path before anything can fail), the
CRS file and the cache file have their paths from the environment or a constant.

### RuleFiles

The same for the files of `WAF_RULES_FILE`, where one sync handles all files and
reloads once, rows are not validated, a start that fails is retried by the
container runtime (`docker-compose.yml:21`), and a text is the set of its rule
lines. `Loadable` says which contents of all files Coraza builds a WAF from; in
the runs, no line (rule ID) may appear twice. `Propose`, `ApplyStart`,
`Approve` are the tuner's, which shares `Validate`, `Write`, `Load`, `Swap` and
the rollback with `PutRules`. A GET of the model reads one file (the code reads
all in turn, each on its own). The model has `WAF_FP_TUNER_REQUIRE_APPROVAL` and
the database enabled, the CRS part of the WAF fixed, and takes a missing file
for an empty one.

When `SyncRuleFilesStorage` fails after it wrote a file, it returns without the
reload, and the next pass finds nothing to write: the rules on disk stay unenforced
until something else reloads. `BaseFollowsFiles` counts this as an excuse (`stale`).

**Approvals** says what the tokens promise and nothing of how: a grant is given by a
process for a proposal, with an expiry; an apply is begun on the strength of one
unexpired, unspent grant of its own process for its own proposal. `RuleFiles`
implements it under the mapping `Grants` (what was issued), `Spent` (what an accepted
apply has used) and `Applying` (an apply from its acceptance to its reply). The
store itself, its pruning, its loss in a crash, denied and failing applies, and all the
file handling are stutters. Of a token whose apply fails, `Approvals` says that it is
spent, which is what the code does.

### HotReload

Three configurations differ from `ConfigSync`'s protocol. `kind` says which of them a
behaviour is about:

| | `cache` | `bypass` | `crs` |
|---|---|---|---|
| PUT compares If-Match with | the file | the row, if valid | the row |
| PUT and sync | write the file | write, reload | write, reload the base WAF |
| watcher | debounced, a goroutine per load (`Slots`) | one goroutine that reloads | none; other handlers reload (`OtherReload`) |
| start | sync, then watch and load | load, watch, sync | InitWAF (fatal), sync |
| GET | writes a valid row over the file | – | – |

A load is `BeginLoad` (read and parse) and `EndLoad` (assign); `fresh` says that the
file has not changed since the read. `SetFile` is any change of the file: it makes
loads under way not fresh, and tells the watcher. `stale` is history: the last load
failed, was overtaken by a later one that saw the current file, or nobody was
watching. The override WAFs are `Select`, `Lookup`, `Build`, `Insert` of
`GetWAFForExtraRule`, with an operator who changes the extra rule file; under
`WAF_STRICT_OVERRIDE` a rule file that does not load ends the process.

One node is modelled; other nodes show as rows they store (`OtherNode`). Not in the
model: which rule or path matches a request, what the rules of the cache do to the
answer's headers, and which CRS files a selection names.

These models take an ETag for the text it is the hash of, and a row's `etag` column
for the hash of its text.

### EventLog, LogPages, Ingest

`appendEventToFile` is one write of one line: `Emit`, or `EmitHead` and
`EmitTail` when a reader sees it in two parts or the disk fills up in between.
`Rotate` is external. A file is a sequence of line fragments with an exact
modification time; offsets count fragments.

`syncWAFEvents` runs at the start of every query, under the store's mutex, so
one at a time on a node: `SyncStart` (first stat), `SyncLoad` (read
`ingest_state`), `SyncRead` (open, seek, read to the end, insert), `SyncStat`
(second stat), `SyncCommit` (prune, save the offset, commit); `SyncFails` is an
error or the end of the process at any of them, and a commit may be done although
it failed. On MySQL several nodes share the database, and nothing keeps their
syncs apart. `Count` and `Select` are the queries of `ReadWAFLogs`; the cursors
are those the admin page sends (`PrevOf`, `NextOf` of the page it shows). The
other users of the sync ask for no page. The history variables are `whole` (since
its last rotation, the file was read from its start), `torn` (events read when
only their head was there) and `everStored` (all rows there ever were).

A log is read from its start again when its time is not the stored one although its
size is not above the stored offset, which happens without any rotation after a second stat that failed: the
offset of the reading is stored with the time of the first stat. By then rows of its
first lines may be pruned, and the lines are inserted anew. `OneRowEver` says that no
event gets a second row by this, because pruning comes after the inserts.

Not in the model: the country filter, events without a time stamp (they are never
pruned), the contents of events. Pruning takes the clock of the commit step.

### LineIndex

Logs that are read without the event store (`readByLine`). A request is `StatLog`
(the stat), then one of `UseIndex`, `BuildIndex`, `ExtendIndex`, `IndexMissing` under
`idxMu`, then `FindPage`, which looks at the index after the lock was released, then
the read of the bytes (`ReadNothing`, `ReadLines`, `ReadFails`, `ReadMissing`).
Between any two of them the log grows, is rotated, or another request extends the
index or replaces it. `li.Offsets` is appended to in place: a request that holds the
same `lineIndex` sees it longer, and one that looks in the very moment may see the new
length before the offset (`Torn`; it takes 0 for it).

The index is rebuilt whenever the file's time is later than the one it recorded, so it
is *extended* only by lines of the same tick of that time. An extension starts at the
recorded size although the previous read went on to the end of the file: lines that
came in between are then marked twice. `made` (history) records this, and the
properties speak of indexes without it.

Not in the model: errors of the file system. In particular an extension that reads
lines and then meets an error other than the end of the file (`logs.go:549-555`) returns
with the offsets appended to the shared `lineIndex` and its size as before. The last of
them may lie inside a line, where the read broke off, and the next extension starts at
the old size and marks the lines again, as after an extension under which the log grew.
No property here says what requests get after that.

### Pipeline

A request is `Arrive`, `Bot` (`EvaluateBotDefense` and its challenge page, both
under one runtime), `Evaluate` (`EvaluateSemantic`), `Cookie`
(`HasValidSemanticChallengeCookie`), `Challenge` (`WriteSemanticChallenge`), the
last three each under the runtime in force by then, and `Limit` for everything
after. `ReloadBotDefense` and `ReloadSemantic` put a new runtime in place, with a
freshly drawn secret (bot defense: unless `challenge_secret` is set); `Restart`
builds both again. A token is secret, address and expiry, which is what its
signature covers (an "address" stands for IP and User-Agent). The client that
runs the script of the page stores the token and may return at any time, from
another address, or never. The reload is one step here: reading the file and
assigning the runtime are apart in `ConfigSync`, and only the assignment can be
noticed by a request. A token is stored in the step that hands it out; later
storage would show as a request that arrived before it, which the model has.
`granted`, the tokens handed out, is history.

A request may be decided under one semantic runtime and pass under the next: when
the mode changes from `challenge` to `block` between the decision and the cookie
check, `HasValidSemanticChallengeCookie` lets it go on although both
configurations would have stopped it. `SemanticGate` has that as an exception.

Two cookies of one name would make a browser go from one challenge to the other
for ever; the code accepts such a `challenge_cookie_name`, the assumption
`NamesDiffer` leaves it out. Not in the model: failing random numbers, the country
block, the scoring of texts.

## 3. Runs

| Run | Shows |
|---|---|
| `rl_quota` | With one reloader, two request goroutines, two configurations with windows as long as and longer than the retention time, one policy whose cap wraps: `AdmitsWithinQuota`, `RefusesOnlyOverQuota`, and the inductive `QuotaInv`. |
| `cs_sync` | Two nodes, one broken file, an overlapping PUT and GET, a fault (which may be at a start), a crash: `RuntimeFollowsFile`, `BadStaysLocal`, `FilesConverge`. |
| `cs_if_match` | *Violation* of `IfMatchHonoured`: two PUTs with one ETag both succeed. |
| `cs_runtime` | *Violation* of `RuntimesConverge`: a runtime left behind is never repaired. |
| `rf_node` | One node, two files, PUT, two applies, GET, a fault, a crash, token expiry: `BaseFollowsFiles`, `AppliesApproved`, `FilesFollowRows`, and the refinement `ImplementsApprovals`. |
| `rf_merge` | *Violation* of `DiskLoads`: two saves, each valid, merge into files that do not load. |
| `rf_tuner` | *Violation* of `AppliedStays`: the sync takes an acknowledged apply back. |
| `ing_node` | One node that logs, rotates, ingests, prunes and shows pages: `NothingSkipped`, `RowsFollowLog`, `OneRowEver`, `PagesAdjoin`. |
| `ch_node` | A browser and a client without scripts, two bot-defense configurations (drawn and configured secret), three semantic modes, two reloads or restarts, a change of address, expiry: `BotGate`, `SemanticGate`, `ChallengedOnce`, `ChallengesEnd`. |
| `li_node` | Two requests, one of which turns pages, over a log that grows in whole lines and parts and is rotated: `IndexMarksLines`, `ReadsSucceed`, `NewestReachesEnd`, `PagesAdjoin`. |
| `hr_node` | Each of the three configurations of `HotReload` under five mixtures of PUT, GET, edits, rows of other nodes, proxied requests, a fault and a crash: `RulesFollowFile`, `OneOverride`, `HotReloaded`, `FileFollowsRow`. |
| `ing_shared` | *Violation* of `LogsIngested`: two nodes share one offset for two files, and an event is skipped. |

The violations disagree with a sentence of the repository's documentation that
the finding in `PROJECT.json` quotes; they are properties of the code, found
while writing the model.

**Bounds.** Requests, faults and crashes are counted and bounded in the guards;
clocks have a last second. The code treats nodes, goroutines, texts and keys
alike, so two of each suffice for the overlaps between them: two goroutines on a
node for overlapping handlers (the third actor is the sync), two nodes for a
race through the database, two files for a sync that stops half way. One fault
lets any one operation of a handler, of its rollback or of a sync fail; the proofs
need no bound. That all files end up equal under *two overlapping PUTs* on top of
a fault is not among the runs (it does not finish in five minutes); that runtimes
follow files then is proved. The limiter's window of two
seconds over four gives two windows and the boundary between them, that of four seconds
a window longer than a counter may stay idle; the sweep
happens at every second evaluation instead of every thousandth, and a counter
survives two idle seconds instead of 600, so that sweeps meet live counters, and also
delete one whose window is still running.
That a counter is taken back a window by a request that read the clock before the
boundary and is counted after it (`rate_limit_store.go:190`), and the quota granted
again, is in the model and excluded from the properties by `calm`.
For the event log, three events, one of them in two parts, three ticks of the
clock with a retention of one, one fault and one rotation give an event on each side of an
offset, of a page boundary and of the retention limit, a file that shrinks,
vanishes, or grows past the offset again, and a log read again after rows of it expired. For the line index, `MaxChanges` bounds events, split lines and rotations together to
four, with pages of one line and one tick: enough for a line on either side of a stat, of the
index's end and of a page, for an append in the tick of the last one and in a later one, and for
a rotation between any two steps. In `HotReload` a behaviour has one of the `Budgets`,
which say how often each thing may happen: everything that two loads need to overtake one
another (two slots, an edit after an edit or a PUT, a failed load or write) is in one of
them, and so is each pair of a writer of the row and a writer of the file; all of them at once
would not finish.
For the pipeline one worker is enough
for the runs: requests share nothing that they write except the browser's cookies,
and one that arrives while another is served is, for both, one that arrived before
or after; the proofs are for any number. One kind of request with a score at the
block threshold meets every mode; a TTL of one second and a clock of two give a
token in time, in its last second and too late.

**Fairness.** `FairSpec` assumes that a started handler goroutine goes on
(`WF` of each handler's steps), and that a node's start and sync loop go on
(the ticker of `StartStorageSyncLoop` fires for ever, the container runtime
restarts a process). Clients need not send anything and no operation has to
fail or succeed for ever: failures are bounded by `MaxFaults`, so the liveness
properties say what holds after the last one; but a fault at a node's last start ends
its syncs (`Syncing`), and then nothing is promised of that node. Nothing is assumed about the
order of goroutines. The models of the syncs take `WAF_DB_SYNC_INTERVAL_SEC` as
at least 1: with 0, its default, the loop is not started and nothing converges
before a restart. In `HotReload` the watcher's goroutine, a timer that was set and a load under way go on
as well (they are goroutines of the process), while nobody has to edit, request or crash. In `Pipeline` only requests that were begun go on. Its clock has a last second, so
`ChallengesEnd` speaks of a browser whose tokens do not expire any more; in the
program it is challenged again each time they do.

## 4. Proofs

All theorems hold for every value of the constants that satisfies the
assumptions next to their declarations.

- `RateLimitProof`: `TypeCorrect`; `QuotaInvariant` and `QuotaRespected`
  (`AdmitsWithinQuota`), for windows of any length. `AdmitsWithinQuota` is not
  inductive: one has to know that the counter still covers what was let through.
  `QuotaInv` says that, in an epoch in which requests were counted in clock order, a
  key lacks its counter only after it was silent for longer than `Retain`
  (`CounterKept`); that otherwise, whenever something that counts was let through in
  the window of the latest reading, its counter has that window or a later one and
  counts at least as much, and the key's last request lies in that window
  (`CounterCoversWindow`); and that nothing was let through in windows ahead
  (`NothingAhead`). A window within `Retain` that is still running cannot contain such
  a silence, which is why the sweep spares its counter; for a longer one the silence is
  what `remembered` drops.
- `RefusalsJustified` (`RefusesOnlyOverQuota`), provided no reload changes the
  window length of a policy ID (`UniformWindows`). The invariants under it are
  `CallsPick` (a call that waits for the lock carries a policy and key of some
  configuration) and `CountsAdmitted` (no counter stands above what was admitted
  in its window since the last reset).
- `ConfigSyncProof`: `TypeCorrect`, `RuntimeFollows` (`RuntimeFollowsFile`) and
  `BadContained` (`BadStaysLocal`), the last through the invariant that a text
  a handler or sync carries to a file is valid or the node's own.
- `RuleFilesProof`: `TypeCorrect`, which includes that a base WAF was built from
  files that load; `ApprovalsHold` (`AppliesApproved`), through `GrantsIssued`:
  an entry in a node's approval store was issued by that node for that proposal,
  expires TTL seconds after, and was not spent; `BaseFollows`
  (`BaseFollowsFiles`), where a step concerns one node only (`StepOf`), so that
  one has to look at the node of the acting goroutine alone: the step either
  assigns a base WAF and notes whether the files have changed meanwhile, or
  changes a file with a reload still to come, or records that there is none.
- `ApprovalsImplemented` (`ImplementsApprovals`): what a stored token is good for is
  known from the invariants of `ApprovalsHold` (it was issued, is not spent, has its
  expiry); with them each step of `RuleFiles` is an issue, a begin, an end or a tick of
  `Approvals`, or leaves the mapped variables alone.
- `HotReloadProof`: `TypeCorrect`; `RulesFollow` (`RulesFollowFile`); and
  `OneOverrideHolds` (`OneOverride`), through the invariant that whatever was served is
  what the cache of override WAFs holds. `RulesFollowFile` is not inductive: a load that
  read an old text can still put it in force, long after the rules agreed with the file.
  `Following` adds that a load whose file has not changed since holds what the file
  holds (`FreshLoads`), that while any other load is under way another load of the file
  is to follow, or the late one is known to be overtaken (`LateLoads`), and that nothing
  runs beside the first load of a start (`Starting`).
- `PipelineProof`: `TypeCorrect`, `BotGateHolds` (`BotGate`) and
  `SemanticGateHolds` (`SemanticGate`), through `CookiesGranted`: every token in a
  client's cookies, and in the cookies a request carries, was handed to that
  client by the check whose cookie it is, and expires no later than the grant
  says. That a cookie's name tells the check needs `NamesDiffer`.
- `ChallengedOnceHolds` (`ChallengedOnce`), the converse of the gates: a browser that
  holds a token of the runtime in force is not challenged again. `Lasting` ties the
  expiry in a token to the time it was granted for, so that a token within its time
  verifies; `TokenAssumption` says that the empty cookie is not a token.
- `EventLogProof` has no theorem of its own. Its lemmas say that a log that is not
  rotated only grows, in the order of its events (`LogOrder`), which events a reading
  from an offset yields and that a longer log yields the same up to the old end, and
  what `PageBounds` guarantees. Both modules below use them.
- `IngestProof`: `TypeCorrect`; `NoEventTwice` (no event has two rows, the first half of
  `RowsFollowLog`); and `OneRowHolds` (`OneRowEver`), for any number of nodes.
  Rows get their ids at the read and their place at the commit, so the typing invariant
  has to say that the rows a sync is about to insert are apart from those stored and
  from those of any other sync (`PendingApart`). `OneRowEver` rests on that and on
  `LifeInv`: a row that once was and is no more has expired, and has for good since the
  clock does not go back; a row that a commit adds has not expired, so its event never
  had another.
- `NoneSkipped` (`NothingSkipped`), `RowsFollow` (`RowsFollowLog`) and `PagesFollow`
  (`PagesAdjoin`) have the hypothesis `OneNode`. It is what the code justifies: with
  several nodes on one store they share the offset, and the run `ing_shared` shows
  `LogsIngested` violated. `NothingSkipped` is not inductive, because a sync carries its
  offset from one step to a later one, across appends and rotations. `SkipInv` adds
  that the offset does not cut a line in two without the event being known as torn
  (`Accounted`), that a sync under way resumes at the offset or from the start
  (`Resumes`), and that what it has read covers the log from there to its end
  (`HasRead`). `OrderInv` says for the order of rows that whatever is pending has later
  ids and, in a log never rotated, later events than what is stored, unless torn or
  expired. `PageInv` says that the page shown is what its bounds select from the
  rows, until one is pruned: later rows do not move it since their ids are higher.
- `LineIndexProof`, for any number of nodes, clients and browsers: `TypeCorrect`,
  `IndexCorrect` (`IndexMarksLines`), `ReadsCorrect` (`ReadsSucceed`), `NewestCorrect`
  (`NewestReachesEnd`) and `PagesFollow` (`PagesAdjoin`). A mark is a byte, a page is
  bounded by numbers of lines, and the two are tied together by `LineNo`, how many line
  ends come up to a byte. The invariant `Good` speaks of logs that were not rotated and
  indexes that were not mixed: the index and what a request holds of it mark the lines
  of the log up to some byte (`Covers`), no less than the size of their stat; the lines
  a request is about to read are the page its bounds ask for of the lines up to such a
  byte (`Located`); and the index of the node never ends before what a request took
  from it or a browser shows (`Ahead`, `PageBefore`). The last is what `PagesAdjoin`
  rests on: were an index replaced by a shorter one, the next page could begin before
  the end of the page shown.

Only model-checked are the liveness properties `FilesConverge`, `FilesFollowRows`,
`HotReloaded`, `FileFollowsRow` and `ChallengesEnd`: liveness under fairness, and ENABLED,
are beyond the prover. Every other property of a passing run has a theorem. That a
property is violated (the runs that expect it) is TLC's to show.

## 5. Not modelled

- *Environment configuration, API key.* Parsing at the start and one header comparison;
  no state. What they decide (strict mode, number of nodes, TTLs) are constants or
  initial states of the modules.
- *Admin web interface, nginx, containers, scripts.* Outside the Go program. Of the
  interface, the cursors its log page sends are in `LogPages`; of the deployment, the
  restart policy is in `RuleFiles` and `HotReload`.
- *Text.* The parsers of rules, CIDR, regular expressions, JSON and SecLang, the score
  that semantic patterns give a request, the cache headers a rule asks for, the names of
  CRS files: the modules distinguish texts that load from texts that do not, and the sets
  of requests they cover. Most of it is character by character work on one string, where
  a model would be the program again; the unit tests are the better tool for it.
- *Aggregates of the log* (`BuildLogsStats`, `StatusSnapshot`): one SQL query each over
  the stored events, whose correctness is SQL's; the syncs they start are in `Ingest`.
- *Proposal provider and audit log of the tuner.* An HTTP call whose answer is any
  proposal, and lines appended after the fact.

## 6. Plan

Built so far, in this order: rate limiter, configuration protocol, rule files and tuner,
event log and ingest, challenges of the pipeline, line index, watched configurations with
the override WAFs, the abstract approvals; then the proofs of every safety property that
the passing runs check.

Next:

1. Refinements: `Ingest` on one node implements a store of events that takes each event
   once, in the order of the log, and drops it when it has expired; `ConfigSync` with
   PUTs one at a time implements an atomic register. The invariants of `IngestProof`
   and `ConfigSyncProof` are what the steps need.
2. First-match lookup of cache and bypass rules as operators, against a definition of
   what the first matching rule is.
