# Verification of second-brain-runtime-test

TLA+ specifications of this repository's stateful core, TLC runs that check
them on small instances and TLAPS proofs of what matters most. Line numbers
refer to the sources at the commit the project was written against; paths are
relative to the repository.

## 1. The system and its components

The repository holds three programs. *trading_runtime* runs an intraday paper
trading day from scheduled slots, with a private GitHub repository as its only
durable state. *trading_research* downloads and freezes market data, runs
preregistered experiments on it and keeps a ledger of every trial. The
*bridge* (`scripts/process_private_bridge_queue.py` and its workflow) turns
requests in the private repository into evidence records.

| component | state | operations | hard behaviour | what makes it correct |
|---|---|---|---|---|
| private store (`private_store.py`, `lock.py`) | files in a private repository, each with a revision | read, append-only create, merge of a projection (read, transform, conditional write, three rounds), slot claim | several writers, the owner's edits, a write whose answer is lost or that is applied late, a caller that dies | an acknowledged write stays; one claim has one winner; nobody else's part of a projection is reverted; giving up means contention |
| paper execution (`executor.py`, `reconcile.py`, `policy.py`, `risk.py`) | intents, ownership ledger, broker orders and positions | submit an entry, cancel and close everything before the close, reconcile | overlapping runs, checks that are stale when used, partial fills, legs that fill while being cancelled, an account shared with its owner, crashes between two writes | every order attributable; no double submission; never short; limits and daily risk hold over all runs; a clean report is true |
| slot runner (`runner.py`, `slots.py`, `handoff.py`, `journal.py`) | claims, handoffs, current state, progress records | scheduled run, manual run: claim, work, handoff, state, progress, notification | processes overlap and overtake each other, die or lose an answer after any step, use the time they were started at | nothing performed twice; the newest run wins; handoff, state and progress agree; notification after completion; no claim goes unanswered |
| command line, notification (`cli.py`, `notify.py`) | none | commands, summary and failure messages | an error after the claim | an error is reported |
| broker adapters (`alpaca_client.py`, `simulation.py`) | orders, positions | query, submit, cancel, close | duplicate ids, accepted orders whose answer is lost | an id is accepted once; only the whole position is closed |
| market inputs (`market_calendar`, `market_data`, `watchlist`, `universe`, `news`, `strategist`) | none | queries and filters | none of interest | fail closed |
| diagnostics (`diagnostics.py`) | report, readiness projection | probes between two safety checks, readiness merge | readiness computed long before it is published | readiness never overtakes a newer one, never says "ready" |
| bridge queue (`process_private_bridge_queue.py`, workflow) | request files with retry state, evidence files, git history | load, group by canonical URL, process with a time limit, write evidence and delete requests, back off, quarantine, push | publication only at the end, pushes that race with the owner, batches and backoff | no request lost; quarantine only after the limit; an eligible request is eventually taken |
| evidence collection (`process_public_social_*.py`) | one source's files and evidence in a worker process | captions, acquisition routes, Gemini requests, local sensors, the quality gate | any route or sensor may fail, a worker is lost at its time limit, later answers meet earlier evidence | found evidence is not lost to a later answer; a bounded number of model requests; an accepted record has evidence of its own |
| dataset archive (`archive`, `downloader`, `dataset_cache`, `restore`) | objects, checkpoint, frozen snapshots | fetch a page once, complete a chunk, audit, freeze, verify | crash between object and checkpoint, pagination loops, an audit beside a running download | a complete download verifies; nothing named is forgotten; a snapshot is what its report accepted |
| dataset quality (`coverage`, `finalization`, `remediation`, `v2_history/adapter`) | gap reports, masks, views | report gaps, mask them, audit a view | four programs judge the same hole by different rules | no hole counts as data |
| research experiment (`experiment`, `splits`, `cloud`, `reports`) | claims on the out-of-sample sample, evidence records | select, claim, evaluate once | claims in two places, check long before use, the owner changes the law meanwhile | one evaluation per place; every result traceable to selection and claim |
| trial ledger (`v2/ledger`, `v2_history/development_runner`, `v2_history/audit`) | hash-chained events, a lock file, outcomes | begin and finish a trial | a dead writer's lock, errors between outcome and event, overlapping runs | each slot consumed by one identity; attempts numbered and ended once; exposure announced |
| simulators (`simulator`, `v2/simulator`, `v2/clock`, `v2/fills`) | none | bars to trades | boundary bars, halts inside a bar, missing bars | no trade rests on a hole; every position ends in time |
| features, metrics, gates, configuration | none | numbers, schemas, filters | none a small instance shows | - |

How they interact: `cli` starts one `Runner` process per invocation; the runner
claims a slot in the store, builds a `PaperExecutor` for the slots that trade,
and the executor reads and changes the broker's orders and the ledger in the
store. Processes share nothing but the store and the broker. Research and
diagnostics write append-only evidence through the same store. The bridge shares
only the private repository. There are no threads outside the bridge's worker
pool, and no callbacks: all concurrency is between processes, people and
services.

## 2. Modules

| module | models | relation to the code |
|---|---|---|
| `AtomicStore` | what the store promises | abstract specification: a call takes effect at most once, atomically, on the content of that instant |
| `PrivateStore` | `private_store.py` 57-149, `lock.py`, the server of `simulation.py` 31-54 | one action per GET, PUT at the server, answer, failure; refines `AtomicStore` |
| `PaperExecution` | `executor.py`, `reconcile.py`, `policy.evaluate`, the broker of `simulation.py` 113-236 | one action per store or broker access of a run, plus broker fills, the owner, the clock |
| `SlotRunner` | `runner.py` 47-277, `slots.py`, `handoff.py`, the end of `cli.py` | one action per durable effect of a run |
| `Acquisition` | the worker of one source (`process_public_social_full_v3.py`, `_v2.py`, `_batch.py`) and `build_evidence_record` of the bridge | one action per route, sensor or request |
| `BridgeQueue` | `process_private_bridge_queue.py`, the job of `private-evidence-bridge.yml` | one action per git command that others can see, plus the owner and the hours |
| `ArchiveDownload` | `downloader.py`, `archive.py`, `dataset_cache.py`, `coverage.py`, `restore.py`, the conditions of `finalization.verify_completed` | one action per file that is published |
| `ManualJobs` | `diagnostics.run_diagnostics`, `cloud.run_cloud`, the local research commands | one action per read or write of the repository |
| `DevelopmentTrials` | `v2/ledger.py`, `v2_history/development_runner.py`, `audit.immutable_json` | one action per file operation of a run |
| `DevelopmentDay` | gaps, mask, view, structural audit; `v2/clock.py`, `v2/signal.py`, `v2/simulator.py`, `v2/fills.py` | one action per program, then per bar of a trade |
| `*_proofs` | - | theorems of the modules they extend; `Research_proofs` extends two, `ManualJobs` and `DevelopmentDay`, whose names are kept apart (`DayInit`, `DayNext`, `DaySpec`) |
| `MC*` | - | constants and symmetry for TLC |

`PrivateStore`, `SlotRunner` and `PaperExecution` stack: `PrivateStore` proves that
a create or a merge is one atomic effect that may happen although its caller
heard an error, and the two others use exactly that as one step with a fault
(`GotoOrDie`, `Abort`). `SlotRunner` treats what a slot does as one step that
completes or fails; `PaperExecution` is that step in detail. `BridgeQueue` and
`Acquisition` stack in the same way: what the queue calls accepted or refused is
the `record` of `Acquisition`. `ArchiveDownload` ends with snapshots;
`DevelopmentDay` begins with the holes of a verified archive, and
`DevelopmentTrials` is the run in which those days are evaluated.

### PrivateStore
`projection` and `records` are the files, `pc`, `rounds`, `call` a call in
progress, `request` and `net` its PUT on the way. The ledger reservation of
`executor.py` 102-106 is the transform; `owner` stands for whatever else the file
holds. A revision is a function of the content (`Sha`), as a git blob's hash is:
content that returns to an earlier value gets its revision back, which the
model keeps. The server refuses a write only over the file's own revision, as
`simulation.py` 47-50 does; a conflict caused by a commit to another file is not
modelled. `Fail` ends a call at any moment without recalling its request;
`ServerUpdate` and `ServerCreate` may then still apply it. A request that is
never applied is a lost one, so loss needs no action.

### PaperExecution
`pc[r]` names the statement a run is at, `stage[r]` which of the reconciliations
it is in, `snap[r]` what it has read. Reconciliation is four reads at four
instants, merged to three steps: positions; open orders together with the
ledger; the exact orders together with the intents and the decision that
follows. The exact orders of several entries are read at one instant.
A share risks one unit, lost at a stop and not at a target; every entry has
`Qty` shares and any entry may always be refused, which covers prices, sizing,
quotes, assets and strategy qualification. The legs of a bracket are one order,
since the broker cancels one when the other fills. An order that was reserved
but never accepted, a position of the owner in the same symbol, and an order of
the owner are all there.

A late application of a write (after its caller died) is left to
`PrivateStore`: here a write takes effect before its caller dies or never.
The day's slots fall due one after the other and once each (`phase`), and a run
starts in its slot; how long it then takes, and how runs overlap, is left open.
Overlapping entry runs are kept apart
because a reservation without an order blocks every other run through
`UNRESOLVED_ORDER_INTENT`, which is also the cause of the finding below.

### SlotRunner
A slot's `claims`, a run's `handoffs` and `progress`, and the `state` projection
with the time of the run that wrote it. `now[p]` is fixed at the start, as in
the code. Manual runs have fresh ids and no claim. Journal events and
watchlists are written by nobody else and read by nothing here, and are left out.

### Acquisition
`kind`, `reel` and `gemini` are the input, `evidence` what the sensors have found
so far, `calls` the requests sent to Gemini, `record` the parent's verdict. A
text is its length and whether it has a visual-sensitive term; frames, images and
visual items are numbers. Whatever a tool returns is chosen freely within
what its function may return (`ApiCaptions`, `YtdlpFiles`, ...). `WorkerLost` is
the time limit or a crash: the parent then gets a failed result with no
evidence at all.

### BridgeQueue
A job works on a clone (`base`, `work`, `found`) and publishes with one push;
`Rebase` replays its commit on what the owner has pushed meanwhile and stops on a
conflict. A request has a version that changes with every edit of its owner;
`taken` and `failed` are the requests a job has accepted and marked for a retry;
`latest`, `failures` and `answered` are history. Whether git can combine two edits
of one file is left open where it depends on the lines (`MayRefuse`, `Combined`).
Two URLs may share an evidence directory, and the later record then overwrites
the earlier one. Files without a usable URL, and the materialisation scripts
that live in the private repository, are left out.

### ArchiveDownload
`index` is the checkpoint, `objects` what the cache holds, `run[p].copy` the
checkpoint a process has read and will write back. Object names are hashes, so
a reference is the content it names. The lock is the operating system's: it goes
with its holder. `dataset-freeze` takes its report without the lock and freezes
under it; its second look at the references lies between the two and is part of
`AuditReferences`. `Answer` covers the provider's own retries.

### ManualJobs
`authority` stands for the owner's files, which every job reads again and again.
All guards ask of strategy and kill switch only whether one of them would let an
order through, which is `armed`; of readiness, diagnostics ask for `execution_ready`
(`Safe`), research also for `execution_enabled` (`ResearchSafe`).
A job's number is its timestamp. The probes of a diagnostic are abstracted to
what they let `readiness` claim, `select` to whether it finds a candidate. Research
reads its law (protocol, its document, policy) at its start (`Law`), compares it with the
authority before the selection and again, without the document, before the result
(`Compare`, `CompareAgain`), and writes in a step of its own (`Seal`, `Final`) what it
has read at its start. An edit between a comparison and the next write is therefore not
noticed; one between the selection and the evaluation is noticed only when the sealed
period has been consumed, and then withholds the result.
What the code does ensure is in `ResultsAreTraceable`, by way of the history `inForce`: the
parts of the law that have been in force since the last evaluation. The property speaks
of each part for itself because the files are read one after the other; the model
reads them in one step. The operator's selections are files in directories of any name,
so an earlier one refuses nothing. The cloud and the operator have
disjoint claims (`claims`, `localClaims`): `cloud.py` 22-23 looks at the repository
only, the commands of `trading_research/cli.py` 131-150 at their directory only, so
each may evaluate one protocol once, although `experiment.py` 1 speaks of at most
one out-of-sample evaluation. `EachPlaceOpensOnce` is what the code ensures.

### DevelopmentTrials
`ledger` is the chain of event files, `lock` its lock file, which a killed writer
leaves behind (`"stale"`) until the operator removes it. A writer reads the chain
under the lock and appends to what it has read (`copy`); `D1_LEDGER_OVERWRITE` could
only meet a writer without the lock. The marker of the first exposure is created
in three steps (looked for, partial file, rename), and overlapping runs can both
rename it. The ledger lock covers single events only, so two runs that
are started together may both go on; `RerunOnlyTogether` says that this is the
only way to a second exposure. `begun`, `exposed` and `met` are history.

### DevelopmentDay
Time is in ticks, a slot of a bar is `Step` ticks, halts begin and end at any tick.
Init chooses the holes of the archive, the halts and the symbols whose identity is verified; the programs then run in order:
gap report, mask, structural audit, and one intent on one day. Prices are left
out: an entry may always be refused, any bar may meet the stop or the target.
A gap is its first and last slot in the order of the schedule (`NotAfter`, `Between`).
`Overlap` counts pairs of a piece and a tick instead of adding lengths in a loop: in
the order of the pieces the cursor of `overlap_seconds` is the latest end of those before, and a
piece counts its ticks from there.

## 3. Runs

| run | instance | shows |
|---|---|---|
| `private_store` | 3 calls, 1 claim path, 2 ledger entries, 2 rounds, 2 owner edits | `TypeOK`, `AcknowledgedIsDurable`, `ExhaustedMeansContention`, `OwnerPartKept`, `ImplementsAtomicStore` |
| `paper_runs` | 2 symbols, 2 entries of 1 share, both entry runs and force_flat, 1 position, 1 unit of risk, faults | `TypeOK`, `IntentBeforeOrder`, `SubmittedOnce`, `NeverShort`, `PositionLimit`, `DailyRiskBound`, `FlatMeansFlat` |
| `paper_shared_account` | 1 symbol, 1 entry of 2 shares, 2 moves of the account's owner, 1 kill switch, faults | `NeverShort`, `FlatMeansFlat` |
| `paper_kill_switch` | 2 symbols, room for both entries, no faults | finding: `KillSwitchDoesNotBlockExits` is violated |
| `slot_runs` | 3 processes, FORCE_FLAT, RECONCILE, POST_CLOSE_REPORT, faults | `TypeOK`, `PerformedOnce`, `HandoffContinuity`, `NewestRunWins`, `CommittedBeforeNotified`, `UnnamedMeansClaimed` |
| `slot_answers` | 2 processes, no faults, fairness | `ClaimIsAnswered` |
| `acquire_source` | every platform, texts of 0, 39, 40, 500 characters, 0 to 4 visual items, 0, 1 or 5 images | `EvidenceIsKept`, `GeminiBudget`, `AcceptedIsDurable` |
| `bridge_jobs` | 3 requests for 2 URLs of one source, batches of 2, 2 retries, 3 pushes, 2 edits, 1 fault, fairness | `NothingLost`, `QuarantineIsEarned`, `EverySettled` |
| `archive_runs` | 2 processes, 2 references (one paged), 2 chunks, 1 page token, 2 pages, 1 fault | `DownloadVerifies`, `NothingForgotten`, `SnapshotIsWhole` |
| `manual_runs` | 2 protocols, 2 documents, 1 policy, 3 jobs, 2 edits, 1 fault | `EachPlaceOpensOnce`, `ReadinessHasEvidence`, `ReadinessNeverGoesBack`, `ResultsAreTraceable` |
| `trial_runs` | 2 processes, 3 runs, 3 slots (2 priced), 2 implementations, 2 faults | `LedgerSound`, `SlotSpentOnce`, `ExposureIsAnnounced`, `RerunOnlyTogether` |
| `development_days` | a full and a short day of 8 and 5 slots, 2 symbols, 2 holes, 2 halts | `MaskCoversGaps`, `TradesEndInTime` |

Bounds and why they are enough:

- `Attempts` is 2 instead of 3: running out, retrying once and winning the last
  round all happen, and the proofs hold for every value. `MaxOwnerEdits = 2`
  lets the owner alone exhaust a merge; three calls give two competitors to a third.
- In `paper_runs` the limits are 1, so that every second entry is one too many;
  with two symbols and two entry runs each limit is approached by
  two runs at once and by one run after another. One share makes every fill
  complete; partial fills are in `paper_shared_account` with two.
- `MaxUserMoves = 2` allows a trade and its reverse, a trade and an order, and
  an order that comes and goes. `MaxKills = 1` is one throw of the switch.
- `MaxTime = 2` gives an earlier and a later run; three processes give a slow,
  a fast and a third that fails. In the instance FORCE_FLAT and RECONCILE are due
  together, which the schedule document allows and the default one does not:
  it makes one process carry several slots. Symmetry over processes is used
  for the invariants only.
- `acquire_source` has no counter to bound: a source goes through a fixed number of
  steps. The values stand on both sides of every threshold of the code (40 and 500
  characters, 1 and 3 visual items, eight tenths of 1 and of 5 images).
- In `bridge_jobs` the limit is 2 instead of 4 retries, with the 3 pushes of the code; the first
  failure backs off, the second quarantines. A batch of two never takes all three
  requests, a batch can split the requests of one URL, and two records of one
  source can meet. One fault is a lost job, a refused push or an unanswered one; two
  edits can take a request away and put it back.
- In `archive_runs` two pages of one token are enough to page, to turn back and
  to run into the limit (100 in the code); one fault is a kill, a failed attempt or a
  bad answer. Larger instances passed once: two page tokens (3.9 million states) and
  one chunk with two faults (2.1 million).
- In `manual_runs` three jobs can overtake one another in a merge (`Attempts` is 2
  instead of 3), and two edits change a protocol or its document and back.
- In `trial_runs` three slots replace 26: the first announces, the last may
  or may not be priced. Three runs give an interrupted one, an overlapping one and one
  that comes later; two faults kill a writer twice or fail an evaluation and kill.
- In `development_days` a symbol may lose one slot in 5 and one day in 2
  instead of one in 1000 and one in 200, which makes both sides of each limit
  occur with two holes. Halts are shorter and longer than a slot and may overlap; exits are
  forced, fall inside halts and on the boundary.
- Deadlock is not checked: calls, runs, jobs and the day end.

*Fairness.* Two runs use it. `slot_answers`: weak fairness of each process's own
steps (`FairSpec`). A process waits for nobody, the operating system runs it, and every
remote call has a timeout (`private_store.py` 62), so an enabled step is taken.
Starting a process and the clock are not fair. The run has no faults because a
process that is killed answers to nobody; the code promises no more
(`TRADING_RUNTIME.md` 95). `bridge_jobs`: weak fairness of `JobStep` and `Tick`. The
schedule starts a job every 15 minutes, one at a time (the concurrency group), and
time passes. A job is assumed to end within its limit of 20 minutes unless it
is `JobLost`: every source has a limit of its own, but a full batch of 25 sources
at theirs would take longer, and a batch that always does so is not what
`EverySettled` speaks of. The owner and the faults owe nothing.

*Finding.* `TRADING_RUNTIME.md` 103 says "Kill switch does not block these
risk-reducing simulated exits." `paper_kill_switch` shows a day without any
fault in which it does: FIRST_SCAN holds a position, LAST_NEW_TRADE has reserved a
second entry when the owner throws the switch, the entry is refused with
`AUTHORITY_CHANGED` (`executor.py` 110-122) and its reservation stays.
Reconciliation now raises `UNRESOLVED_ORDER_INTENT` for good, and `force_flat`
returns the alert (206-214) with the position still open.

## 4. Proofs

All theorems hold for every value of the constants that meets the named
assumptions: any callers (finitely many), symbols and entries (finitely many), processes,
slots, requests, URLs, protocols and implementations; `Nobody`, `NoRun` and `None` outside
them; entry ids different from exit ids; the operator is not the cloud; no process is
named "stale"; an archive has finitely many references and chunks, numbered in the order
in which the code takes them, and its corporate actions are not the last reference
(calendar, actions, assets in `downloader.py`); lengths and counts are natural numbers
and may be 0; days, decision, delays and holding time lie on the grid of slots, halts begin before
they end and may begin and end anywhere in a day; numeric bounds natural.

- `PrivateStore_proofs`: `TypeCorrect`, `Durability`, `OwnerPart`, `GivesUpForAReason`,
  `Refinement`. The invariant `IInv` adds to `TypeOK` what each PUT on its way carries: the
  transform of the very content whose revision it bears, by a caller whose entry
  is not yet there; and that an applied call is in place. It is needed because
  durability says nothing of requests whose callers are gone, and exactly those
  could overwrite an entry. `Accounted` keeps the score of a caller's rounds: a round
  that ended in a conflict is paid for by a merge of somebody else or by an edit of the
  owner, a PUT on its way is one round ahead at most, and not ahead at all once the
  content differs from the one it was made from; content that comes back to an old
  revision only lets the PUT succeed. `Refinement` maps every step to `Begin`, `Apply`,
  `Return`, `OwnerEdit` or a stutter.
- `PaperExecution_proofs`: `Attributable`, `NeverResubmitted`, `TypesKept`,
  `PositionsBounded`, `DailyRiskBounded`, `NeverOversold`, `CleanIsFlat`, over four
  invariants. `IInv` says per
  run, at each point of its program, which of intent, reservation, order and
  submission exist for the id it works on, and that an id without intent is new
  in every respect. `IntentBeforeOrder` alone is not inductive: it does not know that
  the run about to submit holds intent and reservation and is the only one to
  hold them. `Typed` has the types, where a run can be in which slot, and that what
  force_flat is about to sell is at hand. `Limits` carries the limits: a run past its
  evaluation has every other entry that is on its way in the ledger it has read, and
  an entry without an order is an alert, so the evaluation passes for one run at a time
  and the room it found is still there when its entry arrives, however the runs overlap.
  The proof relies on what the model takes for granted of the store and the day: a
  write takes effect before its caller dies or never, the exact orders are read at one
  instant, and each slot is due once.
  `Exiting` says that force_flat cancels and sells only in a closed day (the last slot
  is due and no entry is on its way), that what still works is on its list, and that it
  sells once nothing of the entries works, so that what they hold cannot change under it. Each action is reduced to a frame lemma: a run disturbs
  no other run's id.
- `SlotRunner_proofs`: `TypeCorrect`, `NoReplay`, `Continuity`, `NoStaleState`,
  `CommitFirst`, `NoFalseReport`. `IInv` says who owns a run (the claimant of its slot, or the
  process itself), that records exist only for runs that were begun and in the
  order handoff, state, progress, and that their outcome is the owner's. `LooksInv`
  follows the report between its two looks: claims are never taken back, so what it has
  found claimed stays so.
- `Research_proofs` (both research models), for `ManualJobs`: `OneEvaluation`, `Evidence`,
  `Traceable`, `NeverBack`. `ManualInv` says
  what each step of a job has made durable: behind the seal its selection, behind
  the claim its claim, before the merge its report, before a local evaluation the
  local claim; that a protocol has one claim; and what is known of the law: while a job
  compares, `inForce` has all that is in force now, and once it has compared, all that it
  compared, since nothing but a new evaluation takes from it. `EachPlaceOpensOnce` alone does not
  know that the job about to evaluate is the only one to hold its claim.
  For `DevelopmentDay`: `HolesAreMasked`, `TradesEnd`. `DayInv` says what each program has
  handed on, that an open position is of a symbol whose day is not excluded and fits before the
  force-flat time, and that its clock runs on the grid of its entry. Three lemmas carry it.
  `GapsAreHoles`: what `gap_inventory` expands is exactly what was missing, because a hole lies
  between a first and a last slot of its run (so its `REMEDIATION_GAP_COUNT_MISMATCH` cannot
  happen with the coverage of `verify_completed`). `OverlapCounts`: `overlap_seconds` is the
  number of halted ticks, however the halts overlap, because a tick belongs to the first
  piece that reaches it and the cursor keeps it out of the later ones. `Boundary`: what
  `exit_boundary` returns, by the slot before it. From them follows that the two rules for
  halts agree where they must: a slot inside one halt is fully halted, so the audit
  explains every hole that the mask leaves, and a bar that a position misses is halted.
- `DevelopmentTrials_proofs`: `SpentOnce`, `Announcement`, `NoSilentRerun`, `ChainIsSound`. `IInv` says
  that who works under the lock holds it and has read the chain as it is
  (`Holding`), that the marker is there behind the first evaluation (`Announced`), that
  an attempt is in the ledger before its evaluation (`Attempted`), and that whoever
  found the ledger empty was active together with every run that began since
  (`Passed`, `Together`). Each action is reduced to `StepKeeps`, what a step of one
  run leaves to the others. `ChainIsSound` compares the count of the attempts of a
  trial before and after one event (`GrownSound`).
- `ArchiveDownload_proofs`: `ForgetsNothing`, `FrozenIsWhole`, `Verifies`, over four invariants.
  `IInv` says of a process that works: it holds
  the lock, the checkpoint it will write back is the one that is there (`Read`), and
  the chain and the request it is at are not named yet (`Pending`). `WInv` follows the
  pages of a chain: the pages of the checkpoint lie on one walk from its start, complete
  where a later chain has begun, and a process that pages is at its end. `RInv` holds a report
  against the checkpoint it was made of: what it has accepted is still there, because
  nothing is forgotten, and nothing was added to what it found complete. `OInv` says
  which saved object and which receipt belongs to which page. A walk, which the model defines by
  recursion, is shown to exist and to be the only one by its shortest counterexample.
- `BridgeQueue_proofs`: `NoRequestLost`, `QuarantineEarned`. `IInv` compares, file by file, the copy a
  job works on with the queue its commit is based on: a request is as it was, or one
  failed attempt further, or gone with its version accepted and a record found. The
  job's own lists of what it accepted and what it marked (`taken`, `failed`) are part of it,
  because that cannot be read off from the two queues once a rebase has moved the base
  to what the owner has made of it.
- `Acquisition_proofs`: `WithinBudget`, `AcceptedHasEvidence`, `NothingFoundIsLost`. `IInv` says
  which platform takes which steps (`Staged`), what has been found and asked before each of them
  (`Gathered`), and that until Gemini has answered the evidence is what the first
  request was decided on (`Decided`): without it the focus pass might be the first answer.

Every invariant was first checked by TLC on the instance of its run.

What recursive definitions compute cannot be proved by the library's induction
theorems, whose predicates are operators. Where a proof needed it (sums over finite sets in
`PaperExecution`, walks along pages in `ArchiveDownload`), the fact is
proved for a smallest counterexample instead, with the well-foundedness of the naturals.

Only model-checked: `ClaimIsAnswered` and `EverySettled` (fairness, ENABLED). Every other
property of a passing run is a theorem.

## 5. Not modelled

Transports, encodings, path rules, schemas, message texts, statistics: no
state, or data that no property distinguishes. The real broker adapter refuses
every mutation (`alpaca_client.py` 114-124), so execution is modelled against the
contract the repository itself simulates. 
What `DownloadVerifies` excepts is what the code leaves behind: a complete answer that
was refused has a receipt without a page (`downloader.py` 74), and paged
corporate actions are downloaded but not accepted by `verify_completed`. Of the
remediation the targeted evidence queries of `scripts/trading_remediation_local_run.py`
with their attempt reservations, `freeze_view` and `verify_view`, and the assembly
in `scripts/trading_remediation_finalize.py` are left out; so are the simulator of
version 1, `run-candidate`, the batch mains of the social scripts, plans and retention
of datasets, features, metrics, gates and every statistic.

What happens on the next trading day
(the ledger is never pruned) and a second round trip in one symbol beyond what
two entries allow are bounded away. `PROJECT.json` lists each component with
its status and each hazard with the property that covers it or the reason
that none does.

## 6. Plan

In order of weight.

1. The evidence queries of the remediation: attempts that are reserved before they
   are sent, and a run that resumes.
2. The simulator of version 1, bar by bar like version 2.
