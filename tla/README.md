# Side: TLA+ models of the paper trader, its risk gate and the studies behind it

`side` is a research and paper-trading system: a Rust engine with backtests,
walk-forward validation and scanners, a paper-trading daemon, a data mirror,
and Python scripts for a risk engine, evidence and research. This directory
holds TLA+ modules of the parts that keep state across time, processes and
failures; TLC checks them on small instances and TLAPS proves theorems about
them for every instance.

## 1. Inventory

| part | source | state | operations |
|---|---|---|---|
| paper trader | `rust/side-engine/src/paper/{mod,position,db}.rs` | SQLite tables (positions, trades, breakdowns, ledger, events, snapshots); in memory realized profit, slot equities, the last net close | a tick: preflight, margin liquidations, one signal per slot, snapshots |
| paper daemon | `rust/side-cli/src/cmd/{paper,risk_gate}.rs` | artifact files; in memory the gate's decision, size overrides, ticks in flight | risk gate per slot, overrides, initial and hourly ticks, shutdown |
| risk artifacts, cost model | `rust/side-engine/src/paper/risk.rs` | none | candidate identity, sizing guard, action per decision class, cost estimate |
| OHLCV cache | `rust/side-engine/src/fetcher/{dukascopy,cache}.rs` | one CSV file per symbol and timeframe | load, plan the delta, fetch, merge, save |
| mirror | `rust/side-mirror/src` | `last_fetch_at`, CSV files | fetch passes with retries, HTTP handlers |
| risk gate | `risk/engine.py`, `scripts/evaluate_risk_gate.py`, `scripts/validate_risk_contract.py` | one artifact per `--out`, created once | evaluate rules by precedence, write, validate, exit; the Rust caller reads exit status and artifact |
| evidence generators | `scripts/generate_*_evidence.py` | reports and artifacts in a git checkout | scope guards over git's listings, replays of gated commands, checks, JSON then Markdown |
| v5.1 tick imbalance study | `scripts/v5_1_*.py` | BigQuery tables, report files | features, anchors, quotes, cells, family-wise correction, verdict, audit |
| v5.2 source study | `scripts/v5_2_*.py` | report files, raw datasets | source selection, ingestion, row audit, claim verdict, closure |
| other sources | `rust/side-engine/src/fetcher/*` | none | one HTTP request or file read each |
| backtest, walk-forward, portfolio | `rust/side-engine/src/{backtest,events,wfd,validation,portfolio}.rs` | none that outlives a run | pure functions over bars |
| gated commands | `rust/side-cli/src/cmd/{scan,backtest,report,risk_gate}.rs` | candidates, decisions, scan outputs, reports | stage a candidate, call the gate, deliver a row with its decision; rank and count the rows of a scan |
| strategies, indicators, search | `rust/side-engine/src/{strategies,indicators}.rs`, `scanner/` | none | floating-point functions and searches |
| adapters, other commands | `rust/side-cli/src/cmd/*` | none | one-shot commands |
| drawdown gate, sizer | `scripts/v4.10`, `scripts/v4.9` | a state per equity curve | per-trade transitions |
| other research, report validators | `scripts/` | none | batch jobs |

How they interact. The daemon calls the gate script once per slot at its start,
hands size overrides to the trader, then fetches bars through the cache and
calls the trader's tick, under one lock, at its start and on every hour. The
mirror's passes call the same cache function from another process. Docker and
systemd restart daemon and mirror whenever they exit; SQLite and the files are
all that survives. The evidence generators run backtests, scans and the paper
daemon under gate policies of their own and read each other's reports; a study
is a row of scripts, each reading what the ones before it left in BigQuery or
under `reports/`, started by hand. `scan --edges` and `backtest` call the gate script for
each slot as the daemon does, and `report` reads the file a scan left.

What is hard. A tick is up to a dozen separate commits, and a crash or a failing
statement may fall between any two; memory then no longer matches the tables.
Accounting mode and cost model may change from one start to the next over the
same tables. The gate leaves three files per slot, in two languages, and may be
interrupted or retried anywhere. The cache file is rewritten in place with no
lock while others read it, and the bars it holds depend on when it was written.
Gates race for one path, and a gate outlives the command that started it; two
commands may stage candidates of the same id. Generators and studies run over files of different
ages: nothing on disk says which run a file is of, what it was built from, or
that a later run broke off.

What makes each part correct:

- trader: positions and trades agree; an accounting row never stands for
  anything but the close it names; a breach is resolved, or reported; what memory
  says is what was written; no net figure without a cost model;
- daemon: no tick past a stop, no size but the one on file, artifacts are
  evidence, so never rewritten;
- cache: a bar taken from the file is the bar the server would give now, though
  calls of different days share the file;
- mirror: a failing pair does not hold up the others, health tells the truth;
- risk gate: the most severe rule wins, whatever is malformed fails closed, and
  who goes on has its own artifact;
- gated commands: a row that reaches a reader carries the decision made in its own
  run on its own candidate, and nothing stopped is passed off as run;
- evidence generators: a ready report was earned by the run it names, on the
  checkout as it is;
- studies: numbers are those of the ticks, in-sample numbers do not see sealed
  months, and a closing verdict rests on a whole, untampered chain.

`PROJECT.json` lists the places where each can go wrong ("hazards") and the
property that watches it.

## 2. Modules

| module | models | composed with |
|---|---|---|
| `PaperTrader` | one trader process over its tables, tick by tick | refines `PositionBook` |
| `PositionBook` | what the trader promises: a slot is flat or long, fills flip it, all are on record | |
| `PaperSafetyProofs` | type correctness of `PaperTrader`, fills, refinement of `PositionBook`, failing closed, margin | |
| `PaperAccountingProofs` | accounting rows, ledger, snapshot sources, books | extends the former |
| `PaperDaemon` | the process around the trader: gate, artifacts, ticks, shutdown | |
| `PaperDaemonProofs` | theorems of `PaperDaemon` | |
| `FetchCache` | concurrent calls of `fetch_ohlcv_cached` on one file | |
| `FetchCacheProofs` | theorems of `FetchCache` | |
| `RiskGate` | any number of gate processes, the validator, and the caller that spawned each | stands for the free decision of `PaperDaemon` |
| `RiskGateProofs` | theorems of `RiskGate` | |
| `GatedCommands` | scans, backtests and reports at work beside each other in one checkout | its gate stands for `RiskGate` |
| `EvidenceScope` | git's listings and the guards over them | used by the next |
| `EvidenceReplay` | what a replayed command shows, and every check of it | used by the next |
| `EvidenceChain` | edits, commits, and eleven generators run, raising or killed over one checkout | |
| `EvidenceChainProofs` | theorems of the three | |
| `ImbalanceCells` | the SQL of the v5.1 study as operators on sets | used by the next |
| `ImbalancePipeline` | its commands over tables and reports, with a backfill between them | |
| `ImbalanceProofs` | theorems of the two | |
| `SourceRows` | scans, row contracts and book warnings of v5.2 | used by the next |
| `SourceChain` | the five v5.2 scripts over their reports | |
| `SourceChainProofs` | theorems of the two | |
| `MC*` | constants for TLC | |

### PaperTrader

One action is one SQLite statement or transaction with the memory updates that
follow it, because that is what a crash can separate. `pc` is the place in
`tick_with_data`: `margin` (the margin check's loop), `ledger` (a gross close
has committed, its ledger row has not), `signal` (the slot loop), `equity` and
`source` (a slot's snapshot row and its source row), `portfolio` (the portfolio
snapshot's source row). `slot` is 0 in the margin phase, then the loop's index.

| code | actions |
|---|---|
| process start and restart, overrides applied | `Start`, `Crash` |
| `tick_with_data` up to the preflight | `BeginTick`, `RefuseTick` |
| `check_margin_and_liquidate...` | `LiquidateGross`, `LiquidateNet`, `LedgerInsert`, `MarginDone` |
| slot loop, `process_signal...` | `SkipSlot`, `RefuseClose`, `Enter`, `Stay`, `ExitGross`, `LedgerInsert`, `ExitNet`, `EquitySnapshot`, `EquitySource` |
| `record_portfolio_snapshot` | `PortfolioSnapshot`, `PortfolioSource` |
| a statement fails | `StatementFault` (noted, the tick goes on), `UnbookedClose` (the close commits, reading it back fails), `AbortFault` (`?` ends the tick) |

The signal of a strategy, the latest close and whether 50 bars are there are
inputs, chosen per slot and tick. Prices, sizes and profits are integers;
`Gross` truncates where the code has a float. The order in which the margin
check meets positions is left open: SQLite gives none. Row ids are positions in
the sequence.

The `ticks` table is written and never read, the health file and the summaries
held for it are read by no part of the system: they are left out.

### PaperDaemon

The three artifact directories are sets of records with an `id`. An id is a hash
of the slot and a fingerprint of the configuration; the fingerprint hashes a
`HashMap` in iteration order, so a restart may or may not get the ids of the run
before, and two slots that differ only in leverage share one: `Identities` is
the set of id assignments a start may come to. A tick is one step, since
`tick_with_data` awaits nothing; ticks wait for the trader's lock in any order
(`inflight`). A file torn by a crash inside `write_all` is not distinguished
from a whole one: nothing reads it again, it only makes a retry refuse.

### FetchCache

Time is integer; every unit of an open hour brings one tick, a bar is its
datetime and the set of ticks in it, so "right" means exactly the ticks of its
period. A save is three steps (truncate, part of the rows with the last perhaps
cut in its last field, the rest), each of which may be the last. `Begin` may find
the file expired or unreadable and treat it as empty. Hours that answered 404 or
503 are remembered in the history variable `refused`.

The days are an argument of each call (`days \in Windows` in `Begin`,
between `Narrowest` and `Widest`) and not part of the file's name. A call with fewer days
shrinks the file to its window, and for bars longer than an hour the first row it
keeps may be short of its first hours; a call with more days never gets what lies
before the first cached bar, since the delta starts at the last but one. `reach`
is where the bars begin that a call can be sure of. Paper traders use
`data/cache`, the mirror `data/mirror`, so that the days on one file differ when two
paper configurations share a pair or a configuration is changed.

### RiskGate

A gate is a process with a place `pc`, a job (bundle and path, later the artifact
in memory) and an exit status; `disk` holds what is at each path, with who wrote
it. Creating the file (`open(..., "x")`), filling it, validating it and exiting
are steps of their own, since another gate or a kill may fall between them. The
caller's step reads the exit status, then the artifact. The evaluator is a set
of operators: a rule matches, the matching rules are ordered by `Severity` and
position, and v1 and v2 differ in vocabulary and in the contract fields. What an
input may lack is one value per place that notices: evaluation raises, or only
the validator sees it. A size is an integer or NaN, of which every comparison is
false. Live contracts are never made by the gate; they reach the validator by
hand (`Fixtures`). In the caller, a cap applies in v1 as in v2, as in `paper.rs`. Texts, error codes and timestamps are left out.

### EvidenceScope, EvidenceReplay, EvidenceChain

A path stands for a directory or file some guard tells apart, a git state has
commits, an index and a working copy. `EvidenceScope` builds the four listings
(`git diff`, `--cached`, `<base>..HEAD`, `ls-files --others`) with `.gitignore`
and renames, and each guard's accepted set. `EvidenceReplay` gives a row for
each gated command: what output and artifact show under the behaviour a source has,
and the checks each generator makes of the rows. A runtime may be as published, as
it was before v2, one of a few that are wrong in a known way, or `broken`: then it
answers each decision by any row of `Broken`, which the theorems leave open and the
run fills with rows that are wrong in any one field, that ran in full what was
stopped, or that ignore the decision. In `EvidenceChain` a
run replays and judges in one step, then writes JSON, then Markdown, then exits;
it may raise before, be cut after some replays, or be killed at a file, which is
then torn. The actions `Render54` to `RenderAudit` are the statements that write the
Markdown; what the text says is not modelled. The published checkout lacks `docs/plans`, `.planning` and most of
`reports`: it is one of the three starting points, a full working tree another.

Where code and documents differ, met while modelling (the model has the code):

- The published tree fails its own v5.7 replay: the generator
  (`generate_risk_gate_closure_evidence.py:534-538`) and the unit tests of
  `risk_gate.rs` (310-328) want a v1 cap "deferred", `scan.rs:68-85` applies every cap.
- The cap checks of the v2 scan and backtest generators read neither class nor
  state of the capped row, v5.7 not the effective size: `Unseen`, below, lists
  what a ready report leaves unchecked.

### GatedCommands

A command is a process with a place `pc`, a job (the command line) and the rows it has
made; `decisions`, `cands`, `outputs` and `reports` are the files by place. What opens a
file and what fills it are two steps, so that a kill or another process may fall between;
a mixture of two writers counts as torn. `report`'s two files are one step (`Report`):
nothing reads them back.

| code | actions |
|---|---|
| flags, `bail!` before anything is written | `Start` (`Refused`) |
| staging the candidate: private for v1 scans, written by v2 scans, created by backtests | `StagePrivate`, `OpenCandidate`, `FillCandidate`, `RefuseCandidate` |
| the gate script, a child process | `GateReads`, `GateOpens`, `GateFills`, `GateFails` |
| a stopped slot's row, or the statistics | `JudgeStopped`, `JudgeContinued`, `Compute` |
| the output file; the printed row of a backtest | `OpenOutput`, `WriteRows`; `Deliver` |
| `side report` | `Report` |
| SIGKILL, any I/O error | `Kill`; the gate goes on alone (`alive`) |

The statistics (profit factor by fee, the six-gate verdict) come with the slot. `Batches`
are sets of command lines that run beside each other. `crossed` is history: it names the
places where two v2 scans staged the same candidate at one time, the one way in which a
row may rest on a decision about another candidate. It needs two scans on one artifact
root at once, which nothing prevents.

To know when reading their output:

- a capped scan row says "applied", yet its statistics are those of the full size; a
  capped backtest runs at the capped one;
- `alpha_cliff` null means that no fee of the sweep breaks the slot
  (`scan.rs:1169-1170`); `report.rs:129-134` ranks it last;
- the report's text on negative results counts stopped and relaxed slots as tested;
- `relaxed_pass` needs fee 0, which the default sweep lacks, so it is then false throughout;
- scans and backtests protect different lists of report roots.

### ImbalanceCells, ImbalancePipeline

Time is in units of 15 seconds. A statement of BigQuery is an operator from
tables to a table: events and thresholds, the grid anchors, raw stages per month,
shards and their union, quotes, cells, the Holm correction over the sealed family.
The commands are lists of statements; any of them may fail and leave what the
earlier ones made. Tables carry, for the properties alone, the generations of
events and ticks they were built from. One backfill changes the raw ticks.

Simplifications: quotes of equal time are taken to have equal mids, where the code
does not say which it takes, and a tie falls one way for a whole
statement; the probability of a cell is a step function of the integer part of
z squared, per mille; months are equally long; a command runs as a whole with
respect to the backfill; sidecar and contract are not torn; the planning files of
the audit exist. Dry-run and read-only modes change nothing and are left out, as
are the files of single pairs, which nothing reads.

Where code and documents differ, met while modelling (the model has the code):

- `docs/v5.1_tick_imbalance_claim.md` section 7 lets a cell "fail close" when an
  anchor is missing; the SQL leaves out the trades and keeps the cell.
  `missing_final_anchor_count` is computed and never checked.
- The data contract reports row counts, nulls, spreads and gaps and judges none
  of them: only a query that fails blocks the study.
- Section 2 lets a blocked data contract stop the study; `--materialize-bq`
  creates the tables nevertheless.
- The lookback windows count buckets that have ticks (`ROWS BETWEEN`), not time.
- The audit's Markdown says "20/20 v5.1 requirements map to exactly one phase"
  and its JSON has two requirements PASS whatever the traceability check found;
  a requirement that one of the two planning files lacks is not reported.
- `--pairs` rewrites the summary with fewer pairs; the verdict refuses it, the
  audit does not look.

### SourceRows, SourceChain

The reports are a function from files to nothing, a torn file or a content; a
Markdown file's content is the fields it shows. A script reads, builds its
reports in memory and writes them in order, one write a step; the ingest before
that answers request by request with rows, no rows, a refusal that it catches
(HTTP errors, `OSError`, a cut gzip) or an error that it does not (`zlib.error`,
`UnicodeDecodeError`, `HTTPException`). An `OSError` of writing the raw file is caught in
the same place: the request is on record as blocked, and the raw file may be cut
(`DiskError`). `history` is not the program's: it
remembers which refusals happened, which of them a completed ingest met before
the audit on file, and whether raw files are newer than the manifest. Left out:
URLs and paths, `--offline-fixture-dir` (a missing fixture is an `OSError`, so
recorded like a refusal), the reproduce command, a request asked for twice (the
second payload would replace the raw file the first entry hashes), prices that
are NaN.

To know when reading its reports: with no manifest and no blocker on disk the
microstructure audit says `available`; `access_blocker.json` stays after an
ingest that got through; a claim verdict may say `available` beside the refusal
it cites, when the audit it reads is older than the ingest; levels with amount 0
stay the best bid, so crossed books are counted against deleted levels too.

The claim readiness says of itself that it works "from existing evidence only"; two of
its null-ship reasons are constants, in every verdict it writes: that no rows or raw hashes
are available, and the code `access_blocked_provider_http_400`
(`v5_2_claim_readiness.py:103-109`), even if the blocker on file has another reason or
none, or the manifest has hashes. `NullShipReasons`
has them; `CitedAsGiven` speaks of the reasons that are read from somewhere.

## 3. Runs

| run | question | bounds |
|---|---|---|
| `paper_gross` | `TypeOK`, `LedgerLag`, `MarginEnforced`, `BooksBalance`, refinement (`BookSpec`), `BreachResolved` in legacy_gross | 2 slots with leverage 2 and 1, prices 1 and 2, sizes 0 and 2, 2 ticks, 1 crash, 1 fault |
| `paper_modes` | `SourcesInOrder`, `BooksBalance`, `PositionsMatchTrades`, `AccountingChain`, `FailClosed` with modes and cost models that change at each start | 2 slots, size 2, 2 ticks, 2 crashes, 1 fault |
| `cache` | `TypeOK`, `CacheHonest`, `CacheUnbroken`, `WindowServed`, bar = 2 hours | 2 callers, days of 5 bars or three units less, 2 units of clock, three closed hours, one refused hour |
| `cache_days` | violation: `WholeWindow` | 1 caller, days of 3 or 6 bars |
| `cache_m30` | violation: `TicksInTheirBar`, bar = half an hour | 1 caller |
| `daemon` | `TypeOK`, `EvidenceOfSizes`, `EvidenceChain`, `WriteOnce`, `StopHoldsOnce` | 2 slots, 3 id assignments, any number of crashes and restarts, 2 ticks in flight |
| `daemon_stop` | violation: `StopHolds` | as `daemon` |
| `risk_gate` | `TypeOK`, `RunIsWarranted`, `SizeIsBound`, `RunHasItsArtifact`, `WriteOnce` | 2 gates, 1 path, every policy of at most two of twelve rules, one flaw of each kind, NaN, kills anywhere |
| `evidence` | `GuardSeesAll`, `ExitTellsReports`, `ArtifactsOfItsRun`, `ReadyMeansConforming` | 3 checkouts, 1 edit of any kind, staged, committed, renamed or not, commands broken in any one field, 2 generators after the first reports, cuts after 1 and 3 replays |
| `imbalance` | `CellsPriced`, `SealedUnread`, `PaddingSuffices`, `ClosureHonest` | 3 worlds of ticks, 2 pairs, 1 lookback and threshold, 2 horizons, 3 months, 2 commands from empty tables, from four stretches of the pipeline or from finished reports |
| `gated` | `TypeOK`, `RowsWarranted`, `DecidedAsRun`, `ReportHonest`, `WriteOnce` | 2 processes, 3 commands, 1 kill, two candidates of one id, 3 batches, 3 verdicts |
| `source_chain` | `EvidenceHolds` | 5 runs of 5 scripts, 1 kill, 2 requests, 2 kinds of refusal, 2 payloads, 2 fixtures, 3 states of the planning and v5.1 files |

Why the bounds are enough. Two ticks let a position be opened in one and closed,
by signal or margin, in the other; with the crash in between the process that
closes is not the one that opened. Price 2 to 1 at leverage 2 wipes a position
out, at leverage 1 it halves it: one slot is breached, the other is not. Size 0
is the override that makes the margin ratio NaN. In `paper_modes` the slot that
liquidates is the last one, so the other names its close; the second crash allows
three processes of different modes. In `cache` the
wide window and the clock are such that a file may have four whole rows, of which a
later call takes over two, the narrow window opens with one of these at one time and inside an hour
at the other, and the last hour is half over in the first call; a call may find
a file another made shorter. The
daemon's files accumulate over runs, so its number of restarts is bounded only
by the ids.

`risk_gate` needs two rules for precedence and ties and two gates for a race; the
theorems cover longer policies and more gates. `evidence` lets one edit of any
kind meet a generator and a second generator read the first one's report; longer
histories repeat these, as a generator reads the current tree and reports only.
`MaxRuns` counts the reports of the start as run 1. In `imbalance` the bursts of
ticks lie inside a month, at its last anchor and at the end of the window, with
ticks just inside and outside the six minutes of slack; of the three worlds one
gets its candidate by the backfill, one has a cell that would be a candidate in a
family of half the size, one differs in sealed months only. Two commands suffice
because the starting points lie between any two others. `source_chain` needs
five runs to reach a closure, or four and a repetition of one of them; the theorem is for any
number. `gated` needs two processes for a race and a third command to come after; the
two bodies under one id are what a scan repeated with other data stages.

`cache` has the CONSTRAINT `NotOverlapped`: exploration ends
where two callers have the file open for writing at once. The properties claim
nothing there (`~overlapped =>`), except `TypeOK`, which is proved (`CacheTypes`).
Callers are symmetric.

`CHECK_DEADLOCK FALSE` is set where a budget ends a run: the trader's ticks,
crashes and faults, the edits and runs of `evidence`, `imbalance` and
`source_chain`, the commands of `gated`; and in `risk_gate`, where every gate is done in the end.

Fairness. `WF_vars(Tick)` in `PaperTrader`: once a tick holds the lock it runs
synchronously to its end, there is nothing it waits for, so a step of it that
stays possible is taken unless the process dies. Starts, new ticks, crashes and
faults have none. The other modules state no liveness.

The violations.

- `cache_m30`: the delta's cursor starts at the datetime of a cached bar, which
  below 1h need not start an hour; ticks are then stamped from that minute
  instead of "the hour start" and fall into the bars of another time.
- `cache_days`: `mirror.toml` and the trader's configuration give a number of days to
  have; over a file that begins later, a call gets only what the file begins with.
- `daemon_stop`: a decision that stops a slot withholds the initial tick only;
  the hourly job does not ask `should_run_tick`, while the gate script's summary
  reads "risk decision stopped before paper tick execution".

Every property of a passing run has a mutant in its module, a plausible slip in
the code, which makes the run fail; `PROJECT.json` names them.

`EvidenceHolds` has five parts: a hash in the manifest is of the raw file on disk
unless an ingest broke off since (`RawAsRecorded`); every reason that a report reads and
passes on is one a request was blocked for (`CitedAsGiven`; the constants of the claim, see
above, are not among them); evidence is `available` only if no
completed ingest before it was blocked (`NothingOverstated`); a milestone ready to
close rests on a request that was blocked (`ReadyRests`), so the null verdict cannot
be closed over a study whose access worked; and the book warnings are those of
the rows, by a definition apart from the loop (`CountsHold`).

`ReadyMeansConforming` compares every field of every replayed row with what the policy
asked for, but for those `Unseen` names: v5.7 looks at no application block, no size
and not at whether a slot ran; v5.11 not at the application block and, but for a cap, not at
status, flag and size; the v2 scan and backtest not at class and state of a cap; and all of
them leave out some of what a slot would have been sized at or reported where that
is not the point of the row. v5.7 and the scan set a variable that
makes the command panic where a stopped slot is run (`Sentinel`). `WindowServed` promises a call the bars from `reach` on, and
every tick of the narrowest window anyone asks for.

## 4. Proofs

`PaperSafetyProofs` proves for every number of slots, every set of prices, sizes
and feeds, every leverage and any number of ticks, crashes and faults:

- `TypeInvariant`: `TypeOK` with `ControlOK` is inductive. `TypeOK` alone is not:
  `LedgerInsert` reads the breakdown that `closing` names, and `WithSource`
  rewrites the last row of a table, so the invariant must say that `closing` is
  there exactly in `ledger` and names a row, and that the table is not empty in
  `source` and `portfolio`.
- `TypeCorrect`: hence `TypeOK` always holds.

The safety properties there rest on one lemma, `StepKinds`: a step is quiet, enters,
inserts the ledger row of a gross close, or closes a position the tick has a
price for, in one of the two ways of its mode. From it follow

- `PositionsMatch` (`PositionsMatchTrades`). The equivalence of the property is
  not inductive, since it does not exclude a last entry at another price than
  the position's; `FillsInv` states its two directions apart.
- `ImplementsBook`: every step is a step of `PositionBook` or leaves it as it is.
- `ClosesFailClosed` (`FailClosed`), with `GrossLedger`: only a gross process
  waits for a ledger row, so refusing closes also keeps the ledger as it is.
- `MarginHolds` (`MarginEnforced`), under `MarginNum < MarginDen`. Without it an
  entry at the latest close is itself a breach, in the tick after the margin
  check. The code does not check `maintenance_margin_pct`; its default is 0.2.

`PaperAccountingProofs`:

- `SourcesOrdered` (`SourcesInOrder`): no row names a later close than
  `lastClose` and `thisClose`, when set, do.
- `NetClosesWhole` (`NetCloseWhole`), if `Modes` is estimated_net alone.
- `AccountingChained` (`AccountingChain`). Inductive with `Pending`: the ledger
  does not yet name the breakdown a gross close is about to enter in it, or a
  second row could name the same one.
- `LedgerLags` (`LedgerLag`): by cardinalities. Each close adds at most one
  breakdown without a ledger row and is then in `ledger`; what leaves `ledger`
  is the insertion, which takes that one away, or a failure, which is counted.
- `BooksAlwaysBalance` (`BooksBalance`), in both modes. `BooksInv` adds what the
  property does not say: the close in hand is the last trade and its base is the
  one its slot may start from (`InHandOK`), and a slot the process keeps an equity
  of has traded since the start (`TradedIfTracked`), or a first trade could find
  an equity that no trade explains. `Total` is recursive: that one trade more adds
  its profit (`TotalOneMore`) is shown by the least index at which it would not.

`PaperDaemonProofs` proves for any number of slots, identities, verdicts and
restarts that `IInv` is inductive (`GateInvariant`) and from it `TypeCorrect`,
`SizesAsEvidenced`, `EvidenceChained`, `StopHoldsForOnce` and
`ArtifactsWrittenOnce`. The parts of `IInv`:

- `LifeOK`: what memory holds at each point of the process's life;
- `FilesOK`: the candidate, then the decision, of the slot in hand are on file;
- `EvidenceChain`, the property itself;
- `AnswersOK`: a slot the gate is through with has evidence on file at the size
  in memory, the others still have the size they asked for;
- `StopsOK`: a stop on file for a slot the gate is through with is in
  `mayTick`, and `--once` leaves no tick in flight.

Files of earlier runs may carry the same ids. The argument that they do not pass
for this run's is `create_new`: a run whose id is taken gets no further than the
candidate, so what it finds under its ids later it wrote itself.

`RiskGateProofs` proves for every policy, however long, and any number of gates and
paths:

- lemmas about the evaluator: `WinnerIsSeverest` (the chosen rule is the first of
  the most severe class that matches), `DecisionFailsClosed` (what is malformed
  gets a decision that stops), `DecisionIsBound` (the size of a v2 decision is at
  most the requested one and every matching cap, and never NaN);
- `TypeCorrect`, and from the inductive `IInv`: `Warranted`, `Bound` (of v1 and v2 alike),
  `ArtifactOnDisk` and `ArtifactsWriteOnce`. `IInv` says for each gate
  what its job, its file and its caller are at each `pc` (`GateOK`, `RunOK`): a
  file is written by the one gate that created it, which is why a race for the
  path has one winner.

`FetchCacheProofs` proves for any number of callers, any days from call to call, any clock and
set of closed and refused hours:

- lemmas about the operators: `NthEnumerates` (sorting by rank lists a finite set
  in order, each member once), `HourFacts` and `BucketFacts` (the two grids),
  `DeltaIs` (a delta's bars are exactly the buckets of its ticks), `MergeIs` (a
  merge keeps the cached rows before the delta and all of the delta),
  `FetchedSound` (what a call returns if its rows and its plan were sound);
- `CacheTypes` (`TypeOK`), without condition;
- `CacheStaysHonest`, `CacheStaysUnbroken` and `WindowIsServed`, if `BarLen` is a
  multiple of `HourLen` (`BarsOfHours`), as for 1h and above. Below, the delta's cursor
  starts inside an hour: `cache_m30` shows the ticks fall into other bars.

The inductive invariant is `Typed /\ (~overlapped => Orderly)`. `Orderly` says the
file is sound, at most one caller has it open, and each call's job is sound for its
place: rows taken over are a prefix without a hole, what the plan asks for covers the
rest, and what is written is what was merged. "Sound" is relative to the hours that were
refused, which only grow, and to the narrowest window, which only moves on; of the
file's first row, older than that, only that it has no foreign tick, so it survives other
callers' steps and every way a save can be cut short (`PrefixSound`).

`EvidenceChainProofs` proves for any contents an edit may give, any number of edits,
runs, cuts and kills:

- `GuardsSeeAll` (`GuardSeesAll`) from `ListingsComplete`: what differs from the base
  is in one of git's four listings, but for a renamed file's old name and an
  ignored path git never knew; `ListedIsSeen`: a listing made after the replays is
  as good, since they touch the stage's own path only;
- `ReadyIsConforming` (`ReadyMeansConforming`): nothing is known of the rows of a
  broken command but their type, and the five `Conforms*`
  lemmas say that the checks of each generator let nothing else through, but for `Unseen`;
- `ExitTellsTheReports` (`ExitTellsReports`) and `ArtifactsAreOfTheirRun`
  (`ArtifactsOfItsRun`) from the inductive `EInv`: the shape of the checkout, what each
  ready report on disk stands on (`Vouched`), what the generator at work has
  made so far (`Making`), and the exit status.

`ImbalanceProofs` proves for any pairs, cells, months and ticks, any number of
commands and a backfill anywhere between them:

- lemmas about the SQL: the half-minute grid (`FloorIs`, `EvenBelow`), what an event
  depends on of its ticks (`EventFrom`), and that the ways of finding a quote agree:
  `RangeQuotes` (bounded stages and six minutes of slack), `GridQuotes`,
  `ShardQuotes` and `UnionQuotes` (months). `JoinsAgree`: a cell's numbers are
  those of the reference, whichever join counted its events;
- `StudySound`: `StudyInv` is inductive. Each table is what its statement makes of the
  generations its provenance names (`Sound`), and a report that is open was built
  from such tables (`Built`), still so after the tables were replaced. A command is a
  list of statements cut anywhere: `TrailSound` follows it by the least index at
  which soundness would break;
- `QuotesAreFound` (`CellsPriced`), `SealedStaysUnread` (`SealedUnread`) and
  `ClosureStaysHonest` (`ClosureHonest`). The last needs that the Holm correction
  is a function of the numbers alone: two tables with the same numbers have rows
  one-to-one (`AlikeCardinality`), so their candidates are the same
  (`SameCandidates`);
- `PaddingIsEnough` (`PaddingSuffices`), for any probabilities of the missing rows.
  A row of the greater family ranks no lower than the least kept row that is at
  least as probable (`HolmPadded`), so its weighted probability is no greater
  (`SmallerProduct`). This needs numbers: the totals of a cell are integers
  (`SumType`) because finitely many events are counted, which is why
  `PipelineAssumption` says that the tick files are finite.

`SourceChainProofs` proves `EvidenceIsMet` (`EvidenceHolds`) for any requests, payloads,
refusals, disk errors and fixtures and any number of runs and kills. `IInv` says of every kind of
report that what is on file and what the running script is about to write hold by
what was met: entries by raw files and refusals (`JobOK`, `ManifestsOK`), blockers by
refusals that were given (`BlockersOK`), audits by their rows (`AuditsOK`), claims
and closures by the files they read (`ClaimsOK`, `ClosuresOK`), and what a whole
ingest was refused is on file (`MetOnFile`). The counts of crossed and locked asks
need `InOrderEnumerates` (the sorted rows are the rows) and `BookAfterCounts`
(the loop over them counts what the definition counts).

The proofs use the assumptions on the constants named in each module
(`PaperAssumption`, `DaemonAssumption`, `GateAssumption`, `CacheAssumption`,
`CellsAssumption`, `PipelineAssumption` and the two `ChainAssumption`); TLC evaluates them in the runs. `DaemonAssumption` asks for at
least one identity assignment and one risk mode: without them no process could start.
Recursive functions (`Total`, `BookAfter`, `Trail`) are reasoned about by the least natural at
which a statement would fail (`LeastNatural`).

Only model-checked: `BreachResolved` (liveness is out of the
prover's reach) and, so far, the properties of `GatedCommands`. The three violations
are TLC's. Only proved: `NetCloseWhole`, which no run repeats.

## 5. Not modelled, and the plan

Not modelled: strategies, indicators, statistics and searches (floating
point, no state that outlives a run), one-request data sources, the other research
scripts and the report validators (batch jobs). `PROJECT.json` gives the reason per part.

Next, in this order:

1. proofs of `RowsWarranted` and `WriteOnce` in `GatedCommands`, by the argument of
   `RiskGateProofs`: who creates a decision file is the one to fill it;
2. `Mirror`: passes, retries, error isolation, the background loop,
   `last_fetch_at`, and the files the handlers look for;
3. `DrawdownGate`: the state machine of `scripts/v4.10/dd_gate.py`;
4. the tick's prices in `PaperDaemon`, for ticks that overtake each other;
5. backtest loop and walk-forward windows as functions checked against
   reference definitions.
