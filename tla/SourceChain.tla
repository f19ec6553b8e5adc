------------------------------ MODULE SourceChain ------------------------------
(***************************************************************************)
(* The v5.2 study of market data sources: five scripts, run by hand one at *)
(* a time, each reading the JSON reports of the ones before it.            *)
(*                                                                         *)
(*   source selection -> ingestion smoke -> microstructure audit           *)
(*                                      -> claim readiness -> closure      *)
(*                                                                         *)
(* Nothing makes the operator keep the order, a run may be killed between  *)
(* or within its writes, and no script removes what an earlier run left.   *)
(***************************************************************************)
EXTENDS SourceRows

CONSTANTS
  RequestLists,  \* the <<data type, symbol>> an ingest may ask for, each once
  Payloads,      \* what a dataset may hold: the times of its rows
  Reasons,       \* why a request is blocked: HTTP error, OSError, cut gzip, csv error
  DiskError,     \* the one of them that is this machine's, met in storing the answer
  MaxRows,       \* --max-rows
  Fixtures,      \* [trades, l2], the rows of a fixture directory
  ClosureInputs, \* [planning, v51, contract, changed] at the time of a closure
  MaxRuns, MaxKills

Rows == [at : Int, side : STRING, price : Int, amount : Int]

ASSUME ChainAssumption ==
  /\ MaxRows \in Nat \ {0} /\ {MaxRuns, MaxKills} \subseteq Nat
  /\ \A l \in RequestLists : l \in Seq(ToSet(l)) \ {<<>>} /\ IsInjective(l)
  /\ \A f \in Fixtures : {f.trades, f.l2} \subseteq Seq(Rows)

VARIABLES
  disk,    \* [file |-> Absent, Torn or Whole(content)]
  raw,     \* [request |-> Absent, Torn or Whole(payload)], data/v5.2/raw/tardis
  run,     \* the script that runs: its requests, their entries, its writes to come
  last,    \* the last script and its exit code, -1 if it was killed
  runs, kills,
  history  \* what is checked against: nothing in the program keeps it
vars == <<disk, raw, run, last, runs, kills, history>>

Scripts == {"selection", "ingest", "microstructure", "claim", "closure"}
Reports == {"candidates", "verdict", "manifest", "audit", "claim", "closure"}
Json(r) == <<r, "json">>
Md(r) == <<r, "md">>
Blocker == Json("blocker")
Files == {Json(r) : r \in Reports} \cup {Md(r) : r \in Reports} \cup {Blocker}
Requests == UNION {ToSet(l) : l \in RequestLists}

Absent == [is |-> "absent"]
Torn == [is |-> "torn"]
Whole(content) == [is |-> "whole", content |-> content]
IsWhole(f) == f.is = "whole"
Read(r) == disk[Json(r)].content

(***************************************************************************)
(* Source selection                                                        *)
(***************************************************************************)
Symbols(exchange, btc, eth) == {<<"BTCUSD", exchange, btc>>, <<"ETHUSD", exchange, eth>>}

Candidates == {
  [id |-> "binance_spot_direct", symbols |-> Symbols("binance", "BTCUSDT", "ETHUSDT"),
   types |-> {"trade", "depth", "rest_order_book"}, sample |-> FALSE, subscription |-> FALSE,
   replay |-> FALSE],
  [id |-> "coinbase_advanced_direct", symbols |-> Symbols("coinbase", "BTC-USD", "ETH-USD"),
   types |-> {"level2", "market_trades"}, sample |-> FALSE, subscription |-> FALSE,
   replay |-> FALSE],
  [id |-> "tardis_historical_spot",
   symbols |-> Symbols("binance", "btcusdt", "ethusdt") \cup Symbols("coinbase", "BTC-USD", "ETH-USD"),
   types |-> {"trades", "incremental_book_L2", "book_snapshot_5", "book_snapshot_25"},
   sample |-> TRUE, subscription |-> FALSE, replay |-> TRUE],
  [id |-> "gemini_tardis_alternate", symbols |-> Symbols("gemini", "BTCUSD", "ETHUSD"),
   types |-> {"trade", "l2_updates", "book_snapshot_5"}, sample |-> TRUE, subscription |-> FALSE,
   replay |-> TRUE]}

CandidateReport == [candidates |-> Candidates, rejected |-> {"top_of_book", "ohlcv", "kline"}]
CandidatesMd(report) ==
  [candidates |-> {[id |-> c.id, symbols |-> c.symbols, replay |-> c.replay] : c \in report.candidates},
   rejected |-> report.rejected]

SelectTardis(report) ==
  {c \in report.candidates :
     /\ c.id = "tardis_historical_spot"
     /\ {"trades", "incremental_book_L2"} \subseteq c.types
     /\ {s[1] : s \in c.symbols} = {"BTCUSD", "ETHUSD"}
     /\ c.sample /\ ~c.subscription}

SourceVerdict(report) ==
  IF SelectTardis(report) = {}
  THEN [verdict |-> "no_source", source |-> "none", symbols |-> {}, ready |-> FALSE]
  ELSE LET c == CHOOSE c \in SelectTardis(report) : TRUE
       IN [verdict |-> "selected_source", source |-> c.id, symbols |-> c.symbols, ready |-> TRUE]

VerdictMd(verdict) == verdict

(***************************************************************************)
(* Ingestion smoke: an entry per request, a manifest of them, and a file   *)
(* of the blocked ones if there are any.                                   *)
(***************************************************************************)
RequestEntry(request, payload) ==
  LET scan == Scan(payload, MaxRows)
      status == ClassifyRequestStatus(scan)
  IN [request |-> request, status |-> status, scan |-> scan, sha |-> Whole(payload),
      reason |-> IF status = "empty" THEN "empty gzip CSV" ELSE "none"]

BlockedEntry(request, reason) ==
  [request |-> request, status |-> "blocked", scan |-> Scan(<<>>, MaxRows),
   sha |-> Absent, reason |-> reason]

\* a plausible slip: whatever did not come out ok is taken for blocked
UnusableRequests(entries) == {e \in ToSet(entries) : e.status # "ok"}

BlockedRequests(entries) == {e \in ToSet(entries) : e.status = "blocked"}

Manifest(verdict, entries) ==
  LET statuses == {e.status : e \in ToSet(entries)}
  IN [status |-> IF statuses = {"blocked"} THEN "blocked"
                 ELSE IF statuses \subseteq {"ok"} THEN "ok" ELSE "partial",
      source |-> verdict.source, requests |-> entries]

ManifestMd(manifest) ==
  [status |-> manifest.status, source |-> manifest.source,
   rows |-> [i \in DOMAIN manifest.requests |-> [e \in {"request", "status", "scan", "sha"} |->
               manifest.requests[i][e]]]]

AccessBlocker(verdict, blocked) ==
  [source |-> verdict.source, blocked |-> blocked, reasons |-> {e.reason : e \in blocked}]

(***************************************************************************)
(* Microstructure audit                                                    *)
(***************************************************************************)
ProviderEvidenceBlocked ==
  \/ disk[Blocker] # Absent
  \/ /\ disk[Json("manifest")] # Absent
     /\ \A e \in ToSet(Read("manifest").requests) :
          e.status = "blocked" \/ (e.scan.rows = 0 /\ e.sha = Absent)

AuditReport(fixture) ==
  LET trades == NormalizeTrades(fixture.trades)
      l2 == NormalizeL2(fixture.l2)
      blocked == ProviderEvidenceBlocked
  IN [provider |-> IF blocked THEN "blocked" ELSE "available",
      claimClass |-> IF blocked THEN "neither_live_supported" ELSE "fixture_schema_ready_only",
      source |-> IF disk[Json("verdict")] = Absent THEN "none" ELSE Read("verdict").source,
      trades |-> trades, l2 |-> l2, quality |-> AuditNormalizedRows(trades, l2),
      manifestStatus |-> IF disk[Json("manifest")] = Absent THEN "none" ELSE Read("manifest").status,
      reasons |-> IF disk[Blocker] = Absent THEN {} ELSE Read("blocker").reasons]

AuditMd(report) ==
  [provider |-> report.provider, claimClass |-> report.claimClass, quality |-> report.quality]

(***************************************************************************)
(* Claim readiness: a null verdict, with what the evidence says beside it. *)
(***************************************************************************)
ProviderSymbols(manifest) == {e.request : e \in ToSet(manifest.requests)}

BlockedContractCandidate ==
  [source |-> "tardis_historical_spot", consumable |-> FALSE,
   requests |-> ProviderSymbols(Read("manifest")), symbols |-> Read("verdict").symbols]

\* The codes are the script's own, whatever the blocker, the manifest and the audit say:
\* "no rows, ranges or hashes", "HTTP 400", "schema ready".  Only the detail of the second
\* is read, joined; the wording of the others is fixed.
NullShipReasons(blocker) ==
  {[category |-> "source", code |-> "source_live_raw_evidence_absent", detail |-> {}],
   [category |-> "access", code |-> "access_blocked_provider_http_400",
    detail |-> blocker.reasons],
   [category |-> "semantics", code |-> "semantics_schema_ready_but_evidence_blocked",
    detail |-> {}]}

ClaimVerdict(v51) ==
  [verdict |-> "null_ship", ship |-> FALSE, ready |-> FALSE, sealed |-> FALSE,
   provider |-> Read("audit").provider, claimClass |-> Read("audit").claimClass,
   reasons |-> NullShipReasons(Read("blocker")), candidate |-> BlockedContractCandidate,
   v51 |-> [verdict |-> v51.verdict, ship |-> v51.ship]]

ClaimMd(report) ==
  [verdict |-> report.verdict, ship |-> report.ship, ready |-> report.ready,
   sealed |-> report.sealed, provider |-> report.provider, claimClass |-> report.claimClass,
   reasons |-> report.reasons, v51 |-> report.v51]

(***************************************************************************)
(* Closure                                                                 *)
(***************************************************************************)
Phase == [SOURCE |-> 118, INGEST |-> 119, MICRO |-> 120, CLAIM52 |-> 121, AUDIT52 |-> 122]
ExpectedTraceability == [r \in (DOMAIN Phase) \X (1 .. 3) |-> Phase[r[1]]]

RowsOf(planning, r) == SelectSeq(planning, LAMBDA row : row.requirement = r)
TraceabilityExactlyOnce(planning) ==
  LET actual == {row.requirement : row \in ToSet(planning)}
  IN /\ actual = DOMAIN ExpectedTraceability
     /\ \A r \in actual : /\ Len(RowsOf(planning, r)) = 1
                          /\ Head(RowsOf(planning, r)).phase = ExpectedTraceability[r]
                          /\ Head(RowsOf(planning, r)).status = "Complete"

ProtectedPathMatches(changed) ==
  [v51 |-> changed \cap {"v5_1 report"}, v4 |-> changed \cap {"v4 archive"}]

V51Preserved(v51, contract, matches) ==
  /\ matches = {}
  /\ v51.verdict = "null_ship" /\ v51.ship = FALSE /\ v51.candidates = 0
  /\ "empty_phase116_candidate_set" \in v51.reasons
  /\ contract = [c \in {"aggressor_flow", "l2_depth", "market_depth"} |-> FALSE]

ClaimReadinessClosed(report) ==
  /\ report.verdict = "null_ship" /\ report.ship = FALSE
  /\ report.ready = FALSE /\ report.sealed = FALSE
  /\ report.candidate.consumable = FALSE

AuditClosure(in) ==
  LET matches == ProtectedPathMatches(in.changed)
      guards == [traceability |-> TraceabilityExactlyOnce(in.planning),
                 v51 |-> V51Preserved(in.v51, in.contract, matches.v51),
                 v4 |-> matches.v4 = {},
                 claim |-> ClaimReadinessClosed(Read("claim"))]
  IN [guards |-> guards, matches |-> matches, v51 |-> in.v51,
      readiness |-> IF \A g \in DOMAIN guards : guards[g]
                    THEN "ready_for_milestone_completion" ELSE "blocked"]

ClosureMd(report) ==
  [traceability |-> report.guards.traceability, preserved |-> report.guards.v51,
   v4 |-> report.guards.v4, readiness |-> report.readiness, v51 |-> report.v51,
   matches |-> report.matches]

(***************************************************************************)
(* Running a script: what it does first, then its writes in their order.   *)
(***************************************************************************)
Idle == [script |-> "none", left |-> <<>>, entries |-> <<>>, todo |-> <<>>]
Put(file, content) == [file |-> file, content |-> content]
Pair(r, report, md) == <<Put(Json(r), report), Put(Md(r), md)>>

Init ==
  /\ disk = [f \in Files |-> Absent]
  /\ raw = [r \in Requests |-> Absent]
  /\ run = Idle /\ last = [script |-> "none", code |-> 0]
  /\ runs = 0 /\ kills = 0
  /\ history = [given |-> {}, met |-> {}, told |-> {}, mixed |-> FALSE]

Starts(script) == run = Idle /\ runs < MaxRuns /\ runs' = runs + 1 /\ UNCHANGED <<raw, kills, disk>>

Begins(script, todo) ==
  /\ Starts(script)
  /\ run' = [Idle EXCEPT !.script = script, !.todo = todo]
  /\ UNCHANGED <<last, history>>

\* A report that is missing or cut raises before anything is written.
Raises(script) ==
  /\ Starts(script)
  /\ last' = [script |-> script, code |-> 1]
  /\ UNCHANGED <<run, history>>

Select ==
  LET report == CandidateReport
      verdict == SourceVerdict(report)
  IN Begins("selection", Pair("candidates", report, CandidatesMd(report))
                           \o Pair("verdict", verdict, VerdictMd(verdict)))

Ingest(requests) ==
  /\ Starts("ingest")
  /\ run' = [Idle EXCEPT !.script = "ingest", !.left = requests]
  /\ UNCHANGED <<last, history>>

Fetching == run.script = "ingest" /\ run.left # <<>>
Answered(entry) == run' = [run EXCEPT !.left = Tail(@), !.entries = Append(@, entry)]

FetchPayload(payload) ==
  /\ Fetching
  /\ raw' = [raw EXCEPT ![Head(run.left)] = Whole(payload)]
  /\ Answered(RequestEntry(Head(run.left), payload))
  /\ history' = [history EXCEPT !.mixed = TRUE]
  /\ UNCHANGED <<disk, last, runs, kills>>

\* A request fails before its answer is stored, and the raw file of an earlier run stays;
\* or the disk fails in storing it, which is recorded the same and leaves a cut file.
FetchBlocked(reason) ==
  /\ Fetching
  /\ Answered(BlockedEntry(Head(run.left), reason))
  /\ \/ /\ history' = [history EXCEPT !.given = @ \cup {reason}]
        /\ UNCHANGED raw
     \/ /\ reason = DiskError
        /\ raw' = [raw EXCEPT ![Head(run.left)] = Torn]
        /\ history' = [history EXCEPT !.given = @ \cup {reason}, !.mixed = TRUE]
  /\ UNCHANGED <<disk, last, runs, kills>>

Dies(code) == run' = Idle /\ last' = [script |-> run.script, code |-> code]

\* zlib.error, UnicodeDecodeError and HTTPException are not caught.
FetchRaises ==
  /\ Fetching
  /\ Dies(1) /\ UNCHANGED <<disk, raw, runs, kills, history>>

Fetched == run.script = "ingest" /\ run.left = <<>> /\ run.todo = <<>>

BuildManifest ==
  /\ Fetched /\ IsWhole(disk[Json("verdict")])
  /\ LET verdict == Read("verdict")
         manifest == Manifest(verdict, run.entries)
         blocked == BlockedRequests(run.entries)
     IN run' = [run EXCEPT !.todo =
          Pair("manifest", manifest, ManifestMd(manifest))
            \o (IF blocked = {} THEN <<>> ELSE <<Put(Blocker, AccessBlocker(verdict, blocked))>>)]
  /\ UNCHANGED <<disk, raw, last, runs, kills, history>>

\* The raw files are already written when the source verdict is asked for.
ManifestRaises ==
  /\ Fetched /\ ~IsWhole(disk[Json("verdict")])
  /\ Dies(1) /\ UNCHANGED <<disk, raw, runs, kills, history>>

Microstructure(fixture) ==
  IF \E r \in {"manifest", "blocker", "verdict"} : disk[Json(r)] = Torn
  THEN Raises("microstructure")
  ELSE LET report == AuditReport(fixture)
       IN Begins("microstructure", Pair("audit", report, AuditMd(report)))

ClaimReadiness(v51) ==
  IF \E r \in {"verdict", "manifest", "blocker", "audit"} : ~IsWhole(disk[Json(r)])
  THEN Raises("claim")
  ELSE LET report == ClaimVerdict(v51)
       IN Begins("claim", Pair("claim", report, ClaimMd(report)))

Closure(in) ==
  IF ~IsWhole(disk[Json("claim")])
  THEN Raises("closure")
  ELSE LET report == AuditClosure(in)
       IN Begins("closure", Pair("closure", report, ClosureMd(report)))

ExitCode ==
  IF run.script = "ingest" /\ \A e \in ToSet(run.entries) : e.status = "blocked" THEN 3 ELSE 0

\* history follows: what the audit on file could know, whether raw files are
\* newer than the manifest, why requests of a whole ingest were blocked.
Remember(file, done) ==
  history' = [history EXCEPT
    !.told = IF file = Json("audit") THEN history.met ELSE @,
    !.mixed = IF file = Json("manifest") THEN FALSE ELSE @,
    !.met = IF done THEN @ \cup {e.reason : e \in {d \in ToSet(run.entries) : d.status = "blocked"}}
            ELSE @]

WriteNext ==
  /\ run.todo # <<>>
  /\ LET put == Head(run.todo)
         done == Tail(run.todo) = <<>>
     IN /\ disk' = [disk EXCEPT ![put.file] = Whole(put.content)]
        /\ Remember(put.file, done)
        /\ IF done THEN Dies(ExitCode)
           ELSE run' = [run EXCEPT !.todo = Tail(@)] /\ UNCHANGED last
  /\ UNCHANGED <<raw, runs, kills>>

\* Killed: the file being written is as before, or cut.
Kill ==
  /\ run # Idle /\ kills < MaxKills /\ kills' = kills + 1
  /\ \/ UNCHANGED <<disk, raw, history>>
     \/ /\ run.todo # <<>>
        /\ disk' = [disk EXCEPT ![Head(run.todo).file] = Torn]
        /\ UNCHANGED <<raw, history>>
     \/ /\ Fetching
        /\ raw' = [raw EXCEPT ![Head(run.left)] = Torn]
        /\ history' = [history EXCEPT !.mixed = TRUE]
        /\ UNCHANGED disk
  /\ Dies(-1) /\ UNCHANGED runs

Next ==
  \/ Select
  \/ \E l \in RequestLists : Ingest(l)
  \/ \E p \in Payloads : FetchPayload(p)
  \/ \E reason \in Reasons : FetchBlocked(reason)
  \/ FetchRaises \/ BuildManifest \/ ManifestRaises
  \/ \E f \in Fixtures : Microstructure(f)
  \/ \E in \in ClosureInputs : ClaimReadiness(in.v51) \/ Closure(in)
  \/ WriteNext \/ Kill

Spec == Init /\ [][Next]_vars

(***************************************************************************)
(* What the chain promises                                                 *)
(***************************************************************************)
OnFile(r) == IsWhole(disk[Json(r)])

\* An entry with a hash is of the raw file on disk, unless a later ingest broke off.
RawAsRecorded ==
  OnFile("manifest") /\ ~history.mixed =>
    \A e \in ToSet(Read("manifest").requests) : e.sha # Absent => raw[e.request] = e.sha

\* Of what the reports cite, the reasons that are read from somewhere: each is one a
\* request was blocked for.  The codes of a claim are not among them.
Cited ==
  (IF OnFile("blocker") THEN Read("blocker").reasons ELSE {})
    \cup (IF OnFile("audit") THEN Read("audit").reasons ELSE {})
    \cup (IF OnFile("claim") THEN UNION {r.detail : r \in Read("claim").reasons} ELSE {})
CitedAsGiven == Cited \subseteq history.given

\* Provider evidence counts as available only if no request of an earlier ingest that ran
\* to its end was blocked.
NothingOverstated ==
  OnFile("audit") /\ Read("audit").provider = "available" => history.told = {}

\* The milestone is ready to close on a request that was blocked, by the provider or here.
ReadyRests ==
  OnFile("closure") /\ Read("closure").readiness = "ready_for_milestone_completion"
    => history.given # {}

\* The counts of an audit are those of the rows it lists.
CountsHold ==
  OnFile("audit") => LET a == Read("audit") IN
    /\ a.quality.crossed = Cardinality(CrossedAsks(a.l2.rows))
    /\ a.quality.locked = Cardinality(LockedAsks(a.l2.rows))

\* What the v5.2 reports read of each other is what was met: raw files, blocked requests
\* and rows, wherever runs broke off, disks failed and whichever were repeated.
EvidenceHolds ==
  /\ RawAsRecorded /\ CitedAsGiven /\ NothingOverstated /\ ReadyRests /\ CountsHold
===============================================================================
