--------------------------- MODULE ImbalancePipeline ---------------------------
(***************************************************************************)
(* The v5.1 study as somebody runs it: scripts over BigQuery tables and    *)
(* report files, one command at a time, in any order and for some of the   *)
(* pairs.  A command is a list of statements; any of them may fail and     *)
(* leaves what the earlier ones made.  Between two commands the raw ticks  *)
(* may be backfilled, so that tables and reports of different ages lie     *)
(* side by side, and nothing on disk says so: here a table also keeps      *)
(* which events and which ticks it rests on.                               *)
(***************************************************************************)
EXTENDS ImbalanceCells, SequencesExt

CONSTANTS
  Ticks,        \* per world, the ticks of each pair before and after the backfill
  Order,        \* PAIRS
  PairLists,    \* what --pairs may be
  Requirements, \* [requirement |-> its phase], EXPECTED_REQUIREMENT_PHASES
  Plannings,    \* [table |-> the phases its rows give a requirement], of two tables
  MaxRuns

ASSUME PipelineAssumption ==
  /\ \A w \in DOMAIN Ticks : Ticks[w] \in [{1, 2} -> [Pairs -> SUBSET
       [at : Nat, bid : Nat, ask : Nat, bidVolume : Nat, askVolume : Nat]]]
  /\ \A w \in DOMAIN Ticks, v \in {1, 2}, p \in Pairs :
       /\ IsFiniteSet(Ticks[w][v][p])
       /\ \A t, u \in Ticks[w][v][p] : t.at = u.at => Mid(t) = Mid(u)  \* a tie of prices does not move the mid
  /\ Order \in Seq(Pairs) /\ ToSet(Order) = Pairs /\ PairLists \subseteq Seq(Pairs)

VARIABLES
  world,       \* which ticks there are
  bq,          \* the BigQuery tables; of the raw ticks, 1 before the backfill, 2 after it
  contract,    \* tick_data_contract_report.json: "none", "blocked" or "open"
  sidecar,     \* imbalance_feature_sidecar.json, the same
  summary,     \* is_backtest_fwer_summary.json
  verdict,     \* final_verdict.json
  audit,       \* audit_traceability.json
  runs         \* the commands so far
vars == <<world, bq, contract, sidecar, summary, verdict, audit, runs>>

Months == 1 .. IsMonths
EventsOf == [w \in DOMAIN Ticks |-> [v \in {1, 2} |-> [p \in Pairs |-> Events(Ticks[w][v][p])]]]

(***************************************************************************)
(* Statements                                                              *)
(***************************************************************************)
Table(of, rows) == [of |-> of, rows |-> rows]
NoTable == Table({}, {})
Exists(t) == t # NoTable
Empty == [raw |-> 1, ev |-> [p \in Pairs |-> 0],
          anchor |-> [p \in Pairs |-> NoTable], stage |-> [p \in Pairs |-> NoTable],
          shard |-> [p \in Pairs |-> [m \in Months |-> NoTable]],
          quotes |-> [p \in Pairs |-> NoTable], cells |-> [p \in Pairs |-> NoTable]]

OfEvents(b, p) == {<<"events", b.ev[p]>>}
OfTicks(b) == {<<"ticks", b.raw>>}
TicksOf(b, p) == Ticks[world][b.raw][p]
EventTable(b, p) == EventsOf[world][b.ev[p]][p]

AnchorStatement(b, p) == Table(OfEvents(b, p), AnchorTable(EventTable(b, p)))
StageStatement(b, p) == Table(OfTicks(b), RawStage(TicksOf(b, p)))
GridStatement(b, p) == Table(b.anchor[p].of \cup b.stage[p].of, GridRows(b.anchor[p].rows, b.stage[p].rows))
RangeStatement(b, p, flipped) ==
  Table(OfEvents(b, p) \cup OfTicks(b), RangeRows(EventTable(b, p), TicksOf(b, p), flipped))
ShardStatement(b, p, m) == Table(OfEvents(b, p) \cup OfTicks(b), ShardRows(EventTable(b, p), TicksOf(b, p), m))
UnionStatement(b, p) == Table(UNION {b.shard[p][m].of : m \in Months},
                              UnionRows([m \in Months |-> b.shard[p][m].rows]))
AnchoredStatement(b, p) == Table(OfEvents(b, p) \cup b.quotes[p].of,
                                 AnchoredCells(EventTable(b, p), b.quotes[p].rows))
LiveStatement(b, p, flipped) ==
  Table(OfEvents(b, p) \cup OfTicks(b), LiveCells(EventTable(b, p), TicksOf(b, p), flipped))

\* Without its sources a statement fails.
Runnable(s, b) ==
  LET p == s.pair
  IN CASE s.do \in {"features", "stage", "backfill"} -> TRUE
       [] s.do \in {"anchor", "range", "shard", "live"} -> b.ev[p] # 0
       [] s.do = "validate" -> Exists(b.anchor[p])
       [] s.do = "grid" -> Exists(b.anchor[p]) /\ Exists(b.stage[p])
       [] s.do = "union" -> \A m \in Months : Exists(b.shard[p][m])
       [] s.do = "anchored" -> b.ev[p] # 0 /\ Exists(b.quotes[p])
       [] s.do = "read" -> Exists(b.cells[p])

Execute(s, b) ==
  LET p == s.pair
  IN CASE s.do = "features" -> [b EXCEPT !.ev[p] = b.raw]
       [] s.do = "anchor" -> [b EXCEPT !.anchor[p] = AnchorStatement(b, p)]
       [] s.do = "stage" -> [b EXCEPT !.stage[p] = StageStatement(b, p)]
       [] s.do = "grid" -> [b EXCEPT !.quotes[p] = GridStatement(b, p)]
       [] s.do = "range" -> [b EXCEPT !.quotes[p] = RangeStatement(b, p, s.flipped)]
       [] s.do = "shard" -> [b EXCEPT !.shard[p][s.month] = ShardStatement(b, p, s.month)]
       [] s.do = "union" -> [b EXCEPT !.quotes[p] = UnionStatement(b, p)]
       [] s.do = "anchored" -> [b EXCEPT !.cells[p] = AnchoredStatement(b, p)]
       [] s.do = "live" -> [b EXCEPT !.cells[p] = LiveStatement(b, p, s.flipped)]
       [] s.do = "backfill" -> [b EXCEPT !.raw = 2]
       [] s.do \in {"validate", "read"} -> b

Statement(do, p, m, flipped) == [do |-> do, pair |-> p, month |-> m, flipped |-> flipped]
ForPairs(do, list, flipped) == [i \in DOMAIN list |-> Statement(do, list[i], 0, flipped)]

\* The tables after none, one, two of the statements, as far as each finds its sources.
Trail(list, b) ==
  LET After(t, k) == IF t.done = k - 1 /\ Runnable(list[k], t.bq)
                     THEN {t, [done |-> k, bq |-> Execute(list[k], t.bq)]} ELSE {t}
      trail[k \in 0 .. Len(list)] == IF k = 0 THEN {[done |-> 0, bq |-> b]}
                                     ELSE UNION {After(t, k) : t \in trail[k - 1]}
  IN trail[Len(list)]
\* After all of them, if none failed.
Completed(list, b) == {t.bq : t \in {u \in Trail(list, b) : u.done = Len(list)}}

(***************************************************************************)
(* The summary                                                             *)
(***************************************************************************)
\* rows: a row per cell and pair; of: which events and ticks the cells of a pair rest on.
Summary(is, pairs, rows, of) == [is |-> is, pairs |-> pairs, rows |-> rows, of |-> of]
NoSummary == Summary("none", {}, {}, [p \in {} |-> {}])
TornSummary == [NoSummary EXCEPT !.is = "torn"]
Blocked == [NoSummary EXCEPT !.is = "blocked"]
BlockedPairs == [Blocked EXCEPT !.pairs = Pairs]

With(r, field, value) == [f \in {field} \cup DOMAIN r |-> IF f = field THEN value ELSE r[f]]

BuildSummary(tables, list) ==
  LET pairs == ToSet(list)
      rows == UNION {{With(r, "pair", p) : r \in CollectPair(tables[p].rows)} : p \in pairs}
      Fwer(r) == PAdjHolm(rows, r, FwerDenominator) < Alpha /\ ~Sparse(r)
  IN Summary("open", pairs, {With(r, "eligible", Fwer(r) /\ PassNetPf(r)) : r \in rows},
             [p \in pairs |-> tables[p].of])
Eligible(s) == {r \in s.rows : r.eligible}

\* The JSON is rewritten in place: a kill in the middle leaves half of it.
Write(file, new, torn) == file' \in {new, torn}

(***************************************************************************)
(* Commands: what they share                                               *)
(***************************************************************************)
Budget == runs < MaxRuns /\ runs' = runs + 1

\* The tables after a run of the statements, or after a part of them when one fails.
Run(list) == \E t \in Trail(list, bq) : bq' = t.bq

\* Most modes refuse a sidecar that is missing or blocked, and say so in the summary.
Gated(list) ==
  /\ Budget
  /\ \/ /\ sidecar # "open" /\ Write(summary, Blocked, TornSummary) /\ UNCHANGED bq
     \/ sidecar = "open" /\ Run(list) /\ UNCHANGED summary
  /\ UNCHANGED <<world, contract, sidecar, verdict, audit>>

(***************************************************************************)
(* Commands                                                                *)
(***************************************************************************)
\* The queries' numbers are reported and never judged: only a query that fails blocks.
PassReport == "open"
BlockerReport == "blocked"

\* The audit of the tick data: its queries succeed, or the contract is blocked.
AuditContract ==
  /\ Budget
  /\ contract' \in {PassReport, BlockerReport}
  /\ UNCHANGED <<world, bq, sidecar, summary, verdict, audit>>

SidecarOf(c) == IF c = "open" THEN "open" ELSE "blocked"

\* The features are written whatever the contract says; the sidecar repeats it.
MaterializeFeatures ==
  LET list == ForPairs("features", Order, FALSE)
  IN /\ Budget
     /\ \/ Run(list) /\ UNCHANGED sidecar
        \/ bq' \in Completed(list, bq) /\ sidecar' = SidecarOf(contract)
     /\ UNCHANGED <<world, contract, summary, verdict, audit>>

\* Without --materialize-bq, and with --bq-dry-run or --refresh-bq-counts, the sidecar alone.
WriteSidecar ==
  /\ Budget
  /\ sidecar' = SidecarOf(contract)
  /\ UNCHANGED <<world, bq, contract, summary, verdict, audit>>

\* The live query of both pairs, and the summary at once.
RunLive ==
  \E flipped \in BOOLEAN :
    /\ Budget
    /\ \/ sidecar # "open" /\ Write(summary, Blocked, TornSummary)
       \/ /\ sidecar = "open"
          /\ \E done \in Completed(ForPairs("live", Order, flipped), bq) :
               Write(summary, BuildSummary(done.cells, Order), TornSummary)
    /\ UNCHANGED <<world, bq, contract, sidecar, verdict, audit>>

MaterializeQuoteAnchors ==
  \E list \in PairLists, flipped \in BOOLEAN : Gated(ForPairs("range", list, flipped))

ShardList(list) == FlattenSeq([i \in DOMAIN list |->
                                 [m \in Months |-> Statement("shard", list[i], m, FALSE)]])
MaterializeShards == \E list \in PairLists : Gated(ShardList(list))
MaterializeUnion == \E list \in PairLists : Gated(ForPairs("union", list, FALSE))
MaterializeAnchorTables == \E list \in PairLists : Gated(ForPairs("anchor", list, FALSE))

\* These two do not look at the sidecar.
Ungated(list) == /\ Budget /\ Run(list)
                 /\ UNCHANGED <<world, contract, sidecar, summary, verdict, audit>>
MaterializeRawStages == \E list \in PairLists : Ungated(ForPairs("stage", list, FALSE))
MaterializeFromGrid == \E list \in PairLists : Ungated(ForPairs("grid", list, FALSE))

MaterializeCells ==
  \E list \in PairLists :
    \/ Gated(ForPairs("anchored", list, FALSE))
    \/ \E flipped \in BOOLEAN : Gated(ForPairs("live", list, flipped))

\* The summary is made of the cells at hand, of the pairs asked for and of no others.
ReadCells ==
  \E list \in PairLists :
    /\ Budget
    /\ \/ sidecar # "open" /\ Write(summary, Blocked, TornSummary)
       \/ /\ sidecar = "open" /\ \A p \in ToSet(list) : Exists(bq.cells[p])
          /\ Write(summary, BuildSummary(bq.cells, list), TornSummary)
    /\ UNCHANGED <<world, bq, contract, sidecar, verdict, audit>>

\* --quote-anchor-grid: the whole chain.  Behind a closed sidecar the anchors and the
\* cells are left out, the rest runs on the anchors of an earlier run, and the summary
\* is blocked; a failure writes a blocker of its own.
GridChain(list) ==
  LET open == IF sidecar = "open" THEN list ELSE << >>
  IN ForPairs("anchor", open, FALSE) \o ForPairs("validate", list, FALSE)
     \o ForPairs("stage", list, FALSE) \o ForPairs("grid", list, FALSE)
     \o ForPairs("anchored", open, FALSE) \o ForPairs("read", open, FALSE)
GridValid(b, list) == \A p \in ToSet(list) : /\ OffGrid(b.anchor[p].rows) = {}
                                             /\ DuplicateAnchors(b.quotes[p].rows) = {}
                                             /\ FalseNulls(b.quotes[p].rows, b.stage[p].rows) = {}
QuoteAnchorGrid ==
  \E list \in PairLists :
    /\ Budget
    /\ \/ /\ Run(GridChain(list))
          /\ \/ summary' \in {summary, BlockedPairs, TornSummary}
             \/ sidecar # "open" /\ summary' = Blocked
       \/ \E done \in Completed(GridChain(list), bq) :
            /\ bq' = done
            /\ Write(summary, IF ~GridValid(done, list) THEN BlockedPairs
                              ELSE IF sidecar # "open" THEN Blocked
                              ELSE BuildSummary(done.cells, list), TornSummary)
    /\ UNCHANGED <<world, contract, sidecar, verdict, audit>>

\* --blocker-reason
WriteBlocker ==
  /\ Budget
  /\ Write(summary, BlockedPairs, TornSummary)
  /\ UNCHANGED <<world, bq, contract, sidecar, verdict, audit>>

(***************************************************************************)
(* The verdict and the closing audit                                       *)
(***************************************************************************)
\* read: the summary it was built from; annexed: the files written after it are there.
NoVerdict == [is |-> "none", reason |-> "none", read |-> NoSummary, annexed |-> FALSE]
ClosingVerdict(s) == [is |-> "null_ship", reason |-> "empty_phase116_candidate_set",
                      read |-> s, annexed |-> TRUE]
TornVerdict == [NoVerdict EXCEPT !.is = "torn", !.annexed = verdict.annexed]

\* Mutant: a summary of some of the pairs will do.
LoadsAnyPairs(s) == s.is \in {"open", "blocked"}

Loads(s) == s.is \in {"open", "blocked"} /\ s.pairs = Pairs

FinalVerdict(s) == [is |-> "null_ship", read |-> s, annexed |-> verdict.annexed,
                    reason |-> IF s.is = "blocked" THEN "phase115_blocked"
                               ELSE "empty_phase116_candidate_set"]

\* A summary that does not load, and one with candidates, raise.
WriteVerdict ==
  /\ Budget
  /\ Loads(summary) /\ Eligible(summary) = {}
  /\ LET final == FinalVerdict(summary)
     IN verdict' \in {TornVerdict, final, [final EXCEPT !.annexed = TRUE]}
  /\ UNCHANGED <<world, bq, contract, sidecar, summary, audit>>

\* Both planning tables map requirements to phases, in rows; of two rows the last counts.
Rows(table, r) == IF r \in DOMAIN table THEN table[r] ELSE << >>
Mapped(table) == {r \in DOMAIN table : table[r] # << >>}
TraceabilityHolds(plan) ==
  LET found == Mapped(plan.requirements) \cup Mapped(plan.roadmap)
      both == Mapped(plan.requirements) \cap Mapped(plan.roadmap) \cap DOMAIN Requirements
  IN /\ found = DOMAIN Requirements
     /\ \A r \in found : Len(Rows(plan.requirements, r)) < 2 /\ Len(Rows(plan.roadmap, r)) < 2
     /\ \A r \in both : /\ Last(plan.requirements[r]) = Requirements[r]
                        /\ Last(plan.roadmap[r]) = Requirements[r]

EvidenceCovered == contract # "none" /\ summary.is = "open" /\ Eligible(summary) = {}
KillPreserved(v) == v.is = "null_ship" /\ v.reason = "empty_phase116_candidate_set"

\* A report that cannot be read raises before anything is written.
AuditTraceability ==
  /\ Budget
  /\ sidecar # "none" /\ summary.is \notin {"none", "torn"} /\ verdict.is = "null_ship" /\ verdict.annexed
  /\ \E plan \in Plannings, archived \in BOOLEAN :
       audit' = [pass |-> TraceabilityHolds(plan) /\ EvidenceCovered /\ ~archived
                          /\ KillPreserved(verdict), read |-> verdict]
  /\ UNCHANGED <<world, bq, contract, sidecar, summary, verdict>>

Backfill ==
  /\ bq.raw = 1 /\ bq' = [bq EXCEPT !.raw = 2]
  /\ UNCHANGED <<world, contract, sidecar, summary, verdict, audit, runs>>

(***************************************************************************)
(* A study not begun, or taken up after some of its tables were made, with *)
(* a summary or without, and with a verdict or without.                    *)
(***************************************************************************)
Made(steps) ==
  Completed(FlattenSeq([i \in DOMAIN steps |-> IF steps[i] = "shard" THEN ShardList(Order)
                                               ELSE ForPairs(steps[i], Order, FALSE)]), Empty)
Begun == {<<"features">>, <<"features", "range", "backfill", "features">>,
          <<"features", "stage", "backfill", "features", "anchor", "grid">>,
          <<"features", "shard", "union">>}
Init ==
  /\ world \in DOMAIN Ticks /\ runs = 0
  /\ audit = [pass |-> FALSE, read |-> NoVerdict]
  /\ \/ /\ contract = "none" /\ sidecar = "none" /\ bq = Empty
        /\ summary = NoSummary /\ verdict = NoVerdict
     \/ /\ contract = "open" /\ sidecar = "open"
        /\ \/ (\E steps \in Begun : bq \in Made(steps)) /\ summary = NoSummary /\ verdict = NoVerdict
           \/ /\ bq \in Made(<<"features", "anchor", "stage", "grid", "anchored">>)
              /\ \E list \in PairLists : summary = BuildSummary(bq.cells, list)
              /\ \/ verdict = NoVerdict
                 \/ Loads(summary) /\ Eligible(summary) = {} /\ verdict = ClosingVerdict(summary)

Next ==
  \/ AuditContract \/ MaterializeFeatures \/ WriteSidecar \/ RunLive
  \/ MaterializeQuoteAnchors \/ MaterializeShards \/ MaterializeUnion
  \/ MaterializeAnchorTables \/ MaterializeRawStages \/ MaterializeFromGrid
  \/ MaterializeCells \/ ReadCells \/ QuoteAnchorGrid \/ WriteBlocker
  \/ WriteVerdict \/ AuditTraceability \/ Backfill

Spec == Init /\ [][Next]_vars

(***************************************************************************)
(* Properties                                                              *)
(***************************************************************************)
\* What each cell earns when every event enters and leaves at the first quote at or
\* after its anchor, within a minute, of the ticks e1 for the events and e2 for quotes.
Reference == [w \in DOMAIN Ticks |-> [e1 \in {1, 2} |-> [e2 \in {1, 2} |-> [p \in Pairs |->
                [flipped \in BOOLEAN |-> LiveCells(EventsOf[w][e1][p], Ticks[w][e2][p], flipped)]]]]]
Numbers(r) == <<r.cell, r.trades, r.profit, r.loss, r.p>>
Priced(s, e1, e2, p) ==
  \E flipped \in BOOLEAN :
    {Numbers(r) : r \in {x \in s.rows : x.pair = p}}
      = {Numbers(r) : r \in CollectPair(Reference[world][e1][e2][p][flipped])}

\* A summary whose tables rest on one generation of events and one of ticks has the
\* numbers of the reference, by whichever of the four ways its quotes were found: grid
\* points, shards of months and their union, bounded stages and their six minutes of
\* slack lose no quote and find no wrong one (build_materialize_quote_anchor_*_sql).
CellsPriced ==
  summary.is = "open" =>
    \A p \in summary.pairs, e1, e2 \in {1, 2} :
      summary.of[p] = {<<"events", e1>>, <<"ticks", e2>>} => Priced(summary, e1, e2, p)

\* The in-sample cells do not depend on the sealed window: while a backfill changes
\* nothing before it, and the six minutes in which the last trades end, every summary
\* has the numbers of the first ticks, however old each of its tables is.
SealedFrom(T) == {t \in T : t.at >= IsEnd + Slack}
SealedUnread ==
  LET of == Ticks[world]
  IN (/\ summary.is = "open"
      /\ \A p \in Pairs : of[1][p] \ SealedFrom(of[1][p]) = of[2][p] \ SealedFrom(of[2][p]))
     => \A p \in summary.pairs : Priced(summary, 1, 1, p)

\* A candidate of a summary of some pairs stays one beside the cells of the others,
\* whatever their probabilities: padding to the sealed family is enough (apply_holm_global).
PaddingSuffices ==
  (summary.is = "open" /\ summary.pairs # Pairs) =>
    LET others == {With(EmptyRow(x[2]), "pair", x[1]) : x \in (Pairs \ summary.pairs) \X Cells}
    IN \A r \in Eligible(summary), p \in {0, 1, 10, 30}, above \in {others} \cup {{o} : o \in others} :
         PAdjHolm(summary.rows \cup above \cup {[o EXCEPT !.p = p] : o \in others \ above}, r,
                  FwerDenominator) < Alpha

\* A passed audit closes a study that has no candidate: the verdict it read was built from
\* a whole summary, and where that rests on one generation of tables the reference has no
\* candidate in the whole family either (load_phase115_summary, build_audit_report).
HasCandidate(e1, e2) ==
  \A choice \in [Pairs -> BOOLEAN] :
    LET tables == [p \in Pairs |-> Table({}, Reference[world][e1[p]][e2[p]][p][choice[p]])]
    IN Eligible(BuildSummary(tables, Order)) # {}
ClosureHonest ==
  audit.pass =>
    LET s == audit.read.read
    IN /\ s.is = "open" /\ s.pairs = Pairs
       /\ \A e1, e2 \in [Pairs -> {1, 2}] :
            (\A p \in Pairs : s.of[p] = {<<"events", e1[p]>>, <<"ticks", e2[p]>>})
            => ~HasCandidate(e1, e2)
=============================================================================
