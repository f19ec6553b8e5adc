---------------------------- MODULE EvidenceReplay ----------------------------
(***************************************************************************)
(* What the evidence generators replay and what they check of it.  A tree  *)
(* is the working copy as EvidenceScope has it; the content of a source    *)
(* stands for the way it behaves: "asis" and "edited" as the contract      *)
(* wants, any other for a fault.  A row is what one gated command shows of *)
(* itself, in its output and in the artifact it leaves behind; commands    *)
(* that are broken may show anything.                                      *)
(***************************************************************************)
EXTENDS EvidenceScope

Stops == {"reject", "kill", "block"}
Classes == {"size", "cap"} \cup Stops
Sound == {"asis", "edited"}

\* The runs of each generator, in the order it makes them.
Runs57 == <<"size", "cap", "reject", "kill", "block">>
Runs511 == <<"size", "cap", "reject", "kill", "block">>
RunsV2 == <<"cap", "size", "reject">>
Runs(s) == CASE s = "v57" -> Runs57 [] s = "v511" -> Runs511
             [] s \in Surfaces -> RunsV2 [] OTHER -> << >>
RunSet(s) == {Runs(s)[i] : i \in DOMAIN Runs(s)}

(***************************************************************************)
(* A row: whether the command exited 0 with an output to parse; the class, *)
(* the state, the application status and flag, the effective size and the  *)
(* metrics of the output; whether the slot ran; the artifact, its version  *)
(* and what its application block says.  Metrics are "full" when they are  *)
(* those of the same run without a gate; a size is "allowed" when it is    *)
(* what the output itself reports as allowed.                              *)
(***************************************************************************)
Row == [ok : BOOLEAN, class : Classes \cup {"none"}, state : {"none", "stopped", "continued"},
        status : {"none", "deferred", "applied"}, applied : BOOLEAN,
        size : {"none", "asked", "allowed"}, metrics : {"none", "full", "less", "odd"},
        ran : BOOLEAN, artifact : {"none", "invalid", "valid"}, version : {"none", "v1", "v2"},
        filed_state : {"none", "stopped", "continued"},
        filed_status : {"none", "not_applicable", "applied"}, filed_applied : BOOLEAN,
        filed_size : {"none", "asked", "allowed"}]

NoRow == [ok |-> FALSE, class |-> "none", state |-> "none", status |-> "none", applied |-> FALSE,
          size |-> "none", metrics |-> "none", ran |-> FALSE, artifact |-> "none",
          version |-> "none", filed_state |-> "none", filed_status |-> "none",
          filed_applied |-> FALSE, filed_size |-> "none"]

\* A command that tells the same story everywhere; only an artifact of v2 has an
\* application block.
Shown(c, v, state, status, size, metrics) ==
  [ok |-> TRUE, class |-> c, state |-> state, status |-> status, applied |-> status = "applied",
   size |-> size, metrics |-> metrics, ran |-> state = "continued", artifact |-> "valid",
   version |-> v, filed_state |-> IF v = "v2" THEN state ELSE "none",
   filed_status |-> IF v = "v1" THEN "none"
                    ELSE IF status = "applied" THEN "applied" ELSE "not_applicable",
   filed_applied |-> v = "v2" /\ status = "applied",
   filed_size |-> IF v = "v2" THEN size ELSE "none"]
Stopped(c, v) == Shown(c, v, "stopped", "none", "none", "none")
Full(v, metrics) == Shown("size", v, "continued", "none", "asked", metrics)
Applied(v, metrics) == Shown("cap", v, "continued", "applied", "allowed", metrics)

\* A command as its generator asks for it.  v5.7 wants the cap of a scan left for later, a
\* capped backtest reports less, a capped scan keeps its statistics, and paper has none.
Asked57(c) == CASE c \in Stops -> Stopped(c, "v1") [] c = "size" -> Full("v1", "full")
                [] c = "cap" -> Shown("cap", "v1", "continued", "deferred", "asked", "full")
Asked511(c) == CASE c \in Stops -> Stopped(c, "v1") [] c = "size" -> Full("v1", "full")
                 [] c = "cap" -> Applied("v1", "less")
AskedScan(c) == CASE c \in Stops -> Stopped(c, "v2") [] c = "size" -> Full("v2", "full")
                  [] c = "cap" -> Applied("v2", "full")
AskedPaper(c) == CASE c \in Stops -> Stopped(c, "v2") [] c = "size" -> Full("v2", "none")
                   [] c = "cap" -> Applied("v2", "none")
AskedBacktest(c) == CASE c \in Stops -> Stopped(c, "v2") [] c = "size" -> Full("v2", "full")
                      [] c = "cap" -> Applied("v2", "less")
Asked(s, c) == CASE s = "v57" -> Asked57(c) [] s = "v511" -> Asked511(c)
                 [] s = "scan" -> AskedScan(c) [] s = "paper" -> AskedPaper(c)
                 [] s = "backtest" -> AskedBacktest(c)

(***************************************************************************)
(* The Rust commands: what they show of each decision of the gate.  Broken *)
(* ones show anything.  The scan of the published tree applies the cap of  *)
(* a v1 contract as it does that of v2, and an earlier one left it for     *)
(* later, which is what v5.7 still asks for.                               *)
(***************************************************************************)
Replayers == {"v57", "v511"} \cup Surfaces

CONSTANT Broken   \* [Replayers -> the ways a broken command may answer each decision]

ASSUME BrokenAssumption == \A s \in Replayers : Broken[s] \subseteq [Classes -> Row]

Shows(s, d, tree) ==
  IF s = "v57" /\ d = "cap" /\ tree["runtime"].is # "earlier" THEN Applied("v1", "full")
  ELSE Asked(s, d)
Behaviours(s, tree) == IF tree["runtime"].is = "broken" THEN Broken[s]
                       ELSE {[d \in Classes |-> Shows(s, d, tree)]}

\* The gate script validates what it writes, so a validator that refuses or dies stops
\* the command.  The evaluator decides by the policy; a wrong one lets a reject through.
Accepts(tree) == tree["validator"].is \in Sound \cup {"lax"}
Decided(tree, c) == IF tree["engine"].is = "wrong" /\ c = "reject" THEN "size" ELSE c

\* The two generators of scans arm a sentinel: a slot that the gate stopped and that runs
\* all the same panics, and the command fails.
Sentinel(s, d, r) == s \in {"v57", "scan"} /\ d \in Stops /\ r.ran

Command(s, tree, show, c) ==
  LET d == Decided(tree, c)
  IN IF tree["runtime"].is = "crash" \/ ~Accepts(tree) \/ Sentinel(s, d, show[d]) THEN NoRow
     ELSE show[d]

(***************************************************************************)
(* A report is the outcome its JSON states, the runs that wrote the JSON   *)
(* and the Markdown, the run that made each artifact, the run whose output *)
(* of the capped command is on disk and whether it was capped there, 0     *)
(* where there is none, and whether its rows are what the audit wants.     *)
(***************************************************************************)
Torn == -1
NoArt == [c \in Classes |-> 0]
NoReport(s) == [is |-> "none", of |-> s, json |-> 0, md |-> 0, art |-> NoArt,
                out |-> 0, capped |-> FALSE, rows |-> FALSE]
At(s, tree) == IF tree[s] = Gone THEN NoReport(s) ELSE tree[s]
Unreadable(tree, s) == At(s, tree).is \in {"none", "torn"}

\* v5.7 and v5.11 keep what an earlier run left, and a candidate is opened as a new file;
\* the v2 generators remove the directory of the run first.
CreateOnce == {"v57", "v511"}
NoLeftover(s, tree, c) == FALSE

Leftover(s, tree, c) == s \in CreateOnce /\ At(s, tree).art[c] # 0

Replay57(tree, show, c) ==
  IF Leftover("v57", tree, c) THEN NoRow ELSE Command("v57", tree, show, c)
Replay511(tree, show, c) ==
  IF Leftover("v511", tree, c) THEN NoRow ELSE Command("v511", tree, show, c)
ReplayScan(tree, show, c) == Command("scan", tree, show, c)
ReplayPaper(tree, show, c) == Command("paper", tree, show, c)
ReplayBacktest(tree, show, c) == Command("backtest", tree, show, c)
Replay(s, tree, show, c) ==
  CASE s = "v57" -> Replay57(tree, show, c) [] s = "v511" -> Replay511(tree, show, c)
    [] s = "scan" -> ReplayScan(tree, show, c) [] s = "paper" -> ReplayPaper(tree, show, c)
    [] s = "backtest" -> ReplayBacktest(tree, show, c)
Rows(s, tree) == {[c \in RunSet(s) |-> Replay(s, tree, show, c)] : show \in Behaviours(s, tree)}

(***************************************************************************)
(* v5.4 and v5.5: fixtures and schema facts                                *)
(***************************************************************************)
\* A fixture matrix emptied by mistake replays nothing and passes; a validator that
\* prints no JSON makes the replay raise.
FixturesPass(tree) == tree["contracts"].is = "empty" \/ tree["validator"].is \in Sound
FixturesPass55(tree) == FixturesPass(tree)
ReplayRaises(tree) == tree["contracts"].is # "empty" /\ tree["validator"].is = "broken"

\* The facts of the schema that are pinned, each a set of values, and those that a
\* synthetic mutation changes to see whether the change is caught.
Facts == {"decision_classes", "fail_close_rule_decision_classes", "fail_close_reasons",
          "required_top_level", "required_nested_fields", "required_fail_close_rule_fields"}
Expected == [f \in Facts |-> {"pinned"}]
SchemaFacts(tree) == IF tree["contracts"].is = "drifted"
                     THEN [Expected EXCEPT !["decision_classes"] = @ \cup {"halt"}]
                     ELSE Expected
ChangedKeys(facts) == {f \in Facts : facts[f] # Expected[f]}
SnapshotPasses(tree) == ChangedKeys(SchemaFacts(tree)) = {}

Mutated(facts, f) == [facts EXCEPT ![f] = @ \cup {"added"}]
MutationsCaught(tree) == \A f \in Facts \ {"fail_close_rule_decision_classes"} :
                           f \in ChangedKeys(Mutated(SchemaFacts(tree), f))
DriftAligned56(tree) == SnapshotPasses(tree) /\ MutationsCaught(tree)
DriftAligned57(tree) == SnapshotPasses(tree) /\ MutationsCaught(tree)

(***************************************************************************)
(* v5.6: the evaluator, scenario by scenario                               *)
(***************************************************************************)
Scenarios == {"size", "cap", "reject", "kill", "block"}
CliRaises(tree) == tree["validator"].is = "broken"
ScenarioPasses(tree, c) == Decided(tree, c) = c /\ Accepts(tree)
DecisionReplay56(tree) == \A c \in Scenarios : ScenarioPasses(tree, c)
AdapterProof(tree) == Decided(tree, "size") = "size" /\ Accepts(tree)
ValidatorAligned(tree) == \A c \in Scenarios : Accepts(tree)

(***************************************************************************)
(* v5.7: the scan command, five decisions                                  *)
(***************************************************************************)
RowPasses57(r, c) == r.ok /\ r.class = c /\ r.artifact = "valid" /\ r.version = "v1"
DecisionReplay57(rows) == \A c \in RunSet("v57") : RowPasses57(rows[c], c)
Ungated57(tree) == tree["runtime"].is # "crash"

\* The same check when it forgets one of the decisions that stop.
StoppedButKill(rows) == \A c \in Stops \ {"kill"} : rows[c].state = "stopped" /\ rows[c].metrics = "none"

\* Of a decision that stops, no metric and no verdict; a tripped sentinel has failed
\* the command already.
StoppedExecution(rows) == \A c \in Stops : rows[c].state = "stopped" /\ rows[c].metrics = "none"

MetricsMatchUngated(r) == r.metrics = "full"
\* Of the size decision the metrics are not looked at.
ContinuedRuntime(rows, tree) ==
  /\ Ungated57(tree)
  /\ rows["cap"].state = "continued" /\ rows["cap"].status = "deferred"
  /\ MetricsMatchUngated(rows["cap"])
  /\ rows["size"].state = "continued" /\ rows["size"].status = "none"
ArtifactsValid57(rows) == /\ \E c \in RunSet("v57") : rows[c].ok
                          /\ \A c \in RunSet("v57") : rows[c].ok => rows[c].artifact = "valid"
V56Aligned(tree) == tree["v56"].is = "pass"
V56Raises(tree) == Unreadable(tree, "v56")

(***************************************************************************)
(* v5.11: the backtest command, the same decisions and an ungated run      *)
(***************************************************************************)
SemanticAssertions(r, c) ==
  /\ r.ok /\ r.class = c /\ r.version = "v1"
  /\ IF c \in Stops THEN r.state = "stopped" /\ r.metrics = "none" /\ ~r.ran
     ELSE r.state = "continued" /\ r.metrics # "none" /\ r.ran
  /\ c = "cap" => r.status = "applied" /\ r.applied /\ r.size = "allowed"
BacktestReplay(rows, tree) ==
  /\ tree["runtime"].is # "crash"
  /\ \A c \in RunSet("v511") : SemanticAssertions(rows[c], c) /\ rows[c].artifact = "valid"
\* The metrics of the capped run differ from those of the ungated one.
SizingEffect(rows, tree) == /\ tree["runtime"].is # "crash"
                            /\ rows["cap"].metrics \notin {"none", "full"}
ArtifactsValid511(rows) == \A c \in RunSet("v511") : rows[c].artifact = "valid"
\* A policy that is not JSON, is not an object or has an unsafe root must fail.
InfraFailures(tree) == tree["runtime"].is # "lenient"
\* Sums pinned in the script, files known to git, artifacts on disk.
V57Integrity(g, pinned) == g.work["v57"] = pinned /\ g.index["v57"] # Gone

(***************************************************************************)
(* The v2 surfaces: cap, size and reject                                   *)
(***************************************************************************)
ScanSources(tree) == tree["docs"] # Gone
PaperSources(tree) == tree["docs"] # Gone
BacktestSources(tree) == tree["docs"] # Gone

ScanRowPasses(r) == r.ok /\ r.version = "v2" /\ r.artifact = "valid"
PaperRowPasses(r) == r.ok /\ r.version = "v2" /\ r.artifact = "valid"
BacktestRowPasses(r) == r.ok /\ r.version = "v2" /\ r.artifact = "valid"

ScanVersions(rows) == \A c \in RunSet("scan") : rows[c].ok /\ rows[c].version = "v2"
PaperVersions(rows) == \A c \in RunSet("paper") : rows[c].ok /\ rows[c].version = "v2"
BacktestVersions(rows) == \A c \in RunSet("backtest") : rows[c].ok /\ rows[c].version = "v2"

ScanValidated(rows) == \A c \in RunSet("scan") : rows[c].artifact = "valid" /\ rows[c].version = "v2"
PaperValidated(rows) == \A c \in RunSet("paper") : rows[c].artifact = "valid" /\ rows[c].version = "v2"
BacktestValidated(rows) ==
  \A c \in RunSet("backtest") : rows[c].artifact = "valid" /\ rows[c].version = "v2"

\* Of the capped scan neither the class nor the state is looked at, in the output and in
\* the artifact.
ScanCap(r) == /\ ScanRowPasses(r) /\ r.status = "applied" /\ r.applied
              /\ r.filed_status = "applied" /\ r.filed_applied
              /\ r.size = "allowed" /\ r.filed_size = r.size /\ r.metrics # "none"
ScanSize(r) == /\ ScanRowPasses(r) /\ r.class = "size" /\ r.state = "continued" /\ ~r.applied
               /\ r.filed_status = "not_applicable" /\ ~r.filed_applied /\ r.metrics # "none"
ScanReject(r) == /\ ScanRowPasses(r) /\ r.class = "reject" /\ r.state = "stopped"
                 /\ r.filed_state = "stopped" /\ r.metrics = "none"
\* The statistics are those of the full size: what cap and size report is the same.
Sidecar(rows) == /\ rows["cap"].metrics = rows["size"].metrics
                 /\ rows["reject"].metrics = "none"

\* What paper runs, and with which sizes, is in the tick it asks for and its overrides.
PaperCap(r) == /\ PaperRowPasses(r) /\ r.class = "cap" /\ r.state = "continued"
               /\ r.status = "applied" /\ r.applied /\ r.filed_status = "applied"
               /\ r.filed_applied /\ r.size = "allowed" /\ r.filed_size = r.size /\ r.ran
PaperSize(r) == /\ PaperRowPasses(r) /\ r.class = "size" /\ r.state = "continued" /\ ~r.applied
                /\ r.filed_status = "not_applicable" /\ ~r.filed_applied
                /\ r.size = "asked" /\ r.ran
PaperReject(r) == /\ PaperRowPasses(r) /\ r.class = "reject" /\ r.state = "stopped" /\ ~r.applied
                  /\ r.filed_state = "stopped" /\ ~r.filed_applied /\ r.size = "none" /\ ~r.ran

BacktestCap(r) == /\ BacktestRowPasses(r) /\ r.status = "applied" /\ r.applied
                  /\ r.filed_status = "applied" /\ r.filed_applied
                  /\ r.size = "allowed" /\ r.filed_size = r.size /\ r.ran /\ r.metrics # "none"
BacktestSize(r) == /\ BacktestRowPasses(r) /\ r.class = "size" /\ r.state = "continued"
                   /\ r.filed_status = "not_applicable" /\ ~r.filed_applied
                   /\ r.ran /\ r.metrics # "none"
BacktestReject(r) == /\ BacktestRowPasses(r) /\ r.class = "reject" /\ r.state = "stopped"
                     /\ r.filed_state = "stopped" /\ ~r.ran /\ r.metrics = "none"

\* A command that failed leaves no row to look at: the first check to do so raises.
RunMissing(rows) == \E c \in DOMAIN rows : ~rows[c].ok \/ rows[c].artifact = "none"
\* What the report keeps of its runs, and the audit reads: not the class that was decided.
RowsGood(s, rows) == \A c \in DOMAIN rows : /\ rows[c].ok /\ rows[c].artifact = "valid"
                                            /\ rows[c].version = "v2"
                                            /\ rows[c].state = Asked(s, c).state

(***************************************************************************)
(* v8.1 and v8.2: what earlier reports and sources say                     *)
(***************************************************************************)
\* The capped output on disk and the effect the report states, each read by itself.
CapSizing(tree) == tree["v511"].capped /\ tree["v511"].is = "pass"
\* One phrase of the v7.4 note reworded loses the first check; two of three phrases
\* are enough for the last.
NormalExit(tree) == tree["history"].is \in Sound
Liquidation(tree) == tree["history"].is \in Sound \cup {"reworded"}
MissingCost(tree) == tree["history"].is \in Sound \cup {"reworded"}
ParityRaises(tree) == \/ tree["history"] = Gone \/ tree["docs"] = Gone
                      \/ Unreadable(tree, "v511") \/ tree["v511"].out = 0
ParitySources(tree) == tree["docs"] # Gone
NoticeSources(tree) == tree["docs"] # Gone /\ At("v81", tree).md # 0
GuardDefined(tree) == tree["runtime"].is # "unguarded"
GuardBeforeOverride(tree) == tree["runtime"].is \notin {"unguarded", "late"}
LiveNotWired(tree) == tree["runtime"].is # "live"
DefaultPreserved(tree) == tree["history"].is \in Sound \cup {"reworded"}
NoticeRaises(tree) == tree["history"] = Gone

(***************************************************************************)
(* The closure audit of the v2 surfaces                                    *)
(***************************************************************************)
SurfaceMissing(tree) == \E s \in Surfaces : Unreadable(tree, s)
SurfacesPass(tree) == \A s \in Surfaces : tree[s].is = "pass"
DecisionMatrix(tree) == \A s \in Surfaces : tree[s].rows
\* It validates again what is on disk now, and a fixture that says live is not claimable.
AuditReplay(tree) ==
  /\ Accepts(tree)
  /\ \A s \in Surfaces : \A c \in RunSet(s) : tree[s].art[c] # 0
  /\ tree["contracts"].is # "claims" \/ tree["validator"].is = "lax"
LiveNotClaimable(tree) == tree["contracts"].is # "claims"
=============================================================================
