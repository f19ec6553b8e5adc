---------------------------- MODULE EvidenceChain ----------------------------
(***************************************************************************)
(* The evidence generators at work on a checkout: somebody edits, stages,  *)
(* renames and commits, and runs one generator after the other.  A run     *)
(* replays commands, judges them together with the guards and earlier      *)
(* reports, writes its JSON, then its Markdown, and exits; it may raise    *)
(* half way, and it may be killed anywhere, in the middle of a file too.   *)
(***************************************************************************)
EXTENDS EvidenceReplay

CONSTANTS
  Contents,   \* [Sources -> the contents an edit may give]
  Checkouts,  \* [reports: stages whose ready reports are there, tracked: whether git
              \*  knows the ignored paths, missing: sources that are not there]
  CutAt,      \* after how many replays a generator may be killed
  MaxEdits, MaxRuns

ASSUME ChainAssumption ==
  /\ DOMAIN Contents \subseteq Sources
  /\ \A k \in Checkouts : /\ k.reports \subseteq Stages /\ k.missing \subseteq Sources
                          /\ k.tracked \in BOOLEAN
  /\ CutAt \subseteq Nat /\ MaxEdits \in Nat /\ MaxRuns \in Nat

VARIABLES
  git,     \* the commits, the index and the working copy
  gen,     \* the generator that is running: stage, pc, base, verdict, rows
  exit,    \* how the last one ended: stage, status, run
  edits,   \* edits made
  runs     \* generators started; the reports of the start are of run 1

vars == <<git, gen, exit, edits, runs>>

ReadyReport(s) ==
  [is |-> "pass", of |-> s, json |-> 1, md |-> 1, out |-> IF s = "v511" THEN 1 ELSE 0,
   capped |-> s = "v511", rows |-> s \in Surfaces,
   art |-> [c \in DOMAIN NoArt |-> IF c \in RunSet(s) THEN 1 ELSE 0]]
Idle == [stage |-> "none", pc |-> "idle", base |-> NoBase, ready |-> FALSE, rows |-> << >>]

Init ==
  \E k \in Checkouts :
    LET disk == [p \in Paths |-> IF p \in k.reports THEN ReadyReport(p)
                                 ELSE IF p \in Stages \cup {"annex"} \cup k.missing THEN Gone
                                 ELSE Source(p, "asis")]
        known == [p \in Paths |-> IF p \in Ignored /\ ~k.tracked THEN Gone ELSE disk[p]]
    IN /\ git = [log |-> <<known>>, index |-> known, work |-> disk]
       /\ gen = Idle
       /\ exit = [stage |-> "none", status |-> 0, run |-> 0]
       /\ edits = 0 /\ runs = 1

(***************************************************************************)
(* What people do to the checkout between two runs.                        *)
(***************************************************************************)
\* What is done after the last run the bound allows is seen by nobody.
Quiet == gen.pc = "idle" /\ runs < MaxRuns /\ UNCHANGED <<gen, exit, runs>>

Edit(p, c) ==
  /\ Quiet /\ edits < MaxEdits
  /\ git.work[p] # Gone \/ (p \in {"annex", "docs"} /\ c # "gone")
  /\ git' = [git EXCEPT !.work[p] = IF c = "gone" THEN Gone ELSE Source(p, c)]
  /\ edits' = edits + 1

Move(p) ==
  /\ Quiet /\ edits < MaxEdits
  /\ p # "annex" /\ git.work[p] # Gone /\ git.work["annex"] = Gone /\ git.index[p] # Gone
  /\ git' = [git EXCEPT !.work[p] = Gone, !.work["annex"] = git.work[p],
                        !.index[p] = Gone, !.index["annex"] = git.index[p]]
  /\ edits' = edits + 1

\* The plans of a phase are forced in, the reports when they are tracked already.
Add(p) ==
  /\ Quiet /\ UNCHANGED edits
  /\ git.work[p] # git.index[p]
  /\ p \in Ignored => git.index[p] # Gone \/ p = "annex"
  /\ git' = [git EXCEPT !.index[p] = git.work[p]]

Commit ==
  /\ Quiet /\ UNCHANGED edits
  /\ git.index # Tip(git)
  /\ git' = [git EXCEPT !.log = Append(@, git.index)]

(***************************************************************************)
(* Verdicts: the checks of a run, by name.                                 *)
(***************************************************************************)
Checks54(g, b) == [fixtures |-> FixturesPass(g.work), archive |-> Archive54(g, b),
                   scope |-> Scope54(g, b)]
Checks55(g, b) == [snapshot |-> SnapshotPasses(g.work), mutations |-> MutationsCaught(g.work),
                   fixtures |-> FixturesPass55(g.work), scope |-> Scope55(g, b),
                   archive |-> Archive55(g, b)]
Checks56(g, b) == [adapter |-> AdapterProof(g.work), replay |-> DecisionReplay56(g.work),
                   validator |-> ValidatorAligned(g.work), drift |-> DriftAligned56(g.work),
                   scope |-> Scope56(g, b)]
Checks57(g, b, r) == [replay |-> DecisionReplay57(r), stopped |-> StoppedExecution(r),
                      continued |-> ContinuedRuntime(r, g.work),
                      artifacts |-> ArtifactsValid57(r), drift |-> DriftAligned57(g.work),
                      v56 |-> V56Aligned(g.work), scope |-> Scope57(g, b)]
Checks511(g, b, r) == [replay |-> BacktestReplay(r, g.work), effect |-> SizingEffect(r, g.work),
                       artifacts |-> ArtifactsValid511(r), infra |-> InfraFailures(g.work),
                       v57 |-> V57Integrity(g, ReadyReport("v57")), scope |-> Scope511(g, b)]
ChecksScan(g, r) == [sources |-> ScanSources(g.work), version |-> ScanVersions(r),
                     validator |-> ScanValidated(r), cap |-> ScanCap(r["cap"]),
                     size |-> ScanSize(r["size"]), reject |-> ScanReject(r["reject"]),
                     sidecar |-> Sidecar(r)]
ChecksPaper(g, r) == [sources |-> PaperSources(g.work), version |-> PaperVersions(r),
                      validator |-> PaperValidated(r), cap |-> PaperCap(r["cap"]),
                      size |-> PaperSize(r["size"]), reject |-> PaperReject(r["reject"])]
ChecksBacktest(g, r) == [sources |-> BacktestSources(g.work), version |-> BacktestVersions(r),
                         validator |-> BacktestValidated(r), cap |-> BacktestCap(r["cap"]),
                         size |-> BacktestSize(r["size"]), reject |-> BacktestReject(r["reject"])]
Checks81(g) == [sources |-> ParitySources(g.work), cap |-> CapSizing(g.work),
                exits |-> NormalExit(g.work), liquidation |-> Liquidation(g.work),
                cost |-> MissingCost(g.work)]
Checks82(g) == [sources |-> NoticeSources(g.work), guard |-> GuardDefined(g.work),
                order |-> GuardBeforeOverride(g.work), live |-> LiveNotWired(g.work),
                default |-> DefaultPreserved(g.work)]
ChecksAudit(g, b) == [pass |-> SurfacesPass(g.work), matrix |-> DecisionMatrix(g.work),
                      replay |-> AuditReplay(g.work), claim |-> LiveNotClaimable(g.work),
                      live |-> LiveAbsent(g.work), protected |-> SurfacesUntouched(g, b),
                      expansion |-> ~Expanded(g, b)]
Passed(checks) == \A c \in DOMAIN checks : checks[c]

(***************************************************************************)
(* What the replays leave on disk, when those of the classes ran have run. *)
(***************************************************************************)
Capped(r) == r.status = "applied" /\ r.applied /\ r.size = "allowed"
Made(s, tree, rows, ran, n) ==
  LET old == At(s, tree)
      made(c) == IF Leftover(s, tree, c) THEN old.art[c]
                 ELSE IF rows[c].ok /\ rows[c].artifact # "none" THEN n ELSE 0
      cap == s = "v511" /\ "cap" \in ran
  IN [old EXCEPT !.art = [c \in DOMAIN NoArt |-> IF c \in ran THEN made(c) ELSE old.art[c]],
                 !.out = IF ~cap THEN @ ELSE IF rows["cap"].ok THEN n ELSE 0,
                 !.capped = IF cap THEN Capped(rows["cap"]) ELSE @]
After(s, rows, ran) == [git EXCEPT !.work[s] = Made(s, git.work, rows, ran, runs + 1)]
\* A command that leaves no artifact to load makes the v2 replay raise at once.
Reached(rows) == IF rows["cap"].ok /\ rows["cap"].artifact = "none" THEN {"cap"} ELSE DOMAIN rows

(***************************************************************************)
(* A run: its start, its judgement, its two files.                         *)
(***************************************************************************)
Ends(s, n, status) == /\ gen' = Idle
                      /\ exit' = [stage |-> s, status |-> status, run |-> n]
Raised(s) == IF s = "audit" THEN 2 ELSE 1

Starts == gen.pc = "idle" /\ runs < MaxRuns /\ runs' = runs + 1 /\ UNCHANGED edits
Bases(found) == {found} \cup DOMAIN git.log

Concludes(s, b, done, rows, raises, ready) ==
  /\ git' = done
  /\ IF raises THEN Ends(s, runs + 1, Raised(s))
     ELSE /\ gen' = [stage |-> s, pc |-> "json", base |-> b, ready |-> ready, rows |-> rows]
          /\ UNCHANGED exit

Judge54(b) == /\ Starts /\ b \in Bases(Phase128(git))
              /\ Concludes("v54", b, git, << >>, ReplayRaises(git.work), Passed(Checks54(git, b)))
Judge55(b) == /\ Starts /\ b \in Bases(Phase130(git))
              /\ Concludes("v55", b, git, << >>, ReplayRaises(git.work), Passed(Checks55(git, b)))
Judge56(b) == /\ Starts /\ b \in Bases(Phase133(git))
              /\ Concludes("v56", b, git, << >>, CliRaises(git.work), Passed(Checks56(git, b)))
Judge57(b) ==
  /\ Starts /\ b \in Bases(Phase137(git))
  /\ \E r \in Rows("v57", git.work) :
       LET done == After("v57", r, DOMAIN r)
       IN Concludes("v57", b, done, r, V56Raises(git.work), Passed(Checks57(done, b, r)))
\* v5.11 wants a base on the command line, and writes a report only if it is ready.
Judge511(b) ==
  /\ Starts /\ b \in DOMAIN git.log
  /\ \E r \in Rows("v511", git.work) :
       LET done == After("v511", r, DOMAIN r)
           ready == Passed(Checks511(done, b, r))
       IN Concludes("v511", b, done, r, ~ready, ready)
JudgeScan ==
  /\ Starts
  /\ \E r \in Rows("scan", git.work) :
       LET done == After("scan", r, Reached(r))
       IN Concludes("scan", NoBase, done, r, RunMissing(r), Passed(ChecksScan(done, r)))
JudgePaper ==
  /\ Starts
  /\ \E r \in Rows("paper", git.work) :
       LET done == After("paper", r, Reached(r))
       IN Concludes("paper", NoBase, done, r, RunMissing(r), Passed(ChecksPaper(done, r)))
JudgeBacktest ==
  /\ Starts
  /\ \E r \in Rows("backtest", git.work) :
       LET done == After("backtest", r, Reached(r))
       IN Concludes("backtest", NoBase, done, r, RunMissing(r), Passed(ChecksBacktest(done, r)))
Judge81 == /\ Starts
           /\ Concludes("v81", NoBase, git, << >>, ParityRaises(git.work), Passed(Checks81(git)))
Judge82 == /\ Starts
           /\ Concludes("v82", NoBase, git, << >>, NoticeRaises(git.work), Passed(Checks82(git)))
JudgeAudit(b) ==
  /\ Starts /\ b \in DOMAIN git.log
  /\ Concludes("audit", b, git, << >>, SurfaceMissing(git.work), Passed(ChecksAudit(git, b)))

\* A report directory that holds history is refused before anything is touched.
Refuse(s) ==
  /\ Starts /\ Closed(s) # {}
  /\ Ends(s, runs + 1, Raised(s)) /\ UNCHANGED git

\* Killed after the k-th replay.
CutReplay(s, k) ==
  /\ Starts /\ k \in DOMAIN Runs(s)
  /\ \E r \in Rows(s, git.work) : git' = After(s, r, {Runs(s)[i] : i \in 1 .. k})
  /\ Ends(s, runs + 1, 137)

WriteJson ==
  /\ gen.pc = "json"
  /\ git' = [git EXCEPT !.work[gen.stage] =
               [At(gen.stage, git.work) EXCEPT
                  !.is = IF gen.ready THEN "pass" ELSE "fail", !.json = runs,
                  !.rows = gen.stage \in Surfaces /\ RowsGood(gen.stage, gen.rows)]]
  /\ gen' = [gen EXCEPT !.pc = "md"]
  /\ UNCHANGED <<exit, edits, runs>>

\* The v8 generators exit 0 whatever they found.
AlwaysZero(s, ready) == 0

Status(s, ready) == IF ready \/ s \in Notices THEN 0 ELSE 1

\* The Markdown is rendered from the same evidence, and with it the run ends.
WriteMd(s) ==
  /\ gen.pc = "md" /\ gen.stage = s
  /\ git' = [git EXCEPT !.work[s].md = runs]
  /\ Ends(s, runs, Status(s, gen.ready))
  /\ UNCHANGED <<edits, runs>>

Render54 == WriteMd("v54")
Render55 == WriteMd("v55")
Render56 == WriteMd("v56")
Render57 == WriteMd("v57")
Render511 == WriteMd("v511")
RenderScan == WriteMd("scan")
RenderPaper == WriteMd("paper")
RenderBacktest == WriteMd("backtest")
Render81 == WriteMd("v81")
Render82 == WriteMd("v82")
RenderAudit == WriteMd("audit")

\* Each file is opened for writing, which empties it, and then filled.
Kill ==
  /\ gen.pc \in {"json", "md"}
  /\ git' = [git EXCEPT !.work[gen.stage] =
               IF gen.pc = "json" THEN [At(gen.stage, git.work) EXCEPT !.is = "torn", !.json = runs]
               ELSE [@ EXCEPT !.md = Torn]]
  /\ Ends(gen.stage, runs, 137)
  /\ UNCHANGED <<edits, runs>>

Next ==
  \/ \E p \in DOMAIN Contents : \E c \in Contents[p] : Edit(p, c)
  \/ \E p \in DOMAIN Contents : Move(p)
  \/ \E p \in Paths : Add(p)
  \/ Commit
  \/ \E b \in 0 .. Len(git.log) : Judge54(b)
  \/ \E b \in 0 .. Len(git.log) : Judge55(b)
  \/ \E b \in 0 .. Len(git.log) : Judge56(b)
  \/ \E b \in 0 .. Len(git.log) : Judge57(b)
  \/ \E b \in 0 .. Len(git.log) : Judge511(b)
  \/ \E b \in 0 .. Len(git.log) : JudgeAudit(b)
  \/ JudgeScan \/ JudgePaper \/ JudgeBacktest \/ Judge81 \/ Judge82
  \/ \E s \in Stages : Refuse(s)
  \/ \E s \in Stages : \E k \in CutAt : CutReplay(s, k)
  \/ WriteJson \/ Kill
  \/ Render54 \/ Render55 \/ Render56 \/ Render57 \/ Render511 \/ RenderScan \/ RenderPaper
  \/ RenderBacktest \/ Render81 \/ Render82 \/ RenderAudit

Spec == Init /\ [][Next]_vars

(***************************************************************************)
(* Properties                                                              *)
(***************************************************************************)
\* The step in which stage s finds itself ready.
FindsReady(s) == gen.pc = "idle" /\ gen'.pc = "json" /\ gen'.stage = s /\ gen'.ready

\* What git lists under its new name only.
Hidden(b) == Renamed(git.log[b], Tip(git)) \cup Renamed(Tip(git), git.index)

\* A closure report that is ready has seen every path of the checkout that differs from the
\* base it names and that git follows or would list, wherever the difference stands: in
\* commits, in the index, in the working copy only, or in a file git does not know; of
\* a renamed file it has seen the new name only.  All it saw is in the phase's scope.
GuardSeesAll ==
  [][\A s \in Guarded : FindsReady(s) =>
       \A p \in Paths : /\ git.work[p] # git.log[gen'.base][p]
                        /\ p \notin Hidden(gen'.base)
                        /\ p \in Ignored => git.index[p] # Gone \/ git.log[gen'.base][p] # Gone
                        => p \in Allowed(s)]_vars

\* Exit status 0 is about the files: both reports on disk are of the run that exited, and
\* they say it is ready; the v8 generators promise the first half only.
ExitTellsReports ==
  gen.pc = "idle" /\ exit.status = 0 /\ exit.run = runs /\ exit.stage # "none" =>
    LET report == At(exit.stage, git.work)
    IN /\ report.json = runs /\ report.md = runs
       /\ exit.stage \notin Notices => report.is = "pass"

\* The artifacts under a v5.7 or v5.11 report that is ready are those of its own run:
\* leftovers of an earlier or a cut run make it fail instead.  Under a v2 report that is
\* ready they may be missing or newer, when a later run raised or was cut, never older.
ArtifactsOfItsRun ==
  \A s \in CreateOnce \cup Surfaces : At(s, git.work).is = "pass" =>
    \A c \in RunSet(s) : IF s \in CreateOnce THEN git.work[s].art[c] = git.work[s].json
                         ELSE git.work[s].art[c] = 0 \/ git.work[s].art[c] >= git.work[s].json

\* What a report does not vouch for of a command it replayed, whatever it says it checks:
\* the two of v1 look at no application block, v5.7 at no size and at no flag; of a cap a
\* scan and a backtest of v2 look at neither class nor state; and what a slot would have
\* been sized or reported is mostly not looked at where it is not the point.
Unseen(s, c) ==
  CASE s = "v57" -> {"applied", "size", "ran", "filed_state", "filed_status", "filed_applied",
                     "filed_size"}
                    \cup (IF c \in Stops THEN {"status"} ELSE IF c = "size" THEN {"metrics"} ELSE {})
    [] s = "v511" -> {"filed_state", "filed_status", "filed_applied", "filed_size"}
                     \cup (IF c = "cap" THEN {"metrics"} ELSE {"status", "applied", "size"})
                     \cup (IF c = "size" THEN {"metrics"} ELSE {})
    [] s = "scan" -> CASE c = "cap" -> {"class", "state", "filed_state", "ran", "metrics"}
                       [] c = "size" -> {"status", "size", "filed_state", "filed_size", "ran", "metrics"}
                       [] OTHER -> {"status", "applied", "size", "filed_status", "filed_applied",
                                    "filed_size", "ran"}
    [] s = "paper" -> CASE c = "cap" -> {"filed_state", "metrics"}
                        [] c = "size" -> {"status", "filed_state", "filed_size", "metrics"}
                        [] OTHER -> {"status", "filed_status", "filed_size", "metrics"}
    [] OTHER -> CASE c = "cap" -> {"class", "state", "filed_state", "metrics"}
                  [] c = "size" -> {"status", "applied", "size", "filed_state", "filed_size", "metrics"}
                  [] OTHER -> {"status", "applied", "size", "filed_status", "filed_applied",
                               "filed_size"}

\* What the replayed commands did, when stage s found itself ready: in every respect but
\* the unseen ones each answered as its policy asked; there are metrics exactly where the
\* slot was to run, of a capped v5.11 backtest not those of the run without a gate, of a
\* capped scan those of the full size; and no slot ran that the evaluator stopped, if the
\* evaluator stops what it should.
RowsConform(s, rows, tree) ==
  /\ \A c \in RunSet(s) : \A f \in DOMAIN NoRow \ Unseen(s, c) : rows[c][f] = Asked(s, c)[f]
  /\ s \in {"v511", "scan", "backtest"} =>
       \A c \in RunSet(s) : rows[c].metrics = "none" <=> c \in Stops
  /\ s = "v511" => rows["cap"].metrics # "full"
  /\ s = "scan" => rows["cap"].metrics = rows["size"].metrics
  /\ tree["engine"].is # "wrong" => \A c \in RunSet(s) \cap Stops : ~rows[c].ran

\* A ready report vouches for the contract, stated apart from its checks and whatever the
\* commands may have done: for the rows as far as it looks at them; v5.6 and v5.7 for the
\* schema, v5.6 for the evaluator, as v5.7 does over commands that tell what was decided;
\* v5.4 for the validator unless the matrix is empty; and parity rests on the output of the
\* run whose report it read.
ReadyMeansConforming ==
  [][\A s \in Stages : FindsReady(s) =>
       /\ RowsConform(s, gen'.rows, git.work)
       /\ s = "v54" => git.work["validator"].is \in Sound \/ git.work["contracts"].is = "empty"
       /\ s \in {"v56", "v57"} => git.work["contracts"].is # "drifted"
       /\ s = "v56" \/ (s = "v57" /\ git.work["runtime"].is # "broken") =>
            git.work["engine"].is # "wrong"
       /\ s = "v81" => git.work["v511"].out = git.work["v511"].json]_vars
=============================================================================
