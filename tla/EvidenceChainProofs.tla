-------------------------- MODULE EvidenceChainProofs --------------------------
(***************************************************************************)
(* Proofs about EvidenceChain for any contents an edit may give, any       *)
(* checkouts to start from, any number of edits and of runs, and a kill    *)
(* after any replay.                                                       *)
(***************************************************************************)
EXTENDS EvidenceChain, TLAPS

(***************************************************************************)
(* The four listings together.                                             *)
(***************************************************************************)
\* A path that differs from the base somewhere between the base and the working copy
\* is in one of the listings, but for the old name of a renamed file and for an ignored
\* path that neither the base nor the index has.
LEMMA ListingsComplete ==
  ASSUME NEW g, NEW b, NEW p \in Paths,
         g.work[p] # g.log[b][p],
         p \notin Renamed(g.log[b], Tip(g)) \cup Renamed(Tip(g), g.index),
         p \in Ignored => g.index[p] # Gone \/ g.log[b][p] # Gone
  PROVE  p \in Changed(g, b)
<1>1. CASE g.log[b][p] # Tip(g)[p]
  BY <1>1 DEF Changed, Committed, Diff
<1>2. CASE Tip(g)[p] # g.index[p]
  BY <1>2 DEF Changed, Staged, Diff
<1>3. CASE g.log[b][p] = Tip(g)[p] /\ Tip(g)[p] = g.index[p]
  <2>1. CASE g.index[p] # Gone
    BY <1>3, <2>1 DEF Changed, Unstaged
  <2>2. CASE g.index[p] = Gone
    BY <1>3, <2>2 DEF Changed, Untracked
  <2> QED BY <2>1, <2>2
<1> QED BY <1>1, <1>2, <1>3

\* What a run that did not raise holds until its JSON is written.
LEMMA Concluded ==
  ASSUME NEW s, NEW b, NEW done, NEW rows, NEW raises, NEW ready,
         Concludes(s, b, done, rows, raises, ready), gen'.pc # "idle"
  PROVE  /\ git' = done /\ ~raises /\ exit' = exit
         /\ gen' = [stage |-> s, pc |-> "json", base |-> b, ready |-> ready, rows |-> rows]
<1>1. Idle.pc = "idle"
  BY DEF Idle
<1>2. ~raises
  BY <1>1 DEF Concludes, Ends
<1> QED BY <1>2 DEF Concludes

(***************************************************************************)
(* The shape of the checkout, of the reports and of the runs.              *)
(***************************************************************************)
LEMMA RunSets ==
  /\ RunSet("v57") = Classes /\ RunSet("v511") = Classes
  /\ \A s \in Surfaces : RunSet(s) = {"cap", "size", "reject"}
  /\ \A s \in Stages : s \notin CreateOnce \cup Surfaces => RunSet(s) = {}
  /\ \A s \in Stages : RunSet(s) \subseteq Classes
  /\ DOMAIN NoArt = Classes
<1>1. RunSet("v57") = Classes
  BY DEF RunSet, Runs, Runs57, Surfaces, Classes, Stops
<1>2. RunSet("v511") = Classes
  BY DEF RunSet, Runs, Runs511, Surfaces, Classes, Stops
<1>3. ASSUME NEW s \in Surfaces PROVE RunSet(s) = {"cap", "size", "reject"}
  BY DEF RunSet, Runs, RunsV2, Surfaces
<1>4. ASSUME NEW s \in Stages, s \notin CreateOnce \cup Surfaces PROVE RunSet(s) = {}
  BY <1>4 DEF RunSet, Runs, CreateOnce, Surfaces
<1>5. \A s \in Stages : RunSet(s) \subseteq Classes
  BY <1>1, <1>2, <1>3, <1>4 DEF CreateOnce, Classes, Stops
<1>6. DOMAIN NoArt = Classes
  BY DEF NoArt
<1> QED BY <1>1, <1>2, <1>3, <1>4, <1>5, <1>6

Report(s) == [is : {"none", "pass", "fail", "torn"}, of : {s}, json : Nat, md : Nat \cup {Torn},
              art : [Classes -> Nat], out : Nat, capped : BOOLEAN, rows : BOOLEAN]

\* The working copy: something at every path, and at the path of a report a report.
IsTree(tree) == /\ tree = [p \in Paths |-> tree[p]]
                /\ \A s \in Stages : tree[s] = Gone \/ tree[s] \in Report(s)

Shape ==
  /\ git = [log |-> git.log, index |-> git.index, work |-> git.work]
  /\ IsTree(git.work)
  /\ runs \in Nat
  /\ gen.pc \in {"idle", "json", "md"}
  /\ gen.pc # "idle" =>
       gen = [stage |-> gen.stage, pc |-> gen.pc, base |-> gen.base, ready |-> gen.ready,
              rows |-> gen.rows] /\ gen.stage \in Stages

LEMMA ReportAt ==
  ASSUME NEW tree, IsTree(tree), NEW s \in Stages
  PROVE  At(s, tree) \in Report(s)
<1>1. NoReport(s) \in Report(s)
  <2>1. NoArt \in [Classes -> Nat]
    BY DEF NoArt
  <2> QED BY <2>1 DEF NoReport, Report
<1> QED BY <1>1 DEF At, IsTree

LEMMA ReportIsThere ==
  ASSUME NEW s, NEW r \in Report(s)
  PROVE  r # Gone
<1>1. r.is # "gone" /\ Gone.is = "gone"
  BY DEF Report, Gone
<1> QED BY <1>1

\* Replays change of a report's path the artifacts, the output and nothing else.
LEMMA MadeIs ==
  ASSUME NEW s \in Stages, NEW tree, IsTree(tree), NEW rows, NEW ran, NEW n \in Nat
  PROVE  /\ Made(s, tree, rows, ran, n) \in Report(s)
         /\ Made(s, tree, rows, ran, n).is = At(s, tree).is
         /\ Made(s, tree, rows, ran, n).json = At(s, tree).json
         /\ Made(s, tree, rows, ran, n).md = At(s, tree).md
         /\ \A c \in Classes : Made(s, tree, rows, ran, n).art[c] =
              IF c \in ran /\ ~Leftover(s, tree, c)
              THEN IF rows[c].ok /\ rows[c].artifact # "none" THEN n ELSE 0
              ELSE At(s, tree).art[c]
         /\ s = "v511" => Made(s, tree, rows, ran, n).out =
              IF "cap" \notin ran THEN At(s, tree).out ELSE IF rows["cap"].ok THEN n ELSE 0
<1> DEFINE old == At(s, tree)
           made(c) == IF Leftover(s, tree, c) THEN old.art[c]
                      ELSE IF rows[c].ok /\ rows[c].artifact # "none" THEN n ELSE 0
           cap == s = "v511" /\ "cap" \in ran
           art == [c \in DOMAIN NoArt |-> IF c \in ran THEN made(c) ELSE old.art[c]]
           out == IF ~cap THEN old.out ELSE IF rows["cap"].ok THEN n ELSE 0
           capped == IF cap THEN Capped(rows["cap"]) ELSE old.capped
<1>1. old \in Report(s)
  BY ReportAt
<1>2. art \in [Classes -> Nat]
  <2>1. \A c \in Classes : old.art[c] \in Nat
    BY <1>1 DEF Report
  <2> HIDE DEF old
  <2> QED BY <2>1, RunSets
<1>3. out \in Nat
  <2> HIDE DEF old
  <2> QED BY <1>1 DEF Report
<1>4. capped \in BOOLEAN
  <2> HIDE DEF old
  <2>1. old.capped \in BOOLEAN
    BY <1>1 DEF Report
  <2>2. (IF cap THEN rows["cap"].status = "applied" /\ rows["cap"].applied /\ rows["cap"].size = "allowed"
         ELSE old.capped) \in BOOLEAN
    BY <2>1, ZenonT(30)
  <2> QED BY <2>2 DEF Capped
<1>5. Made(s, tree, rows, ran, n) = [old EXCEPT !.art = art, !.out = out, !.capped = capped]
  BY DEF Made
<1>6. \A c \in Classes : art[c] = IF c \in ran THEN made(c) ELSE old.art[c]
  BY RunSets
<1> HIDE DEF old, art, out, capped
<1>7. ASSUME NEW r, r = [old EXCEPT !.art = art, !.out = out, !.capped = capped]
      PROVE  /\ r \in Report(s) /\ r.is = old.is /\ r.json = old.json /\ r.md = old.md
             /\ r.art = art /\ r.out = out
  <2> DEFINE r1 == [old EXCEPT !.art = art]
             r2 == [r1 EXCEPT !.out = out]
  <2>1. /\ r1 \in Report(s) /\ r1.is = old.is /\ r1.json = old.json /\ r1.md = old.md
        /\ r1.art = art
    BY <1>1, <1>2 DEF Report
  <2>2. /\ r2 \in Report(s) /\ r2.is = old.is /\ r2.json = old.json /\ r2.md = old.md
        /\ r2.art = art /\ r2.out = out
    <3> HIDE DEF r1
    <3> QED BY <1>3, <2>1 DEF Report
  <2>3. r = [r2 EXCEPT !.capped = capped]
    BY <1>1, <1>7 DEF Report
  <2> HIDE DEF r2
  <2> QED BY <1>4, <2>2, <2>3 DEF Report
<1>8. /\ Made(s, tree, rows, ran, n) \in Report(s)
      /\ Made(s, tree, rows, ran, n).is = old.is
      /\ Made(s, tree, rows, ran, n).json = old.json
      /\ Made(s, tree, rows, ran, n).md = old.md
      /\ Made(s, tree, rows, ran, n).art = art
      /\ Made(s, tree, rows, ran, n).out = out
  BY <1>5, <1>7
<1> QED BY <1>6, <1>8 DEF old, out

LEMMA AfterIs ==
  ASSUME Shape, NEW s \in Stages, NEW rows, NEW ran
  PROVE  /\ After(s, rows, ran) = [log |-> git.log, index |-> git.index,
                                   work |-> After(s, rows, ran).work]
         /\ After(s, rows, ran).log = git.log /\ After(s, rows, ran).index = git.index
         /\ IsTree(After(s, rows, ran).work)
         /\ After(s, rows, ran).work[s] = Made(s, git.work, rows, ran, runs + 1)
         /\ \A p \in Paths \ {s} : After(s, rows, ran).work[p] = git.work[p]
<1> DEFINE m == Made(s, git.work, rows, ran, runs + 1)
           w == [git.work EXCEPT ![s] = m]
<1>1. m \in Report(s)
  BY MadeIs DEF Shape
<1>2. s \in Paths /\ git.work = [p \in Paths |-> git.work[p]]
  BY DEF Shape, IsTree, Paths
<1>3. w = [p \in Paths |-> w[p]] /\ w[s] = m /\ \A p \in Paths \ {s} : w[p] = git.work[p]
  BY <1>2
<1>4. IsTree(w)
  BY <1>1, <1>3 DEF IsTree, Shape, Paths
<1>5. After(s, rows, ran) = [git EXCEPT !.work = w]
  BY DEF After, Shape
<1> HIDE DEF w, m
<1>6. [git EXCEPT !.work = w] = [log |-> git.log, index |-> git.index, work |-> w]
  BY DEF Shape
<1>7. After(s, rows, ran) = [log |-> git.log, index |-> git.index, work |-> w]
  BY <1>5, <1>6
<1> QED BY <1>3, <1>4, <1>7 DEF m

(***************************************************************************)
(* A start, whichever generator: replays or none, and an end or a verdict. *)
(***************************************************************************)
\* What the rows of a replay are: one for each run, and none of a candidate left over.
LEMMA RowsAre ==
  ASSUME NEW s, NEW tree, NEW r \in Rows(s, tree)
  PROVE  /\ DOMAIN r = RunSet(s)
         /\ \E show \in Behaviours(s, tree) : \A c \in RunSet(s) : r[c] = Replay(s, tree, show, c)
BY DEF Rows

LEMMA LeftoverRow ==
  ASSUME NEW s \in CreateOnce, NEW tree, NEW r \in Rows(s, tree), NEW c \in RunSet(s),
         Leftover(s, tree, c)
  PROVE  ~r[c].ok
<1>1. PICK show \in Behaviours(s, tree) : r[c] = Replay(s, tree, show, c)
  BY RowsAre
<1>2. r[c] = NoRow
  BY <1>1 DEF Replay, Replay57, Replay511, CreateOnce
<1> QED BY <1>2 DEF NoRow

\* A generator that replays is ready only if every command behaved and left an artifact.
AllRan(s) ==
  \E r \in Rows(s, git.work) : /\ git' = After(s, r, RunSet(s))
                               /\ \A c \in RunSet(s) : r[c].ok /\ r[c].artifact # "none"

Started(s) ==
  /\ gen.pc = "idle" /\ runs' = runs + 1
  /\ git' = git \/ \E ran : \E r \in Rows(s, git.work) : git' = After(s, r, ran)
  /\ \/ gen' = Idle /\ exit'.stage = s /\ exit'.status # 0
     \/ /\ \E b, ready, rows : gen' = [stage |-> s, pc |-> "json", base |-> b,
                                       ready |-> ready, rows |-> rows]
        /\ exit' = exit
        /\ gen'.ready /\ s \in CreateOnce \cup Surfaces => AllRan(s)

LEMMA RaisedStatus == \A s : Raised(s) # 0
BY DEF Raised

LEMMA Raising ==
  ASSUME NEW s, NEW b, NEW done, NEW rows, NEW raises, NEW ready,
         Concludes(s, b, done, rows, raises, ready), raises
  PROVE  git' = done /\ gen' = Idle /\ exit'.stage = s /\ exit'.status # 0
<1>1. exit' = [stage |-> s, status |-> Raised(s), run |-> runs + 1]
  BY DEF Concludes, Ends
<1> QED BY <1>1, RaisedStatus DEF Concludes, Ends

LEMMA Holding ==
  ASSUME NEW s, NEW b, NEW done, NEW rows, NEW raises, NEW ready,
         Concludes(s, b, done, rows, raises, ready), ~raises
  PROVE  /\ git' = done /\ exit' = exit
         /\ gen' = [stage |-> s, pc |-> "json", base |-> b, ready |-> ready, rows |-> rows]
BY DEF Concludes

LEMMA Plain ==
  ASSUME NEW s \in Stages, s \notin CreateOnce \cup Surfaces,
         NEW b, NEW rows, NEW raises, NEW ready,
         Starts, Concludes(s, b, git, rows, raises, ready)
  PROVE  Started(s)
<1>1. CASE raises
  BY <1>1, Raising DEF Started, Starts
<1>2. CASE ~raises
  BY <1>2, Holding DEF Started, Starts
<1> QED BY <1>1, <1>2

LEMMA Replaying ==
  ASSUME NEW s \in CreateOnce \cup Surfaces, NEW r \in Rows(s, git.work),
         NEW b, NEW ran, NEW raises, NEW ready,
         Starts, Concludes(s, b, After(s, r, ran), r, raises, ready),
         ~raises /\ ready => /\ ran = RunSet(s)
                            /\ \A c \in RunSet(s) : r[c].ok /\ r[c].artifact # "none"
  PROVE  Started(s)
<1>1. CASE raises
  <2>1. git' = After(s, r, ran) /\ gen' = Idle /\ exit'.stage = s /\ exit'.status # 0
    BY <1>1, Raising
  <2> QED BY <2>1 DEF Started, Starts
<1>2. CASE ~raises
  <2>1. /\ git' = After(s, r, ran) /\ exit' = exit
        /\ gen' = [stage |-> s, pc |-> "json", base |-> b, ready |-> ready, rows |-> r]
    BY <1>2, Holding
  <2>2. gen'.ready = ready
    BY <2>1
  <2>3. gen'.ready => AllRan(s)
    BY <1>2, <2>1, <2>2 DEF AllRan
  <2> QED BY <2>1, <2>3 DEF Started, Starts
<1> QED BY <1>1, <1>2

LEMMA SurfaceReady ==
  ASSUME NEW s \in Surfaces, NEW tree, NEW r \in Rows(s, tree), ~RunMissing(r)
  PROVE  /\ Reached(r) = RunSet(s)
         /\ \A c \in RunSet(s) : r[c].ok /\ r[c].artifact # "none"
<1>1. DOMAIN r = RunSet(s)
  BY RowsAre
<1>2. \A c \in RunSet(s) : r[c].ok /\ r[c].artifact # "none"
  BY <1>1 DEF RunMissing
<1>3. "cap" \in RunSet(s)
  BY RunSets
<1> QED BY <1>1, <1>2, <1>3 DEF Reached

Judges ==
  \/ \E b \in 0 .. Len(git.log) : Judge54(b) \/ Judge55(b) \/ Judge56(b) \/ Judge57(b)
                                 \/ Judge511(b) \/ JudgeAudit(b)
  \/ JudgeScan \/ JudgePaper \/ JudgeBacktest \/ Judge81 \/ Judge82
  \/ \E s \in Stages : Refuse(s)
  \/ \E s \in Stages : \E k \in CutAt : CutReplay(s, k)

LEMMA JudgesStart == Judges => \E s \in Stages : Started(s)
<1> USE DEF Stages, Guarded, Surfaces, Notices, CreateOnce
<1>1. ASSUME NEW b, Judge54(b) PROVE Started("v54")
  BY <1>1, Plain DEF Judge54
<1>2. ASSUME NEW b, Judge55(b) PROVE Started("v55")
  BY <1>2, Plain DEF Judge55
<1>3. ASSUME NEW b, Judge56(b) PROVE Started("v56")
  BY <1>3, Plain DEF Judge56
<1>4. ASSUME NEW b, Judge57(b) PROVE Started("v57")
  <2>1. PICK r \in Rows("v57", git.work) :
          LET ready == Passed(Checks57(After("v57", r, DOMAIN r), b, r))
          IN Concludes("v57", b, After("v57", r, DOMAIN r), r, V56Raises(git.work), ready)
    BY <1>4 DEF Judge57
  <2> DEFINE done == After("v57", r, DOMAIN r)
             ready == Passed(Checks57(done, b, r))
  <2>2. DOMAIN r = RunSet("v57")
    BY RowsAre
  <2>3. ready => \A c \in RunSet("v57") : r[c].ok /\ r[c].artifact # "none"
    <3>1. ready => \A c \in RunSet("v57") : r[c].ok /\ r[c].artifact = "valid"
      BY DEF Passed, Checks57, DecisionReplay57, RowPasses57
    <3> QED BY <3>1
  <2>4. Starts /\ Concludes("v57", b, done, r, V56Raises(git.work), ready)
    BY <1>4, <2>1 DEF Judge57
  <2> HIDE DEF ready
  <2> QED BY <2>2, <2>3, <2>4, Replaying
<1>5. ASSUME NEW b, Judge511(b) PROVE Started("v511")
  <2>1. PICK r \in Rows("v511", git.work) :
          LET ready == Passed(Checks511(After("v511", r, DOMAIN r), b, r))
          IN Concludes("v511", b, After("v511", r, DOMAIN r), r, ~ready, ready)
    BY <1>5 DEF Judge511
  <2> DEFINE done == After("v511", r, DOMAIN r)
             ready == Passed(Checks511(done, b, r))
  <2>2. DOMAIN r = RunSet("v511")
    BY RowsAre
  <2>3. ready => \A c \in RunSet("v511") : r[c].ok /\ r[c].artifact # "none"
    <3>1. ready => \A c \in RunSet("v511") : r[c].ok /\ r[c].artifact = "valid"
      BY DEF Passed, Checks511, BacktestReplay, SemanticAssertions
    <3> QED BY <3>1
  <2>4. Starts /\ Concludes("v511", b, done, r, ~ready, ready)
    BY <1>5, <2>1 DEF Judge511
  <2> HIDE DEF ready
  <2> QED BY <2>2, <2>3, <2>4, Replaying
<1>6. ASSUME JudgeScan PROVE Started("scan")
  <2>1. PICK r \in Rows("scan", git.work) :
          Concludes("scan", NoBase, After("scan", r, Reached(r)), r, RunMissing(r),
                    Passed(ChecksScan(After("scan", r, Reached(r)), r)))
    BY <1>6 DEF JudgeScan
  <2> DEFINE ready == Passed(ChecksScan(After("scan", r, Reached(r)), r))
  <2>2. Starts /\ Concludes("scan", NoBase, After("scan", r, Reached(r)), r, RunMissing(r), ready)
    BY <1>6, <2>1 DEF JudgeScan
  <2> HIDE DEF ready
  <2> QED BY <2>2, Replaying, SurfaceReady
<1>7. ASSUME JudgePaper PROVE Started("paper")
  <2>1. PICK r \in Rows("paper", git.work) :
          Concludes("paper", NoBase, After("paper", r, Reached(r)), r, RunMissing(r),
                    Passed(ChecksPaper(After("paper", r, Reached(r)), r)))
    BY <1>7 DEF JudgePaper
  <2> DEFINE ready == Passed(ChecksPaper(After("paper", r, Reached(r)), r))
  <2>2. Starts /\ Concludes("paper", NoBase, After("paper", r, Reached(r)), r, RunMissing(r), ready)
    BY <1>7, <2>1 DEF JudgePaper
  <2> HIDE DEF ready
  <2> QED BY <2>2, Replaying, SurfaceReady
<1>8. ASSUME JudgeBacktest PROVE Started("backtest")
  <2>1. PICK r \in Rows("backtest", git.work) :
          Concludes("backtest", NoBase, After("backtest", r, Reached(r)), r, RunMissing(r),
                    Passed(ChecksBacktest(After("backtest", r, Reached(r)), r)))
    BY <1>8 DEF JudgeBacktest
  <2> DEFINE ready == Passed(ChecksBacktest(After("backtest", r, Reached(r)), r))
  <2>2. Starts /\ Concludes("backtest", NoBase, After("backtest", r, Reached(r)), r, RunMissing(r), ready)
    BY <1>8, <2>1 DEF JudgeBacktest
  <2> HIDE DEF ready
  <2> QED BY <2>2, Replaying, SurfaceReady
<1>9. ASSUME Judge81 PROVE Started("v81")
  BY <1>9, Plain DEF Judge81
<1>10. ASSUME Judge82 PROVE Started("v82")
  BY <1>10, Plain DEF Judge82
<1>11. ASSUME NEW b, JudgeAudit(b) PROVE Started("audit")
  BY <1>11, Plain DEF JudgeAudit
<1>12. ASSUME NEW s \in Stages, Refuse(s) PROVE Started(s)
  <2>1. exit' = [stage |-> s, status |-> Raised(s), run |-> runs + 1]
    BY <1>12 DEF Refuse, Ends
  <2> QED BY <1>12, <2>1, RaisedStatus DEF Refuse, Ends, Starts, Started
<1>13. ASSUME NEW s \in Stages, NEW k \in CutAt, CutReplay(s, k) PROVE Started(s)
  <2>1. exit' = [stage |-> s, status |-> 137, run |-> runs + 1]
    BY <1>13 DEF CutReplay, Ends
  <2> DEFINE ran == {Runs(s)[i] : i \in 1 .. k}
  <2>2. \E r \in Rows(s, git.work) : git' = After(s, r, ran)
    BY <1>13 DEF CutReplay
  <2>3. Starts /\ gen' = Idle
    BY <1>13 DEF CutReplay, Ends
  <2> HIDE DEF ran
  <2> QED BY <2>1, <2>2, <2>3 DEF Starts, Started
<1> QED BY <1>1, <1>2, <1>3, <1>4, <1>5, <1>6, <1>7, <1>8, <1>9, <1>10, <1>11, <1>12, <1>13
           DEF Judges

(***************************************************************************)
(* The inductive invariant.                                                *)
(***************************************************************************)
\* What a ready report stands on: its artifacts are of its run, or, under v2, newer; and
\* the output of v5.11 beside its report is of its run or is lost.
Vouched(s) ==
  LET report == At(s, git.work)
  IN report.is = "pass" =>
       /\ report.json # 0 /\ report.json <= runs
       /\ \A c \in RunSet(s) : IF s \in CreateOnce THEN report.art[c] = report.json
                               ELSE report.art[c] = 0 \/ report.art[c] >= report.json
       /\ s = "v511" => report.out \in {0, report.json}

\* What the generator that runs has made so far.
Making ==
  /\ gen.pc = "json" /\ gen.ready /\ gen.stage \in CreateOnce \cup Surfaces =>
       /\ \A c \in RunSet(gen.stage) : At(gen.stage, git.work).art[c] = runs
       /\ gen.stage = "v511" => At(gen.stage, git.work).out = runs
  /\ gen.pc = "md" => /\ git.work[gen.stage] # Gone
                      /\ git.work[gen.stage].json = runs
                      /\ gen.ready => git.work[gen.stage].is = "pass"

EInv ==
  /\ Shape
  /\ runs # 0
  /\ exit.stage \in Stages \cup {"none"}
  /\ \A s \in Stages : Vouched(s)
  /\ Making
  /\ ExitTellsReports

\* The checkout is edited between the runs, and no edit is to a report.
LEMMA QuietStep ==
  ASSUME EInv, \/ \E p \in DOMAIN Contents : \E c \in Contents[p] : Edit(p, c)
               \/ \E p \in DOMAIN Contents : Move(p)
               \/ \E p \in Paths : Add(p)
               \/ Commit
  PROVE  /\ gen.pc = "idle" /\ gen' = gen /\ exit' = exit /\ runs' = runs
         /\ git' = [log |-> git'.log, index |-> git'.index, work |-> git'.work]
         /\ IsTree(git'.work)
         /\ \A s \in Stages : git'.work[s] = git.work[s]
<1>0. /\ git = [log |-> git.log, index |-> git.index, work |-> git.work]
      /\ git.work = [p \in Paths |-> git.work[p]]
      /\ DOMAIN Contents \subseteq Sources
  BY ChainAssumption DEF EInv, Shape, IsTree, ChainAssumption
<1>1. \A p \in Sources : p \notin Stages /\ p \in Paths
  BY DEF Sources, Stages, Guarded, Surfaces, Notices, Paths
<1>2. ASSUME NEW w, w = [p \in Paths |-> w[p]], \A s \in Stages : w[s] = git.work[s]
      PROVE  IsTree(w)
  BY <1>2 DEF IsTree, EInv, Shape
<1>3. ASSUME NEW p \in DOMAIN Contents, NEW c, Edit(p, c)
      PROVE  /\ git' = [log |-> git'.log, index |-> git'.index, work |-> git'.work]
             /\ git'.work = [q \in Paths |-> git'.work[q]]
             /\ \A s \in Stages : git'.work[s] = git.work[s]
  BY <1>0, <1>1, <1>3 DEF Edit
<1>4. ASSUME NEW p \in DOMAIN Contents, Move(p)
      PROVE  /\ git' = [log |-> git'.log, index |-> git'.index, work |-> git'.work]
             /\ git'.work = [q \in Paths |-> git'.work[q]]
             /\ \A s \in Stages : git'.work[s] = git.work[s]
  <2>1. "annex" \in Sources
    BY DEF Sources
  <2> DEFINE g1 == [git EXCEPT !.work[p] = Gone]
             g2 == [g1 EXCEPT !.work["annex"] = git.work[p]]
             g3 == [g2 EXCEPT !.index[p] = Gone]
             g4 == [g3 EXCEPT !.index["annex"] = git.index[p]]
  <2>2. git' = g4
    BY <1>4 DEF Move
  <2>3. /\ g1 = [log |-> g1.log, index |-> g1.index, work |-> g1.work]
        /\ g1.work = [q \in Paths |-> g1.work[q]]
        /\ \A s \in Stages : g1.work[s] = git.work[s]
    BY <1>0, <1>1
  <2> HIDE DEF g1
  <2>4. /\ g2 = [log |-> g2.log, index |-> g2.index, work |-> g2.work]
        /\ g2.work = [q \in Paths |-> g2.work[q]]
        /\ \A s \in Stages : g2.work[s] = git.work[s]
    BY <1>1, <2>1, <2>3
  <2> HIDE DEF g2
  <2>5. g3 = [log |-> g3.log, index |-> g3.index, work |-> g3.work] /\ g3.work = g2.work
    BY <2>4
  <2> HIDE DEF g3
  <2>6. g4 = [log |-> g4.log, index |-> g4.index, work |-> g4.work] /\ g4.work = g3.work
    BY <2>5
  <2> HIDE DEF g4
  <2> QED BY <2>2, <2>4, <2>5, <2>6
<1>5. ASSUME NEW p \in Paths, Add(p)
      PROVE  /\ git' = [log |-> git'.log, index |-> git'.index, work |-> git'.work]
             /\ git'.work = git.work
  BY <1>0, <1>5 DEF Add
<1>6. ASSUME Commit
      PROVE  /\ git' = [log |-> git'.log, index |-> git'.index, work |-> git'.work]
             /\ git'.work = git.work
  BY <1>0, <1>6 DEF Commit
<1>7. gen.pc = "idle" /\ gen' = gen /\ exit' = exit /\ runs' = runs
  BY DEF Edit, Move, Add, Commit, Quiet
<1> QED BY <1>0, <1>2, <1>3, <1>4, <1>5, <1>6, <1>7

\* A run writes to the path of its report.
LEMMA WriteStep ==
  ASSUME Shape, NEW s \in Stages, NEW r \in Report(s), git' = [git EXCEPT !.work[s] = r]
  PROVE  /\ git' = [log |-> git'.log, index |-> git'.index, work |-> git'.work]
         /\ IsTree(git'.work)
         /\ git'.work[s] = r /\ At(s, git'.work) = r
         /\ \A p \in Paths \ {s} : git'.work[p] = git.work[p]
<1> DEFINE w == [git.work EXCEPT ![s] = r]
<1>1. s \in Paths /\ git.work = [p \in Paths |-> git.work[p]]
  BY DEF Shape, IsTree, Paths
<1>2. w = [p \in Paths |-> w[p]] /\ w[s] = r /\ \A p \in Paths \ {s} : w[p] = git.work[p]
  BY <1>1
<1>3. IsTree(w)
  BY <1>2 DEF IsTree, Shape, Paths
<1>4. git' = [git EXCEPT !.work = w]
  BY DEF Shape
<1>5. At(s, w) = r
  BY <1>2, ReportIsThere DEF At
<1> HIDE DEF w
<1>6. git' = [log |-> git.log, index |-> git.index, work |-> w]
  BY <1>4 DEF Shape
<1>7. git'.work = w /\ git'.log = git.log /\ git'.index = git.index
  BY <1>6
<1> QED BY <1>2, <1>3, <1>5, <1>6, <1>7

LEMMA ReportsAreStages == CreateOnce \cup Surfaces \subseteq Stages /\ CreateOnce \cap Surfaces = {}
BY DEF CreateOnce, Surfaces, Stages, Guarded, Notices

LEMMA EInvInit == Init => EInv
<1> SUFFICES ASSUME Init PROVE EInv
  OBVIOUS
<1>1. PICK k \in Checkouts :
        LET disk == [p \in Paths |-> IF p \in k.reports THEN ReadyReport(p)
                                     ELSE IF p \in Stages \cup {"annex"} \cup k.missing THEN Gone
                                     ELSE Source(p, "asis")]
            known == [p \in Paths |-> IF p \in Ignored /\ ~k.tracked THEN Gone ELSE disk[p]]
        IN git = [log |-> <<known>>, index |-> known, work |-> disk]
  BY DEF Init
<1> DEFINE disk == [p \in Paths |-> IF p \in k.reports THEN ReadyReport(p)
                                    ELSE IF p \in Stages \cup {"annex"} \cup k.missing THEN Gone
                                    ELSE Source(p, "asis")]
<1>2. git.work = disk /\ git = [log |-> git.log, index |-> git.index, work |-> git.work]
  BY <1>1
<1>3. /\ gen.pc = "idle" /\ runs = 1 /\ exit.stage = "none"
  BY DEF Init, Idle
<1>4. ASSUME NEW s \in Stages
      PROVE  /\ ReadyReport(s) \in Report(s)
             /\ ReadyReport(s).json = 1 /\ \A c \in RunSet(s) : ReadyReport(s).art[c] = 1
             /\ s = "v511" => ReadyReport(s).out = 1
  <2> DEFINE art == [c \in DOMAIN NoArt |-> IF c \in RunSet(s) THEN 1 ELSE 0]
  <2>1. art \in [Classes -> Nat] /\ \A c \in RunSet(s) : art[c] = 1
    BY RunSets
  <2> HIDE DEF art
  <2>2. ReadyReport(s) = [is |-> "pass", of |-> s, json |-> 1, md |-> 1,
                          out |-> IF s = "v511" THEN 1 ELSE 0, capped |-> s = "v511",
                          rows |-> s \in Surfaces, art |-> art]
    BY DEF ReadyReport, art
  <2> QED BY <2>1, <2>2 DEF Report
<1>5. \A s \in Stages : disk[s] = Gone \/ disk[s] = ReadyReport(s)
  BY DEF Paths
<1>6. IsTree(disk)
  BY <1>4, <1>5 DEF IsTree
<1>7. ASSUME NEW s \in Stages PROVE Vouched(s)
  <2>1. CASE disk[s] = Gone
    BY <1>2, <2>1 DEF Vouched, At, NoReport
  <2>2. CASE disk[s] = ReadyReport(s)
    <3>1. At(s, git.work) = ReadyReport(s)
      BY <1>2, <1>4, <2>2, ReportIsThere DEF At
    <3> QED BY <1>3, <1>4, <3>1 DEF Vouched
  <2> QED BY <1>5, <2>1, <2>2
<1> HIDE DEF disk
<1>8. Shape
  BY <1>2, <1>3, <1>6 DEF Shape
<1> QED BY <1>3, <1>7, <1>8 DEF EInv, Making, ExitTellsReports

LEMMA VouchedStays ==
  ASSUME EInv, NEW s \in Stages, git'.work[s] = git.work[s], runs' \in Nat, runs <= runs'
  PROVE  Vouched(s)'
<1>1. At(s, git'.work) = At(s, git.work)
  BY DEF At
<1>2. At(s, git.work) \in Report(s) /\ runs \in Nat
  BY ReportAt DEF EInv, Shape
<1>3. At(s, git.work).json \in Nat
  BY <1>2 DEF Report
<1> DEFINE r == At(s, git.work)
<1>4. Vouched(s)
  BY DEF EInv
<1>5. r.is = "pass" => /\ r.json # 0 /\ r.json <= runs
                       /\ \A c \in RunSet(s) : IF s \in CreateOnce THEN r.art[c] = r.json
                                               ELSE r.art[c] = 0 \/ r.art[c] >= r.json
                       /\ s = "v511" => r.out \in {0, r.json}
  BY <1>4 DEF Vouched
<1>6. At(s, git'.work) = r /\ r.json \in Nat
  BY <1>1, <1>3
<1> HIDE DEF r
<1>7. r.json <= runs => r.json <= runs'
  BY <1>2, <1>6
<1> QED BY <1>5, <1>6, <1>7 DEF Vouched

LEMMA StartStep ==
  ASSUME EInv, NEW s \in Stages, Started(s) PROVE EInv'
<1>0. Shape /\ runs \in Nat /\ runs' = runs + 1 /\ runs' \in Nat /\ IsTree(git.work)
  BY DEF Started, EInv, Shape
<1>1. gen'.pc = "idle" \/ /\ gen'.pc = "json" /\ gen'.stage = s
                          /\ gen' = [stage |-> gen'.stage, pc |-> gen'.pc, base |-> gen'.base,
                                     ready |-> gen'.ready, rows |-> gen'.rows]
                          /\ gen'.ready /\ s \in CreateOnce \cup Surfaces => AllRan(s)
  BY DEF Started, Idle
<1>2. /\ git' = [log |-> git'.log, index |-> git'.index, work |-> git'.work]
      /\ IsTree(git'.work)
      /\ \A t \in Stages \ {s} : git'.work[t] = git.work[t]
  <2>1. CASE git' = git
    BY <1>0, <2>1 DEF Shape
  <2>2. ASSUME NEW rows, NEW ran, git' = After(s, rows, ran)
        PROVE  /\ git' = [log |-> git'.log, index |-> git'.index, work |-> git'.work]
               /\ IsTree(git'.work)
               /\ \A t \in Stages \ {s} : git'.work[t] = git.work[t]
    BY <1>0, <2>2, AfterIs DEF Paths
  <2> QED BY <2>1, <2>2 DEF Started
<1>3. Shape'
  BY <1>0, <1>1, <1>2 DEF Shape
<1>4. ASSUME NEW t \in Stages, t # s PROVE Vouched(t)'
  BY <1>0, <1>2, <1>4, VouchedStays
<1>5. Vouched(s)'
  <2>1. CASE git' = git
    BY <1>0, <2>1, VouchedStays
  <2>2. ASSUME NEW ran, NEW rows \in Rows(s, git.work), git' = After(s, rows, ran)
        PROVE  Vouched(s)'
    <3> DEFINE old == At(s, git.work)
               new == Made(s, git.work, rows, ran, runs + 1)
    <3>1. /\ new \in Report(s) /\ new.is = old.is /\ new.json = old.json
          /\ \A c \in Classes : new.art[c] =
               IF c \in ran /\ ~Leftover(s, git.work, c)
               THEN IF rows[c].ok /\ rows[c].artifact # "none" THEN runs + 1 ELSE 0
               ELSE old.art[c]
          /\ s = "v511" => new.out =
               IF "cap" \notin ran THEN old.out ELSE IF rows["cap"].ok THEN runs + 1 ELSE 0
      BY <1>0, MadeIs
    <3>2. At(s, git'.work) = new
      BY <1>0, <2>2, <3>1, AfterIs, ReportIsThere DEF At
    <3>3. old \in Report(s) /\ old.json \in Nat
      <4>1. old \in Report(s)
        BY <1>0, ReportAt
      <4> HIDE DEF old
      <4> QED BY <4>1 DEF Report
    <3>4. old.is = "pass" =>
            /\ old.json # 0 /\ old.json <= runs
            /\ \A c \in RunSet(s) : IF s \in CreateOnce THEN old.art[c] = old.json
                                    ELSE old.art[c] = 0 \/ old.art[c] >= old.json
            /\ s = "v511" => old.out \in {0, old.json}
      BY DEF EInv, Vouched
    <3>5. \A c : Leftover(s, git.work, c) <=> s \in CreateOnce /\ old.art[c] # 0
      BY DEF Leftover
    <3>6. RunSet(s) \subseteq Classes
      BY RunSets
    <3>9. s = "v511" /\ Leftover(s, git.work, "cap") => ~rows["cap"].ok
      <4>1. s = "v511" => "cap" \in RunSet(s)
        BY RunSets DEF Classes
      <4> QED BY <4>1, LeftoverRow DEF CreateOnce
    <3>10. s = "v511" => "cap" \in RunSet(s) /\ s \in CreateOnce
      BY RunSets DEF Classes, CreateOnce
    <3> HIDE DEF old, new
    <3>7. ASSUME old.is = "pass", NEW c \in RunSet(s)
          PROVE  IF s \in CreateOnce THEN new.art[c] = old.json
                 ELSE new.art[c] = 0 \/ new.art[c] >= old.json
      <4>1. CASE s \in CreateOnce
        BY <3>1, <3>4, <3>5, <3>6, <3>7, <4>1
      <4>2. CASE s \notin CreateOnce
        <5>1. runs + 1 >= old.json
          BY <1>0, <3>3, <3>4, <3>7
        <5> QED BY <3>1, <3>4, <3>6, <3>7, <4>2, <5>1
      <4> QED BY <4>1, <4>2
    <3>8. old.is = "pass" => old.json # 0 /\ old.json <= runs'
      BY <1>0, <3>3, <3>4
    <3>11. old.is = "pass" /\ s = "v511" => new.out \in {0, old.json}
      BY <3>1, <3>4, <3>5, <3>9, <3>10
    <3> QED BY <3>1, <3>2, <3>7, <3>8, <3>11 DEF Vouched
  <2> QED BY <2>1, <2>2 DEF Started
<1>6. Making'
  <2>1. SUFFICES ASSUME gen'.pc = "json", gen'.stage = s, gen'.ready, s \in CreateOnce \cup Surfaces,
                        AllRan(s)
                 PROVE  /\ \A c \in RunSet(s) : At(s, git'.work).art[c] = runs'
                        /\ s = "v511" => At(s, git'.work).out = runs'
    BY <1>1 DEF Making
  <2>2. PICK rows \in Rows(s, git.work) :
          /\ git' = After(s, rows, RunSet(s))
          /\ \A c \in RunSet(s) : rows[c].ok /\ rows[c].artifact # "none"
    BY <2>1 DEF AllRan
  <2> DEFINE new == Made(s, git.work, rows, RunSet(s), runs + 1)
  <2>3. ASSUME NEW c \in RunSet(s) PROVE ~Leftover(s, git.work, c)
    <3>1. SUFFICES ASSUME Leftover(s, git.work, c) PROVE FALSE
      OBVIOUS
    <3>2. s \in CreateOnce
      BY <3>1 DEF Leftover
    <3> QED BY <2>2, <3>1, <3>2, LeftoverRow
  <2>4. RunSet(s) \subseteq Classes /\ (s = "v511" => "cap" \in RunSet(s))
    BY RunSets DEF Classes
  <2>5. /\ new \in Report(s) /\ \A c \in RunSet(s) : new.art[c] = runs + 1
        /\ s = "v511" => new.out = runs + 1
    BY <1>0, <2>2, <2>3, <2>4, MadeIs
  <2>6. At(s, git'.work) = new
    BY <1>0, <2>2, <2>5, AfterIs, ReportIsThere DEF At
  <2> QED BY <1>0, <2>5, <2>6
<1>7. ExitTellsReports' /\ exit'.stage \in Stages \cup {"none"}
  BY DEF Started, ExitTellsReports, EInv
<1>8. runs' # 0
  BY <1>0
<1> QED BY <1>3, <1>4, <1>5, <1>6, <1>7, <1>8 DEF EInv

\* The fields a JSON gives a report, and what it leaves.
Filled(old, is, n, flag) == [old EXCEPT !.is = is, !.json = n, !.rows = flag]

LEMMA FilledIs ==
  ASSUME NEW s, NEW old \in Report(s), NEW is \in {"pass", "fail", "torn"}, NEW n \in Nat,
         NEW flag \in BOOLEAN
  PROVE  /\ Filled(old, is, n, flag) \in Report(s)
         /\ Filled(old, is, n, flag).is = is /\ Filled(old, is, n, flag).json = n
         /\ Filled(old, is, n, flag).art = old.art /\ Filled(old, is, n, flag).out = old.out
<1> DEFINE r1 == [old EXCEPT !.is = is]
           r2 == [r1 EXCEPT !.json = n]
<1>1. r1 \in Report(s) /\ r1.is = is /\ r1.art = old.art /\ r1.out = old.out
  BY DEF Report
<1>2. r2 \in Report(s) /\ r2.is = is /\ r2.json = n /\ r2.art = old.art /\ r2.out = old.out
  <2> HIDE DEF r1
  <2> QED BY <1>1 DEF Report
<1>3. Filled(old, is, n, flag) = [r2 EXCEPT !.rows = flag]
  BY DEF Report, Filled
<1> HIDE DEF r2
<1> QED BY <1>2, <1>3 DEF Report

\* A write to one report by the generator that runs, seen from the other reports.
LEMMA OthersStay ==
  ASSUME EInv, NEW s \in Stages, NEW r \in Report(s), git' = [git EXCEPT !.work[s] = r],
         runs' = runs
  PROVE  \A t \in Stages : t # s => Vouched(t)'
<1>1. runs \in Nat /\ Shape
  BY DEF EInv, Shape
<1>2. \A t \in Stages \ {s} : git'.work[t] = git.work[t]
  BY <1>1, WriteStep DEF Paths
<1> QED BY <1>1, <1>2, VouchedStays

LEMMA JsonStep ==
  ASSUME EInv, WriteJson PROVE EInv'
<1>0. PICK s \in Stages : s = gen.stage
  BY DEF EInv, Shape, WriteJson
<1> DEFINE old == At(s, git.work)
           is == IF gen.ready THEN "pass" ELSE "fail"
           flag == s \in Surfaces /\ RowsGood(s, gen.rows)
           r == Filled(old, is, runs, flag)
<1>1. /\ Shape /\ IsTree(git.work) /\ runs \in Nat /\ runs # 0 /\ runs' = runs /\ exit' = exit
      /\ gen.stage = s /\ gen.pc = "json"
      /\ gen' = [stage |-> s, pc |-> "md", base |-> gen.base, ready |-> gen.ready, rows |-> gen.rows]
  BY <1>0 DEF EInv, Shape, WriteJson
<1>2. old \in Report(s)
  BY <1>1, ReportAt
<1>3. git' = [git EXCEPT !.work[s] = r]
  BY <1>1 DEF WriteJson, Filled
<1>4. is \in {"pass", "fail", "torn"} /\ (is = "pass" <=> gen.ready)
  OBVIOUS
<1>5. flag \in BOOLEAN
  OBVIOUS
<1> HIDE DEF old, is, flag
<1>6. r \in Report(s) /\ r.is = is /\ r.json = runs /\ r.art = old.art /\ r.out = old.out
  BY <1>1, <1>2, <1>4, <1>5, FilledIs
<1> HIDE DEF r
<1>7. /\ git' = [log |-> git'.log, index |-> git'.index, work |-> git'.work]
      /\ IsTree(git'.work) /\ git'.work[s] = r /\ At(s, git'.work) = r
  BY <1>1, <1>3, <1>6, WriteStep
<1>8. Shape'
  BY <1>1, <1>7 DEF Shape
<1>9. \A t \in Stages : t # s => Vouched(t)'
  BY <1>1, <1>3, <1>6, OthersStay
<1>10. Vouched(s)'
  <2>1. ASSUME gen.ready, NEW c \in RunSet(s)
        PROVE  IF s \in CreateOnce THEN r.art[c] = r.json
               ELSE r.art[c] = 0 \/ r.art[c] >= r.json
    <3>1. s \in CreateOnce \cup Surfaces
      BY <1>1, <2>1, RunSets
    <3>2. old.art[c] = runs
      BY <1>1, <2>1, <3>1 DEF EInv, Making, old
    <3> QED BY <1>1, <1>6, <3>2
  <2>2. gen.ready /\ s = "v511" => r.out = r.json
    BY <1>1, <1>6 DEF EInv, Making, old, CreateOnce
  <2> QED BY <1>1, <1>4, <1>6, <1>7, <2>1, <2>2 DEF Vouched
<1>11. Making'
  <2>1. gen'.pc = "md" /\ gen'.stage = s /\ gen'.ready = gen.ready
    BY <1>1
  <2> QED BY <1>1, <1>4, <1>6, <1>7, <2>1, ReportIsThere DEF Making
<1>12. ExitTellsReports'
  BY <1>1 DEF ExitTellsReports
<1> QED BY <1>1, <1>8, <1>9, <1>10, <1>11, <1>12 DEF EInv

LEMMA MdStep ==
  ASSUME EInv, NEW s \in Stages, WriteMd(s) PROVE EInv'
<1> DEFINE old == git.work[s]
           r == [old EXCEPT !.md = runs]
<1>1. /\ Shape /\ runs \in Nat /\ runs # 0 /\ runs' = runs /\ gen.pc = "md" /\ gen.stage = s
      /\ gen' = Idle /\ exit' = [stage |-> s, status |-> Status(s, gen.ready), run |-> runs]
  BY DEF EInv, Shape, WriteMd, Ends
<1>2. old # Gone /\ old.json = runs /\ (gen.ready => old.is = "pass")
  BY <1>1 DEF EInv, Making
<1>3. old \in Report(s)
  BY <1>1, <1>2 DEF Shape, IsTree
<1>4. git' = [git EXCEPT !.work[s] = r]
  BY <1>1 DEF WriteMd, Shape, IsTree, Paths
<1>5. At(s, git.work) = old
  BY <1>2 DEF At
<1>6. Vouched(s)
  BY DEF EInv
<1> HIDE DEF old
<1>7. /\ r \in Report(s) /\ r.is = old.is /\ r.json = old.json /\ r.md = runs
      /\ r.art = old.art /\ r.out = old.out
  BY <1>1, <1>3 DEF Report
<1> HIDE DEF r
<1>8. /\ git' = [log |-> git'.log, index |-> git'.index, work |-> git'.work]
      /\ IsTree(git'.work) /\ At(s, git'.work) = r
  BY <1>1, <1>4, <1>7, WriteStep
<1>9. Shape'
  BY <1>1, <1>8 DEF Shape, Idle
<1>10. \A t \in Stages : t # s => Vouched(t)'
  BY <1>1, <1>4, <1>7, OthersStay
<1>11. Vouched(s)'
  BY <1>1, <1>5, <1>6, <1>7, <1>8 DEF Vouched
<1>12. Making'
  BY <1>1 DEF Making, Idle
<1>13. ExitTellsReports'
  <2>1. exit'.stage = s /\ exit'.status = Status(s, gen.ready)
    BY <1>1
  <2>2. Status(s, gen.ready) = 0 => gen.ready \/ s \in Notices
    BY DEF Status
  <2> QED BY <1>1, <1>2, <1>7, <1>8, <2>1, <2>2 DEF ExitTellsReports
<1>14. exit'.stage \in Stages
  BY <1>1
<1> QED BY <1>1, <1>9, <1>10, <1>11, <1>12, <1>13, <1>14 DEF EInv

LEMMA KillStep ==
  ASSUME EInv, Kill PROVE EInv'
<1>0. PICK s \in Stages : s = gen.stage
  BY DEF EInv, Shape, Kill
<1> DEFINE old == At(s, git.work)
<1>1. /\ Shape /\ IsTree(git.work) /\ runs \in Nat /\ runs # 0 /\ runs' = runs
      /\ gen.stage = s /\ gen.pc \in {"json", "md"}
      /\ gen' = Idle /\ exit' = [stage |-> s, status |-> 137, run |-> runs]
  BY <1>0 DEF EInv, Shape, Kill, Ends
<1>2. old \in Report(s)
  BY <1>1, ReportAt
<1>3. Vouched(s)
  BY <1>1 DEF EInv
<1>4. PICK r \in Report(s) : /\ git' = [git EXCEPT !.work[s] = r]
                             /\ r.is = "torn" \/ r = [old EXCEPT !.md = Torn]
  <2>1. CASE gen.pc = "json"
    <3> DEFINE r == [old EXCEPT !.is = "torn", !.json = runs]
    <3>1. git' = [git EXCEPT !.work[s] = r]
      BY <1>1, <2>1 DEF Kill
    <3> HIDE DEF old
    <3>2. r \in Report(s) /\ r.is = "torn"
      <4> DEFINE r1 == [old EXCEPT !.is = "torn"]
      <4>1. r1 \in Report(s) /\ r1.is = "torn"
        BY <1>2 DEF Report
      <4>2. r = [r1 EXCEPT !.json = runs]
        BY <1>2 DEF Report
      <4> HIDE DEF r1
      <4> QED BY <1>1, <4>1, <4>2 DEF Report
    <3> QED BY <3>1, <3>2
  <2>2. CASE gen.pc = "md"
    <3> DEFINE r == [old EXCEPT !.md = Torn]
    <3>1. git.work[s] # Gone
      BY <1>1, <2>2 DEF EInv, Making
    <3>2. old = git.work[s]
      BY <3>1 DEF At
    <3>3. git' = [git EXCEPT !.work[s] = r]
      BY <1>1, <2>2, <3>2 DEF Kill, Shape, IsTree, Paths
    <3> HIDE DEF old
    <3>4. r \in Report(s)
      BY <1>2 DEF Report
    <3> QED BY <3>3, <3>4
  <2> QED BY <1>1, <2>1, <2>2
<1>5. r.is = "pass" => /\ r.is = old.is /\ r.json = old.json
                       /\ r.art = old.art /\ r.out = old.out
  <2> HIDE DEF old
  <2> QED BY <1>2, <1>4 DEF Report
<1> HIDE DEF old
<1>6. /\ git' = [log |-> git'.log, index |-> git'.index, work |-> git'.work]
      /\ IsTree(git'.work) /\ At(s, git'.work) = r
  BY <1>1, <1>4, WriteStep
<1>7. Shape'
  BY <1>1, <1>6 DEF Shape, Idle
<1>8. \A t \in Stages : t # s => Vouched(t)'
  BY <1>1, <1>4, OthersStay
<1>9. Vouched(s)'
  BY <1>1, <1>3, <1>5, <1>6 DEF Vouched, old
<1>10. Making' /\ ExitTellsReports' /\ exit'.stage \in Stages
  BY <1>1 DEF Making, Idle, ExitTellsReports
<1> QED BY <1>1, <1>7, <1>8, <1>9, <1>10 DEF EInv

Quiets == \/ \E p \in DOMAIN Contents : \E c \in Contents[p] : Edit(p, c)
          \/ \E p \in DOMAIN Contents : Move(p)
          \/ \E p \in Paths : Add(p)
          \/ Commit

LEMMA QuietKeeps ==
  ASSUME EInv, Quiets PROVE EInv'
<1>1. /\ gen.pc = "idle" /\ gen' = gen /\ exit' = exit /\ runs' = runs
      /\ git' = [log |-> git'.log, index |-> git'.index, work |-> git'.work]
      /\ IsTree(git'.work)
      /\ \A s \in Stages : git'.work[s] = git.work[s]
  BY QuietStep DEF Quiets
<1>2. Shape' /\ runs \in Nat
  BY <1>1 DEF Shape, EInv
<1>3. \A s \in Stages : Vouched(s)'
  BY <1>1, <1>2, VouchedStays
<1>4. Making'
  BY <1>1 DEF Making
<1>5. ExitTellsReports'
  <2>1. \A s \in Stages : At(s, git'.work) = At(s, git.work)
    BY <1>1 DEF At
  <2> QED BY <1>1, <2>1 DEF ExitTellsReports, EInv
<1> QED BY <1>1, <1>2, <1>3, <1>4, <1>5 DEF EInv

Renders == \E s \in Stages : WriteMd(s)

\* The next-state relation, sorted by what a step does to the checkout.
LEMMA NextSorted == Next => Quiets \/ Judges \/ WriteJson \/ Kill \/ Renders
BY DEF Next, Quiets, Judges, Renders, Render54, Render55, Render56, Render57, Render511,
       RenderScan, RenderPaper, RenderBacktest, Render81, Render82, RenderAudit,
       Stages, Guarded, Surfaces, Notices

LEMMA EInvStep == EInv /\ [Next]_vars => EInv'
<1> SUFFICES ASSUME EInv, [Next]_vars PROVE EInv'
  OBVIOUS
<1>1. CASE Quiets
  BY <1>1, QuietKeeps
<1>2. CASE Judges
  BY <1>2, JudgesStart, StartStep
<1>3. CASE WriteJson
  BY <1>3, JsonStep
<1>4. CASE Kill
  BY <1>4, KillStep
<1>5. CASE Renders
  BY <1>5, MdStep DEF Renders
<1>6. CASE UNCHANGED vars
  BY <1>6 DEF vars, EInv, Shape, Vouched, Making, ExitTellsReports
<1> QED BY <1>1, <1>2, <1>3, <1>4, <1>5, <1>6, NextSorted

LEMMA EInvHolds == Spec => []EInv
BY EInvInit, EInvStep, PTL DEF Spec

\* Exit status 0 tells of the two files: whatever was edited, killed or run before.
THEOREM ExitTellsTheReports == Spec => []ExitTellsReports
<1>1. EInv => ExitTellsReports
  BY DEF EInv
<1> QED BY <1>1, EInvHolds, PTL

\* No ready report of v5.7 or v5.11 rests on the artifacts of another run, and none of v2
\* on those of an earlier one.
THEOREM ArtifactsAreOfTheirRun == Spec => []ArtifactsOfItsRun
<1>1. EInv => ArtifactsOfItsRun
  <2>1. SUFFICES ASSUME EInv, NEW s \in CreateOnce \cup Surfaces, At(s, git.work).is = "pass"
                 PROVE  \A c \in RunSet(s) :
                          IF s \in CreateOnce THEN git.work[s].art[c] = git.work[s].json
                          ELSE git.work[s].art[c] = 0 \/ git.work[s].art[c] >= git.work[s].json
    BY DEF ArtifactsOfItsRun
  <2>2. Vouched(s)
    BY <2>1, ReportsAreStages DEF EInv
  <2>3. At(s, git.work) = git.work[s]
    BY <2>1 DEF At, NoReport
  <2> QED BY <2>1, <2>2, <2>3 DEF Vouched
<1> QED BY <1>1, EInvHolds, PTL

(***************************************************************************)
(* What a guarded generator has seen when it is ready.                     *)
(***************************************************************************)
LEMMA GuardedAre ==
  /\ Guarded = {"v54", "v55", "v56", "v57", "v511"}
  /\ \A s \in Guarded : s \in Allowed(s) /\ s \in Stages
BY DEF Guarded, Allowed, Allowed54, Allowed55, Allowed56, Allowed57, Allowed511, Stages

SeesAll(s, b) ==
  \A p \in Paths : /\ git.work[p] # git.log[b][p]
                   /\ p \notin Hidden(b)
                   /\ p \in Ignored => git.index[p] # Gone \/ git.log[b][p] # Gone
                   => p \in Allowed(s)

\* A listing made after the replays is as good as one before: they touch the stage's own
\* path only, and that is allowed.
LEMMA ListedIsSeen ==
  ASSUME NEW s \in Guarded, NEW b, NEW done,
         done.log = git.log, done.index = git.index,
         \A p \in Paths : p # s => done.work[p] = git.work[p],
         Changed(done, b) \subseteq Allowed(s)
  PROVE  SeesAll(s, b)
<1>1. SUFFICES ASSUME NEW p \in Paths, p # s, git.work[p] # git.log[b][p], p \notin Hidden(b),
                      p \in Ignored => git.index[p] # Gone \/ git.log[b][p] # Gone
               PROVE  p \in Allowed(s)
  BY GuardedAre DEF SeesAll
<1>2. Tip(done) = Tip(git)
  BY DEF Tip
<1>3. p \in Changed(done, b)
  <2>1. p \notin Renamed(done.log[b], Tip(done)) \cup Renamed(Tip(done), done.index)
    BY <1>1, <1>2 DEF Hidden
  <2> QED BY <1>1, <2>1, ListingsComplete
<1> QED BY <1>3

\* The step in which a generator finds itself ready is its judgement.
LEMMA ReadyJudges ==
  ASSUME [Next]_vars, NEW s \in Stages, FindsReady(s)
  PROVE  Judges
<1>1. gen.pc = "idle" /\ gen'.pc = "json"
  BY DEF FindsReady
<1>2. Idle.pc = "idle"
  BY DEF Idle
<1>3. ~Quiets
  BY <1>1 DEF Quiets, Edit, Move, Add, Commit, Quiet
<1>4. ~WriteJson /\ ~Kill /\ ~Renders
  BY <1>1 DEF WriteJson, Kill, Renders, WriteMd
<1> QED BY <1>1, <1>3, <1>4, NextSorted DEF vars

\* Which judgement it is, from the stage.
LEMMA JudgeOfStage ==
  ASSUME Judges, NEW s \in Stages, FindsReady(s)
  PROVE  /\ s = "v54" => \E b : Judge54(b) /\ gen'.base = b
         /\ s = "v55" => \E b : Judge55(b) /\ gen'.base = b
         /\ s = "v56" => \E b : Judge56(b) /\ gen'.base = b
         /\ s = "v57" => \E b : Judge57(b) /\ gen'.base = b
         /\ s = "v511" => \E b : Judge511(b) /\ gen'.base = b
         /\ s = "scan" => JudgeScan
         /\ s = "paper" => JudgePaper
         /\ s = "backtest" => JudgeBacktest
         /\ s = "v81" => Judge81
         /\ s = "v82" => Judge82
         /\ s = "audit" => \E b : JudgeAudit(b)
<1>0. gen'.pc # "idle" /\ gen'.stage = s
  BY DEF FindsReady
<1>1. ASSUME NEW b, Judge54(b) PROVE s = "v54" /\ gen'.base = b
  BY <1>0, <1>1, Concluded DEF Judge54
<1>2. ASSUME NEW b, Judge55(b) PROVE s = "v55" /\ gen'.base = b
  BY <1>0, <1>2, Concluded DEF Judge55
<1>3. ASSUME NEW b, Judge56(b) PROVE s = "v56" /\ gen'.base = b
  BY <1>0, <1>3, Concluded DEF Judge56
<1>4. ASSUME NEW b, Judge57(b) PROVE s = "v57" /\ gen'.base = b
  BY <1>0, <1>4, Concluded DEF Judge57
<1>5. ASSUME NEW b, Judge511(b) PROVE s = "v511" /\ gen'.base = b
  BY <1>0, <1>5, Concluded DEF Judge511
<1>6. ASSUME NEW b, JudgeAudit(b) PROVE s = "audit"
  BY <1>0, <1>6, Concluded DEF JudgeAudit
<1>7. JudgeScan => s = "scan"
  BY <1>0, Concluded DEF JudgeScan
<1>8. JudgePaper => s = "paper"
  BY <1>0, Concluded DEF JudgePaper
<1>9. JudgeBacktest => s = "backtest"
  BY <1>0, Concluded DEF JudgeBacktest
<1>10. Judge81 => s = "v81"
  BY <1>0, Concluded DEF Judge81
<1>11. Judge82 => s = "v82"
  BY <1>0, Concluded DEF Judge82
<1>12. ~\E t \in Stages : Refuse(t)
  BY <1>0 DEF Refuse, Ends, Idle
<1>13. ~\E t \in Stages : \E k \in CutAt : CutReplay(t, k)
  <2>1. ASSUME NEW t, NEW k, CutReplay(t, k) PROVE FALSE
    <3>1. gen' = Idle
      BY <2>1 DEF CutReplay, Ends
    <3> QED BY <1>0, <3>1 DEF Idle
  <2> QED BY <2>1
<1> QED BY <1>1, <1>2, <1>3, <1>4, <1>5, <1>6, <1>7, <1>8, <1>9, <1>10, <1>11, <1>12, <1>13
           DEF Judges

\* The verdict of a judgement that finds a guarded stage ready.
LEMMA GuardedVerdicts ==
  ASSUME NEW b, NEW s \in Stages, FindsReady(s)
  PROVE  /\ Judge54(b) => Passed(Checks54(git, b))
         /\ Judge55(b) => Passed(Checks55(git, b))
         /\ Judge56(b) => Passed(Checks56(git, b))
         /\ Judge57(b) => LET r == gen'.rows
                         IN /\ r \in Rows("v57", git.work)
                            /\ Passed(Checks57(After("v57", r, DOMAIN r), b, r))
         /\ Judge511(b) => LET r == gen'.rows
                          IN /\ r \in Rows("v511", git.work)
                             /\ Passed(Checks511(After("v511", r, DOMAIN r), b, r))
<1>0. gen'.pc # "idle" /\ gen'.ready
  BY DEF FindsReady
<1>1. ASSUME NEW t, NEW done, NEW rows, NEW raises, NEW ready,
             Concludes(t, b, done, rows, raises, ready)
      PROVE  ready /\ gen'.rows = rows
  <2>1. gen' = [stage |-> t, pc |-> "json", base |-> b, ready |-> ready, rows |-> rows]
    BY <1>0, <1>1, Concluded
  <2> QED BY <1>0, <2>1
<1>2. Judge54(b) => Passed(Checks54(git, b))
  BY <1>1 DEF Judge54
<1>3. Judge55(b) => Passed(Checks55(git, b))
  BY <1>1 DEF Judge55
<1>4. Judge56(b) => Passed(Checks56(git, b))
  BY <1>1 DEF Judge56
<1>5. ASSUME Judge57(b)
      PROVE  LET r == gen'.rows
             IN r \in Rows("v57", git.work) /\ Passed(Checks57(After("v57", r, DOMAIN r), b, r))
  <2>1. PICK r \in Rows("v57", git.work) :
          LET ready == Passed(Checks57(After("v57", r, DOMAIN r), b, r))
          IN Concludes("v57", b, After("v57", r, DOMAIN r), r, V56Raises(git.work), ready)
    BY <1>5 DEF Judge57
  <2>2. Passed(Checks57(After("v57", r, DOMAIN r), b, r)) /\ gen'.rows = r
    BY <1>1, <2>1
  <2> QED BY <2>2
<1>6. ASSUME Judge511(b)
      PROVE  LET r == gen'.rows
             IN r \in Rows("v511", git.work) /\ Passed(Checks511(After("v511", r, DOMAIN r), b, r))
  <2>1. PICK r \in Rows("v511", git.work) :
          LET ready == Passed(Checks511(After("v511", r, DOMAIN r), b, r))
          IN Concludes("v511", b, After("v511", r, DOMAIN r), r, ~ready, ready)
    BY <1>6 DEF Judge511
  <2>2. Passed(Checks511(After("v511", r, DOMAIN r), b, r)) /\ gen'.rows = r
    BY <1>1, <2>1
  <2> QED BY <2>2
<1> QED BY <1>2, <1>3, <1>4, <1>5, <1>6

LEMMA SeesAllStep ==
  ASSUME EInv, [Next]_vars, NEW s \in Guarded, FindsReady(s)
  PROVE  SeesAll(s, gen'.base)
<1>0. Shape /\ s \in Stages /\ Judges
  BY GuardedAre, ReadyJudges DEF EInv
<1>1. CASE s = "v54"
  <2>1. PICK b : Judge54(b) /\ gen'.base = b
    BY <1>0, <1>1, JudgeOfStage
  <2>2. Scope54(git, b)
    BY <1>0, <2>1, GuardedVerdicts DEF Passed, Checks54
  <2> QED BY <1>1, <2>1, <2>2, ListedIsSeen DEF Scope54, Allowed
<1>2. CASE s = "v55"
  <2>1. PICK b : Judge55(b) /\ gen'.base = b
    BY <1>0, <1>2, JudgeOfStage
  <2>2. Scope55(git, b)
    BY <1>0, <2>1, GuardedVerdicts DEF Passed, Checks55
  <2> QED BY <1>2, <2>1, <2>2, ListedIsSeen DEF Scope55, Allowed
<1>3. CASE s = "v56"
  <2>1. PICK b : Judge56(b) /\ gen'.base = b
    BY <1>0, <1>3, JudgeOfStage
  <2>2. Scope56(git, b)
    BY <1>0, <2>1, GuardedVerdicts DEF Passed, Checks56
  <2> QED BY <1>3, <2>1, <2>2, ListedIsSeen DEF Scope56, Allowed
<1>4. CASE s = "v57"
  <2>1. PICK b : Judge57(b) /\ gen'.base = b
    BY <1>0, <1>4, JudgeOfStage
  <2> DEFINE r == gen'.rows
             done == After("v57", r, DOMAIN r)
  <2>2. Scope57(done, b)
    <3>1. Passed(Checks57(done, b, r))
      BY <1>0, <2>1, GuardedVerdicts
    <3> HIDE DEF done, r
    <3> QED BY <3>1 DEF Passed, Checks57
  <2>3. done.log = git.log /\ done.index = git.index
        /\ \A p \in Paths : p # s => done.work[p] = git.work[p]
    BY <1>0, <1>4, AfterIs
  <2> HIDE DEF done
  <2> QED BY <1>4, <2>1, <2>2, <2>3, ListedIsSeen DEF Scope57, Allowed
<1>5. CASE s = "v511"
  <2>1. PICK b : Judge511(b) /\ gen'.base = b
    BY <1>0, <1>5, JudgeOfStage
  <2> DEFINE r == gen'.rows
             done == After("v511", r, DOMAIN r)
  <2>2. Scope511(done, b)
    <3>1. Passed(Checks511(done, b, r))
      BY <1>0, <2>1, GuardedVerdicts
    <3> HIDE DEF done, r
    <3> QED BY <3>1 DEF Passed, Checks511
  <2>3. done.log = git.log /\ done.index = git.index
        /\ \A p \in Paths : p # s => done.work[p] = git.work[p]
    BY <1>0, <1>5, AfterIs
  <2> HIDE DEF done
  <2> QED BY <1>5, <2>1, <2>2, <2>3, ListedIsSeen DEF Scope511, Allowed
<1> QED BY <1>1, <1>2, <1>3, <1>4, <1>5, GuardedAre

\* A guarded generator that finds itself ready has seen every path that differs from the
\* base it names, in commits, index, working copy or unknown to git, but a renamed file's
\* old name and an ignored path git never knew; and all of them are in its scope.
THEOREM GuardsSeeAll == Spec => GuardSeesAll
<1>1. ASSUME EInv, [Next]_vars
      PROVE  [\A s \in Guarded : FindsReady(s) =>
                \A p \in Paths : /\ git.work[p] # git.log[gen'.base][p]
                                 /\ p \notin Hidden(gen'.base)
                                 /\ p \in Ignored => git.index[p] # Gone \/ git.log[gen'.base][p] # Gone
                                 => p \in Allowed(s)]_vars
  BY <1>1, SeesAllStep DEF SeesAll
<1> QED BY <1>1, EInvHolds, PTL DEF Spec, GuardSeesAll

(***************************************************************************)
(* Rows: what a command shows, and what a report vouches for of it.        *)
(***************************************************************************)
LEMMA ShownIsRow ==
  ASSUME NEW c \in Classes, NEW v \in {"v1", "v2"}, NEW state \in {"stopped", "continued"},
         NEW status \in {"none", "deferred", "applied"}, NEW size \in {"none", "asked", "allowed"},
         NEW metrics \in {"none", "full", "less", "odd"}
  PROVE  Shown(c, v, state, status, size, metrics) \in Row
<1>1. (status = "applied") \in BOOLEAN /\ (state = "continued") \in BOOLEAN
      /\ (v = "v2" /\ status = "applied") \in BOOLEAN
  OBVIOUS
<1> DEFINE applied == status = "applied"
           ran == state = "continued"
           filed == v = "v2" /\ status = "applied"
<1> HIDE DEF applied, ran, filed
<1>2. applied \in BOOLEAN /\ ran \in BOOLEAN /\ filed \in BOOLEAN
  BY <1>1 DEF applied, ran, filed
<1>3. Shown(c, v, state, status, size, metrics)
      = [ok |-> TRUE, class |-> c, state |-> state, status |-> status, applied |-> applied,
         size |-> size, metrics |-> metrics, ran |-> ran, artifact |-> "valid",
         version |-> v, filed_state |-> IF v = "v2" THEN state ELSE "none",
         filed_status |-> IF v = "v1" THEN "none"
                          ELSE IF status = "applied" THEN "applied" ELSE "not_applicable",
         filed_applied |-> filed, filed_size |-> IF v = "v2" THEN size ELSE "none"]
  BY DEF Shown, applied, ran, filed
<1> QED BY <1>2, <1>3 DEF Row

LEMMA AskedIsRow ==
  ASSUME NEW s \in Replayers, NEW c \in Classes
  PROVE  Asked(s, c) \in Row
<1>1. c \in Stops \/ c = "size" \/ c = "cap"
  BY DEF Classes
<1>2. /\ "size" \in Classes /\ "cap" \in Classes
      /\ \A d \in Stops : d \in Classes /\ d # "size" /\ d # "cap"
  BY DEF Classes, Stops
<1>3. s \in {"v57", "v511", "scan", "paper", "backtest"}
  BY DEF Replayers, Surfaces
<1>4. CASE s = "v57"
  BY <1>1, <1>2, <1>4, ShownIsRow DEF Asked, Asked57, Stopped, Full
<1>5. CASE s = "v511"
  BY <1>1, <1>2, <1>5, ShownIsRow DEF Asked, Asked511, Stopped, Full, Applied
<1>6. CASE s = "scan"
  BY <1>1, <1>2, <1>6, ShownIsRow DEF Asked, AskedScan, Stopped, Full, Applied
<1>7. CASE s = "paper"
  BY <1>1, <1>2, <1>7, ShownIsRow DEF Asked, AskedPaper, Stopped, Full, Applied
<1>8. CASE s = "backtest"
  BY <1>1, <1>2, <1>8, ShownIsRow DEF Asked, AskedBacktest, Stopped, Full, Applied
<1> QED BY <1>3, <1>4, <1>5, <1>6, <1>7, <1>8

LEMMA NoRowIsRow == NoRow \in Row
BY DEF NoRow, Row

\* A row is that of no command, or what the command shows of the decision of the gate,
\* with the sentinel not tripped.
LEMMA RowsAreShown ==
  ASSUME NEW s \in Replayers, NEW tree, NEW rows \in Rows(s, tree), NEW c \in RunSet(s)
  PROVE  /\ rows[c] \in Row
         /\ rows[c].ok => ~Sentinel(s, Decided(tree, c), rows[c])
         /\ rows[c].ok /\ tree["runtime"].is # "broken" =>
              rows[c] = Shows(s, Decided(tree, c), tree)
<1>1. PICK show \in Behaviours(s, tree) : rows[c] = Replay(s, tree, show, c)
  BY RowsAre
<1>2. rows[c] = NoRow \/ rows[c] = Command(s, tree, show, c)
  BY <1>1 DEF Replay, Replay57, Replay511, ReplayScan, ReplayPaper, ReplayBacktest,
              Replayers, Surfaces
<1> DEFINE d == Decided(tree, c)
<1>3. d \in Classes
  <2>1. c \in Classes
    BY RunSets, ReportsAreStages DEF Replayers, CreateOnce
  <2> QED BY <2>1 DEF Decided, Classes
<1>4. /\ show[d] \in Row
      /\ tree["runtime"].is # "broken" => show[d] = Shows(s, d, tree)
  <2>1. CASE tree["runtime"].is = "broken"
    <3>1. show \in [Classes -> Row]
      BY <2>1, BrokenAssumption DEF Behaviours
    <3> QED BY <1>3, <2>1, <3>1
  <2>2. CASE tree["runtime"].is # "broken"
    <3>1. show = [e \in Classes |-> Shows(s, e, tree)]
      BY <2>2 DEF Behaviours
    <3> HIDE DEF d
    <3>2. show[d] = Shows(s, d, tree)
      BY <1>3, <3>1
    <3>3. Applied("v1", "full") \in Row
      BY ShownIsRow DEF Applied, Classes
    <3> QED BY <1>3, <3>2, <3>3, AskedIsRow DEF Shows
  <2> QED BY <2>1, <2>2
<1>5. \/ rows[c] = NoRow
      \/ rows[c] = show[d] /\ ~Sentinel(s, d, show[d])
  BY <1>2 DEF Command
<1>6. ~NoRow.ok
  BY DEF NoRow
<1> HIDE DEF d
<1>7. rows[c] \in Row
  BY <1>4, <1>5, NoRowIsRow
<1>8. rows[c].ok => ~Sentinel(s, d, rows[c])
  BY <1>5, <1>6
<1>9. rows[c].ok /\ tree["runtime"].is # "broken" => rows[c] = Shows(s, d, tree)
  BY <1>4, <1>5, <1>6
<1> QED BY <1>7, <1>8, <1>9 DEF d

LEMMA RowFields ==
  /\ DOMAIN NoRow = {"ok", "class", "state", "status", "applied", "size", "metrics", "ran",
                     "artifact", "version", "filed_state", "filed_status", "filed_applied",
                     "filed_size"}
  /\ \A r \in Row : /\ r.ok \in BOOLEAN /\ r.applied \in BOOLEAN /\ r.ran \in BOOLEAN
                    /\ r.filed_applied \in BOOLEAN
BY DEF NoRow, Row

\* Equal but for some fields.
Like(r, q, but) == \A f \in DOMAIN NoRow \ but : r[f] = q[f]

\* What each policy asks, field by field.
LEMMA AskedStops ==
  ASSUME NEW s \in Replayers, NEW c \in Stops
  PROVE  Asked(s, c) = Stopped(c, IF s \in CreateOnce THEN "v1" ELSE "v2")
BY DEF Asked, Asked57, Asked511, AskedScan, AskedPaper, AskedBacktest, Replayers, Surfaces,
       CreateOnce, Stops

LEMMA AskedRest ==
  /\ Asked("v57", "size") = Full("v1", "full")
  /\ Asked("v57", "cap") = Shown("cap", "v1", "continued", "deferred", "asked", "full")
  /\ Asked("v511", "size") = Full("v1", "full") /\ Asked("v511", "cap") = Applied("v1", "less")
  /\ Asked("scan", "size") = Full("v2", "full") /\ Asked("scan", "cap") = Applied("v2", "full")
  /\ Asked("paper", "size") = Full("v2", "none") /\ Asked("paper", "cap") = Applied("v2", "none")
  /\ Asked("backtest", "size") = Full("v2", "full")
  /\ Asked("backtest", "cap") = Applied("v2", "less")
<1> USE DEF Stops
<1>1. /\ Asked("v57", "size") = Full("v1", "full")
      /\ Asked("v57", "cap") = Shown("cap", "v1", "continued", "deferred", "asked", "full")
  BY DEF Asked, Asked57
<1>2. Asked("v511", "size") = Full("v1", "full") /\ Asked("v511", "cap") = Applied("v1", "less")
  BY DEF Asked, Asked511
<1>3. Asked("scan", "size") = Full("v2", "full") /\ Asked("scan", "cap") = Applied("v2", "full")
  BY DEF Asked, AskedScan
<1>4. Asked("paper", "size") = Full("v2", "none") /\ Asked("paper", "cap") = Applied("v2", "none")
  BY DEF Asked, AskedPaper
<1>5. /\ Asked("backtest", "size") = Full("v2", "full")
      /\ Asked("backtest", "cap") = Applied("v2", "less")
  BY DEF Asked, AskedBacktest
<1> QED BY <1>1, <1>2, <1>3, <1>4, <1>5

\* The runs of v5.7, of v5.11 and of the v2 surfaces, one lemma for what each is checked for.
LEMMA StopLike57 ==
  ASSUME NEW c \in Stops, NEW r \in Row, RowPasses57(r, c), r.state = "stopped", r.metrics = "none"
  PROVE  Like(r, Asked("v57", c), Unseen("v57", c))
<1> DEFINE q == Asked("v57", c)
<1>1. q = Shown(c, "v1", "stopped", "none", "none", "none")
  BY AskedStops DEF Stopped, Stops, Replayers, Surfaces, CreateOnce
<1> HIDE DEF q
<1>2. /\ q["ok"] = TRUE /\ q["class"] = c /\ q["state"] = "stopped"
      /\ q["metrics"] = "none" /\ q["artifact"] = "valid"
      /\ q["version"] = "v1"
  BY <1>1, ZenonT(30) DEF Shown
<1>3. /\ r["ok"] = TRUE /\ r["class"] = c /\ r["state"] = "stopped"
      /\ r["metrics"] = "none" /\ r["artifact"] = "valid"
      /\ r["version"] = "v1"
  BY RowFields, ZenonT(60) DEF RowPasses57, MetricsMatchUngated
<1>4. Unseen("v57", c) = {"status", "applied", "size", "ran", "filed_state", "filed_status",
                          "filed_applied", "filed_size"}
  BY DEF Unseen, Stops
<1>5. \A f \in DOMAIN NoRow \ Unseen("v57", c) : r[f] = q[f]
  BY <1>2, <1>3, <1>4, RowFields, ZenonT(60)
<1> QED BY <1>5 DEF Like, q

LEMMA SizeLike57 ==
  ASSUME NEW r \in Row, RowPasses57(r, "size"), r.state = "continued", r.status = "none"
  PROVE  Like(r, Asked("v57", "size"), Unseen("v57", "size"))
<1> DEFINE q == Asked("v57", "size")
<1>1. q = Shown("size", "v1", "continued", "none", "asked", "full")
  BY AskedRest DEF Full
<1> HIDE DEF q
<1>2. /\ q["ok"] = TRUE /\ q["class"] = "size" /\ q["state"] = "continued"
      /\ q["status"] = "none" /\ q["artifact"] = "valid"
      /\ q["version"] = "v1"
  BY <1>1, ZenonT(30) DEF Shown
<1>3. /\ r["ok"] = TRUE /\ r["class"] = "size" /\ r["state"] = "continued"
      /\ r["status"] = "none" /\ r["artifact"] = "valid"
      /\ r["version"] = "v1"
  BY RowFields, ZenonT(60) DEF RowPasses57, MetricsMatchUngated
<1>4. Unseen("v57", "size") = {"applied", "size", "metrics", "ran", "filed_state",
                               "filed_status", "filed_applied", "filed_size"}
  BY DEF Unseen, Stops
<1>5. \A f \in DOMAIN NoRow \ Unseen("v57", "size") : r[f] = q[f]
  BY <1>2, <1>3, <1>4, RowFields, ZenonT(60)
<1> QED BY <1>5 DEF Like, q

LEMMA CapLike57 ==
  ASSUME NEW r \in Row, RowPasses57(r, "cap"), r.state = "continued", r.status = "deferred",
         MetricsMatchUngated(r)
  PROVE  Like(r, Asked("v57", "cap"), Unseen("v57", "cap"))
<1> DEFINE q == Asked("v57", "cap")
<1>1. q = Shown("cap", "v1", "continued", "deferred", "asked", "full")
  BY AskedRest
<1> HIDE DEF q
<1>2. /\ q["ok"] = TRUE /\ q["class"] = "cap" /\ q["state"] = "continued"
      /\ q["status"] = "deferred" /\ q["metrics"] = "full"
      /\ q["artifact"] = "valid" /\ q["version"] = "v1"
  BY <1>1, ZenonT(30) DEF Shown
<1>3. /\ r["ok"] = TRUE /\ r["class"] = "cap" /\ r["state"] = "continued"
      /\ r["status"] = "deferred" /\ r["metrics"] = "full"
      /\ r["artifact"] = "valid" /\ r["version"] = "v1"
  BY RowFields, ZenonT(60) DEF RowPasses57, MetricsMatchUngated
<1>4. Unseen("v57", "cap") = {"applied", "size", "ran", "filed_state", "filed_status",
                              "filed_applied", "filed_size"}
  BY DEF Unseen, Stops
<1>5. \A f \in DOMAIN NoRow \ Unseen("v57", "cap") : r[f] = q[f]
  BY <1>2, <1>3, <1>4, RowFields, ZenonT(60)
<1> QED BY <1>5 DEF Like, q

LEMMA StopLike511 ==
  ASSUME NEW c \in Stops, NEW r \in Row, SemanticAssertions(r, c), r.artifact = "valid"
  PROVE  Like(r, Asked("v511", c), Unseen("v511", c))
<1> DEFINE q == Asked("v511", c)
<1>0. c # "cap"
  BY DEF Stops
<1>1. q = Shown(c, "v1", "stopped", "none", "none", "none")
  BY AskedStops DEF Stopped, Stops, Replayers, Surfaces, CreateOnce
<1> HIDE DEF q
<1>2. /\ q["ok"] = TRUE /\ q["class"] = c /\ q["state"] = "stopped"
      /\ q["metrics"] = "none" /\ q["ran"] = FALSE /\ q["artifact"] = "valid"
      /\ q["version"] = "v1"
  BY <1>1, ZenonT(30) DEF Shown
<1>3. /\ r["ok"] = TRUE /\ r["class"] = c /\ r["state"] = "stopped"
      /\ r["metrics"] = "none" /\ r["ran"] = FALSE /\ r["artifact"] = "valid"
      /\ r["version"] = "v1"
  BY <1>0, RowFields, ZenonT(60) DEF SemanticAssertions
<1>4. Unseen("v511", c) = {"status", "applied", "size", "filed_state", "filed_status",
                           "filed_applied", "filed_size"}
  BY DEF Unseen, Stops
<1>5. \A f \in DOMAIN NoRow \ Unseen("v511", c) : r[f] = q[f]
  BY <1>2, <1>3, <1>4, RowFields, ZenonT(60)
<1> QED BY <1>5 DEF Like, q

LEMMA SizeLike511 ==
  ASSUME NEW r \in Row, SemanticAssertions(r, "size"), r.artifact = "valid"
  PROVE  Like(r, Asked("v511", "size"), Unseen("v511", "size"))
<1> DEFINE q == Asked("v511", "size")
<1>0. "size" \notin Stops /\ "size" # "cap"
  BY DEF Stops
<1>1. q = Shown("size", "v1", "continued", "none", "asked", "full")
  BY AskedRest DEF Full
<1> HIDE DEF q
<1>2. /\ q["ok"] = TRUE /\ q["class"] = "size" /\ q["state"] = "continued"
      /\ q["ran"] = TRUE /\ q["artifact"] = "valid" /\ q["version"] = "v1"
  BY <1>1, ZenonT(30) DEF Shown
<1>3. /\ r["ok"] = TRUE /\ r["class"] = "size" /\ r["state"] = "continued"
      /\ r["ran"] = TRUE /\ r["artifact"] = "valid" /\ r["version"] = "v1"
  BY <1>0, RowFields, ZenonT(60) DEF SemanticAssertions
<1>4. Unseen("v511", "size") = {"status", "applied", "size", "metrics", "filed_state",
                                "filed_status", "filed_applied", "filed_size"}
  BY DEF Unseen, Stops
<1>5. \A f \in DOMAIN NoRow \ Unseen("v511", "size") : r[f] = q[f]
  BY <1>2, <1>3, <1>4, RowFields, ZenonT(60)
<1> QED BY <1>5 DEF Like, q

LEMMA CapLike511 ==
  ASSUME NEW r \in Row, SemanticAssertions(r, "cap"), r.artifact = "valid"
  PROVE  Like(r, Asked("v511", "cap"), Unseen("v511", "cap"))
<1> DEFINE q == Asked("v511", "cap")
<1>0. "cap" \notin Stops
  BY DEF Stops
<1>1. q = Shown("cap", "v1", "continued", "applied", "allowed", "less")
  BY AskedRest DEF Applied
<1> HIDE DEF q
<1>2. /\ q["ok"] = TRUE /\ q["class"] = "cap" /\ q["state"] = "continued"
      /\ q["status"] = "applied" /\ q["applied"] = TRUE
      /\ q["size"] = "allowed" /\ q["ran"] = TRUE /\ q["artifact"] = "valid"
      /\ q["version"] = "v1"
  BY <1>1, ZenonT(30) DEF Shown
<1>3. /\ r["ok"] = TRUE /\ r["class"] = "cap" /\ r["state"] = "continued"
      /\ r["status"] = "applied" /\ r["applied"] = TRUE
      /\ r["size"] = "allowed" /\ r["ran"] = TRUE /\ r["artifact"] = "valid"
      /\ r["version"] = "v1"
  BY <1>0, RowFields, ZenonT(60) DEF SemanticAssertions
<1>4. Unseen("v511", "cap") = {"metrics", "filed_state", "filed_status", "filed_applied",
                               "filed_size"}
  BY DEF Unseen, Stops
<1>5. \A f \in DOMAIN NoRow \ Unseen("v511", "cap") : r[f] = q[f]
  BY <1>2, <1>3, <1>4, RowFields, ZenonT(60)
<1> QED BY <1>5 DEF Like, q

LEMMA ScanCapLike ==
  ASSUME NEW r \in Row, ScanCap(r)
  PROVE  Like(r, Asked("scan", "cap"), Unseen("scan", "cap"))
<1> DEFINE q == Asked("scan", "cap")
<1>1. q = Shown("cap", "v2", "continued", "applied", "allowed", "full")
  BY AskedRest DEF Applied
<1> HIDE DEF q
<1>2. /\ q["ok"] = TRUE /\ q["status"] = "applied" /\ q["applied"] = TRUE
      /\ q["size"] = "allowed" /\ q["artifact"] = "valid"
      /\ q["version"] = "v2" /\ q["filed_status"] = "applied"
      /\ q["filed_applied"] = TRUE /\ q["filed_size"] = "allowed"
  BY <1>1, ZenonT(30) DEF Shown
<1>3. /\ r["ok"] = TRUE /\ r["status"] = "applied" /\ r["applied"] = TRUE
      /\ r["size"] = "allowed" /\ r["artifact"] = "valid"
      /\ r["version"] = "v2" /\ r["filed_status"] = "applied"
      /\ r["filed_applied"] = TRUE /\ r["filed_size"] = "allowed"
  BY RowFields, ZenonT(60) DEF ScanCap, ScanRowPasses
<1>4. Unseen("scan", "cap") = {"class", "state", "metrics", "ran", "filed_state"}
  BY DEF Unseen
<1>5. \A f \in DOMAIN NoRow \ Unseen("scan", "cap") : r[f] = q[f]
  BY <1>2, <1>3, <1>4, RowFields, ZenonT(60)
<1> QED BY <1>5 DEF Like, q

LEMMA ScanSizeLike ==
  ASSUME NEW r \in Row, ScanSize(r)
  PROVE  Like(r, Asked("scan", "size"), Unseen("scan", "size"))
<1> DEFINE q == Asked("scan", "size")
<1>1. q = Shown("size", "v2", "continued", "none", "asked", "full")
  BY AskedRest DEF Full
<1> HIDE DEF q
<1>2. /\ q["ok"] = TRUE /\ q["class"] = "size" /\ q["state"] = "continued"
      /\ q["applied"] = FALSE /\ q["artifact"] = "valid"
      /\ q["version"] = "v2" /\ q["filed_status"] = "not_applicable"
      /\ q["filed_applied"] = FALSE
  BY <1>1, ZenonT(30) DEF Shown
<1>3. /\ r["ok"] = TRUE /\ r["class"] = "size" /\ r["state"] = "continued"
      /\ r["applied"] = FALSE /\ r["artifact"] = "valid"
      /\ r["version"] = "v2" /\ r["filed_status"] = "not_applicable"
      /\ r["filed_applied"] = FALSE
  BY RowFields, ZenonT(60) DEF ScanSize, ScanRowPasses
<1>4. Unseen("scan", "size") = {"status", "size", "metrics", "ran", "filed_state", "filed_size"}
  BY DEF Unseen
<1>5. \A f \in DOMAIN NoRow \ Unseen("scan", "size") : r[f] = q[f]
  BY <1>2, <1>3, <1>4, RowFields, ZenonT(60)
<1> QED BY <1>5 DEF Like, q

LEMMA ScanRejectLike ==
  ASSUME NEW r \in Row, ScanReject(r)
  PROVE  Like(r, Asked("scan", "reject"), Unseen("scan", "reject"))
<1> DEFINE q == Asked("scan", "reject")
<1>1. q = Shown("reject", "v2", "stopped", "none", "none", "none")
  BY AskedStops DEF Stopped, Stops, Replayers, Surfaces, CreateOnce
<1> HIDE DEF q
<1>2. /\ q["ok"] = TRUE /\ q["class"] = "reject" /\ q["state"] = "stopped"
      /\ q["metrics"] = "none" /\ q["artifact"] = "valid"
      /\ q["version"] = "v2" /\ q["filed_state"] = "stopped"
  BY <1>1, ZenonT(30) DEF Shown
<1>3. /\ r["ok"] = TRUE /\ r["class"] = "reject" /\ r["state"] = "stopped"
      /\ r["metrics"] = "none" /\ r["artifact"] = "valid"
      /\ r["version"] = "v2" /\ r["filed_state"] = "stopped"
  BY RowFields, ZenonT(60) DEF ScanReject, ScanRowPasses
<1>4. Unseen("scan", "reject") = {"status", "applied", "size", "ran", "filed_status",
                                  "filed_applied", "filed_size"}
  BY DEF Unseen
<1>5. \A f \in DOMAIN NoRow \ Unseen("scan", "reject") : r[f] = q[f]
  BY <1>2, <1>3, <1>4, RowFields, ZenonT(60)
<1> QED BY <1>5 DEF Like, q

LEMMA PaperCapLike ==
  ASSUME NEW r \in Row, PaperCap(r)
  PROVE  Like(r, Asked("paper", "cap"), Unseen("paper", "cap"))
<1> DEFINE q == Asked("paper", "cap")
<1>1. q = Shown("cap", "v2", "continued", "applied", "allowed", "none")
  BY AskedRest DEF Applied
<1> HIDE DEF q
<1>2. /\ q["ok"] = TRUE /\ q["class"] = "cap" /\ q["state"] = "continued"
      /\ q["status"] = "applied" /\ q["applied"] = TRUE
      /\ q["size"] = "allowed" /\ q["ran"] = TRUE /\ q["artifact"] = "valid"
      /\ q["version"] = "v2" /\ q["filed_status"] = "applied"
      /\ q["filed_applied"] = TRUE /\ q["filed_size"] = "allowed"
  BY <1>1, ZenonT(30) DEF Shown
<1>3. /\ r["ok"] = TRUE /\ r["class"] = "cap" /\ r["state"] = "continued"
      /\ r["status"] = "applied" /\ r["applied"] = TRUE
      /\ r["size"] = "allowed" /\ r["ran"] = TRUE /\ r["artifact"] = "valid"
      /\ r["version"] = "v2" /\ r["filed_status"] = "applied"
      /\ r["filed_applied"] = TRUE /\ r["filed_size"] = "allowed"
  BY RowFields, ZenonT(60) DEF PaperCap, PaperRowPasses
<1>4. Unseen("paper", "cap") = {"metrics", "filed_state"}
  BY DEF Unseen
<1>5. \A f \in DOMAIN NoRow \ Unseen("paper", "cap") : r[f] = q[f]
  BY <1>2, <1>3, <1>4, RowFields, ZenonT(60)
<1> QED BY <1>5 DEF Like, q

LEMMA PaperSizeLike ==
  ASSUME NEW r \in Row, PaperSize(r)
  PROVE  Like(r, Asked("paper", "size"), Unseen("paper", "size"))
<1> DEFINE q == Asked("paper", "size")
<1>1. q = Shown("size", "v2", "continued", "none", "asked", "none")
  BY AskedRest DEF Full
<1> HIDE DEF q
<1>2. /\ q["ok"] = TRUE /\ q["class"] = "size" /\ q["state"] = "continued"
      /\ q["applied"] = FALSE /\ q["size"] = "asked" /\ q["ran"] = TRUE
      /\ q["artifact"] = "valid" /\ q["version"] = "v2"
      /\ q["filed_status"] = "not_applicable" /\ q["filed_applied"] = FALSE
  BY <1>1, ZenonT(30) DEF Shown
<1>3. /\ r["ok"] = TRUE /\ r["class"] = "size" /\ r["state"] = "continued"
      /\ r["applied"] = FALSE /\ r["size"] = "asked" /\ r["ran"] = TRUE
      /\ r["artifact"] = "valid" /\ r["version"] = "v2"
      /\ r["filed_status"] = "not_applicable" /\ r["filed_applied"] = FALSE
  BY RowFields, ZenonT(60) DEF PaperSize, PaperRowPasses
<1>4. Unseen("paper", "size") = {"status", "metrics", "filed_state", "filed_size"}
  BY DEF Unseen
<1>5. \A f \in DOMAIN NoRow \ Unseen("paper", "size") : r[f] = q[f]
  BY <1>2, <1>3, <1>4, RowFields, ZenonT(60)
<1> QED BY <1>5 DEF Like, q

LEMMA PaperRejectLike ==
  ASSUME NEW r \in Row, PaperReject(r)
  PROVE  Like(r, Asked("paper", "reject"), Unseen("paper", "reject"))
<1> DEFINE q == Asked("paper", "reject")
<1>1. q = Shown("reject", "v2", "stopped", "none", "none", "none")
  BY AskedStops DEF Stopped, Stops, Replayers, Surfaces, CreateOnce
<1> HIDE DEF q
<1>2. /\ q["ok"] = TRUE /\ q["class"] = "reject" /\ q["state"] = "stopped"
      /\ q["applied"] = FALSE /\ q["size"] = "none" /\ q["ran"] = FALSE
      /\ q["artifact"] = "valid" /\ q["version"] = "v2"
      /\ q["filed_state"] = "stopped" /\ q["filed_applied"] = FALSE
  BY <1>1, ZenonT(30) DEF Shown
<1>3. /\ r["ok"] = TRUE /\ r["class"] = "reject" /\ r["state"] = "stopped"
      /\ r["applied"] = FALSE /\ r["size"] = "none" /\ r["ran"] = FALSE
      /\ r["artifact"] = "valid" /\ r["version"] = "v2"
      /\ r["filed_state"] = "stopped" /\ r["filed_applied"] = FALSE
  BY RowFields, ZenonT(60) DEF PaperReject, PaperRowPasses
<1>4. Unseen("paper", "reject") = {"status", "metrics", "filed_status", "filed_size"}
  BY DEF Unseen
<1>5. \A f \in DOMAIN NoRow \ Unseen("paper", "reject") : r[f] = q[f]
  BY <1>2, <1>3, <1>4, RowFields, ZenonT(60)
<1> QED BY <1>5 DEF Like, q

LEMMA BacktestCapLike ==
  ASSUME NEW r \in Row, BacktestCap(r)
  PROVE  Like(r, Asked("backtest", "cap"), Unseen("backtest", "cap"))
<1> DEFINE q == Asked("backtest", "cap")
<1>1. q = Shown("cap", "v2", "continued", "applied", "allowed", "less")
  BY AskedRest DEF Applied
<1> HIDE DEF q
<1>2. /\ q["ok"] = TRUE /\ q["status"] = "applied" /\ q["applied"] = TRUE
      /\ q["size"] = "allowed" /\ q["ran"] = TRUE /\ q["artifact"] = "valid"
      /\ q["version"] = "v2" /\ q["filed_status"] = "applied"
      /\ q["filed_applied"] = TRUE /\ q["filed_size"] = "allowed"
  BY <1>1, ZenonT(30) DEF Shown
<1>3. /\ r["ok"] = TRUE /\ r["status"] = "applied" /\ r["applied"] = TRUE
      /\ r["size"] = "allowed" /\ r["ran"] = TRUE /\ r["artifact"] = "valid"
      /\ r["version"] = "v2" /\ r["filed_status"] = "applied"
      /\ r["filed_applied"] = TRUE /\ r["filed_size"] = "allowed"
  BY RowFields, ZenonT(60) DEF BacktestCap, BacktestRowPasses
<1>4. Unseen("backtest", "cap") = {"class", "state", "metrics", "filed_state"}
  BY DEF Unseen
<1>5. \A f \in DOMAIN NoRow \ Unseen("backtest", "cap") : r[f] = q[f]
  BY <1>2, <1>3, <1>4, RowFields, ZenonT(60)
<1> QED BY <1>5 DEF Like, q

LEMMA BacktestSizeLike ==
  ASSUME NEW r \in Row, BacktestSize(r)
  PROVE  Like(r, Asked("backtest", "size"), Unseen("backtest", "size"))
<1> DEFINE q == Asked("backtest", "size")
<1>1. q = Shown("size", "v2", "continued", "none", "asked", "full")
  BY AskedRest DEF Full
<1> HIDE DEF q
<1>2. /\ q["ok"] = TRUE /\ q["class"] = "size" /\ q["state"] = "continued"
      /\ q["ran"] = TRUE /\ q["artifact"] = "valid" /\ q["version"] = "v2"
      /\ q["filed_status"] = "not_applicable" /\ q["filed_applied"] = FALSE
  BY <1>1, ZenonT(30) DEF Shown
<1>3. /\ r["ok"] = TRUE /\ r["class"] = "size" /\ r["state"] = "continued"
      /\ r["ran"] = TRUE /\ r["artifact"] = "valid" /\ r["version"] = "v2"
      /\ r["filed_status"] = "not_applicable" /\ r["filed_applied"] = FALSE
  BY RowFields, ZenonT(60) DEF BacktestSize, BacktestRowPasses
<1>4. Unseen("backtest", "size") = {"status", "applied", "size", "metrics", "filed_state",
                                    "filed_size"}
  BY DEF Unseen
<1>5. \A f \in DOMAIN NoRow \ Unseen("backtest", "size") : r[f] = q[f]
  BY <1>2, <1>3, <1>4, RowFields, ZenonT(60)
<1> QED BY <1>5 DEF Like, q

LEMMA BacktestRejectLike ==
  ASSUME NEW r \in Row, BacktestReject(r)
  PROVE  Like(r, Asked("backtest", "reject"), Unseen("backtest", "reject"))
<1> DEFINE q == Asked("backtest", "reject")
<1>1. q = Shown("reject", "v2", "stopped", "none", "none", "none")
  BY AskedStops DEF Stopped, Stops, Replayers, Surfaces, CreateOnce
<1> HIDE DEF q
<1>2. /\ q["ok"] = TRUE /\ q["class"] = "reject" /\ q["state"] = "stopped"
      /\ q["metrics"] = "none" /\ q["ran"] = FALSE /\ q["artifact"] = "valid"
      /\ q["version"] = "v2" /\ q["filed_state"] = "stopped"
  BY <1>1, ZenonT(30) DEF Shown
<1>3. /\ r["ok"] = TRUE /\ r["class"] = "reject" /\ r["state"] = "stopped"
      /\ r["metrics"] = "none" /\ r["ran"] = FALSE /\ r["artifact"] = "valid"
      /\ r["version"] = "v2" /\ r["filed_state"] = "stopped"
  BY RowFields, ZenonT(60) DEF BacktestReject, BacktestRowPasses
<1>4. Unseen("backtest", "reject") = {"status", "applied", "size", "filed_status",
                                      "filed_applied", "filed_size"}
  BY DEF Unseen
<1>5. \A f \in DOMAIN NoRow \ Unseen("backtest", "reject") : r[f] = q[f]
  BY <1>2, <1>3, <1>4, RowFields, ZenonT(60)
<1> QED BY <1>5 DEF Like, q

\* Each generator: its checks over rows it may have been shown.
LEMMA Conforms57 ==
  ASSUME NEW tree, NEW now, NEW rows \in Rows("v57", tree), DecisionReplay57(rows),
         StoppedExecution(rows), ContinuedRuntime(rows, now)
  PROVE  RowsConform("v57", rows, tree)
<1>1. RunSet("v57") = Classes /\ "v57" \in Replayers
  BY RunSets DEF Replayers
<1>2. \A c \in Classes : rows[c] \in Row /\ RowPasses57(rows[c], c)
  BY <1>1, RowsAreShown DEF DecisionReplay57
<1>3. ASSUME NEW c \in Classes PROVE Like(rows[c], Asked("v57", c), Unseen("v57", c))
  <2>1. CASE c \in Stops
    BY <1>2, <2>1, StopLike57 DEF StoppedExecution
  <2>2. CASE c = "size"
    BY <1>2, <2>2, SizeLike57 DEF ContinuedRuntime
  <2>3. CASE c = "cap"
    BY <1>2, <2>3, CapLike57 DEF ContinuedRuntime
  <2> QED BY <2>1, <2>2, <2>3 DEF Classes
<1>4. ASSUME tree["engine"].is # "wrong", NEW c \in Stops PROVE ~rows[c].ran
  <2>1. c \in Classes /\ Decided(tree, c) = c
    BY <1>4 DEF Decided, Classes
  <2>2. rows[c].ok
    BY <1>2, <2>1 DEF RowPasses57
  <2>3. ~Sentinel("v57", c, rows[c])
    BY <1>1, <2>1, <2>2, RowsAreShown
  <2> QED BY <2>3 DEF Sentinel
<1> QED BY <1>1, <1>3, <1>4 DEF RowsConform, Like

LEMMA Conforms511 ==
  ASSUME NEW tree, NEW now, NEW rows \in Rows("v511", tree), BacktestReplay(rows, now),
         SizingEffect(rows, now)
  PROVE  RowsConform("v511", rows, tree)
<1>1. RunSet("v511") = Classes /\ "v511" \in Replayers
  BY RunSets DEF Replayers
<1>2. \A c \in Classes : /\ rows[c] \in Row /\ SemanticAssertions(rows[c], c)
                         /\ rows[c].artifact = "valid"
  BY <1>1, RowsAreShown DEF BacktestReplay
<1>3. ASSUME NEW c \in Classes PROVE Like(rows[c], Asked("v511", c), Unseen("v511", c))
  <2>1. CASE c \in Stops
    BY <1>2, <2>1, StopLike511
  <2>2. CASE c = "size"
    BY <1>2, <2>2, SizeLike511
  <2>3. CASE c = "cap"
    BY <1>2, <2>3, CapLike511
  <2> QED BY <2>1, <2>2, <2>3 DEF Classes
<1>4. \A c \in Classes : /\ rows[c].metrics = "none" <=> c \in Stops
                         /\ c \in Stops => ~rows[c].ran
  BY <1>2 DEF SemanticAssertions
<1>5. rows["cap"].metrics # "full"
  BY DEF SizingEffect
<1> QED BY <1>1, <1>3, <1>4, <1>5 DEF RowsConform, Like

LEMMA ConformsScan ==
  ASSUME NEW tree, NEW rows \in Rows("scan", tree), ScanCap(rows["cap"]), ScanSize(rows["size"]),
         ScanReject(rows["reject"]), Sidecar(rows)
  PROVE  RowsConform("scan", rows, tree)
<1>1. RunSet("scan") = {"cap", "size", "reject"} /\ "scan" \in Replayers
  BY RunSets DEF Replayers, Surfaces
<1>2. \A c \in RunSet("scan") : rows[c] \in Row
  BY <1>1, RowsAreShown
<1>3. \A c \in RunSet("scan") : Like(rows[c], Asked("scan", c), Unseen("scan", c))
  BY <1>1, <1>2, ScanCapLike, ScanSizeLike, ScanRejectLike
<1>4. \A c \in RunSet("scan") : rows[c].metrics = "none" <=> c \in Stops
  BY <1>1 DEF ScanCap, ScanSize, ScanReject, Stops
<1>5. ASSUME tree["engine"].is # "wrong" PROVE ~rows["reject"].ran
  <2>1. Decided(tree, "reject") = "reject"
    BY <1>5 DEF Decided
  <2>2. rows["reject"].ok
    BY DEF ScanReject, ScanRowPasses
  <2>3. ~Sentinel("scan", "reject", rows["reject"])
    BY <1>1, <2>1, <2>2, RowsAreShown
  <2> QED BY <2>3 DEF Sentinel, Stops
<1>6. RunSet("scan") \cap Stops = {"reject"}
  BY <1>1 DEF Stops
<1>7. rows["cap"].metrics = rows["size"].metrics
  BY DEF Sidecar
<1> QED BY <1>3, <1>4, <1>5, <1>6, <1>7 DEF RowsConform, Like

LEMMA ConformsPaper ==
  ASSUME NEW tree, NEW rows \in Rows("paper", tree), PaperCap(rows["cap"]),
         PaperSize(rows["size"]), PaperReject(rows["reject"])
  PROVE  RowsConform("paper", rows, tree)
<1>1. RunSet("paper") = {"cap", "size", "reject"} /\ "paper" \in Replayers
  BY RunSets DEF Replayers, Surfaces
<1>2. \A c \in RunSet("paper") : rows[c] \in Row
  BY <1>1, RowsAreShown
<1>3. \A c \in RunSet("paper") : Like(rows[c], Asked("paper", c), Unseen("paper", c))
  BY <1>1, <1>2, PaperCapLike, PaperSizeLike, PaperRejectLike
<1>4. RunSet("paper") \cap Stops = {"reject"} /\ ~rows["reject"].ran
  BY <1>1 DEF Stops, PaperReject
<1> QED BY <1>3, <1>4 DEF RowsConform, Like

LEMMA ConformsBacktest ==
  ASSUME NEW tree, NEW rows \in Rows("backtest", tree), BacktestCap(rows["cap"]),
         BacktestSize(rows["size"]), BacktestReject(rows["reject"])
  PROVE  RowsConform("backtest", rows, tree)
<1>1. RunSet("backtest") = {"cap", "size", "reject"} /\ "backtest" \in Replayers
  BY RunSets DEF Replayers, Surfaces
<1>2. \A c \in RunSet("backtest") : rows[c] \in Row
  BY <1>1, RowsAreShown
<1>3. \A c \in RunSet("backtest") : Like(rows[c], Asked("backtest", c), Unseen("backtest", c))
  BY <1>1, <1>2, BacktestCapLike, BacktestSizeLike, BacktestRejectLike
<1>4. \A c \in RunSet("backtest") : rows[c].metrics = "none" <=> c \in Stops
  BY <1>1 DEF BacktestCap, BacktestSize, BacktestReject, Stops
<1>5. RunSet("backtest") \cap Stops = {"reject"} /\ ~rows["reject"].ran
  BY <1>1 DEF Stops, BacktestReject
<1> QED BY <1>3, <1>4, <1>5 DEF RowsConform, Like

LEMMA SchemaRight ==
  ASSUME NEW tree, SnapshotPasses(tree)
  PROVE  tree["contracts"].is # "drifted"
<1>1. SUFFICES ASSUME tree["contracts"].is = "drifted" PROVE FALSE
  OBVIOUS
<1>2. "decision_classes" \in Facts
  BY DEF Facts
<1>3. SchemaFacts(tree)["decision_classes"] = {"pinned", "halt"}
  BY <1>1, <1>2 DEF SchemaFacts, Expected
<1>4. Expected["decision_classes"] = {"pinned"}
  BY <1>2 DEF Expected
<1>5. "decision_classes" \in ChangedKeys(SchemaFacts(tree))
  BY <1>2, <1>3, <1>4 DEF ChangedKeys
<1> QED BY <1>5 DEF SnapshotPasses

LEMMA SurfaceVerdicts ==
  ASSUME NEW s \in Stages, FindsReady(s)
  PROVE  /\ JudgeScan => LET r == gen'.rows
                        IN /\ r \in Rows("scan", git.work)
                           /\ Passed(ChecksScan(After("scan", r, Reached(r)), r))
         /\ JudgePaper => LET r == gen'.rows
                         IN /\ r \in Rows("paper", git.work)
                            /\ Passed(ChecksPaper(After("paper", r, Reached(r)), r))
         /\ JudgeBacktest => LET r == gen'.rows
                            IN /\ r \in Rows("backtest", git.work)
                               /\ Passed(ChecksBacktest(After("backtest", r, Reached(r)), r))
         /\ Judge81 => Passed(Checks81(git)) /\ ~ParityRaises(git.work)
<1>0. gen'.pc # "idle" /\ gen'.ready
  BY DEF FindsReady
<1>1. ASSUME NEW t, NEW done, NEW rows, NEW raises, NEW ready,
             Concludes(t, NoBase, done, rows, raises, ready)
      PROVE  ready /\ gen'.rows = rows /\ ~raises
  <2>1. /\ gen' = [stage |-> t, pc |-> "json", base |-> NoBase, ready |-> ready, rows |-> rows]
        /\ ~raises
    BY <1>0, <1>1, Concluded
  <2> QED BY <1>0, <2>1
<1>2. ASSUME JudgeScan
      PROVE  LET r == gen'.rows
             IN r \in Rows("scan", git.work) /\ Passed(ChecksScan(After("scan", r, Reached(r)), r))
  <2>1. PICK r \in Rows("scan", git.work) :
          Concludes("scan", NoBase, After("scan", r, Reached(r)), r, RunMissing(r),
                    Passed(ChecksScan(After("scan", r, Reached(r)), r)))
    BY <1>2 DEF JudgeScan
  <2>2. Passed(ChecksScan(After("scan", r, Reached(r)), r)) /\ gen'.rows = r
    BY <1>1, <2>1
  <2> QED BY <2>2
<1>3. ASSUME JudgePaper
      PROVE  LET r == gen'.rows
             IN r \in Rows("paper", git.work) /\ Passed(ChecksPaper(After("paper", r, Reached(r)), r))
  <2>1. PICK r \in Rows("paper", git.work) :
          Concludes("paper", NoBase, After("paper", r, Reached(r)), r, RunMissing(r),
                    Passed(ChecksPaper(After("paper", r, Reached(r)), r)))
    BY <1>3 DEF JudgePaper
  <2>2. Passed(ChecksPaper(After("paper", r, Reached(r)), r)) /\ gen'.rows = r
    BY <1>1, <2>1
  <2> QED BY <2>2
<1>4. ASSUME JudgeBacktest
      PROVE  LET r == gen'.rows
             IN /\ r \in Rows("backtest", git.work)
                /\ Passed(ChecksBacktest(After("backtest", r, Reached(r)), r))
  <2>1. PICK r \in Rows("backtest", git.work) :
          Concludes("backtest", NoBase, After("backtest", r, Reached(r)), r, RunMissing(r),
                    Passed(ChecksBacktest(After("backtest", r, Reached(r)), r)))
    BY <1>4 DEF JudgeBacktest
  <2>2. Passed(ChecksBacktest(After("backtest", r, Reached(r)), r)) /\ gen'.rows = r
    BY <1>1, <2>1
  <2> QED BY <2>2
<1>5. Judge81 => Passed(Checks81(git)) /\ ~ParityRaises(git.work)
  BY <1>1 DEF Judge81
<1> QED BY <1>2, <1>3, <1>4, <1>5

\* Whatever the commands show, the rows of a ready report conform as far as it looks.
LEMMA ReadyRowsConform ==
  ASSUME EInv, [Next]_vars, NEW s \in Replayers, FindsReady(s)
  PROVE  RowsConform(s, gen'.rows, git.work)
<1>0. Shape /\ s \in Stages /\ Judges
  BY ReportsAreStages, ReadyJudges DEF EInv, Replayers, CreateOnce
<1> DEFINE r == gen'.rows
<1>1. CASE s = "v57"
  <2>1. PICK b : Judge57(b)
    BY <1>0, <1>1, JudgeOfStage
  <2> DEFINE done == After("v57", r, DOMAIN r)
  <2>2. r \in Rows("v57", git.work) /\ Passed(Checks57(done, b, r))
    BY <1>0, <1>1, <2>1, GuardedVerdicts
  <2> HIDE DEF done, r
  <2>3. DecisionReplay57(r) /\ StoppedExecution(r) /\ ContinuedRuntime(r, done.work)
    BY <2>2 DEF Passed, Checks57
  <2> QED BY <1>1, <2>2, <2>3, Conforms57 DEF r
<1>2. CASE s = "v511"
  <2>1. PICK b : Judge511(b)
    BY <1>0, <1>2, JudgeOfStage
  <2> DEFINE done == After("v511", r, DOMAIN r)
  <2>2. r \in Rows("v511", git.work) /\ Passed(Checks511(done, b, r))
    BY <1>0, <1>2, <2>1, GuardedVerdicts
  <2> HIDE DEF done, r
  <2>3. BacktestReplay(r, done.work) /\ SizingEffect(r, done.work)
    BY <2>2 DEF Passed, Checks511
  <2> QED BY <1>2, <2>2, <2>3, Conforms511 DEF r
<1>3. CASE s = "scan"
  <2>1. r \in Rows("scan", git.work) /\ Passed(ChecksScan(After("scan", r, Reached(r)), r))
    BY <1>0, <1>3, JudgeOfStage, SurfaceVerdicts
  <2> HIDE DEF r
  <2>2. ScanCap(r["cap"]) /\ ScanSize(r["size"]) /\ ScanReject(r["reject"]) /\ Sidecar(r)
    BY <2>1 DEF Passed, ChecksScan
  <2> QED BY <1>3, <2>1, <2>2, ConformsScan DEF r
<1>4. CASE s = "paper"
  <2>1. r \in Rows("paper", git.work) /\ Passed(ChecksPaper(After("paper", r, Reached(r)), r))
    BY <1>0, <1>4, JudgeOfStage, SurfaceVerdicts
  <2> HIDE DEF r
  <2>2. PaperCap(r["cap"]) /\ PaperSize(r["size"]) /\ PaperReject(r["reject"])
    BY <2>1 DEF Passed, ChecksPaper
  <2> QED BY <1>4, <2>1, <2>2, ConformsPaper DEF r
<1>5. CASE s = "backtest"
  <2>1. r \in Rows("backtest", git.work) /\ Passed(ChecksBacktest(After("backtest", r, Reached(r)), r))
    BY <1>0, <1>5, JudgeOfStage, SurfaceVerdicts
  <2> HIDE DEF r
  <2>2. BacktestCap(r["cap"]) /\ BacktestSize(r["size"]) /\ BacktestReject(r["reject"])
    BY <2>1 DEF Passed, ChecksBacktest
  <2> QED BY <1>5, <2>1, <2>2, ConformsBacktest DEF r
<1> QED BY <1>1, <1>2, <1>3, <1>4, <1>5 DEF Replayers, Surfaces

\* v5.6 and v5.7 also speak for the schema, and for the engine: v5.7 as far as the commands
\* tell what it decided.
LEMMA SourcesRight ==
  ASSUME EInv, [Next]_vars, NEW s \in {"v56", "v57"}, FindsReady(s)
  PROVE  /\ git.work["contracts"].is # "drifted"
         /\ s = "v56" \/ git.work["runtime"].is # "broken" => git.work["engine"].is # "wrong"
<1>0. Shape /\ s \in Stages /\ Judges
  BY ReadyJudges DEF EInv, Stages, Guarded
<1>1. CASE s = "v56"
  <2>1. PICK b : Judge56(b)
    BY <1>0, <1>1, JudgeOfStage
  <2>2. DriftAligned56(git.work) /\ DecisionReplay56(git.work)
    BY <1>0, <2>1, GuardedVerdicts DEF Passed, Checks56
  <2>3. git.work["contracts"].is # "drifted"
    BY <2>2, SchemaRight DEF DriftAligned56
  <2>4. Decided(git.work, "reject") = "reject"
    BY <2>2 DEF DecisionReplay56, ScenarioPasses, Scenarios
  <2> QED BY <2>3, <2>4 DEF Decided
<1>2. CASE s = "v57"
  <2> DEFINE r == gen'.rows
             done == After("v57", r, DOMAIN r)
  <2>1. PICK b : Judge57(b)
    BY <1>0, <1>2, JudgeOfStage
  <2>2. r \in Rows("v57", git.work) /\ Passed(Checks57(done, b, r))
    BY <1>0, <1>2, <2>1, GuardedVerdicts
  <2>3. done.work["contracts"] = git.work["contracts"]
    BY <1>0, <1>2, AfterIs DEF Paths, Sources
  <2> HIDE DEF done, r
  <2>4. DriftAligned57(done.work) /\ DecisionReplay57(r)
    BY <2>2 DEF Passed, Checks57
  <2>5. git.work["contracts"].is # "drifted"
    BY <2>3, <2>4, SchemaRight DEF DriftAligned57
  <2>6. "reject" \in RunSet("v57") /\ "v57" \in Replayers
    BY RunSets DEF Classes, Stops, Replayers
  <2>7. r["reject"].ok /\ r["reject"].class = "reject"
    BY <2>4, <2>6 DEF DecisionReplay57, RowPasses57
  <2>8. ASSUME git.work["runtime"].is # "broken" PROVE git.work["engine"].is # "wrong"
    <3>1. SUFFICES ASSUME git.work["engine"].is = "wrong" PROVE FALSE
      OBVIOUS
    <3>2. r["reject"] = Asked("v57", "size")
      BY <2>2, <2>6, <2>7, <2>8, <3>1, RowsAreShown DEF Decided, Shows
    <3>3. Asked("v57", "size") = Shown("size", "v1", "continued", "none", "asked", "full")
      BY AskedRest DEF Full
    <3>4. r["reject"].class = "size"
      BY <3>2, <3>3 DEF Shown
    <3> QED BY <2>7, <3>4
  <2> QED BY <1>2, <2>5, <2>8
<1> QED BY <1>1, <1>2

\* Parity reads the report and the output of v5.11 each by itself: they are of one run.
LEMMA ParityOfOneRun ==
  ASSUME EInv, [Next]_vars, FindsReady("v81")
  PROVE  git.work["v511"].out = git.work["v511"].json
<1>0. Judges /\ "v81" \in Stages /\ "v511" \in Stages
  BY ReadyJudges DEF EInv, Stages, Guarded, Notices
<1>1. Passed(Checks81(git)) /\ ~ParityRaises(git.work)
  BY <1>0, JudgeOfStage, SurfaceVerdicts
<1>2. git.work["v511"].is = "pass" /\ git.work["v511"].out # 0
  BY <1>1 DEF Passed, Checks81, CapSizing, ParityRaises
<1>3. At("v511", git.work) = git.work["v511"]
  BY <1>2 DEF At, Gone
<1>4. Vouched("v511")
  BY <1>0 DEF EInv
<1> QED BY <1>2, <1>3, <1>4 DEF Vouched

\* Whatever the commands of the checkout do, a generator finds itself ready only over rows
\* its policy asked for, but for the respects it does not look at; v5.4, v5.6, v5.7 and v8.1
\* only over a validator, a schema, an engine and an output as they should be.
THEOREM ReadyIsConforming == Spec => ReadyMeansConforming
<1>1. ASSUME EInv, [Next]_vars
      PROVE  [\A s \in Stages : FindsReady(s) =>
                /\ RowsConform(s, gen'.rows, git.work)
                /\ s = "v54" => git.work["validator"].is \in Sound \/ git.work["contracts"].is = "empty"
                /\ s \in {"v56", "v57"} => git.work["contracts"].is # "drifted"
                /\ s = "v56" \/ (s = "v57" /\ git.work["runtime"].is # "broken") =>
                     git.work["engine"].is # "wrong"
                /\ s = "v81" => git.work["v511"].out = git.work["v511"].json]_vars
  <2>1. ASSUME NEW s \in Stages, FindsReady(s) PROVE RowsConform(s, gen'.rows, git.work)
    <3>1. CASE s \in Replayers
      BY <1>1, <2>1, <3>1, ReadyRowsConform
    <3>2. CASE s \notin Replayers
      <4>1. RunSet(s) = {}
        BY <2>1, <3>2, RunSets DEF Replayers, CreateOnce
      <4>2. s \notin {"v511", "scan", "backtest"}
        BY <3>2 DEF Replayers, Surfaces
      <4> QED BY <4>1, <4>2 DEF RowsConform
    <3> QED BY <3>1, <3>2
  <2>2. ASSUME FindsReady("v54")
        PROVE  git.work["validator"].is \in Sound \/ git.work["contracts"].is = "empty"
    <3>0. Judges /\ "v54" \in Stages
      BY <1>1, <2>2, ReadyJudges DEF Stages, Guarded
    <3>1. PICK b : Judge54(b)
      BY <2>2, <3>0, JudgeOfStage
    <3>2. FixturesPass(git.work)
      BY <2>2, <3>0, <3>1, GuardedVerdicts DEF Passed, Checks54
    <3> QED BY <3>2 DEF FixturesPass
  <2> QED BY <1>1, <2>1, <2>2, SourcesRight, ParityOfOneRun
<1> QED BY <1>1, EInvHolds, PTL DEF Spec, ReadyMeansConforming
===============================================================================
