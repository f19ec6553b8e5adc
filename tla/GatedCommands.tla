---------------------------- MODULE GatedCommands ----------------------------
(***************************************************************************)
(* `side scan --edges`, `side backtest` and `side report` at work in one   *)
(* checkout (side-cli/src/cmd).  A gated command stages a candidate per    *)
(* slot, has the gate decide on it and delivers a row with the decision in *)
(* it; `side report` reads what a scan delivered.  Commands overlap, are   *)
(* killed and are started again over the files they left.                  *)
(*                                                                         *)
(* The gate is a child process and outlives its command.  RiskGate has its *)
(* inside; here it reads the candidate, then creates, fills and validates  *)
(* the decision.  The statistics of a slot are given with it: the engine   *)
(* that computes them keeps no state.                                      *)
(***************************************************************************)
EXTENDS Integers, Sequences, FiniteSets, FiniteSetsExt, SequencesExt

CONSTANTS
  Processes,
  Batches,           \* sets of command lines; those of one set run beside each other
  Protected,         \* kind of command -> the roots its v2 contract refuses
  Verdicts,          \* what the gate may decide: [class, allowed]
  Requested,         \* SCAN_REQUESTED_SIZE, BACKTEST_REQUESTED_SIZE
  TopN,              \* --top-n of the report
  MaxRuns, MaxKills, \* bounds of the model: commands started, commands killed
  None, Torn         \* no file; a file truncated or cut

Kinds == {"scan", "backtest", "report"}
Stopping == {"reject", "block", "kill"}

Jobs == UNION Batches

\* A slot has its candidate id, all else the candidate says (fees, t_stat, paths:
\* body), the profit factor by fee and the six-gate verdict.  fees is the sweep.
IsSlot(s, fees) == /\ s.pass \in BOOLEAN
                   /\ fees \subseteq DOMAIN s.pf /\ \A f \in fees : s.pf[f] \in Nat

IsJob(j) ==
  /\ j.kind \in Kinds /\ j.version \in {"v1", "v2"}
  /\ j.policy \in BOOLEAN /\ j.strict \in BOOLEAN /\ IsFiniteSet(j.fees)
  /\ \A i \in DOMAIN j.slots : IsSlot(j.slots[i], j.fees)
  /\ j.kind = "backtest" => Len(j.slots) = 1

ASSUME GatedAssumption ==
  /\ \A j \in Jobs : IsJob(j)
  /\ Requested \in Nat \ {0}
  \* what SizeIsBound of RiskGate says of a cap: the ensure! of the commands holds
  /\ \A v \in Verdicts :
       /\ v.class \in {"size", "cap"} \cup Stopping
       /\ v.class = "cap" => v.allowed \in 1 .. Requested
  /\ TopN \in Nat /\ MaxRuns \in Nat /\ MaxKills \in Nat
  /\ None # Torn

VARIABLES
  cands,      \* <root>/candidates/<id>.json
  decisions,  \* the decision files
  outputs,    \* --output of scans
  reports,    \* what `side report` made of an output: <base>.json, with .md beside it
  printed,    \* history: what backtests printed
  batch,      \* the command lines in use: one of Batches
  me,         \* the state of each process
  crossed,    \* history: see OpenCandidate
  used        \* commands started and killed so far

vars == <<cands, decisions, outputs, reports, printed, batch, me, crossed, used>>

\* Where the files of a slot are.  The id of a backtest hashes the version; v1 scans
\* write decisions into the root, v2 scans and backtests into <root>/decisions.
PlaceOf(j, s) == [root |-> j.root, kind |-> j.kind, version |-> j.version, id |-> s.id]
Places == UNION {{PlaceOf(j, j.slots[i]) : i \in DOMAIN j.slots} : j \in Jobs}
Files == {j.file : j \in Jobs}

Idle == [pc |-> "idle", job |-> None, at |-> 1, rows |-> <<>>, seen |-> None,
         verdict |-> None, run |-> 0, alive |-> TRUE]

Slot(p) == me[p].job.slots[me[p].at]
Place(p) == PlaceOf(me[p].job, Slot(p))
Gated(j) == j.policy

\* Scans and backtests each have a list of places where reports of record are kept.
InProtected(j) == j.root \in Protected[j.kind]

\* The flags that make a command bail before it writes anything.
Refused(j) ==
  \/ j.policy # (j.root # None)
  \/ j.version = "v2" /\ ~(j.policy /\ j.root # None)
  \/ j.version = "v2" /\ InProtected(j)

At(p, pc) == me[p].pc = pc
Go(p, pc) == me' = [me EXCEPT ![p].pc = pc]
End(p) == me' = [me EXCEPT ![p] = Idle]

\* fs::write truncates at open and then writes from the start: over what another
\* process has written since, the result may be a mixture.
Written(old, new) == IF old \in {Torn, new} THEN {new} ELSE {new, Torn}

Init ==
  /\ cands = [c \in Places |-> None] /\ decisions = [c \in Places |-> None]
  /\ outputs = [f \in Files |-> None] /\ reports = [f \in Files |-> None]
  /\ printed = {} /\ crossed = {}
  /\ batch \in Batches
  /\ me = [p \in Processes |-> Idle]
  /\ used = [runs |-> 0, kills |-> 0]

FirstStep(j) == IF Gated(j) THEN "stage" ELSE "compute"

Start(p, j) ==
  /\ At(p, "idle") /\ used.runs < MaxRuns /\ ~Refused(j)
  /\ used' = [used EXCEPT !.runs = @ + 1]
  /\ me' = [me EXCEPT ![p] = [Idle EXCEPT !.job = j, !.run = used.runs + 1,
                !.pc = IF j.kind = "report" THEN "read"
                       ELSE IF j.slots = <<>> THEN "output" ELSE FirstStep(j)]]
  /\ UNCHANGED <<cands, decisions, outputs, reports, printed, crossed>>

(***************************************************************************)
(* Staging the candidate.                                                  *)
(***************************************************************************)
\* Mutant: v1 scans stage where v2 scans do.
NeverPrivate(j) == FALSE

\* A v1 scan stages in a temporary directory named after the process.
Private(j) == j.kind = "scan" /\ j.version = "v1"

\* Mutant: a backtest writes its candidate over the one that is there.
ReplacesAll(j) == TRUE

\* Scans write, backtests create.
Replaces(j) == j.kind = "scan"

StagePrivate(p) ==
  /\ At(p, "stage") /\ Private(me[p].job)
  /\ Go(p, "gate")
  /\ UNCHANGED <<cands, decisions, outputs, reports, printed, crossed, used>>

\* Another process stands between its own candidate and its gate's look at it: the
\* gate of one will see the candidate of the other.
Crosses(p) ==
  \E q \in Processes \ {p} : me[q].pc \in {"fill", "gate"} /\ Place(q) = Place(p)

OpenCandidate(p) ==
  /\ At(p, "stage") /\ ~Private(me[p].job)
  /\ Replaces(me[p].job) \/ cands[Place(p)] = None
  /\ cands' = [cands EXCEPT ![Place(p)] = Torn]
  /\ crossed' = IF Crosses(p) THEN crossed \cup {Place(p)} ELSE crossed
  /\ Go(p, "fill")
  /\ UNCHANGED <<decisions, outputs, reports, printed, used>>

\* "backtest risk candidate artifact already exists"
RefuseCandidate(p) ==
  /\ At(p, "stage") /\ ~Private(me[p].job)
  /\ ~Replaces(me[p].job) /\ cands[Place(p)] # None
  /\ End(p)
  /\ UNCHANGED <<cands, decisions, outputs, reports, printed, crossed, used>>

FillCandidate(p) ==
  /\ At(p, "fill")
  /\ \E c \in Written(cands[Place(p)], Slot(p).body) :
       cands' = [cands EXCEPT ![Place(p)] = c]
  /\ Go(p, "gate")
  /\ UNCHANGED <<decisions, outputs, reports, printed, crossed, used>>

(***************************************************************************)
(* The gate on the candidate.                                              *)
(***************************************************************************)
\* Mutant: the gate takes a decision that is there for its own.
AbsentOrNot(c) == TRUE

\* Python's mode "x"
Absent(c) == decisions[c] = None

Candidate(p) == IF Private(me[p].job) THEN Slot(p).body ELSE cands[Place(p)]

\* A cut candidate is no JSON: the gate can only fail.  What it decides depends on
\* policy and evidence as well, so any verdict is possible.
GateReads(p) ==
  /\ At(p, "gate") /\ Candidate(p) \notin {None, Torn}
  /\ \E v \in Verdicts :
       me' = [me EXCEPT ![p].pc = "decide", ![p].seen = Candidate(p), ![p].verdict = v]
  /\ UNCHANGED <<cands, decisions, outputs, reports, printed, crossed, used>>

GateOpens(p) ==
  /\ At(p, "decide") /\ Absent(Place(p))
  /\ decisions' = [decisions EXCEPT ![Place(p)] = Torn]
  /\ Go(p, "decision")
  /\ UNCHANGED <<cands, outputs, reports, printed, crossed, used>>

GateFills(p) ==
  /\ At(p, "decision")
  /\ decisions' = [decisions EXCEPT ![Place(p)] =
       [verdict |-> me[p].verdict, body |-> me[p].seen, run |-> me[p].run]]
  /\ IF me[p].alive THEN Go(p, "judge") ELSE End(p)
  /\ UNCHANGED <<cands, outputs, reports, printed, crossed, used>>

\* Exit status 1, at any point and with "judge" after the decision is on file; a
\* command that is alive bails out with nothing delivered.
GateFails(p) ==
  /\ me[p].pc \in {"gate", "decide", "decision", "judge"}
  /\ End(p)
  /\ UNCHANGED <<cands, decisions, outputs, reports, printed, crossed, used>>

(***************************************************************************)
(* Rows.                                                                   *)
(***************************************************************************)
\* alpha_cliff: the smallest fee at which the profit factor is below 2.
Cliff(s, fees) == LET under == {f \in fees : s.pf[f] < 2}
                  IN IF under = {} THEN None ELSE Min(under)

Row(p, class, size) ==
  [place |-> Place(p), body |-> Slot(p).body, gated |-> Gated(me[p].job),
   class |-> class, size |-> size, ran |-> 0, cliff |-> None, verdict |-> "none"]

\* A slot the gate stopped: no statistics at all.
StoppedRow(p) == Row(p, me[p].verdict.class, 0)

\* The size a row claims: the cap's, else the one asked for.
Effective(p) == IF Gated(me[p].job) /\ me[p].verdict.class = "cap"
                THEN me[p].verdict.allowed ELSE Requested

\* A backtest runs at the effective size; a scan only writes it down.
RunsAt(p) == IF me[p].job.kind = "backtest" THEN Effective(p) ELSE Requested

FullRow(p) ==
  LET j == me[p].job
  IN [Row(p, IF Gated(j) THEN me[p].verdict.class ELSE "none", Effective(p)) EXCEPT
        !.ran = RunsAt(p),
        !.cliff = IF j.kind = "scan" THEN Cliff(Slot(p), j.fees) ELSE None,
        !.verdict = IF j.kind = "scan" /\ j.strict
                    THEN IF Slot(p).pass THEN "pass" ELSE "fail" ELSE "none"]

\* Mutant: the loop over the slots goes on one too far.
PastLastSlot(m) == m.at > Len(m.job.slots)

AtLastSlot(m) == m.at = Len(m.job.slots)

\* A backtest prints its one row; a scan goes on to the next slot or the output.
Deliver(p, row) ==
  LET m == me[p]
  IN IF m.job.kind = "backtest"
     THEN /\ printed' = printed \cup {[run |-> m.run, rows |-> <<row>>]}
          /\ End(p)
     ELSE /\ me' = [me EXCEPT ![p] = [@ EXCEPT
               !.rows = Append(@, row), !.seen = None, !.verdict = None,
               !.at = IF AtLastSlot(m) THEN 1 ELSE @ + 1,
               !.pc = IF AtLastSlot(m) THEN "output" ELSE FirstStep(m.job)]]
          /\ UNCHANGED printed

\* execution_state_for
Stops(v) == v.class \in Stopping

JudgeStopped(p) ==
  /\ At(p, "judge") /\ Stops(me[p].verdict)
  /\ Deliver(p, StoppedRow(p))
  /\ UNCHANGED <<cands, decisions, outputs, reports, crossed, used>>

JudgeContinued(p) ==
  /\ At(p, "judge") /\ ~Stops(me[p].verdict)
  /\ Go(p, "compute")
  /\ UNCHANGED <<cands, decisions, outputs, reports, printed, crossed, used>>

Compute(p) ==
  /\ At(p, "compute")
  /\ Deliver(p, FullRow(p))
  /\ UNCHANGED <<cands, decisions, outputs, reports, crossed, used>>

(***************************************************************************)
(* What is delivered.                                                      *)
(***************************************************************************)
OpenOutput(p) ==
  /\ At(p, "output")
  /\ outputs' = [outputs EXCEPT ![me[p].job.file] = Torn]
  /\ Go(p, "rows")
  /\ UNCHANGED <<cands, decisions, reports, printed, crossed, used>>

WriteRows(p) ==
  /\ At(p, "rows")
  /\ LET f == me[p].job.file
     IN \E o \in Written(outputs[f], [run |-> me[p].run, rows |-> me[p].rows]) :
          outputs' = [outputs EXCEPT ![f] = o]
  /\ End(p)
  /\ UNCHANGED <<cands, decisions, reports, printed, crossed, used>>

\* Mutant: a slot no fee breaks ranks first.
RankHigh(row) == IF row.cliff = None THEN 1000 ELSE row.cliff

\* None is negative infinity.
Rank(row) == IF row.cliff = None THEN -1 ELSE row.cliff

\* The slots by alpha_cliff, descending, equal ones in the order of the file.
Ranked(rows) ==
  SetToSortSeq(DOMAIN rows, LAMBDA a, b : \/ Rank(rows[a]) > Rank(rows[b])
                                          \/ Rank(rows[a]) = Rank(rows[b]) /\ a < b)

Passes(rows) == {i \in DOMAIN rows : rows[i].verdict = "pass"}

\* build_summary
Summary(o) ==
  LET ranked == Ranked(o.rows)
  IN [run |-> o.run, rows |-> o.rows, passes |-> Cardinality(Passes(o.rows)),
      top |-> {ranked[i] : i \in 1 .. Min({TopN, Len(ranked)})}]

\* A file that is missing or cut ends the command.
Report(p) ==
  /\ At(p, "read")
  /\ LET f == me[p].job.file
     IN reports' = IF outputs[f] \in {None, Torn} THEN reports
                   ELSE [reports EXCEPT ![f] = Summary(outputs[f])]
  /\ End(p)
  /\ UNCHANGED <<cands, decisions, outputs, printed, crossed, used>>

\* SIGKILL, or an I/O error anywhere; a gate that is at work goes on alone.
Kill(p) ==
  /\ me[p].pc # "idle" /\ me[p].alive /\ used.kills < MaxKills
  /\ used' = [used EXCEPT !.kills = @ + 1]
  /\ IF me[p].pc \in {"gate", "decide", "decision"}
     THEN me' = [me EXCEPT ![p].alive = FALSE]
     ELSE End(p)
  /\ UNCHANGED <<cands, decisions, outputs, reports, printed, crossed>>

Step(p) ==
  \/ \E j \in batch : Start(p, j)
  \/ StagePrivate(p) \/ OpenCandidate(p) \/ RefuseCandidate(p) \/ FillCandidate(p)
  \/ GateReads(p) \/ GateOpens(p) \/ GateFills(p) \/ GateFails(p)
  \/ JudgeStopped(p) \/ JudgeContinued(p) \/ Compute(p)
  \/ OpenOutput(p) \/ WriteRows(p) \/ Report(p)
  \/ Kill(p)

Next == (\E p \in Processes : Step(p)) /\ UNCHANGED batch

Spec == Init /\ [][Next]_vars

(***************************************************************************)
(* Properties.                                                             *)
(***************************************************************************)
Whole(f) == f \notin {None, Torn}
OnFile(c) == Whole(decisions[c])

\* What has reached a reader: whole outputs, reports and backtests, with their run.
Delivered == {outputs[f] : f \in {g \in Files : Whole(outputs[g])}}
             \cup {[run |-> reports[f].run, rows |-> reports[f].rows] :
                     f \in {g \in Files : Whole(reports[g])}}
             \cup printed

Bodies == UNION {{j.slots[i].body : i \in DOMAIN j.slots} : j \in Jobs}
RowOK(r) ==
  /\ r.place \in Places /\ r.body \in Bodies /\ r.gated \in BOOLEAN
  /\ r.class \in {"none", "size", "cap"} \cup Stopping
  /\ r.size \in 0 .. Requested /\ r.ran \in 0 .. Requested
  /\ r.cliff \in Nat \cup {None} /\ r.verdict \in {"none", "pass", "fail"}
RowsOK(o) == o.run \in 1 .. MaxRuns /\ \A i \in DOMAIN o.rows : RowOK(o.rows[i])

\* The shape of the files and of the processes, which never hold more rows than
\* their command has slots.
TypeOK ==
  /\ \A c \in Places :
       /\ cands[c] \in Bodies \cup {None, Torn}
       /\ OnFile(c) => /\ decisions[c].verdict \in Verdicts
                       /\ decisions[c].body \in Bodies /\ decisions[c].run \in 1 .. MaxRuns
  /\ \A d \in Delivered : RowsOK(d)
  /\ crossed \subseteq Places
  /\ \A p \in Processes :
       LET m == me[p]
       IN /\ m.pc \in {"idle", "stage", "fill", "gate", "decide", "decision", "judge",
                       "compute", "output", "rows", "read"}
          /\ m.pc # "idle" => /\ m.job \in Jobs /\ m.run \in 1 .. MaxRuns
                              /\ Len(m.rows) <= Len(m.job.slots)
                              /\ m.at \in 1 .. Max({1, Len(m.job.slots)})
          /\ m.pc \in {"decide", "decision", "judge"} =>
               m.seen \in Bodies /\ m.verdict \in Verdicts
  /\ used \in [runs : 0 .. MaxRuns, kills : 0 .. MaxKills]

\* Every gated row that has reached a reader rests on a decision that is on file and
\* was made for the very run that delivered it, no two rows on one: the row has its
\* class and its size, has statistics unless the decision stops it, and a backtest
\* ran at the size it names.  Whatever ran at the same time, was killed or left
\* files before.
RowsWarranted ==
  \A d \in Delivered : \A i \in DOMAIN d.rows :
    LET r == d.rows[i]
        v == decisions[r.place].verdict
    IN r.gated =>
         /\ OnFile(r.place) /\ decisions[r.place].run = d.run
         /\ \A k \in DOMAIN d.rows : d.rows[k].place = r.place => k = i
         /\ r.class = v.class
         /\ IF v.class \in Stopping
            THEN r.ran = 0 /\ r.verdict = "none"
            ELSE /\ r.ran > 0
                 /\ r.size = IF v.class = "cap" THEN v.allowed ELSE Requested
                 /\ r.place.kind = "backtest" => r.ran = r.size

\* The decision a row rests on was made of the candidate the row is of, not of one
\* with the same id that another command, or an earlier one, put there.  v2 scans,
\* which write into the shared directory, keep to this only while no two of them
\* stage one candidate at a time.  The candidate of a backtest stays with its decision.
DecidedAsRun ==
  /\ \A d \in Delivered : \A i \in DOMAIN d.rows :
       LET r == d.rows[i]
       IN r.gated /\ (Replaces(r.place) /\ r.place.version = "v2" => r.place \notin crossed)
            => decisions[r.place].body = r.body
  /\ \A c \in Places : c.kind = "backtest" /\ OnFile(c) => cands[c] = decisions[c].body

\* A decision, and the candidate of a backtest, never change once they are whole.
WriteOnce ==
  [][\A c \in Places :
       /\ OnFile(c) => decisions'[c] = decisions[c]
       /\ c.kind = "backtest" /\ Whole(cands[c]) => cands'[c] = cands[c]]_vars

\* A report counts no slot as passed that the gate stopped, and ranks none of those
\* among the best while it leaves out a slot that was run and breaks at some fee.
ReportHonest ==
  \A f \in Files : Whole(reports[f]) =>
    LET rows == reports[f].rows
        stopped == {i \in DOMAIN rows : rows[i].gated
                      /\ decisions[rows[i].place].verdict.class \in Stopping}
    IN /\ reports[f].passes <= Cardinality(DOMAIN rows \ stopped)
       /\ \A i \in stopped \cap reports[f].top, k \in DOMAIN rows \ reports[f].top :
            rows[k].cliff = None
=============================================================================
