------------------------------ MODULE RiskGate ------------------------------
(***************************************************************************)
(* The risk gate as its callers see it: scripts/evaluate_risk_gate.py      *)
(* evaluates a bundle with risk/engine.py, writes the contract artifact    *)
(* once, validates it with scripts/validate_risk_contract.py and exits;    *)
(* the Rust command that spawned it goes on only on exit 0 with a          *)
(* decision that continues.  Gates run at the same time, may be given the  *)
(* same --out and may be killed between any two steps.                     *)
(*                                                                         *)
(* A size is an integer or NaN, which json.loads accepts and no comparison *)
(* is true of.  What an input lacks is told apart by who notices:          *)
(* "input" raises before the write, "contract" only the validator sees.    *)
(***************************************************************************)
EXTENDS Integers, Sequences, FiniteSets

CONSTANTS
  Gates,      \* evaluate_risk_gate.py processes
  Paths,      \* the files --out may name
  Bundles,    \* [Gates -> the inputs the process may be given]
  Fixtures,   \* contracts written by hand, as those of risk/contracts
  NaN

Severity == [block |-> 0, kill |-> 1, reject |-> 2, cap |-> 3, size |-> 4]
Classes == DOMAIN Severity
Stops == {"block", "kill", "reject"}
Ops == {"exists", "eq", "lte", "gte"}
Number == Int \cup {NaN}

\* The v1 vocabulary, abstracted: the two reasons the evaluator uses itself, the one
\* v2 has renamed, and one of the five a rule brings.
V1Reasons == {"malformed_policy", "candidate_validation_failure",
              "insufficient_validation_power", "stale_evidence"}
V2RuleReasons == V1Reasons \ {"insufficient_validation_power"}
V2Reasons == V2RuleReasons \cup {"not_fail_closed"}

SizeBasis == [backtest |-> "unit_backtest_run", scan |-> "unit_scan_slot",
              paper |-> "unit_paper_slot_allocation"]

LiveBlocks == {"account_proof", "market_proof", "order_intent", "kill_switch_proof",
               "idempotency_proof"}

ASSUME GateAssumption ==
  /\ NaN \notin Int
  /\ \A g \in Gates : \A b \in Bundles[g] :
       /\ b.version \in {"v1", "v2"}
       /\ b.requested \in Number
       /\ Len(b.rules) \in Nat /\ DOMAIN b.rules = 1 .. Len(b.rules)
       /\ \A i \in DOMAIN b.rules : b.rules[i].limit \in Number

VARIABLES
  disk,   \* [Paths -> what is there: kind, who wrote it, the artifact]
  pc,     \* [Gates -> where the process stands]
  job,    \* [Gates -> the bundle, the path, the artifact in memory]
  exit,   \* [Gates -> its exit status, 0 or 1]
  run     \* [Gates -> what its caller does: state and size]

vars == <<disk, pc, job, exit, run>>

(***************************************************************************)
(* risk/engine.py                                                          *)
(***************************************************************************)
Less(a, b) == a # NaN /\ b # NaN /\ a < b
Positive(x) == x = NaN \/ x > 0

\* A path that does not resolve matches nothing, whatever the operator.
Holds(rule, facts) ==
  /\ rule.path \in DOMAIN facts
  /\ \/ rule.op = "exists"
     \/ rule.op = "eq" /\ facts[rule.path] = rule.value
     \/ rule.op = "lte" /\ facts[rule.path] <= rule.value
     \/ rule.op = "gte" /\ facts[rule.path] >= rule.value

WellFormed(rule) ==
  /\ rule.class \in Classes /\ rule.op \in Ops
  /\ rule.class = "cap" => Positive(rule.limit)
  /\ rule.class \in {"kill", "block"} => rule.reason \in V1Reasons

PolicyWellFormed(b) ==
  b.rules # <<>> /\ \A i \in DOMAIN b.rules : WellFormed(b.rules[i])

Matching(b) == {i \in DOMAIN b.rules : Holds(b.rules[i], b.facts)}

\* Mutant: matched rules stay in the order of the policy.
BeforeByIndex(b, i, j) == i <= j

Before(b, i, j) ==
  \/ Severity[b.rules[i].class] < Severity[b.rules[j].class]
  \/ Severity[b.rules[i].class] = Severity[b.rules[j].class] /\ i <= j

Winner(b) == CHOOSE i \in Matching(b) : \A j \in Matching(b) : Before(b, i, j)

\* Mutant: min with its arguments' roles exchanged is max.
AllowedMax(rule, requested) ==
  CASE rule.class = "size" -> requested
    [] rule.class = "cap" -> IF Less(requested, rule.limit) THEN rule.limit ELSE requested
    [] OTHER -> 0

\* min(requested, limit): the first of the two unless the second compares less.
Allowed(rule, requested) ==
  CASE rule.class = "size" -> requested
    [] rule.class = "cap" -> IF Less(rule.limit, requested) THEN rule.limit ELSE requested
    [] OTHER -> 0

Block(reason) == [class |-> "block", allowed |-> 0, reason |-> reason]

FromRule(rule, requested) ==
  [class |-> rule.class, allowed |-> Allowed(rule, requested),
   reason |-> IF rule.reason \in V1Reasons THEN rule.reason
              ELSE "insufficient_validation_power"]

Decision(b) ==
  IF ~Positive(b.requested) THEN Block("candidate_validation_failure")
  ELSE IF ~PolicyWellFormed(b) \/ Matching(b) = {} THEN Block("malformed_policy")
  ELSE FromRule(b.rules[Winner(b)], b.requested)

(***************************************************************************)
(* scripts/evaluate_risk_gate.py: what v2 adds.                            *)
(***************************************************************************)
\* require_v2_runtime_candidate: live is not among the surfaces.
RuntimeCandidate(b) ==
  /\ b.surface \in DOMAIN SizeBasis /\ b.basis = SizeBasis[b.surface]
  /\ b.status = "implemented"
  /\ b.scope = "none" /\ b.scopeStatus = "not_applicable"
  /\ Positive(b.requested)

V2Decision(d) ==
  IF d.reason = "insufficient_validation_power" /\ d.class \in {"size", "cap", "reject"}
    THEN [d EXCEPT !.reason = "not_fail_closed"] ELSE d

Application(b, d) ==
  IF d.class = "cap" THEN
    [state |-> "continued", status |-> "applied", applied |-> TRUE,
     effect |-> IF Less(d.allowed, b.requested) THEN "reduced" ELSE "none",
     effective |-> d.allowed, rescaled |-> FALSE]
  ELSE IF d.class = "size" THEN
    [state |-> "continued", status |-> "not_applicable", applied |-> FALSE,
     effect |-> "none", effective |-> d.allowed, rescaled |-> FALSE]
  ELSE
    [state |-> "stopped", status |-> "not_applicable", applied |-> FALSE,
     effect |-> "not_applicable", effective |-> 0, rescaled |-> FALSE]

NoApplication == [state |-> "none", effective |-> 0]

PaperCapRefused(b, d) ==
  /\ d.class = "cap" /\ b.surface = "paper"
  /\ d.allowed = NaN \/ d.allowed < 0 \/ Less(b.requested, d.allowed)

\* The bundles main leaves by an exception, before it has written anything.
Raises(b) ==
  \/ "input" \in b.lacks
  \/ /\ b.version = "v2"
     /\ \/ ~RuntimeCandidate(b)
        \/ \E c \in b.closers : c.reason \notin V2RuleReasons
        \/ V2Decision(Decision(b)).reason \notin V2Reasons
        \/ PaperCapRefused(b, Decision(b))

\* The contract main writes: the inputs as given, the decision, its trace.
Artifact(b) ==
  LET d == Decision(b) IN
  [version |-> b.version, of |-> b,
   decision |-> IF b.version = "v2" THEN V2Decision(d) ELSE d, traced |-> d.class,
   app |-> IF b.version = "v2" THEN Application(b, d) ELSE NoApplication]

(***************************************************************************)
(* scripts/validate_risk_contract.py.  a is a contract, b the inputs it    *)
(* carries; each operator is a check and states what the check accepts.    *)
(***************************************************************************)
Complete(b) == b.lacks = {} /\ b.closers # {}

ClassesKnown(a, b) ==
  /\ a.decision.class \in Classes /\ a.traced \in Classes
  /\ \A c \in b.closers : c.class \in {"kill", "block"}

ReasonsKnown(a, b) ==
  IF a.version = "v1"
    THEN a.decision.reason \in V1Reasons /\ \A c \in b.closers : c.reason \in V1Reasons
    ELSE a.decision.reason \in V2Reasons /\ \A c \in b.closers : c.reason \in V2RuleReasons

SurfaceKnown(b) ==
  /\ b.surface \in DOMAIN SizeBasis \cup {"live"}
  /\ b.scope \in {"none", "wfd_statistical_output"}

Envelope(a, b) ==
  LET app == a.app IN
  /\ b.surface \in DOMAIN SizeBasis => b.basis = SizeBasis[b.surface]
  /\ b.surface \in {"backtest", "paper"} => b.scope = "none"
  /\ b.scope = "none" => b.scopeStatus = "not_applicable"
  /\ b.scope = "wfd_statistical_output" =>
       b.scopeStatus = "metadata_only" /\ app.status = "metadata_only"
  /\ app.applied => app.status = "applied"
  /\ b.surface = "paper" /\ app.status = "applied" => a.decision.class = "cap"
  /\ b.surface = "paper" /\ app.state = "stopped" => ~app.applied
  /\ app.status = "metadata_only" =>
       ~app.applied /\ ~app.rescaled /\ app.effect = "none"

\* No key or value that could be a secret, at any depth of the payload.
NothingSecret(p) == ~p.secretKey /\ ~p.secretValue

\* No claim that a live runtime exists, may place orders or has touched a broker.
NoRuntimeClaim(p) == ~p.claim

\* A block has exactly its fields; its order intent forbids mutation, its bound is
\* positive, its times look like times, its statuses have passed.
BlockSound(block) == block = "sound"

LiveProof(a, b) ==
  b.surface = "live" =>
    /\ b.status \in {"not_wired", "guarded"}
    /\ NothingSecret(b.payload) /\ NoRuntimeClaim(b.payload)
    /\ ~a.app.applied /\ a.app.state = "stopped"
    /\ a.app.effect = "not_applicable" /\ ~a.app.rescaled
    /\ b.status = "not_wired" =>
         /\ b.payload.fields \subseteq {"fixture_kind", "live_runtime"}
         /\ a.app.status = "not_claimable"
    /\ b.status = "guarded" =>
         /\ a.app.status = "not_applicable" /\ b.basis = "unit_live_order_notional"
         /\ b.payload.fields = {"runtime_adoption"} \cup LiveBlocks
         /\ \A name \in LiveBlocks : BlockSound(b.payload.blocks[name])

ValidV1(a) ==
  LET b == a.of IN
  /\ Complete(b) /\ ClassesKnown(a, b) /\ ReasonsKnown(a, b)
  /\ a.decision.class = a.traced

ValidV2(a) ==
  LET b == a.of IN
  /\ Complete(b) /\ SurfaceKnown(b) /\ LiveProof(a, b) /\ Envelope(a, b)
  /\ ClassesKnown(a, b) /\ ReasonsKnown(a, b)
  /\ a.decision.class = a.traced

Valid(a) == IF a.version = "v2" THEN ValidV2(a) ELSE ValidV1(a)

(***************************************************************************)
(* Files and processes.                                                    *)
(***************************************************************************)
Absent == [kind |-> "absent", by |-> "nobody"]
Torn(g) == [kind |-> "torn", by |-> g]
Whole(g, a) == [kind |-> "whole", by |-> g, art |-> a]

\* The exit status of validate_risk_contract.py run on a file.
ValidatorExit(file) ==
  IF file.kind # "whole" THEN 2 ELSE IF Valid(file.art) THEN 0 ELSE 1

NoJob == [none |-> TRUE]
NoRun == [state |-> "none", size |-> 0]

Init ==
  /\ disk = [p \in Paths |-> Absent]
  /\ pc = [g \in Gates |-> "idle"] /\ job = [g \in Gates |-> NoJob]
  /\ exit = [g \in Gates |-> 0] /\ run = [g \in Gates |-> NoRun]

\* Mutant: the status argparse uses for a bad command line.
FailTwo(g) == pc' = [pc EXCEPT ![g] = "exited"] /\ exit' = [exit EXCEPT ![g] = 2]

Fail(g) == pc' = [pc EXCEPT ![g] = "exited"] /\ exit' = [exit EXCEPT ![g] = 1]

\* A command spawns the gate, which evaluates its bundle or leaves by an exception.
Evaluate(g, b, p) ==
  /\ pc[g] = "idle"
  /\ IF Raises(b)
       THEN job' = [job EXCEPT ![g] = [of |-> b, out |-> p]] /\ Fail(g)
       ELSE /\ job' = [job EXCEPT ![g] = [of |-> b, out |-> p, art |-> Artifact(b)]]
            /\ pc' = [pc EXCEPT ![g] = "evaluated"] /\ UNCHANGED exit
  /\ UNCHANGED <<disk, run>>

\* Mutant: open "w" instead of "x".
OpenOver(g) ==
  /\ pc[g] = "evaluated"
  /\ disk' = [disk EXCEPT ![job[g].out] = Torn(g)]
  /\ pc' = [pc EXCEPT ![g] = "opened"]
  /\ UNCHANGED <<exit, job, run>>

\* open("x") creates the file empty, or raises because it is there.
Open(g) ==
  /\ pc[g] = "evaluated"
  /\ IF disk[job[g].out].kind = "absent"
       THEN /\ disk' = [disk EXCEPT ![job[g].out] = Torn(g)]
            /\ pc' = [pc EXCEPT ![g] = "opened"] /\ UNCHANGED exit
       ELSE Fail(g) /\ UNCHANGED disk
  /\ UNCHANGED <<job, run>>

Fill(g) ==
  /\ pc[g] = "opened"
  /\ disk' = [disk EXCEPT ![job[g].out] = Whole(g, job[g].art)]
  /\ pc' = [pc EXCEPT ![g] = "written"]
  /\ UNCHANGED <<job, exit, run>>

\* v1 reads the artifact back, v2 validates the one in memory; an invalid one stays.
Validate(g) ==
  /\ pc[g] = "written"
  /\ LET file == disk[job[g].out]
         valid == IF job[g].of.version = "v2" THEN ValidV2(job[g].art)
                  ELSE file.kind = "whole" /\ file.art.version = "v1" /\ ValidV1(file.art)
     IN exit' = [exit EXCEPT ![g] = IF valid THEN 0 ELSE 1]
  /\ pc' = [pc EXCEPT ![g] = "exited"]
  /\ UNCHANGED <<disk, job, run>>

Kill(g) ==
  /\ pc[g] \in {"evaluated", "opened", "written"}
  /\ Fail(g)
  /\ UNCHANGED <<disk, job, run>>

\* summary_from_output and execution_state_for, by a command that applies what it is
\* told, v1 or v2: paper --risk-apply, scan and backtest.  serde_json has no NaN.
Caller(g) ==
  /\ pc[g] = "exited" /\ run[g] = NoRun
  /\ run' = [run EXCEPT ![g] =
       IF exit[g] # 0 \/ job[g].art.decision.allowed = NaN
         THEN [state |-> "gate_error", size |-> 0]
       ELSE IF job[g].art.decision.class \in Stops
         THEN [state |-> "stopped", size |-> 0]
       ELSE [state |-> "continued", size |-> job[g].art.decision.allowed]]
  /\ UNCHANGED <<disk, pc, job, exit>>

\* A contract written by hand.
Deposit(p, a) ==
  /\ disk[p].kind = "absent"
  /\ disk' = [disk EXCEPT ![p] = Whole("hand", a)]
  /\ UNCHANGED <<pc, job, exit, run>>

Step(g) == Open(g) \/ Fill(g) \/ Validate(g) \/ Caller(g)

Next ==
  \/ \E g \in Gates : \E b \in Bundles[g], p \in Paths : Evaluate(g, b, p)
  \/ \E g \in Gates : Step(g) \/ Kill(g)
  \/ \E p \in Paths, a \in Fixtures : Deposit(p, a)

Spec == Init /\ [][Next]_vars

(***************************************************************************)
(* Properties.                                                             *)
(***************************************************************************)
TypeOK ==
  /\ \A p \in Paths : disk[p].kind \in {"absent", "torn", "whole"}
  /\ pc \in [Gates -> {"idle", "evaluated", "opened", "written", "exited"}]
  /\ exit \in [Gates -> {0, 1}]
  /\ \A g \in Gates :
       /\ pc[g] # "idle" => job[g].of \in Bundles[g] /\ job[g].out \in Paths
       /\ run[g].state \in {"none", "gate_error", "stopped", "continued"}

\* A run continues only when the candidate asks for a size, every rule of its policy
\* is well formed, a size or cap rule matches and no rule that stops does, wherever
\* the rules stand in the policy: the evaluator's precedence fails closed.
RunIsWarranted ==
  \A g \in Gates : run[g].state = "continued" =>
    LET b == job[g].of IN
    /\ Positive(b.requested) /\ PolicyWellFormed(b)
    /\ Matching(b) # {}
    /\ \A i \in Matching(b) : b.rules[i].class \notin Stops

\* The size a run goes on with is at most the one requested, and where no size
\* rule is alone in matching, at most the limit of a cap that matches.
SizeIsBound ==
  \A g \in Gates : run[g].state = "continued" =>
    LET b == job[g].of
        caps == {i \in Matching(b) : b.rules[i].class = "cap"} IN
    /\ run[g].size # NaN /\ ~Less(b.requested, run[g].size)
    /\ caps # {} => \E i \in caps : ~Less(b.rules[i].limit, run[g].size)

\* Whatever raced, was killed or deposited, a run that continues has the file its
\* gate names: whole, written by that gate, accepted by the validator, its decision
\* and trace those of the run's own inputs.
RunHasItsArtifact ==
  \A g \in Gates : run[g].state = "continued" =>
    LET file == disk[job[g].out] IN
    /\ file.kind = "whole" /\ file.by = g /\ ValidatorExit(file) = 0
    /\ file.art.traced = Decision(job[g].of).class
    /\ file.art.of = job[g].of

\* An artifact is never rewritten: a torn file is completed by the process that
\* created it or stays torn, and a whole one stays as it is.
WriteOnce ==
  [][\A p \in Paths :
       /\ disk[p].kind = "whole" => disk'[p] = disk[p]
       /\ disk[p].kind = "torn" => disk'[p].by = disk[p].by /\ disk'[p].kind # "absent"]_vars

=============================================================================
