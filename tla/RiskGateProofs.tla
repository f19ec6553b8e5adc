--------------------------- MODULE RiskGateProofs ---------------------------
(***************************************************************************)
(* Proofs about RiskGate for any number of gates, paths, inputs and        *)
(* hand-written contracts.                                                 *)
(***************************************************************************)
EXTENDS RiskGate, TLAPS, FiniteSetTheorems

(***************************************************************************)
(* The evaluator: a rule that matches has a winner, and the winner stops   *)
(* if any rule that matches does.                                          *)
(***************************************************************************)
\* A set of naturals that is not empty has a least element.
LEMMA LeastNatural ==
  ASSUME NEW S \in SUBSET Nat, S # {}
  PROVE  \E n \in S : \A k \in S : n <= k
<1> DEFINE Below == {0 .. n : n \in S}
<1>1. Below \subseteq FiniteSubsetsOf(Nat) /\ Below # {}
  <2>1. ASSUME NEW n \in S PROVE 0 .. n \in FiniteSubsetsOf(Nat)
    <3>1. n \in Nat /\ 0 .. n \subseteq Nat
      OBVIOUS
    <3>2. IsFiniteSet(0 .. n)
      BY <3>1, FS_Interval
    <3> QED BY <3>1, <3>2 DEF FiniteSubsetsOf
  <2> QED BY <2>1
<1>2. \E B \in Below : \A C \in Below : ~(<<C, B>> \in StrictSubsetOrdering(Nat))
  <2> HIDE DEF Below
  <2> QED BY <1>1, FS_StrictSubsetOrderingWellFounded, WFMin, Zenon
<1>3. PICK n \in S : \A k \in S : ~(<<0 .. k, 0 .. n>> \in StrictSubsetOrdering(Nat))
  BY <1>2
<1>4. ASSUME NEW k \in S, k < n PROVE FALSE
  <2>1. 0 .. k \in SUBSET Nat /\ 0 .. n \in SUBSET Nat
    OBVIOUS
  <2>2. 0 .. k \subseteq 0 .. n /\ 0 .. k # 0 .. n
    <3>1. n \in 0 .. n /\ n \notin 0 .. k
      BY <1>4
    <3> QED BY <1>4, <3>1
  <2>3. <<0 .. k, 0 .. n>> \in StrictSubsetOrdering(Nat)
    BY <2>1, <2>2 DEF StrictSubsetOrdering
  <2> QED BY <2>3, <1>3
<1> QED BY <1>3, <1>4

Proper(b) ==
  /\ Len(b.rules) \in Nat /\ DOMAIN b.rules = 1 .. Len(b.rules)
  /\ \A i \in DOMAIN b.rules : b.rules[i].class \in Classes

LEMMA SeverityNat == \A c \in Classes : Severity[c] \in Nat
BY DEF Severity, Classes

\* Sorting by severity and then by index has a first element.
LEMMA WinnerExists ==
  ASSUME NEW b, Proper(b), Matching(b) # {}
  PROVE  \E i \in Matching(b) : \A j \in Matching(b) : Before(b, i, j)
<1> DEFINE Sev(i) == Severity[b.rules[i].class]
           Sevs == {Sev(i) : i \in Matching(b)}
<1>1. \A i \in Matching(b) : i \in Nat /\ Sev(i) \in Nat
  BY SeverityNat DEF Matching, Proper
<1>2. Sevs \in SUBSET Nat /\ Sevs # {}
  BY <1>1
<1>3. PICK s \in Sevs : \A k \in Sevs : s <= k
  <2> HIDE DEF Sevs
  <2> QED BY <1>2, LeastNatural
<1> DEFINE First == {i \in Matching(b) : Sev(i) = s}
<1>4. First \in SUBSET Nat /\ First # {}
  BY <1>1
<1>5. PICK i \in First : \A j \in First : i <= j
  <2> HIDE DEF First
  <2> QED BY <1>4, LeastNatural
<1>6. ASSUME NEW j \in Matching(b) PROVE Before(b, i, j)
  <2>1. Sev(i) = s /\ s <= Sev(j) /\ Sev(i) \in Nat /\ Sev(j) \in Nat
    BY <1>1, <1>3, <1>5
  <2>2. CASE Sev(j) = s
    BY <2>1, <2>2, <1>5 DEF Before
  <2>3. CASE Sev(j) # s
    BY <2>1, <2>3 DEF Before
  <2> QED BY <2>2, <2>3
<1> QED BY <1>5, <1>6

\* If a rule that matches stops, the winner is a rule that stops.
LEMMA WinnerIsSeverest ==
  ASSUME NEW b, Proper(b), Matching(b) # {}
  PROVE  /\ Winner(b) \in Matching(b)
         /\ b.rules[Winner(b)].class = "size" =>
              \A j \in Matching(b) : b.rules[j].class # "cap"
         /\ b.rules[Winner(b)].class \notin Stops =>
              \A j \in Matching(b) : b.rules[j].class \notin Stops
<1>1. Winner(b) \in Matching(b) /\ \A j \in Matching(b) : Before(b, Winner(b), j)
  BY WinnerExists DEF Winner
<1>2. ASSUME b.rules[Winner(b)].class \notin Stops, NEW j \in Matching(b)
      PROVE  b.rules[j].class \notin Stops
  <2>1. Before(b, Winner(b), j)
    BY <1>1
  <2>2. b.rules[Winner(b)].class \in {"cap", "size"} /\ b.rules[j].class \in Classes
    BY <1>1, <1>2 DEF Proper, Matching, Classes, Severity, Stops
  <2>3. Severity[b.rules[Winner(b)].class] \in {3, 4}
    BY <2>2 DEF Severity
  <2>4. b.rules[j].class \in Stops => Severity[b.rules[j].class] \in {0, 1, 2}
    BY DEF Stops, Severity
  <2> QED BY <2>1, <2>3, <2>4, SMT DEF Before
<1>3. ASSUME b.rules[Winner(b)].class = "size", NEW j \in Matching(b)
      PROVE  b.rules[j].class # "cap"
  <2>1. Before(b, Winner(b), j) /\ Severity["size"] = 4 /\ Severity["cap"] = 3
    BY <1>1 DEF Severity
  <2> QED BY <2>1, <1>3, SMT DEF Before
<1> QED BY <1>1, <1>2, <1>3

LEMMA BundleFacts ==
  ASSUME NEW g \in Gates, NEW b \in Bundles[g]
  PROVE  /\ b.version \in {"v1", "v2"} /\ b.requested \in Number
         /\ Len(b.rules) \in Nat /\ DOMAIN b.rules = 1 .. Len(b.rules)
         /\ \A i \in DOMAIN b.rules : b.rules[i].limit \in Number
BY GateAssumption

\* Fail closed: a decision that does not stop comes from a well-formed policy of which
\* a rule matches and no rule that stops does.
LEMMA DecisionFailsClosed ==
  ASSUME NEW g \in Gates, NEW b \in Bundles[g], Decision(b).class \notin Stops
  PROVE  /\ Positive(b.requested) /\ PolicyWellFormed(b) /\ Matching(b) # {}
         /\ Decision(b) = FromRule(b.rules[Winner(b)], b.requested)
         /\ Winner(b) \in Matching(b)
         /\ b.rules[Winner(b)].class \in {"cap", "size"}
         /\ b.rules[Winner(b)].class = "size" =>
              \A j \in Matching(b) : b.rules[j].class # "cap"
         /\ \A i \in Matching(b) : b.rules[i].class \notin Stops
<1>1. \A r : Block(r).class = "block"
  BY DEF Block
<1>2. Positive(b.requested) /\ PolicyWellFormed(b) /\ Matching(b) # {}
  BY <1>1 DEF Decision, Stops
<1>3. Proper(b)
  BY <1>2, BundleFacts DEF Proper, PolicyWellFormed, WellFormed
<1>4. Decision(b) = FromRule(b.rules[Winner(b)], b.requested)
  BY <1>2 DEF Decision
<1>5. Decision(b).class = b.rules[Winner(b)].class
  BY <1>4 DEF FromRule
<1>6. Winner(b) \in Matching(b)
  BY <1>2, <1>3, WinnerIsSeverest
<1>7. b.rules[Winner(b)].class \in {"cap", "size"}
  BY <1>3, <1>5, <1>6 DEF Proper, Matching, Classes, Severity, Stops
<1> QED BY <1>2, <1>3, <1>4, <1>5, <1>6, <1>7, WinnerIsSeverest

\* What a decision that does not stop allows is at most what is requested, and at most
\* the limit of some cap that matches if one does.
LEMMA DecisionIsBound ==
  ASSUME NEW g \in Gates, NEW b \in Bundles[g], Decision(b).class \notin Stops
  PROVE  LET caps == {i \in Matching(b) : b.rules[i].class = "cap"}
             size == Decision(b).allowed IN
         /\ size \in Number /\ ~Less(b.requested, size)
         /\ caps # {} => \E i \in caps : ~Less(b.rules[i].limit, size)
<1> DEFINE w == Winner(b)
           r == b.rules[w]
<1>1. /\ w \in Matching(b) /\ r.class \in {"cap", "size"}
      /\ r.class = "size" => \A j \in Matching(b) : b.rules[j].class # "cap"
      /\ Decision(b).allowed = Allowed(r, b.requested)
  BY DecisionFailsClosed DEF FromRule
<1>2. b.requested \in Number /\ r.limit \in Number /\ NaN \notin Int
  BY <1>1, BundleFacts, GateAssumption DEF Matching
<1>3. CASE r.class = "size"
  <2>1. Decision(b).allowed = b.requested
    BY <1>1, <1>3 DEF Allowed
  <2> QED BY <2>1, <1>1, <1>2, <1>3 DEF Less, Number
<1>4. CASE r.class = "cap"
  <2>1. Decision(b).allowed = IF Less(r.limit, b.requested) THEN r.limit ELSE b.requested
    BY <1>1, <1>4 DEF Allowed
  <2>2. ~Less(b.requested, Decision(b).allowed) /\ ~Less(r.limit, Decision(b).allowed)
    BY <2>1, <1>2 DEF Less, Number
  <2> HIDE DEF w, r
  <2> QED BY <2>1, <2>2, <1>1, <1>2, <1>4 DEF r
<1> QED BY <1>1, <1>3, <1>4

(***************************************************************************)
(* The inductive invariant.                                                *)
(***************************************************************************)
HasArtifact(g) == job[g].art = Artifact(job[g].of)

\* What a gate at each point of its life has in memory and on the disk.
GateOK(g) ==
  /\ pc[g] # "idle" => job[g].of \in Bundles[g] /\ job[g].out \in Paths
  /\ pc[g] \in {"evaluated", "opened", "written"} => HasArtifact(g)
  /\ pc[g] = "opened" => disk[job[g].out] = Torn(g)
  /\ pc[g] = "written" => disk[job[g].out] = Whole(g, job[g].art)
  /\ pc[g] = "exited" /\ exit[g] = 0 =>
       /\ HasArtifact(g) /\ disk[job[g].out] = Whole(g, job[g].art)
       /\ Valid(job[g].art)

\* A run that continues is that of a gate that left with 0 and a decision that
\* continues, at the size v2 applies.
RunOK(g) ==
  run[g].state = "continued" =>
    /\ pc[g] = "exited" /\ exit[g] = 0
    /\ job[g].art.decision.class \notin Stops
    /\ job[g].art.decision.allowed # NaN
    /\ run[g].size = job[g].art.decision.allowed

Domains ==
  /\ disk = [p \in Paths |-> disk[p]] /\ job = [g \in Gates |-> job[g]]
  /\ run = [g \in Gates |-> run[g]]

IInv == TypeOK /\ Domains /\ \A g \in Gates : GateOK(g) /\ RunOK(g)

(***************************************************************************)
(* The invariant is inductive.                                             *)
(***************************************************************************)
LEMMA InitInv == Init => IInv
BY DEF Init, IInv, TypeOK, Domains, GateOK, RunOK, Absent, NoRun

Owning(h) == pc[h] \in {"opened", "written"} \/ (pc[h] = "exited" /\ exit[h] = 0)

\* A gate that has created its file is the one the file names.
LEMMA OwnsFile ==
  ASSUME IInv, NEW h \in Gates, Owning(h)
  PROVE  /\ job[h].out \in Paths
         /\ disk[job[h].out].by = h /\ disk[job[h].out].kind # "absent"
<1>1. \A g, a : /\ Torn(g).by = g /\ Torn(g).kind = "torn"
                /\ Whole(g, a).by = g /\ Whole(g, a).kind = "whole"
  BY DEF Torn, Whole
<1>2. /\ job[h].out \in Paths
      /\ disk[job[h].out] = Torn(h) \/ disk[job[h].out] = Whole(h, job[h].art)
  BY DEF IInv, GateOK, Owning
<1> QED BY <1>1, <1>2

\* What another process does leaves a gate as it is while its file stays.
LEMMA Frame ==
  ASSUME IInv, NEW h \in Gates,
         pc'[h] = pc[h], job'[h] = job[h], exit'[h] = exit[h], run'[h] = run[h],
         Owning(h) => disk'[job[h].out] = disk[job[h].out]
  PROVE  GateOK(h)' /\ RunOK(h)'
<1>1. GateOK(h) /\ RunOK(h)
  BY DEF IInv
<1>2. GateOK(h)'
  BY <1>1 DEF GateOK, HasArtifact, Owning
<1>3. RunOK(h)'
  BY <1>1 DEF RunOK
<1> QED BY <1>2, <1>3

LEMMA EvaluateInv ==
  ASSUME IInv, NEW g \in Gates, NEW b \in Bundles[g], NEW p \in Paths, Evaluate(g, b, p)
  PROVE  IInv'
<1>1. /\ pc[g] = "idle" /\ disk' = disk /\ run' = run
      /\ job'[g].of = b /\ job'[g].out = p
      /\ \/ pc'[g] = "exited" /\ exit'[g] = 1
         \/ pc'[g] = "evaluated" /\ job'[g].art = Artifact(b)
      /\ \A h \in Gates \ {g} : pc'[h] = pc[h] /\ job'[h] = job[h] /\ exit'[h] = exit[h]
  BY DEF Evaluate, Fail, IInv, TypeOK, Domains
<1>2. RunOK(g)' /\ GateOK(g)'
  BY <1>1 DEF IInv, RunOK, GateOK, HasArtifact
<1>3. \A h \in Gates \ {g} : GateOK(h)' /\ RunOK(h)'
  BY <1>1, Frame
<1>4. Domains'
  BY DEF Evaluate, IInv, Domains
<1>5. TypeOK'
  BY <1>1 DEF Evaluate, Fail, IInv, TypeOK, Domains
<1> QED BY <1>2, <1>3, <1>4, <1>5 DEF IInv

LEMMA OpenInv ==
  ASSUME IInv, NEW g \in Gates, Open(g)
  PROVE  IInv'
<1> DEFINE p == job[g].out
<1>1. /\ pc[g] = "evaluated" /\ p \in Paths /\ job' = job /\ run' = run
      /\ \A h \in Gates \ {g} : pc'[h] = pc[h] /\ exit'[h] = exit[h]
  BY DEF Open, Fail, IInv, TypeOK, GateOK
<1>2. CASE disk[p].kind = "absent"
  <2>1. disk' = [disk EXCEPT ![p] = Torn(g)] /\ pc'[g] = "opened" /\ exit' = exit
    BY <1>1, <1>2 DEF Open, IInv, TypeOK
  <2>2. disk'[p] = Torn(g) /\ \A q \in Paths \ {p} : disk'[q] = disk[q]
    BY <1>1, <2>1 DEF IInv, Domains
  <2>3. GateOK(g)' /\ RunOK(g)'
    BY <1>1, <2>1, <2>2 DEF IInv, GateOK, RunOK, HasArtifact
  <2>4. ASSUME NEW h \in Gates \ {g} PROVE GateOK(h)' /\ RunOK(h)'
    <3>1. Owning(h) => disk'[job[h].out] = disk[job[h].out]
      BY <1>2, <2>2, OwnsFile
    <3> QED BY <1>1, <2>1, <3>1, Frame
  <2>5. Domains'
    BY <1>1, <2>1 DEF IInv, Domains
  <2>6. TypeOK'
    <3>1. \A q \in Paths : disk'[q].kind \in {"absent", "torn", "whole"}
      BY <2>2 DEF IInv, TypeOK, Torn
    <3>2. pc' \in [Gates -> {"idle", "evaluated", "opened", "written", "exited"}]
      BY <1>2 DEF Open, IInv, TypeOK
    <3> QED BY <1>1, <2>1, <3>1, <3>2 DEF IInv, TypeOK
  <2> QED BY <2>3, <2>4, <2>5, <2>6 DEF IInv
<1>3. CASE disk[p].kind # "absent"
  <2>1. disk' = disk /\ Fail(g) /\ pc'[g] = "exited" /\ exit'[g] = 1
    BY <1>1, <1>3 DEF Open, Fail, IInv, TypeOK
  <2>2. GateOK(g)' /\ RunOK(g)'
    BY <1>1, <2>1 DEF IInv, GateOK, RunOK
  <2>3. \A h \in Gates \ {g} : GateOK(h)' /\ RunOK(h)'
    BY <1>1, <2>1, Frame
  <2>4. TypeOK' /\ Domains'
    BY <1>1, <2>1 DEF IInv, TypeOK, Domains, Fail
  <2> QED BY <2>2, <2>3, <2>4 DEF IInv
<1> QED BY <1>2, <1>3

LEMMA FillInv ==
  ASSUME IInv, NEW g \in Gates, Fill(g)
  PROVE  IInv'
<1> DEFINE p == job[g].out
<1>1. /\ pc[g] = "opened" /\ p \in Paths /\ disk[p] = Torn(g) /\ HasArtifact(g)
      /\ job' = job /\ run' = run /\ exit' = exit /\ pc'[g] = "written"
      /\ disk' = [disk EXCEPT ![p] = Whole(g, job[g].art)]
      /\ \A h \in Gates \ {g} : pc'[h] = pc[h]
  BY DEF Fill, IInv, TypeOK, GateOK
<1>2. disk'[p] = Whole(g, job[g].art) /\ \A q \in Paths \ {p} : disk'[q] = disk[q]
  BY <1>1 DEF IInv, Domains
<1>3. GateOK(g)' /\ RunOK(g)'
  BY <1>1, <1>2 DEF IInv, GateOK, RunOK, HasArtifact
<1>4. ASSUME NEW h \in Gates \ {g} PROVE GateOK(h)' /\ RunOK(h)'
  <2>1. Owning(h) => disk'[job[h].out] = disk[job[h].out]
    BY <1>1, <1>2, OwnsFile DEF Torn
  <2> QED BY <1>1, <2>1, Frame
<1>5. Domains'
  BY <1>1 DEF IInv, Domains
<1>6. TypeOK'
  <2>1. \A q \in Paths : disk'[q].kind \in {"absent", "torn", "whole"}
    BY <1>2 DEF IInv, TypeOK, Whole
  <2>2. pc' \in [Gates -> {"idle", "evaluated", "opened", "written", "exited"}]
    BY DEF Fill, IInv, TypeOK
  <2> QED BY <1>1, <2>1, <2>2 DEF IInv, TypeOK
<1> QED BY <1>3, <1>4, <1>5, <1>6 DEF IInv

LEMMA ValidateInv ==
  ASSUME IInv, NEW g \in Gates, Validate(g)
  PROVE  IInv'
<1>1. /\ pc[g] = "written" /\ disk' = disk /\ job' = job /\ run' = run
      /\ disk[job[g].out] = Whole(g, job[g].art) /\ HasArtifact(g)
      /\ job[g].of \in Bundles[g] /\ job[g].out \in Paths
      /\ pc'[g] = "exited" /\ exit' \in [Gates -> {0, 1}]
      /\ \A h \in Gates \ {g} : pc'[h] = pc[h] /\ exit'[h] = exit[h]
  BY DEF Validate, IInv, TypeOK, GateOK
<1>2. exit'[g] = 0 => Valid(job[g].art)
  <2>1. job[g].art.version = job[g].of.version
    BY <1>1 DEF HasArtifact, Artifact
  <2>2. Whole(g, job[g].art).art = job[g].art
    BY DEF Whole
  <2>3. exit'[g] = 0 =>
          IF job[g].of.version = "v2" THEN ValidV2(job[g].art)
          ELSE job[g].art.version = "v1" /\ ValidV1(job[g].art)
    <3> USE <1>1, <2>2
    <3>1. CASE job[g].of.version = "v2"
      BY <3>1 DEF Validate, IInv, TypeOK
    <3>2. CASE job[g].of.version # "v2"
      BY <3>2 DEF Validate, IInv, TypeOK
    <3> QED BY <3>1, <3>2
  <2> QED BY <2>1, <2>3 DEF Valid
<1>3. GateOK(g)' /\ RunOK(g)'
  <2>1. GateOK(g)'
    BY <1>1, <1>2 DEF GateOK, HasArtifact
  <2>2. RunOK(g)'
    BY <1>1 DEF IInv, RunOK
  <2> QED BY <2>1, <2>2
<1>4. \A h \in Gates \ {g} : GateOK(h)' /\ RunOK(h)'
  BY <1>1, Frame
<1>5. TypeOK' /\ Domains'
  BY <1>1 DEF Validate, IInv, TypeOK, Domains
<1> QED BY <1>3, <1>4, <1>5 DEF IInv

LEMMA KillInv ==
  ASSUME IInv, NEW g \in Gates, Kill(g)
  PROVE  IInv'
<1>1. /\ pc[g] \in {"evaluated", "opened", "written"} /\ disk' = disk /\ job' = job
      /\ run' = run /\ pc'[g] = "exited" /\ exit'[g] = 1
      /\ \A h \in Gates \ {g} : pc'[h] = pc[h] /\ exit'[h] = exit[h]
  BY DEF Kill, Fail, IInv, TypeOK
<1>2. GateOK(g)' /\ RunOK(g)'
  BY <1>1 DEF IInv, GateOK, RunOK
<1>3. \A h \in Gates \ {g} : GateOK(h)' /\ RunOK(h)'
  BY <1>1, Frame
<1>4. TypeOK' /\ Domains'
  BY <1>1 DEF Kill, Fail, IInv, TypeOK, Domains
<1> QED BY <1>2, <1>3, <1>4 DEF IInv

LEMMA CallerInv ==
  ASSUME IInv, NEW g \in Gates, Caller(g)
  PROVE  IInv'
<1>1. /\ pc[g] = "exited" /\ disk' = disk /\ job' = job /\ pc' = pc /\ exit' = exit
      /\ \A h \in Gates \ {g} : run'[h] = run[h]
  BY DEF Caller, IInv, Domains
<1>2. run'[g] =
        IF exit[g] # 0 \/ job[g].art.decision.allowed = NaN
          THEN [state |-> "gate_error", size |-> 0]
        ELSE IF job[g].art.decision.class \in Stops
          THEN [state |-> "stopped", size |-> 0]
        ELSE [state |-> "continued", size |-> job[g].art.decision.allowed]
  BY DEF Caller, IInv, Domains
<1>3. /\ RunOK(g)'
      /\ run'[g].state \in {"none", "gate_error", "stopped", "continued"}
  <2>1. CASE exit[g] # 0 \/ job[g].art.decision.allowed = NaN
    BY <1>2, <2>1 DEF RunOK
  <2>2. CASE ~(exit[g] # 0 \/ job[g].art.decision.allowed = NaN)
             /\ job[g].art.decision.class \in Stops
    BY <1>2, <2>2 DEF RunOK
  <2>3. CASE ~(exit[g] # 0 \/ job[g].art.decision.allowed = NaN)
             /\ job[g].art.decision.class \notin Stops
    <3>1. run'[g] = [state |-> "continued", size |-> job[g].art.decision.allowed]
      BY <1>2, <2>3
    <3> QED BY <1>1, <2>3, <3>1 DEF RunOK
  <2> QED BY <2>1, <2>2, <2>3
<1>4. GateOK(g)'
  BY <1>1 DEF IInv, GateOK, HasArtifact
<1>5. \A h \in Gates \ {g} : GateOK(h)' /\ RunOK(h)'
  BY <1>1, Frame
<1>6. TypeOK' /\ Domains'
  BY <1>1, <1>3 DEF Caller, IInv, TypeOK, Domains
<1> QED BY <1>3, <1>4, <1>5, <1>6 DEF IInv

LEMMA DepositInv ==
  ASSUME IInv, NEW p \in Paths, NEW a \in Fixtures, Deposit(p, a)
  PROVE  IInv'
<1>1. /\ disk[p].kind = "absent" /\ disk' = [disk EXCEPT ![p] = Whole("hand", a)]
      /\ pc' = pc /\ job' = job /\ exit' = exit /\ run' = run
  BY DEF Deposit
<1>2. disk'[p] = Whole("hand", a) /\ \A q \in Paths \ {p} : disk'[q] = disk[q]
  BY <1>1 DEF IInv, Domains
<1>3. ASSUME NEW h \in Gates PROVE GateOK(h)' /\ RunOK(h)'
  <2>1. Owning(h) => disk'[job[h].out] = disk[job[h].out]
    BY <1>1, <1>2, OwnsFile
  <2> QED BY <1>1, <2>1, Frame
<1>4. Domains'
  BY <1>1 DEF IInv, Domains
<1>5. TypeOK'
  <2>1. \A q \in Paths : disk'[q].kind \in {"absent", "torn", "whole"}
    BY <1>2 DEF IInv, TypeOK, Whole
  <2> QED BY <1>1, <2>1 DEF IInv, TypeOK
<1> QED BY <1>3, <1>4, <1>5 DEF IInv

LEMMA StepInv == IInv /\ [Next]_vars => IInv'
<1> SUFFICES ASSUME IInv, [Next]_vars PROVE IInv'
  OBVIOUS
<1>1. CASE UNCHANGED vars
  BY <1>1 DEF IInv, TypeOK, Domains, GateOK, RunOK, HasArtifact, vars
<1>2. ASSUME NEW g \in Gates, NEW b \in Bundles[g], NEW p \in Paths, Evaluate(g, b, p)
      PROVE  IInv'
  BY <1>2, EvaluateInv
<1>3. ASSUME NEW g \in Gates, Step(g) \/ Kill(g) PROVE IInv'
  BY <1>3, OpenInv, FillInv, ValidateInv, KillInv, CallerInv DEF Step
<1>4. ASSUME NEW p \in Paths, NEW a \in Fixtures, Deposit(p, a) PROVE IInv'
  BY <1>4, DepositInv
<1> QED BY <1>1, <1>2, <1>3, <1>4 DEF Next

LEMMA Inductive == Spec => []IInv
BY InitInv, StepInv, PTL DEF Spec

(***************************************************************************)
(* The theorems.                                                           *)
(***************************************************************************)
\* Type correctness of the gates, their files and the runs they decide.
THEOREM TypeCorrect == Spec => []TypeOK
BY Inductive, PTL DEF IInv

LEMMA ArtifactDecision ==
  ASSUME NEW b
  PROVE  /\ Artifact(b).decision.class = Decision(b).class
         /\ Artifact(b).decision.allowed = Decision(b).allowed
         /\ Artifact(b).traced = Decision(b).class /\ Artifact(b).of = b
         /\ b.version = "v2" => Artifact(b).app = Application(b, Decision(b))
<1>1. \A r : Block(r) = [class |-> "block", allowed |-> 0, reason |-> r]
  BY DEF Block
<1>2. \A rule, q : FromRule(rule, q) =
        [class |-> rule.class, allowed |-> Allowed(rule, q),
         reason |-> IF rule.reason \in V1Reasons THEN rule.reason
                    ELSE "insufficient_validation_power"]
  BY DEF FromRule
<1>3. Decision(b) = [class |-> Decision(b).class, allowed |-> Decision(b).allowed,
                     reason |-> Decision(b).reason]
  <2> DEFINE r == b.rules[Winner(b)]
  <2>1. \/ Decision(b) = Block("candidate_validation_failure")
        \/ Decision(b) = Block("malformed_policy")
        \/ Decision(b) = FromRule(r, b.requested)
    BY DEF Decision
  <2> HIDE DEF r
  <2> QED BY <2>1, <1>1, <1>2
<1> DEFINE d == Decision(b)
<1>4. V2Decision(d).class = d.class /\ V2Decision(d).allowed = d.allowed
  <2> HIDE DEF d
  <2>1. d = [class |-> d.class, allowed |-> d.allowed, reason |-> d.reason]
    BY <1>3 DEF d
  <2> QED BY <2>1 DEF V2Decision
<1> QED BY <1>4 DEF Artifact

\* What a run that continues rests on.
LEMMA ContinuedFacts ==
  ASSUME IInv, NEW g \in Gates, run[g].state = "continued"
  PROVE  LET b == job[g].of IN
         /\ b \in Bundles[g] /\ Decision(b).class \notin Stops
         /\ Decision(b).allowed # NaN
         /\ disk[job[g].out] = Whole(g, job[g].art) /\ job[g].art = Artifact(b)
         /\ Valid(job[g].art)
         /\ run[g].size = Decision(b).allowed
<1>1. /\ pc[g] = "exited" /\ exit[g] = 0 /\ job[g].of \in Bundles[g]
      /\ disk[job[g].out] = Whole(g, job[g].art) /\ job[g].art = Artifact(job[g].of)
      /\ Valid(job[g].art) /\ job[g].art.decision.class \notin Stops
      /\ job[g].art.decision.allowed # NaN
      /\ run[g].size = job[g].art.decision.allowed
  BY DEF IInv, RunOK, GateOK, HasArtifact
<1>2. Decision(job[g].of).class \notin Stops /\ Decision(job[g].of).allowed # NaN
  BY <1>1, ArtifactDecision, ZenonT(30)
<1>3. run[g].size = Decision(job[g].of).allowed
  BY <1>1, ArtifactDecision, ZenonT(30)
<1> QED BY <1>1, <1>2, <1>3

\* Fail closed, whatever policy, order of rules and evidence: a run that continues has
\* a well-formed policy none of whose matching rules stops.
THEOREM Warranted == Spec => []RunIsWarranted
<1>1. IInv => RunIsWarranted
  <2> SUFFICES ASSUME IInv, NEW g \in Gates, run[g].state = "continued"
               PROVE  LET b == job[g].of IN
                      /\ Positive(b.requested) /\ PolicyWellFormed(b)
                      /\ Matching(b) # {}
                      /\ \A i \in Matching(b) : b.rules[i].class \notin Stops
    BY DEF RunIsWarranted
  <2> QED BY ContinuedFacts, DecisionFailsClosed
<1> QED BY <1>1, Inductive, PTL

\* The size of a run is bound by the request and by a cap that matches.
THEOREM Bound == Spec => []SizeIsBound
<1>1. IInv => SizeIsBound
  <2> SUFFICES ASSUME IInv, NEW g \in Gates, run[g].state = "continued"
               PROVE  LET b == job[g].of
                          caps == {i \in Matching(b) : b.rules[i].class = "cap"} IN
                      /\ run[g].size # NaN /\ ~Less(b.requested, run[g].size)
                      /\ caps # {} => \E i \in caps : ~Less(b.rules[i].limit, run[g].size)
    BY DEF SizeIsBound
  <2> QED BY ContinuedFacts, DecisionIsBound
<1> QED BY <1>1, Inductive, PTL

\* A run that continues has its own, whole and valid artifact on the disk.
THEOREM ArtifactOnDisk == Spec => []RunHasItsArtifact
<1>1. IInv => RunHasItsArtifact
  <2> SUFFICES ASSUME IInv, NEW g \in Gates, run[g].state = "continued"
               PROVE  LET file == disk[job[g].out] IN
                      /\ file.kind = "whole" /\ file.by = g /\ ValidatorExit(file) = 0
                      /\ file.art.traced = Decision(job[g].of).class
                      /\ file.art.of = job[g].of
    BY DEF RunHasItsArtifact
  <2> DEFINE file == disk[job[g].out]
  <2>1. /\ disk[job[g].out] = Whole(g, job[g].art)
        /\ job[g].art = Artifact(job[g].of) /\ Valid(job[g].art)
    BY ContinuedFacts
  <2>2. file.kind = "whole" /\ file.by = g /\ file.art = job[g].art
    <3>1. \A a : Whole(g, a).kind = "whole" /\ Whole(g, a).by = g /\ Whole(g, a).art = a
      BY DEF Whole
    <3> QED BY <2>1, <3>1
  <2>3. ValidatorExit(file) = 0
    BY <2>1, <2>2 DEF ValidatorExit
  <2>4. Artifact(job[g].of).traced = Decision(job[g].of).class
        /\ Artifact(job[g].of).of = job[g].of
    BY ArtifactDecision
  <2> QED BY <2>1, <2>2, <2>3, <2>4
<1> QED BY <1>1, Inductive, PTL

\* No interleaving, kill or retry rewrites an artifact.
THEOREM ArtifactsWriteOnce == Spec => WriteOnce
<1> DEFINE Once == \A p \in Paths :
       /\ disk[p].kind = "whole" => disk'[p] = disk[p]
       /\ disk[p].kind = "torn" => disk'[p].by = disk[p].by /\ disk'[p].kind # "absent"
<1>1. IInv /\ [Next]_vars => [Once]_vars
  <2> SUFFICES ASSUME IInv, Next PROVE Once
    OBVIOUS
  <2>1. ASSUME disk' = disk PROVE Once
    BY <2>1
  <2>2. ASSUME NEW q \in Paths, NEW f, disk[q].kind = "absent", disk' = [disk EXCEPT ![q] = f]
        PROVE  Once
    BY <2>2 DEF IInv, Domains
  <2>3. ASSUME NEW g \in Gates, Fill(g) PROVE Once
    <3>1. disk[job[g].out] = Torn(g) /\ disk' = [disk EXCEPT ![job[g].out] = Whole(g, job[g].art)]
      BY <2>3 DEF Fill, IInv, GateOK
    <3>2. Torn(g).kind = "torn" /\ Torn(g).by = g
          /\ Whole(g, job[g].art).by = g /\ Whole(g, job[g].art).kind = "whole"
      BY DEF Torn, Whole
    <3> QED BY <3>1, <3>2 DEF IInv, Domains
  <2>4. ASSUME NEW g \in Gates, Open(g) PROVE Once
    <3>1. job[g].out \in Paths
      BY <2>4 DEF Open, IInv, GateOK
    <3> QED BY <2>4, <3>1, <2>1, <2>2 DEF Open
  <2>5. ASSUME NEW p \in Paths, NEW a \in Fixtures, Deposit(p, a) PROVE Once
    BY <2>5, <2>2 DEF Deposit
  <2>6. ASSUME NEW g \in Gates, Validate(g) \/ Caller(g) \/ Kill(g) PROVE Once
    BY <2>6, <2>1 DEF Validate, Caller, Kill
  <2>7. ASSUME NEW g \in Gates, NEW b \in Bundles[g], NEW p \in Paths, Evaluate(g, b, p)
        PROVE  Once
    BY <2>7, <2>1 DEF Evaluate
  <2> HIDE DEF Once
  <2> QED BY <2>3, <2>4, <2>5, <2>6, <2>7 DEF Next, Step
<1>2. []IInv /\ [][Next]_vars => [][Once]_vars
  BY <1>1, PTL
<1> QED BY <1>2, Inductive, PTL DEF Spec, WriteOnce

=============================================================================
