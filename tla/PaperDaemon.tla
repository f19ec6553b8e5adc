------------------------------ MODULE PaperDaemon ------------------------------
(***************************************************************************)
(* `side paper`: the process around the trader (side-cli/src/cmd/paper.rs).*)
(* It asks the risk gate once per slot, leaves a candidate, a decision and *)
(* an evidence file for each, runs an initial tick, then hourly ones until *)
(* SIGTERM.  The files survive; all else is lost with the process.         *)
(*                                                                         *)
(* A tick is one step here: tick_with_data holds the trader's lock and     *)
(* awaits nothing.  PaperTrader has what happens inside it.  The health    *)
(* file, which no part of the system reads, is left out.                   *)
(***************************************************************************)
EXTENDS Integers, FiniteSets

CONSTANTS
  NumSlots,
  Identities,   \* the [Slots -> candidate id] a start may come to: an id is a hash of the
                \* slot and the config, whose HashMap params order anew in every process
  RiskModes,    \* --paper-risk-mode values in use
  Requested,    \* the allocation of every slot
  Verdicts,     \* what the gate may decide: [class, allowed]
  MaxInflight   \* bound of the model: hourly ticks fetching or waiting at once

Slots == 1 .. NumSlots
RunType == [mode : RiskModes, once : BOOLEAN, id : Identities]
NoRun == CHOOSE r \in RunType : TRUE

ASSUME DaemonAssumption ==
  /\ NumSlots \in Nat \ {0}
  /\ Identities # {} /\ \A f \in Identities : DOMAIN f = Slots
  /\ Verdicts \subseteq [class : {"size", "cap", "reject", "block", "kill"}, allowed : Nat]
  /\ RiskModes # {} /\ RiskModes \subseteq {"off", "observe", "apply"}
  /\ Requested \in Nat
  /\ MaxInflight \in Nat

VARIABLES
  candidates, decisions, evidence,   \* the artifact files
  pc,
  run,        \* what this process was started with
  slot,       \* the slot whose gate is in hand
  verdict,    \* its decision
  mayTick,    \* should_run_tick
  caps,       \* the size overrides the gate has asked for
  sizes,      \* PaperTrader.allocations
  inflight,   \* hourly ticks begun and not yet through
  ticked      \* history: this process has run a tick

files == <<candidates, decisions, evidence>>
gate == <<slot, verdict, mayTick, caps>>
vars == <<files, pc, run, gate, sizes, inflight, ticked>>

Full == [s \in Slots |-> Requested]
NoVerdict == [class |-> "size", allowed |-> Requested]

Id(s) == run.id[s]

\* Mutant: files are opened with create, not create_new.
ExistsNever(dir, id) == FALSE

\* create_new, or Python's mode "x", refuses an existing file.
Exists(dir, id) == \E f \in dir : f.id = id

Put(dir, f) == {g \in dir : g.id # f.id} \cup {f}

(***************************************************************************)
(* The gate: evaluate_paper_risk_once_with_result.                         *)
(***************************************************************************)
Init ==
  /\ candidates = {} /\ decisions = {} /\ evidence = {}
  /\ pc = "down"
  /\ run = NoRun
  /\ slot = 1 /\ verdict = NoVerdict /\ mayTick = TRUE /\ caps = Full
  /\ sizes = Full /\ inflight = 0 /\ ticked = FALSE

Start ==
  /\ pc = "down"
  /\ run' \in RunType
  /\ pc' = IF run'.mode = "off" THEN "initial" ELSE "candidate"
  /\ UNCHANGED <<files, gate, sizes, inflight, ticked>>

\* The process is gone, killed, failed with an error or through, and its memory too.
Down ==
  /\ pc' = "down"
  /\ slot' = 1 /\ verdict' = NoVerdict /\ mayTick' = TRUE /\ caps' = Full
  /\ sizes' = Full /\ inflight' = 0 /\ ticked' = FALSE /\ run' = NoRun

Crash == pc # "down" /\ Down /\ UNCHANGED files

WriteCandidate ==
  /\ pc = "candidate" /\ ~Exists(candidates, Id(slot))
  /\ candidates' = Put(candidates, [id |-> Id(slot), slot |-> slot])
  /\ pc' = "decide"
  /\ UNCHANGED <<decisions, evidence, run, gate, sizes, inflight, ticked>>

\* evaluate_risk_gate.py writes the decision, then validates it and reports.
Decide ==
  /\ pc = "decide" /\ ~Exists(decisions, Id(slot))
  /\ verdict' \in Verdicts
  /\ decisions' = Put(decisions, [id |-> Id(slot), verdict |-> verdict'])
  /\ pc' = "evidence"
  /\ UNCHANGED <<candidates, evidence, run, slot, mayTick, caps, sizes, inflight, ticked>>

\* Mutant: a gate that fails lets the slot through at its requested size.
GateFailsOpen ==
  /\ pc = "decide"
  /\ verdict' = NoVerdict
  /\ pc' = "evidence"
  /\ UNCHANGED <<files, run, slot, mayTick, caps, sizes, inflight, ticked>>

\* The gate fails, before its decision is written or after: the process exits.
GateFails ==
  /\ pc = "decide"
  /\ \/ UNCHANGED decisions
     \/ /\ ~Exists(decisions, Id(slot))
        /\ \E v \in Verdicts : decisions' = Put(decisions, [id |-> Id(slot), verdict |-> v])
  /\ Down
  /\ UNCHANGED <<candidates, evidence>>

\* paper_apply_action_for_decision, heeded in apply mode only.
Stops(v) == run.mode = "apply" /\ v.class \in {"reject", "block", "kill"}
Resizes(v) == run.mode = "apply" /\ v.class = "cap"

\* Mutant: any size a cap names will do.
CapUnguarded(v) == TRUE

\* validate_paper_runtime_sizing_guard
CapGuard(v) == Resizes(v) => v.allowed <= Requested

\* Mutant: the last slot's decision wins.
MayTickLast(v) == ~Stops(v)

MayTick(v) == mayTick /\ ~Stops(v)

\* Mutant: the evidence of a cap names the size the slot asked for.
ActualSizeRequested(v) == Requested

ActualSize(v) == IF Resizes(v) THEN v.allowed ELSE Requested

WriteEvidence ==
  /\ pc = "evidence" /\ CapGuard(verdict) /\ ~Exists(evidence, Id(slot))
  /\ mayTick' = MayTick(verdict)
  /\ caps' = IF Resizes(verdict) THEN [caps EXCEPT ![slot] = verdict.allowed] ELSE caps
  /\ evidence' = Put(evidence,
       [id |-> Id(slot), slot |-> slot, class |-> verdict.class,
        size |-> ActualSize(verdict),
        state |-> IF run.mode = "observe" THEN "observed"
                  ELSE IF Stops(verdict) THEN "stopped" ELSE "continued"])
  /\ slot' = slot + 1 /\ verdict' = NoVerdict
  /\ pc' = IF slot = NumSlots THEN "resize" ELSE "candidate"
  /\ UNCHANGED <<candidates, decisions, run, sizes, inflight, ticked>>

\* A file already exists, or the cap is no cap: the process exits.
GateRefuses ==
  /\ \/ pc = "candidate" /\ Exists(candidates, Id(slot))
     \/ pc = "evidence" /\ (~CapGuard(verdict) \/ Exists(evidence, Id(slot)))
  /\ Down
  /\ UNCHANGED files

\* apply_runtime_size_override, for every override
ApplyOverrides ==
  /\ pc = "resize"
  /\ sizes' = caps
  /\ pc' = "initial"
  /\ UNCHANGED <<files, run, gate, inflight, ticked>>

(***************************************************************************)
(* Ticks.                                                                  *)
(***************************************************************************)
\* run_tick: at the weekend nothing; else, its bars fetched, it takes the trader's lock
\* and runs tick_with_data, which may give up part of the way.
Tick == \E weekend \in BOOLEAN : ticked' = (ticked \/ ~weekend)

\* With --once the process is through, else it starts the scheduler.
AfterInitial == IF run.once THEN "leaving" ELSE "serving"

InitialTick ==
  /\ pc = "initial" /\ mayTick
  /\ Tick
  /\ pc' \in {AfterInitial, "leaving"}     \* a tick that gives up ends the process
  /\ UNCHANGED <<files, run, gate, sizes, inflight>>

SkipInitialTick ==
  /\ pc = "initial" /\ ~mayTick
  /\ pc' = AfterInitial
  /\ UNCHANGED <<files, run, gate, sizes, inflight, ticked>>

\* On the hour the scheduler begins a tick, whatever became of the one before.
Fire ==
  /\ pc = "serving" /\ inflight < MaxInflight
  /\ inflight' = inflight + 1
  /\ UNCHANGED <<files, pc, run, gate, sizes, ticked>>

\* One of them is through; that it gave up is only logged.
HourlyTick ==
  /\ pc \in {"serving", "leaving"} /\ inflight > 0
  /\ Tick
  /\ inflight' = inflight - 1
  /\ UNCHANGED <<files, pc, run, gate, sizes>>

\* SIGTERM: the scheduler shuts down and the main task goes for the lock; a tick that
\* waits for it as well may get it before the process is gone.
Stop ==
  /\ pc = "serving"
  /\ pc' = "leaving"
  /\ UNCHANGED <<files, run, gate, sizes, inflight, ticked>>

Stopped ==
  /\ pc = "leaving"
  /\ Down
  /\ UNCHANGED files

Next ==
  \/ Start \/ Crash
  \/ WriteCandidate \/ Decide \/ GateFails \/ WriteEvidence \/ GateRefuses
  \/ ApplyOverrides
  \/ InitialTick \/ SkipInitialTick \/ Fire \/ HourlyTick
  \/ Stop \/ Stopped

Spec == Init /\ [][Next]_vars

(***************************************************************************)
(* Properties.                                                             *)
(***************************************************************************)
Ids == UNION {{f[s] : s \in Slots} : f \in Identities}
Classes == {v.class : v \in Verdicts}
Running == pc \in {"initial", "serving", "leaving"}

\* The shape of the state; no slot ever trades more than it asked for.
TypeOK ==
  /\ candidates \subseteq [id : Ids, slot : Slots]
  /\ decisions \subseteq [id : Ids, verdict : Verdicts]
  /\ evidence \subseteq [id : Ids, slot : Slots, class : Classes, size : 0 .. Requested,
                         state : {"observed", "continued", "stopped"}]
  /\ pc \in {"down", "candidate", "decide", "evidence", "resize", "initial", "serving",
             "leaving"}
  /\ run \in RunType
  /\ slot \in 1 .. NumSlots + 1
  /\ verdict \in Verdicts \cup {NoVerdict}
  /\ mayTick \in BOOLEAN /\ ticked \in BOOLEAN
  /\ caps \in [Slots -> 0 .. Requested] /\ sizes \in [Slots -> 0 .. Requested]
  /\ inflight \in 0 .. MaxInflight

\* A process that got past the gate has evidence on disk for each of its slots, and
\* trades that slot at exactly the size its evidence names, two slots of one
\* identity, crashes and earlier runs over the same directories included.
EvidenceOfSizes ==
  Running /\ run.mode # "off" =>
    \A s \in Slots : \E e \in evidence :
      /\ e.id = Id(s) /\ e.slot = s /\ e.size = sizes[s]
      /\ (e.state = "observed") = (run.mode = "observe")

\* No evidence without the gate's own word: it names a candidate of the same slot and
\* a decision on file, and repeats that decision's class; a size below the requested
\* one is the size that decision allowed.
EvidenceChain ==
  \A e \in evidence :
    /\ \E c \in candidates : c.id = e.id /\ c.slot = e.slot
    /\ \E d \in decisions :
         /\ d.id = e.id /\ d.verdict.class = e.class
         /\ e.size # Requested => e.class = "cap" /\ e.size = d.verdict.allowed

\* What a run has put on file no later run, retry or second slot overwrites.
WriteOnce ==
  [][candidates \subseteq candidates' /\ decisions \subseteq decisions'
     /\ evidence \subseteq evidence']_files

\* One of this process's slots was stopped by its decision.
SlotStopped ==
  run.mode = "apply" /\ \E s \in Slots : \E e \in evidence :
    e.id = Id(s) /\ e.slot = s /\ e.state = "stopped"

\* With --once, a decision that stops any slot leaves the whole run without a tick.
StopHoldsOnce == Running /\ run.once /\ SlotStopped => ~ticked

\* "risk decision stopped before paper tick execution": the daemon as well.
StopHolds == Running /\ SlotStopped => ~ticked
=============================================================================
