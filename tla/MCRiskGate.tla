----------------------------- MODULE MCRiskGate -----------------------------
(***************************************************************************)
(* RiskGate on two gates and one path: every policy of at most two of     *)
(* twelve rules, v1 and the three surfaces of v2, and the flaws of an      *)
(* input one at a time.                                                    *)
(***************************************************************************)
EXTENDS RiskGate, TLC

Rule(class, op, value, limit, reason) ==
  [class |-> class, path |-> "evidence.loss", op |-> op, value |-> value,
   limit |-> limit, reason |-> reason]

\* What a rule may look like: those that hold of a loss of 2, those that do not, the
\* malformed ones.
Rules ==
  {Rule("size", "exists", 0, 0, "none"), Rule("size", "gte", 3, 0, "none"),
   Rule("cap", "gte", 2, 1, "none"), Rule("cap", "lte", 2, 3, "stale_evidence"),
   Rule("cap", "exists", 0, NaN, "none"), Rule("cap", "eq", 2, 0, "none"),
   Rule("reject", "eq", 2, 0, "none"), Rule("kill", "lte", 2, 0, "stale_evidence"),
   Rule("block", "gte", 2, 0, "malformed_policy"),
   Rule("block", "gte", 2, 0, "insufficient_validation_power"),
   Rule("kill", "exists", 0, 0, "none"), Rule("other", "exists", 0, 0, "none")}

NoPayload == [secretKey |-> FALSE, secretValue |-> FALSE, claim |-> FALSE,
              fields |-> {}, blocks |-> <<>>]

Good ==
  [version |-> "v2", requested |-> 2, surface |-> "paper",
   basis |-> "unit_paper_slot_allocation", status |-> "implemented",
   scope |-> "none", scopeStatus |-> "not_applicable", lacks |-> {},
   closers |-> {[class |-> "block", reason |-> "stale_evidence"]},
   rules |-> <<Rule("size", "exists", 0, 0, "none")>>,
   facts |-> [evidence |-> 0] @@ ("evidence.loss" :> 2), payload |-> NoPayload]

OfVersion ==
  {[Good EXCEPT !.version = "v1"], Good,
   [Good EXCEPT !.surface = "backtest", !.basis = "unit_backtest_run"],
   [Good EXCEPT !.surface = "scan", !.basis = "unit_scan_slot"]}

Flawed ==
  UNION {{[b EXCEPT !.lacks = {"input"}], [b EXCEPT !.lacks = {"contract"}],
          [b EXCEPT !.closers = {}],
          [b EXCEPT !.closers = {[class |-> "size", reason |-> "stale_evidence"]}],
          [b EXCEPT !.closers =
             {[class |-> "kill", reason |-> "insufficient_validation_power"]}],
          [b EXCEPT !.requested = 0], [b EXCEPT !.requested = NaN],
          [b EXCEPT !.rules = <<Rule("cap", "exists", 0, 1, "none")>>, !.requested = NaN],
          [b EXCEPT !.rules = <<>>], [b EXCEPT !.facts = [evidence |-> 0]],
          [b EXCEPT !.basis = "unit_live_order_notional"],
          [b EXCEPT !.status = "guarded"], [b EXCEPT !.surface = "live"],
          [b EXCEPT !.scope = "wfd_statistical_output"]} : b \in OfVersion}

\* Policies of one rule for every version, of two for v1 and for paper.
Policed ==
  {[b EXCEPT !.rules = <<r>>] : b \in OfVersion, r \in Rules}
  \cup {[b EXCEPT !.rules = <<r, s>>] :
          b \in {Good, [Good EXCEPT !.version = "v1"]}, r \in Rules, s \in Rules}

CONSTANTS g1, g2

\* One gate brings every input, the other one of either version to race it with.
MCBundles ==
  [g \in Gates |-> IF g = g1 THEN Policed \cup Flawed
                   ELSE {Good, [Good EXCEPT !.version = "v1"]}]

LiveGood ==
  [Good EXCEPT !.surface = "live", !.status = "guarded",
     !.basis = "unit_live_order_notional",
     !.payload.fields = {"runtime_adoption"} \cup LiveBlocks,
     !.payload.blocks = [name \in LiveBlocks |-> "sound"]]

Inert == [state |-> "stopped", status |-> "not_applicable", applied |-> FALSE,
          effect |-> "not_applicable", effective |-> 0, rescaled |-> FALSE]

Contract(b, app) ==
  [version |-> "v2", of |-> b, traced |-> "block", app |-> app,
   decision |-> [class |-> "block", allowed |-> 0, reason |-> "stale_evidence"]]

LiveBundles ==
  {LiveGood, [LiveGood EXCEPT !.payload.secretKey = TRUE],
   [LiveGood EXCEPT !.payload.secretValue = TRUE],
   [LiveGood EXCEPT !.payload.claim = TRUE], [LiveGood EXCEPT !.status = "implemented"],
   [LiveGood EXCEPT !.status = "not_wired"],
   [LiveGood EXCEPT !.status = "not_wired", !.payload = NoPayload],
   [LiveGood EXCEPT !.payload.blocks["order_intent"] = "mutation"],
   [LiveGood EXCEPT !.payload.fields = @ \ {"market_proof"}]}

\* The hand-written contracts: live and wfd ones, each as it should be and with a flaw.
MCFixtures ==
  {Contract(b, Inert) : b \in LiveBundles}
  \cup {Contract(b, app) :
          b \in {LiveGood, [LiveGood EXCEPT !.status = "not_wired", !.payload = NoPayload]},
          app \in {[Inert EXCEPT !.status = "not_claimable"],
                   [Inert EXCEPT !.state = "continued"], [Inert EXCEPT !.applied = TRUE]}}
  \cup {Contract([Good EXCEPT !.surface = "scan", !.basis = "unit_scan_slot",
                    !.scope = "wfd_statistical_output", !.scopeStatus = "metadata_only"],
                 [Inert EXCEPT !.status = s, !.effect = "none"]) :
          s \in {"metadata_only", "applied"}}
=============================================================================
