--------------------------- MODULE MCGatedCommands ---------------------------
EXTENDS GatedCommands, TLC

\* Two candidates with the id "a": edges files that differ in t_stat, data that moved.
MCSlot(id, body, pf, pass) == [id |-> id, body |-> body, pf |-> pf, pass |-> pass]
\* pf: the profit factor at fees 1 and 2
MCa == MCSlot("a", "a1", <<3, 1>>, TRUE)
MCb == MCSlot("b", "b1", <<2, 2>>, FALSE)
MCOther == MCSlot("a", "a2", <<1, 1>>, FALSE)

MCScan(version, slots) ==
  [kind |-> "scan", version |-> version, policy |-> TRUE, root |-> "open", slots |-> slots,
   strict |-> TRUE, fees |-> {1, 2}, file |-> "out"]
MCBacktest(version, slot) ==
  [MCScan(version, <<slot>>) EXCEPT !.kind = "backtest"]

MCReport == [MCScan("v1", <<>>) EXCEPT !.kind = "report"]

\* Not gated: no policy, no artifact root, --relaxed-pass.
MCRelaxed == [MCScan("v1", <<MCa>>) EXCEPT !.policy = FALSE, !.root = None, !.strict = FALSE]

MCBatches ==
  { { MCScan("v1", <<MCa>>), MCScan("v1", <<MCOther>>), MCRelaxed, MCReport,
      \* refused: an artifact root without a policy
      [MCScan("v1", <<MCa>>) EXCEPT !.policy = FALSE] },
    { MCScan("v2", <<MCb, MCa>>), MCScan("v2", <<MCOther>>),
      \* hold_h_candidates with one horizon twice
      MCScan("v2", <<MCa, MCa>>), MCReport },
    { MCBacktest("v1", MCa), MCBacktest("v2", MCa), MCBacktest("v2", MCOther),
      \* refused: a protected root
      [MCBacktest("v2", MCa) EXCEPT !.root = "sealed"] } }

MCProtected == [k \in Kinds |-> {"sealed"}]
MCVerdicts == {[class |-> "size", allowed |-> 2], [class |-> "cap", allowed |-> 1],
               [class |-> "kill", allowed |-> 0]}
Symmetry == Permutations(Processes)
=============================================================================
