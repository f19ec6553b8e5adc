-------------------------- MODULE MCImbalancePipeline --------------------------
EXTENDS ImbalancePipeline

Tick(at, bid, spread, bv, av) ==
  [at |-> at, bid |-> bid, ask |-> bid + spread, bidVolume |-> bv, askVolume |-> av]

\* Buyers show up in the half minute before e; a minute later the price has risen.
Burst(e) == {Tick(e - 2, 998, 1, 1, 1), Tick(e - 1, 999, 1, 8, 1), Tick(e + 1, 999, 1, 5, 5)}
Rise(e) == Tick(e + 5, 1010 + (e % 4), 1, 1, 1)

\* Bursts within a month, at its end, and at the end of the window; a tie; ticks just
\* inside and just outside the six minutes of slack.  Of the full rises a candidate comes,
\* of the faint ones a cell that would be one in a family of half the size.
Bursts == {6, 14, 30, 40, 52, 62}
Quiet == UNION {Burst(e) : e \in Bursts} \cup {Rise(30), Rise(62), Tick(15, 998, 3, 1, 1),
                                               Tick(75, 1000, 1, 1, 1), Tick(85, 1002, 1, 1, 1)}
Full == Quiet \cup {Rise(e) : e \in Bursts}
Faint == Quiet \cup {Tick(e + 5, IF e < 30 THEN 1008 ELSE 1014, 1, 1, 1) : e \in Bursts \ {30, 62}}
Other == {Tick(5, 500, 1, 3, 1), Tick(7, 501, 1, 1, 2), Tick(11, 506, 1, 1, 1), Tick(63, 500, 1, 1, 4)}
Sealed == {Tick(at, 1002, 1, 9, 0) : at \in {88, 89, 90, 92, 94}}

MCTicks == [gap |-> <<[btc |-> Quiet, eth |-> Other], [btc |-> Full, eth |-> Other]>>,
            faint |-> <<[btc |-> Faint, eth |-> Other], [btc |-> Faint, eth |-> Other]>>,
            ripe |-> <<[btc |-> Full, eth |-> Other], [btc |-> Full \cup Sealed, eth |-> Other]>>]
MCPairs == {"btc", "eth"}
MCOrder == <<"btc", "eth">>
MCPairLists == {MCOrder, <<"btc">>}

MCRequirements == [data |-> "Phase 113", audit |-> "Phase 117"]
Row(r) == <<MCRequirements[r]>>
Whole == [data |-> Row("data"), audit |-> Row("audit")]
MCPlannings == {[requirements |-> Whole, roadmap |-> Whole],
                [requirements |-> Whole, roadmap |-> [data |-> Row("data")]],
                [requirements |-> Whole, roadmap |-> [Whole EXCEPT !.data = Row("audit")]]}
=============================================================================
