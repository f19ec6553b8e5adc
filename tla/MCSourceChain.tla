---- MODULE MCSourceChain ----
EXTENDS SourceChain

Trades == <<"trades", "btcusdt">>
L2 == <<"incremental_book_L2", "btcusdt">>
MCRequestLists == {<<Trades, L2>>}
MCPayloads == {<<>>, <<2, 0, 1>>}

Row(at, side, price, amount) == [at |-> at, side |-> side, price |-> price, amount |-> amount]
MCFixtures == {
  \* as in the repository's fixture: out of order, repeated, crossed, then locked
  [trades |-> <<Row(2, "buy", 6, 1), Row(1, "buy", 6, 1), Row(1, "buy", 6, 1)>>,
   l2 |-> <<Row(1, "bid", 6, 1), Row(2, "ask", 5, 1), Row(3, "ask", 6, 1)>>],
  \* late bids, equal times, and rows that break the contract in each field
  [trades |-> <<Row(0, "buy", 6, 1), Row(1, "", 6, 1), Row(1, "bid", 6, 1), Row(1, "buy", 0, 1)>>,
   l2 |-> <<Row(2, "sell", 5, 1), Row(1, "buy", 5, 0), Row(1, "ask", 4, 1), Row(1, "buy", 6, 1),
            Row(2, "", 6, 1), Row(2, "ask", 6, -1)>>]}

Families == <<"SOURCE", "INGEST", "MICRO", "CLAIM52", "AUDIT52">>
AllOnce == [i \in 1 .. 15 |->
  LET family == Families[((i - 1) \div 3) + 1]
  IN [requirement |-> <<family, ((i - 1) % 3) + 1>>, phase |-> Phase[family], status |-> "Complete"]]
Contract(l2) == [c \in {"aggressor_flow", "l2_depth", "market_depth"} |-> l2 /\ c = "l2_depth"]
NullShip == [verdict |-> "null_ship", ship |-> FALSE, candidates |-> 0,
             reasons |-> {"empty_phase116_candidate_set"}]
Ready == [planning |-> AllOnce, v51 |-> NullShip, contract |-> Contract(FALSE), changed |-> {"other"}]
MCClosureInputs == {
  Ready,
  [Ready EXCEPT !.planning = Append(@, Head(@)), !.contract = Contract(TRUE)],
  [Ready EXCEPT !.changed = {"v4 archive", "other"}]}
==============================
