------------------------------ MODULE SourceRows ------------------------------
(***************************************************************************)
(* The rows v5.2 looks at: what a scan of a downloaded gzip CSV says of    *)
(* it, how fixture rows of trades and of book updates pass or fail their   *)
(* contract, and the warnings counted over the rows that pass.  A time of  *)
(* 0 stands for one that is missing or does not parse, a price of 0 and an *)
(* amount of -1 likewise, "" for a blank side.                             *)
(***************************************************************************)
EXTENDS Integers, Sequences, FiniteSets, SequencesExt

\* The members of S, the k-th with k - 1 of them before it.
InOrder(S, before) ==
  [k \in 1 .. Cardinality(S) |-> CHOOSE i \in S : Cardinality(before[i] \cap S) = k - 1]

(***************************************************************************)
(* A scan reads at most maxRows rows of a payload, the times of its rows.  *)
(***************************************************************************)
Scan(times, maxRows) ==
  LET read == SubSeq(times, 1, IF Len(times) > maxRows THEN maxRows ELSE Len(times))
      stamped == SelectSeq(read, LAMBDA t : t # 0)
  IN [rows |-> Len(read),
      lo |-> IF stamped = <<>> THEN 0 ELSE Head(stamped),
      hi |-> IF stamped = <<>> THEN 0 ELSE Last(stamped)]

ClassifyRequestStatus(scan) == IF scan.rows = 0 THEN "empty" ELSE "ok"

(***************************************************************************)
(* The contracts: the first field at fault refuses a row.                  *)
(***************************************************************************)
TradeSides == {"buy", "sell", "unknown", "ambiguous"}
L2SideMap == [side \in {"bid", "ask", "buy", "sell"} |->
                IF side \in {"bid", "buy"} THEN "bid" ELSE "ask"]

TradeSide(row) == IF row.side = "" THEN "unknown" ELSE row.side

TradeFaults(row) ==
  (IF row.at = 0 THEN <<"timestamp">> ELSE <<>>)
    \o (IF row.price <= 0 THEN <<"price">> ELSE <<>>)
    \o (IF row.amount < 0 THEN <<"amount">> ELSE <<>>)
    \o (IF TradeSide(row) \notin TradeSides THEN <<"side">> ELSE <<>>)

L2Faults(row) ==
  (IF row.at = 0 THEN <<"timestamp">> ELSE <<>>)
    \o (IF row.side \notin DOMAIN L2SideMap THEN <<"side">> ELSE <<>>)
    \o (IF row.price <= 0 THEN <<"price">> ELSE <<>>)
    \o (IF row.amount < 0 THEN <<"amount">> ELSE <<>>)

\* faults and sides give these of each row.
Result(rows, faults, sides) ==
  LET failed == {i \in DOMAIN rows : faults[i] # <<>>}
      passed == InOrder(DOMAIN rows \ failed, [i \in DOMAIN rows |-> 1 .. i - 1])
  IN [status |-> IF failed = {} THEN "ok" ELSE "failed",
      rows |-> [k \in DOMAIN passed |-> [rows[passed[k]] EXCEPT !.side = sides[passed[k]]]],
      failures |-> {<<i, Head(faults[i])>> : i \in failed}]

NormalizeTrades(rows) ==
  Result(rows, [i \in DOMAIN rows |-> TradeFaults(rows[i])],
         [i \in DOMAIN rows |-> TradeSide(rows[i])])
NormalizeL2(rows) ==
  Result(rows, [i \in DOMAIN rows |-> L2Faults(rows[i])],
         [i \in DOMAIN rows |-> L2SideMap[rows[i].side]])

(***************************************************************************)
(* Warnings: out of order and repeated rows over trades and then book      *)
(* updates, crossed and locked books over the updates in order of time.    *)
(***************************************************************************)
Earlier(rows) ==
  [i \in DOMAIN rows |-> {j \in DOMAIN rows :
     rows[j].at < rows[i].at \/ (rows[j].at = rows[i].at /\ j < i)}]
InTime(rows) ==
  LET order == InOrder(DOMAIN rows, Earlier(rows)) IN [k \in DOMAIN order |-> rows[order[k]]]

Book == [bid |-> 0, crossed |-> 0, locked |-> 0]
Count(b) == IF b THEN 1 ELSE 0

BookStep(book, row) ==
  IF row.side = "bid"
  THEN [book EXCEPT !.bid = IF row.price > @ THEN row.price ELSE @]
  ELSE [book EXCEPT !.crossed = @ + Count(row.price < book.bid),
                    !.locked = @ + Count(row.price = book.bid)]

BookAfter(rows) ==
  LET book[k \in 0 .. Len(rows)] == IF k = 0 THEN Book ELSE BookStep(book[k - 1], rows[k])
  IN book[Len(rows)]

AuditNormalizedRows(trades, l2) ==
  LET all == trades.rows \o l2.rows
      book == BookAfter(InTime(l2.rows))
  IN [disorder |-> Cardinality({i \in 2 .. Len(all) : all[i].at < all[i - 1].at}),
      duplicates |-> Len(all) - Cardinality(ToSet(all)),
      crossed |-> book.crossed, locked |-> book.locked,
      spread |-> book.crossed + book.locked,
      tradeFailures |-> Cardinality(trades.failures), l2Failures |-> Cardinality(l2.failures)]

(***************************************************************************)
(* Reference: what a warning means of a row, whatever was kept on the way. *)
(***************************************************************************)
BidsBefore(rows, i) ==
  {rows[j].price : j \in {k \in DOMAIN rows : /\ rows[k].side = "bid"
                                              /\ \/ rows[k].at < rows[i].at
                                                 \/ rows[k].at = rows[i].at /\ k < i}}
Asks(rows) == {i \in DOMAIN rows : rows[i].side = "ask"}
CrossedAsks(rows) == {i \in Asks(rows) : \E b \in BidsBefore(rows, i) : b > rows[i].price}
LockedAsks(rows) == {i \in Asks(rows) \ CrossedAsks(rows) : rows[i].price \in BidsBefore(rows, i)}
===============================================================================
