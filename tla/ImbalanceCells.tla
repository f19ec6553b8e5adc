---------------------------- MODULE ImbalanceCells ----------------------------
(***************************************************************************)
(* The numbers of the v5.1 tick imbalance study: which quotes of a pair    *)
(* become events, at which quotes an event enters and leaves, what the     *)
(* cells of the sealed family earn, and which of them are significant.     *)
(* Time is in units of 15 seconds from the start of the in-sample window,  *)
(* prices are integers, profits basis points and probabilities per mille.  *)
(* A tick is a quote [at, bid, ask, bidVolume, askVolume]; what one        *)
(* BigQuery statement computes from its tables is an operator.             *)
(***************************************************************************)
EXTENDS Integers, Sequences, FiniteSets, FiniteSetsExt, Functions

CONSTANTS
  Pairs,        \* BTCUSD, ETHUSD
  Lookbacks,    \* of {2, 4, 20}: 30, 60 and 300 seconds
  Percentiles,  \* of the scores' sizes: 80, 90, 95
  Horizons,     \* of {4, 12, 20}: 60, 180 and 300 seconds
  Month,        \* the length of a month, here the same for all
  IsMonths, FullMonths,  \* months before the sealed window, and with it
  SparseFloor, SparsePerMinute  \* 30 and 10

Grid == 2       \* ENTRY_BUCKET_SECONDS: 30 seconds
Window == 4     \* a quote counts for an anchor for a minute
Slack == 24     \* six minutes after a bound, for the exits of the last events
IsEnd == IsMonths * Month
FullEnd == FullMonths * Month
Cost == 72      \* fee and slippage of a round trip
Alpha == 50

ASSUME CellsAssumption ==
  /\ Lookbacks \subseteq {2, 4, 20} /\ Horizons \subseteq {4, 12, 20}
  /\ Percentiles \subseteq 1 .. 99
  /\ Month \in Nat \ {0} /\ Month % Grid = 0
  /\ IsMonths \in Nat \ {0} /\ FullMonths > IsMonths
  /\ SparseFloor \in Nat /\ SparsePerMinute \in Nat

Families == {"volume_ratio_imbalance", "mid_price_tick_direction_imbalance"}
Directions == {"mean_reversion", "momentum"}
Cells == [family : Families, lookback : Lookbacks, threshold : Percentiles,
          direction : Directions, horizon : Horizons]
Family == Pairs \X Cells
FwerDenominator == Cardinality(Family)

Floor(t) == t - (t % Grid)
Least(S, Lt(_, _)) == CHOOSE x \in S : \A y \in S \ {x} : Lt(x, y)
Size(x) == IF x < 0 THEN -x ELSE x

(***************************************************************************)
(* Features and events                                                     *)
(***************************************************************************)
NoScore == 1001  \* a score is at most 1000

\* Ticks are bucketed by 30 seconds; an entry is the end of a bucket that has ticks.
Entries(ticks) == {Floor(t.at) + Grid : t \in {u \in ticks : 0 <= u.at /\ u.at < FullEnd}}
Bucket(ticks, e) == {t \in ticks : Floor(t.at) + Grid = e}

\* The mid price against the one before it in the bucket, twice the price.
Mid(t) == t.bid + t.ask
Before(b, t) == {u \in b : u.at < t.at /\ \A v \in b : v.at < t.at => v.at <= u.at}
Moves(b, sign) == Cardinality({t.at : t \in {u \in b : \E v \in Before(b, u) :
                                                          sign * (Mid(u) - Mid(v)) > 0}})

\* A lookback of so many seconds is so many buckets: those without a tick do not count.
LookbackWindow(ticks, e, l) ==
  {x \in Entries(ticks) : x <= e /\ Cardinality({y \in Entries(ticks) : x < y /\ y <= e}) < l \div Grid}

Ratio(plus, minus) == IF plus + minus <= 0 THEN NoScore
                      ELSE IF plus >= minus THEN (1000 * (plus - minus)) \div (plus + minus)
                      ELSE -((1000 * (minus - plus)) \div (plus + minus))
Score(ticks, f, l, e) ==
  LET of == LookbackWindow(ticks, e, l)
      Over(V(_)) == SumFunction([x \in of |-> V(Bucket(ticks, x))])
  IN IF f = "volume_ratio_imbalance"
     THEN Ratio(Over(LAMBDA b : SumFunction([t \in b |-> t.bidVolume])),
                Over(LAMBDA b : SumFunction([t \in b |-> t.askVolume])))
     ELSE Ratio(Over(LAMBDA b : Moves(b, 1)), Over(LAMBDA b : Moves(b, -1)))

Scored(ticks, f, l) ==
  {x \in {[entry |-> e, score |-> Score(ticks, f, l, e)] : e \in Entries(ticks)} : x.score # NoScore}

\* Mutant: the percentile of all scores, the sealed window's with them.
ThresholdOfAll(scored, q) ==
  LET Reached(size) == 100 * Cardinality({x \in scored : Size(x.score) <= size}) >= q * Cardinality(scored)
  IN IF scored = {} THEN {} ELSE {Min({size \in {Size(x.score) : x \in scored} : Reached(size)})}

\* The percentile of the sizes of the in-sample scores, and of no others.
Threshold(scored, q) ==
  LET is == {x \in scored : x.entry < IsEnd}
      Reached(size) == 100 * Cardinality({x \in is : Size(x.score) <= size}) >= q * Cardinality(is)
  IN IF is = {} THEN {} ELSE {Min({size \in {Size(x.score) : x \in is} : Reached(size)})}

Side(score, level) == IF score >= level THEN "positive_extreme" ELSE "negative_extreme"
Stance(d, side) == IF (d = "momentum") = (side = "positive_extreme") THEN 1 ELSE -1

\* Every extreme entry is an event of each direction and each horizon, over both windows.
CellEvents(c, scored) ==
  UNION {{[cell |-> c, entry |-> x.entry, exit |-> x.entry + c.horizon,
           stance |-> Stance(c.direction, Side(x.score, level))] :
          x \in {y \in scored : Size(y.score) >= level}} : level \in Threshold(scored, c.threshold)}
Events(ticks) ==
  LET Of(f, l) == {CellEvents(c, scored) : c \in {d \in Cells : d.family = f /\ d.lookback = l},
                                           scored \in {Scored(ticks, f, l)}}
  IN UNION (UNION {Of(x[1], x[2]) : x \in Families \X Lookbacks})

IsEvents(events) == {e \in events : 0 <= e.entry /\ e.entry < IsEnd}
Anchors(events) == {e.entry : e \in events} \cup {e.exit : e \in events}

(***************************************************************************)
(* The quote of an anchor, four ways                                       *)
(***************************************************************************)
NoQuote == [at |-> -1, bid |-> 0, ask |-> 0]
Quote(t) == [at |-> t.at, bid |-> t.bid, ask |-> t.ask]
InWindow(quotes, a) == {q \in quotes : a <= q.at /\ q.at < a + Window}
Quotes(ticks) == {Quote(t) : t \in ticks}
From(ticks, from, to) == {q \in Quotes(ticks) : from <= q.at /\ q.at < to}

\* ORDER BY timestamp, bid, ask; where the order is the timestamp's alone, which of two
\* quotes of one timestamp comes first is up to the engine: the least or the greatest.
Ordered(q, r) == \/ q.at < r.at
                 \/ q.at = r.at /\ (q.bid < r.bid \/ (q.bid = r.bid /\ q.ask < r.ask))
First(S) == IF S = {} THEN NoQuote ELSE Least(S, Ordered)
FirstBy(S, flipped) ==
  IF ~flipped THEN First(S)
  ELSE IF S = {} THEN NoQuote
  ELSE Least({q \in S : \A r \in S : q.at <= r.at}, LAMBDA q, r : Ordered(r, q))

\* The range join of the live query and of the quote-anchor table.
RangeRows(events, ticks, flipped) ==
  LET raw == Quotes(ticks)
  IN {[anchor |-> a, quote |-> FirstBy(InWindow(raw, a), flipped)] : a \in Anchors(IsEvents(events))}

\* The shard of a month: the events that enter in it, and quotes to six minutes past it.
ShardStart(m) == (m - 1) * Month
ShardRows(events, ticks, m) ==
  LET of == {e \in events : ShardStart(m) <= e.entry /\ e.entry < ShardStart(m + 1)}
      raw == From(ticks, ShardStart(m), ShardStart(m + 1) + Slack)
  IN {[anchor |-> a, quote |-> First(InWindow(raw, a))] : a \in Anchors(of)}

\* The union of the shards, one row for each anchor, a quote before no quote.
UnionRows(shards) ==
  LET rows == UNION {shards[m] : m \in DOMAIN shards}
      Of(a) == {r.quote : r \in {x \in rows : x.anchor = a}}
  IN {[anchor |-> a, quote |-> First(Of(a) \ {NoQuote})] : a \in {r.anchor : r \in rows}}

\* The grid: the anchor table, the stage of raw quotes, and the equality join of each
\* quote with the grid point it falls on and the one before.
AnchorTable(events) == {a \in Anchors(IsEvents(events)) : a < IsEnd + Slack}
RawStage(ticks) == From(ticks, 0, IsEnd + Slack)
OffGrid(anchors) == {a \in anchors : a % Grid # 0}
\* Mutant: the grid point the quote falls on, and not the one before it.
FloorAlone(q) == {Floor(q.at)}

Candidates(q) == {Floor(q.at), Floor(q.at) - Grid}

GridRows(anchors, stage) ==
  {[anchor |-> a, quote |-> First({q \in InWindow(stage, a) : a \in Candidates(q)})] : a \in anchors}

DuplicateAnchors(rows) == {r.anchor : r \in {x \in rows : \E y \in rows \ {x} : x.anchor = y.anchor}}
FalseNulls(rows, stage) ==
  {r.anchor : r \in {x \in rows : x.quote = NoQuote /\ InWindow(stage, x.anchor) # {}}}

(***************************************************************************)
(* The cells                                                               *)
(***************************************************************************)
\* What one event earns, if it has both quotes: bought at the ask and sold at the bid,
\* or the other way round.
Pnl(stance, entry, exit) ==
  LET in == IF stance = 1 THEN entry.ask ELSE entry.bid
      out == IF stance = 1 THEN exit.bid ELSE exit.ask
  IN IF NoQuote \in {entry, exit} \/ in = 0 THEN {}
     ELSE {(10000 * stance * (out - in)) \div in - Cost}

QuoteAt(rows, a) == LET r == {x \in rows : x.anchor = a}
                    IN IF r = {} THEN NoQuote ELSE (CHOOSE x \in r : TRUE).quote

\* exp(-z^2/2) in per mille, by the integer part of z^2.
NormalTail == <<1000, 607, 368, 223, 135, 82, 50, 30, 18, 11, 7, 4, 2, 2, 1, 1>>
PValue(n, sum, squares) ==
  LET spread == n * squares - sum * sum
      z2 == (sum * sum * (n - 1)) \div spread
  IN IF n < 4 \/ spread <= 0 THEN 1000 ELSE IF z2 > 15 THEN 0 ELSE NormalTail[z2 + 1]

\* The row of a cell, of what its events earned; a cell without events has no row.
CellRow(c, results) ==
  LET traded == {r \in results : r.earned # {}}
      Total(V(_)) == SumFunction([r \in traded |-> V(CHOOSE x \in r.earned : TRUE)])
      sum == Total(LAMBDA x : x)
      squares == Total(LAMBDA x : x * x)
  IN [cell |-> c, trades |-> Cardinality(traded), missing |-> Cardinality(results \ traded),
      profit |-> Total(LAMBDA x : IF x > 0 THEN x ELSE 0),
      loss |-> Total(LAMBDA x : IF x < 0 THEN -x ELSE 0),
      p |-> PValue(Cardinality(traded), sum, squares)]
Results(events, rows) == {[event |-> e, earned |-> Pnl(e.stance, QuoteAt(rows, e.entry), QuoteAt(rows, e.exit))] :
                          e \in IsEvents(events)}
Grouped(results) == {CellRow(c, {r \in results : r.event.cell = c}) : c \in {r.event.cell : r \in results}}

AnchoredCells(events, rows) == Grouped(Results(events, rows))

\* The live query joins instead: an event without both quotes is not there at all.
LiveCells(events, ticks, flipped) ==
  Grouped({r \in Results(events, RangeRows(events, ticks, flipped)) : r.earned # {}})

(***************************************************************************)
(* The gates and the correction for the whole family                       *)
(***************************************************************************)
EmptyRow(c) == [cell |-> c, trades |-> 0, missing |-> 0, profit |-> 0, loss |-> 0, p |-> 1000]
Sparse(r) == r.trades < Max({SparseFloor, SparsePerMinute * (r.cell.horizon \div 4)})
PassNetPf(r) == ~Sparse(r) /\ IF r.loss = 0 THEN r.profit > 0 ELSE 2 * r.profit >= 3 * r.loss

\* A row for every cell of the pair; a sparse one is not tested.
CollectPair(rows) ==
  LET all == rows \cup {EmptyRow(c) : c \in Cells \ {r.cell : r \in rows}}
  IN {[r EXCEPT !.p = IF Sparse(r) THEN 1000 ELSE @] : r \in all}

\* Mutant: a family of the rows at hand.
Unpadded(rows, r, family) ==
  LET Rank(s) == Cardinality({t \in rows : t.p < s.p})
  IN Min({1000, Max({(Cardinality(rows) - Rank(s)) * s.p : s \in {t \in rows : t.p <= r.p}})})

\* Holm over the rows at hand, padded to the whole family with ones: a row's adjusted
\* probability is the greatest of the weighted ones up to its own.
PAdjHolm(rows, r, family) ==
  LET Rank(s) == Cardinality({t \in rows : t.p < s.p})
  IN Min({1000, Max({(family - Rank(s)) * s.p : s \in {t \in rows : t.p <= r.p}})})
=============================================================================
