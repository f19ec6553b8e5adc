----------------------------- MODULE PaperTrader -----------------------------
(***************************************************************************)
(* The paper trader: PaperTrader::tick_with_data, the PositionManager it   *)
(* owns and the SQLite tables both write (side-engine/src/paper/{mod,      *)
(* position,db,risk}.rs).                                                  *)
(*                                                                         *)
(* One action is one committed SQLite statement or transaction together    *)
(* with the memory updates that follow it, so a crash (docker restarts the *)
(* process) or a failing statement can fall between any two commits.  The  *)
(* tables survive a crash, the PositionManager does not: it is rebuilt     *)
(* empty by PaperTrader::new.                                              *)
(*                                                                         *)
(* Prices, sizes and profits are integers; MarginNum/MarginDen is          *)
(* maintenance_margin_pct, and CostRates are (fee_bps + spread_bps)/10000. *)
(***************************************************************************)
EXTENDS Integers, Sequences, FiniteSets

CONSTANTS
  NumSlots,        \* slots are 1..NumSlots in configuration order
  Prices,          \* latest closes a feed may carry
  Sizes,           \* allocations, after any risk size override
  Leverage,        \* [Slots -> effective_leverage]
  MarginNum, MarginDen,
  CostRates,       \* 0: the cost model is missing_or_zero
  Modes,           \* accounting modes a start may be configured with
  Feeds,           \* what the market data of one slot may be in a tick
  InitialCapital,
  NoPosition, NoEquity, NoClosing,          \* NULL row, absent key, None
  MaxTicks, MaxCrashes, MaxFaults           \* bounds of the model

Slots == 1 .. NumSlots
Liquidation == -99                          \* SIGNAL_LIQUIDATION
Positive == Nat \ {0}

\* price 0: fetch_paper_asset gave no data; ready: at least 50 bars.
FeedType == [price : Prices \cup {0}, ready : BOOLEAN, signal : {-1, 0, 1}]
PositionType == [entry : Prices, size : Sizes, leverage : Positive]
RunType == [mode : Modes, cost : CostRates, size : [Slots -> Sizes]]
ClosingType == [slot : Slots, base : Sizes, pnl : Int, breakdown : Positive]

ASSUME PaperAssumption ==
  /\ NumSlots \in Positive
  /\ Prices \subseteq Positive
  /\ Sizes \subseteq Nat
  /\ Leverage \in [Slots -> Positive]
  /\ MarginNum \in Nat /\ MarginDen \in Positive
  /\ CostRates \subseteq Nat
  /\ Modes \subseteq {"legacy_gross", "estimated_net"}
  /\ Feeds \subseteq FeedType
  /\ InitialCapital \in Positive
  /\ NoPosition \notin PositionType
  /\ NoEquity \notin Int
  /\ NoClosing \notin ClosingType
  /\ MaxTicks \in Nat /\ MaxCrashes \in Nat /\ MaxFaults \in Nat

VARIABLES
  \* SQLite.  Row ids are positions in the sequence: rows are never deleted.
  positions,   \* [Slots -> open position or NoPosition]
  trades,      \* entry and exit rows
  breakdowns,  \* trade_pnl_breakdowns
  ledger,      \* runtime_pnl_ledger
  events,      \* runtime_accounting_events
  equity,      \* equity_snapshots joined with runtime_equity_sources
  portfolio,   \* portfolio_snapshots joined with runtime_portfolio_sources
  \* memory of the process
  run,         \* what this process was started with: mode, cost rate, sizes
  slotEq,      \* PositionManager.slot_equities
  realized,    \* PositionManager.realized_pnl
  lastClose,   \* PositionManager.current_runtime_close, as an event id; 0: None
  errors,      \* slots with an error in this tick; 0 is the margin check
  \* where the tick stands
  pc, feed, slot,
  closing,     \* a committed close whose ledger row is still to be written
  thisClose,   \* runtime_close of the slot in hand, as an event id; 0: None
  \* history and bounds
  mark,        \* trades and faults when this process started
  used         \* ticks, crashes and faults so far

tables == <<positions, trades, breakdowns, ledger, events, equity, portfolio>>
memory == <<run, slotEq, realized, lastClose, errors>>
control == <<pc, feed, slot, closing, thisClose>>
vars == <<tables, memory, control, mark, used>>

NoFeed == [s \in Slots |-> [price |-> 0, ready |-> FALSE, signal |-> 0]]
NoMemory == [s \in Slots |-> NoEquity]

(***************************************************************************)
(* Arithmetic of a position.                                               *)
(***************************************************************************)
Gross(p, price) == ((price - p.entry) * p.size * p.leverage) \div p.entry

Cost(p) == p.size * p.leverage * run.cost

ClaimAllowed == run.cost > 0

\* margin_ratio <= maintenance_margin_pct; for size 0 the ratio is NaN and the
\* comparison false.
Breached(p, price) ==
  /\ p.size > 0
  /\ (p.size + Gross(p, price)) * MarginDen <= MarginNum * p.size

\* Open positions the feed f has a price for and that are below maintenance.
Due(f) == {s \in Slots : /\ positions[s] # NoPosition
                         /\ f[s].price # 0
                         /\ Breached(positions[s], f[s].price)}

\* ensure_close_allowed_for_accounting_mode fails.
CloseRefused == run.mode = "estimated_net" /\ ~ClaimAllowed

(***************************************************************************)
(* Process life.                                                           *)
(***************************************************************************)
\* Nothing in the process survives: what PaperTrader::new builds.
ForgetMemory ==
  /\ slotEq' = NoMemory
  /\ realized' = 0
  /\ lastClose' = 0
  /\ errors' = {}

LeaveTick(to) ==
  /\ pc' = to
  /\ feed' = NoFeed
  /\ slot' = 0
  /\ closing' = NoClosing
  /\ thisClose' = 0

Init ==
  /\ positions = [s \in Slots |-> NoPosition]
  /\ trades = <<>> /\ breakdowns = <<>> /\ ledger = <<>> /\ events = <<>>
  /\ equity = <<>> /\ portfolio = <<>>
  /\ run \in RunType
  /\ slotEq = NoMemory /\ realized = 0 /\ lastClose = 0 /\ errors = {}
  /\ pc = "down" /\ feed = NoFeed /\ slot = 0
  /\ closing = NoClosing /\ thisClose = 0
  /\ mark = [trades |-> 0, faults |-> 0]
  /\ used = [ticks |-> 0, crashes |-> 0, faults |-> 0]

\* The process comes up, its risk overrides applied, on whatever the tables hold.
Start ==
  /\ pc = "down"
  /\ run' \in RunType
  /\ ForgetMemory
  /\ LeaveTick("idle")
  /\ mark' = [trades |-> Len(trades), faults |-> used.faults]
  /\ UNCHANGED <<tables, used>>

\* SIGKILL, power loss or a restart of the container, anywhere.
Crash ==
  /\ pc # "down"
  /\ used.crashes < MaxCrashes
  /\ used' = [used EXCEPT !.crashes = @ + 1]
  /\ ForgetMemory
  /\ LeaveTick("down")
  /\ UNCHANGED <<tables, run, mark>>

CountTick == /\ pc = "idle"
             /\ used.ticks < MaxTicks
             /\ used' = [used EXCEPT !.ticks = @ + 1]
             /\ errors' = {}

\* clear_errors, then the preflight finds every due liquidation permitted.
BeginTick(f) ==
  /\ CountTick
  /\ CloseRefused => Due(f) = {}
  /\ pc' = "margin"
  /\ feed' = f
  /\ UNCHANGED <<tables, run, slotEq, realized, lastClose, slot, closing,
                 thisClose, mark>>

\* The preflight bails before anything is written.
RefuseTick(f) ==
  /\ CountTick
  /\ CloseRefused /\ Due(f) # {}
  /\ UNCHANGED <<tables, run, slotEq, realized, lastClose, control, mark>>

(***************************************************************************)
(* Closing a position.                                                     *)
(***************************************************************************)
\* Mutant: the exit is recorded but the position row stays open.
CloseRowsKeepingPosition(s, price, sig) ==
  LET gross == Gross(positions[s], price)
  IN /\ trades' = Append(trades, [slot |-> s, side |-> "exit", price |-> price,
                                  signal |-> sig, pnl |-> gross])
     /\ breakdowns' = Append(breakdowns,
          [trade |-> Len(trades) + 1, gross |-> gross,
           net |-> gross - Cost(positions[s]), claim |-> ClaimAllowed])
     /\ UNCHANGED positions

\* close_position_tx and insert_trade_pnl_breakdown_tx: one transaction.
CloseRows(s, price, sig) ==
  LET p == positions[s]
      gross == Gross(p, price)
  IN /\ positions' = [positions EXCEPT ![s] = NoPosition]
     /\ trades' = Append(trades, [slot |-> s, side |-> "exit", price |-> price,
                                  signal |-> sig, pnl |-> gross])
     /\ breakdowns' = Append(breakdowns,
          [trade |-> Len(trades) + 1, gross |-> gross, net |-> gross - Cost(p),
           claim |-> ClaimAllowed])

\* In estimated_net the ledger row and the accounting event join the transaction.
NetRows(s, price, sig) ==
  LET p == positions[s]
  IN /\ CloseRows(s, price, sig)
     /\ ledger' = Append(ledger,
          [trade |-> Len(trades) + 1, breakdown |-> Len(breakdowns) + 1,
           net |-> Gross(p, price) - Cost(p), claim |-> ClaimAllowed])
     /\ events' = Append(events,
          [trade |-> Len(trades) + 1, breakdown |-> Len(breakdowns) + 1,
           ledger |-> Len(ledger) + 1,
           kind |-> IF sig = Liquidation THEN "liquidation" ELSE "normal_exit"])

\* Mutant: an untracked slot starts from nothing instead of its allocation.
BookPnlUnseeded(s, base, pnl) ==
  /\ realized' = realized + pnl
  /\ slotEq' = [slotEq EXCEPT ![s] = (IF @ = NoEquity THEN 0 ELSE @) + pnl]

\* realized_pnl and slot_equities, the latter seeded with base if absent.
BookPnl(s, base, pnl) ==
  /\ realized' = realized + pnl
  /\ slotEq' = [slotEq EXCEPT ![s] = (IF @ = NoEquity THEN base ELSE @) + pnl]

\* legacy_gross: the close commits, its ledger row comes in a later statement.
CloseGross(s, base, sig) ==
  /\ run.mode = "legacy_gross"
  /\ CloseRows(s, feed[s].price, sig)
  /\ closing' = [slot |-> s, base |-> base,
                 pnl |-> Gross(positions[s], feed[s].price),
                 breakdown |-> Len(breakdowns) + 1]
  /\ pc' = "ledger"
  /\ UNCHANGED <<ledger, events, equity, portfolio, memory, feed, slot,
                 thisClose, mark, used>>

\* Mutant: the net close is booked before cost.
CloseNetBookedGross(s, base, sig) ==
  /\ run.mode = "estimated_net" /\ ClaimAllowed
  /\ NetRows(s, feed[s].price, sig)
  /\ BookPnl(s, base, Gross(positions[s], feed[s].price))
  /\ UNCHANGED <<equity, portfolio, run, errors, feed, slot, closing, mark, used>>

\* Mutant: closes without asking whether a net claim is allowed.
CloseNetUnclaimed(s, base, sig) ==
  LET p == positions[s]
  IN /\ run.mode = "estimated_net"
     /\ NetRows(s, feed[s].price, sig)
     /\ BookPnl(s, base, Gross(p, feed[s].price) - Cost(p))
     /\ UNCHANGED <<equity, portfolio, run, errors, feed, slot, closing, mark, used>>

\* estimated_net: everything commits at once and is then booked net of cost.
CloseNet(s, base, sig) ==
  LET p == positions[s]
  IN /\ run.mode = "estimated_net" /\ ClaimAllowed
     /\ NetRows(s, feed[s].price, sig)
     /\ BookPnl(s, base, Gross(p, feed[s].price) - Cost(p))
     /\ UNCHANGED <<equity, portfolio, run, errors, feed, slot, closing, mark, used>>

(***************************************************************************)
(* Margin phase: check_margin_and_liquidate_with_accounting_mode.          *)
(***************************************************************************)
\* Mutant: the margin check waits for the 50 bars the signals need.
LiquidateGrossWhenReady(s) ==
  /\ pc = "margin" /\ s \in Due(feed) /\ feed[s].ready
  /\ CloseGross(s, positions[s].size, Liquidation)

LiquidateGross(s) ==
  /\ pc = "margin" /\ s \in Due(feed)
  /\ CloseGross(s, positions[s].size, Liquidation)

LiquidateNet(s) ==
  /\ pc = "margin" /\ s \in Due(feed)
  /\ CloseNet(s, positions[s].size, Liquidation)
  /\ lastClose' = Len(events) + 1
  /\ UNCHANGED <<pc, thisClose>>

\* Mutant: the margin check stops before every breached position is closed.
MarginDoneEarly ==
  /\ pc = "margin"
  /\ pc' = "signal"
  /\ slot' = 1
  /\ UNCHANGED <<tables, memory, feed, closing, thisClose, mark, used>>

MarginDone ==
  /\ pc = "margin" /\ Due(feed) = {}
  /\ pc' = "signal"
  /\ slot' = 1
  /\ UNCHANGED <<tables, memory, feed, closing, thisClose, mark, used>>

\* Mutant: books the profit, writes no ledger row.
LedgerInsertLost ==
  /\ pc = "ledger"
  /\ BookPnl(closing.slot, closing.base, closing.pnl)
  /\ closing' = NoClosing
  /\ pc' = IF slot = 0 THEN "margin" ELSE "equity"
  /\ UNCHANGED <<tables, run, lastClose, errors, feed, slot, thisClose, mark, used>>

\* Mutant: the breakdown's id is written where the trade's id belongs.
LedgerInsertWrongTrade ==
  /\ pc = "ledger"
  /\ LET b == closing.breakdown
     IN ledger' = Append(ledger, [trade |-> b, breakdown |-> b,
                                  net |-> breakdowns[b].net,
                                  claim |-> breakdowns[b].claim])
  /\ BookPnl(closing.slot, closing.base, closing.pnl)
  /\ closing' = NoClosing
  /\ pc' = IF slot = 0 THEN "margin" ELSE "equity"
  /\ UNCHANGED <<positions, trades, breakdowns, events, equity, portfolio, run,
                 lastClose, errors, feed, slot, thisClose, mark, used>>

\* record_runtime_pnl_ledger_from_breakdown, then the gross profit is booked.
LedgerInsert ==
  /\ pc = "ledger"
  /\ LET b == closing.breakdown
     IN ledger' = Append(ledger,
          [trade |-> breakdowns[b].trade, breakdown |-> b,
           net |-> breakdowns[b].net, claim |-> breakdowns[b].claim])
  /\ BookPnl(closing.slot, closing.base, closing.pnl)
  /\ closing' = NoClosing
  /\ pc' = IF slot = 0 THEN "margin" ELSE "equity"
  /\ UNCHANGED <<positions, trades, breakdowns, events, equity, portfolio, run,
                 lastClose, errors, feed, slot, thisClose, mark, used>>

(***************************************************************************)
(* Signal phase: the slot loop of tick_with_data and process_signal.       *)
(***************************************************************************)
InSlotLoop == pc = "signal" /\ slot \in Slots

\* Mutant: the loop advances twice.
NextSlotTwice == /\ pc' = "signal"
                 /\ slot' = slot + 2
                 /\ closing' = NoClosing
                 /\ thisClose' = 0

NextSlot == /\ pc' = "signal"
            /\ slot' = slot + 1
            /\ closing' = NoClosing
            /\ thisClose' = 0

HasPosition == positions[slot] # NoPosition
Signal == feed[slot].signal
Ready == feed[slot].price # 0 /\ feed[slot].ready

\* No data, or fewer than 50 bars: an error and the next slot.
SkipSlot ==
  /\ InSlotLoop /\ ~Ready
  /\ errors' = errors \cup {slot}
  /\ NextSlot
  /\ UNCHANGED <<tables, run, slotEq, realized, lastClose, feed, mark, used>>

\* estimated_net without a cost model: the exit signal aborts the whole tick.
RefuseClose ==
  /\ InSlotLoop /\ Ready /\ HasPosition /\ Signal # 1 /\ CloseRefused
  /\ LeaveTick("idle")
  /\ UNCHANGED <<tables, memory, mark, used>>

\* Mutant: enters on the signal without looking for an open position.
EnterAgain ==
  /\ InSlotLoop /\ Ready /\ Signal = 1
  /\ positions' = [positions EXCEPT ![slot] =
       [entry |-> feed[slot].price, size |-> run.size[slot],
        leverage |-> Leverage[slot]]]
  /\ trades' = Append(trades, [slot |-> slot, side |-> "entry",
       price |-> feed[slot].price, signal |-> 1, pnl |-> 0])
  /\ slotEq' = [slotEq EXCEPT ![slot] = IF @ = NoEquity THEN run.size[slot] ELSE @]
  /\ pc' = "equity"
  /\ UNCHANGED <<breakdowns, ledger, events, equity, portfolio, run, realized,
                 lastClose, errors, feed, slot, closing, thisClose, mark, used>>

Enter ==
  /\ InSlotLoop /\ Ready /\ ~HasPosition /\ Signal = 1
  /\ positions' = [positions EXCEPT ![slot] =
       [entry |-> feed[slot].price, size |-> run.size[slot],
        leverage |-> Leverage[slot]]]
  /\ trades' = Append(trades, [slot |-> slot, side |-> "entry",
       price |-> feed[slot].price, signal |-> 1, pnl |-> 0])
  /\ slotEq' = [slotEq EXCEPT ![slot] = IF @ = NoEquity THEN run.size[slot] ELSE @]
  /\ pc' = "equity"
  /\ UNCHANGED <<breakdowns, ledger, events, equity, portfolio, run, realized,
                 lastClose, errors, feed, slot, closing, thisClose, mark, used>>

\* "hold" and "none"
Stay ==
  /\ InSlotLoop /\ Ready /\ HasPosition = (Signal = 1)
  /\ pc' = "equity"
  /\ UNCHANGED <<tables, memory, feed, slot, closing, thisClose, mark, used>>

ExitDue == InSlotLoop /\ Ready /\ HasPosition /\ Signal # 1

ExitGross == ExitDue /\ CloseGross(slot, run.size[slot], Signal)

ExitNet ==
  /\ ExitDue
  /\ CloseNet(slot, run.size[slot], Signal)
  /\ thisClose' = Len(events) + 1
  /\ pc' = "equity"
  /\ UNCHANGED lastClose

SlotEquity(s) == IF slotEq[s] = NoEquity THEN 0 ELSE slotEq[s]

EquitySnapshot ==
  /\ pc = "equity"
  /\ equity' = Append(equity, [slot |-> slot, equity |-> SlotEquity(slot),
                               source |-> "none", event |-> 0])
  /\ pc' = "source"
  /\ UNCHANGED <<positions, trades, breakdowns, ledger, events, portfolio,
                 memory, feed, slot, closing, thisClose, mark, used>>

\* The close a source row names: this slot's, else in estimated_net the last
\* close of any slot, else none (the row is then a legacy one).
SourceClose ==
  IF thisClose # 0 THEN thisClose
  ELSE IF run.mode = "estimated_net" THEN lastClose ELSE 0

WithSource(rows, e) ==
  [rows EXCEPT ![Len(rows)] =
     [@ EXCEPT !.source = IF e = 0 THEN "legacy" ELSE "net", !.event = e]]

\* Mutant: only a liquidation sets current_runtime_close.
EquitySourceForgetful ==
  /\ pc = "source"
  /\ equity' = WithSource(equity, SourceClose)
  /\ NextSlot
  /\ UNCHANGED <<positions, trades, breakdowns, ledger, events, portfolio, run,
                 slotEq, realized, lastClose, errors, feed, mark, used>>

EquitySource ==
  /\ pc = "source"
  /\ equity' = WithSource(equity, SourceClose)
  /\ lastClose' = IF thisClose # 0 THEN thisClose ELSE lastClose
  /\ NextSlot
  /\ UNCHANGED <<positions, trades, breakdowns, ledger, events, portfolio, run,
                 slotEq, realized, errors, feed, mark, used>>

(***************************************************************************)
(* End of the tick: record_portfolio_snapshot.                             *)
(***************************************************************************)
PortfolioSnapshot ==
  /\ pc = "signal" /\ slot > NumSlots
  /\ portfolio' = Append(portfolio, [equity |-> InitialCapital + realized,
                                     source |-> "none", event |-> 0])
  /\ pc' = "portfolio"
  /\ UNCHANGED <<positions, trades, breakdowns, ledger, events, equity, memory,
                 feed, slot, closing, thisClose, mark, used>>

PortfolioSource ==
  /\ pc = "portfolio"
  /\ portfolio' = WithSource(portfolio, lastClose)
  /\ LeaveTick("idle")
  /\ UNCHANGED <<positions, trades, breakdowns, ledger, events, equity, memory,
                 mark, used>>

(***************************************************************************)
(* A statement fails: disk full, database locked, constraint.              *)
(***************************************************************************)
CountFault == /\ used.faults < MaxFaults
              /\ used' = [used EXCEPT !.faults = @ + 1]

\* Err from the margin check or from process_signal: the error is noted and the
\* tick goes on with the next slot; a close in hand stays committed, unbooked.
StatementFault ==
  /\ \/ pc \in {"ledger", "equity", "source"}
     \/ pc = "margin" /\ Due(feed) # {}
     \/ InSlotLoop /\ Ready /\ ~(ExitDue /\ CloseRefused)
  /\ CountFault
  /\ errors' = errors \cup {slot}
  /\ NextSlot
  /\ UNCHANGED <<tables, run, slotEq, realized, lastClose, feed, mark>>

\* The net close commits, but reading it back or validating it fails.
UnbookedClose(s, sig) ==
  /\ \/ pc = "margin" /\ s \in Due(feed) /\ sig = Liquidation
     \/ ExitDue /\ s = slot /\ sig = Signal
  /\ run.mode = "estimated_net" /\ ClaimAllowed
  /\ CountFault
  /\ NetRows(s, feed[s].price, sig)
  /\ errors' = errors \cup {slot}
  /\ NextSlot
  /\ UNCHANGED <<equity, portfolio, run, slotEq, realized, lastClose, feed, mark>>

\* A read guarded by `?` in tick_with_data, or the portfolio rows: the tick aborts.
AbortFault ==
  /\ \/ pc = "portfolio"
     \/ pc = "signal" /\ slot > NumSlots
     \/ InSlotLoop /\ Ready
  /\ CountFault
  /\ LeaveTick("idle")
  /\ UNCHANGED <<tables, memory, mark>>

(***************************************************************************)
(* Specification.                                                          *)
(***************************************************************************)
Tick ==
  \/ \E s \in Slots : LiquidateGross(s) \/ LiquidateNet(s)
  \/ MarginDone \/ LedgerInsert
  \/ SkipSlot \/ RefuseClose \/ Enter \/ Stay \/ ExitGross \/ ExitNet
  \/ EquitySnapshot \/ EquitySource
  \/ PortfolioSnapshot \/ PortfolioSource

Fault ==
  \/ StatementFault
  \/ \E s \in Slots, sig \in {-1, 0, Liquidation} : UnbookedClose(s, sig)
  \/ AbortFault

Next ==
  \/ Start \/ Crash
  \/ \E f \in [Slots -> Feeds] : BeginTick(f) \/ RefuseTick(f)
  \/ Tick
  \/ Fault

\* A tick in hand runs on: tick_with_data awaits nothing.
Spec == Init /\ [][Next]_vars /\ WF_vars(Tick)

(***************************************************************************)
(* Properties.                                                             *)
(***************************************************************************)
TradeType == [slot : Slots, side : {"entry", "exit"}, price : Prices,
              signal : {-1, 0, 1, Liquidation}, pnl : Int]
BreakdownType == [trade : Positive, gross : Int, net : Int, claim : BOOLEAN]
LedgerType == [trade : Positive, breakdown : Positive, net : Int, claim : BOOLEAN]
EventType == [trade : Positive, breakdown : Positive, ledger : Positive,
              kind : {"normal_exit", "liquidation"}]
Sources == {"none", "legacy", "net"}
EquityType == [slot : Slots, equity : Int, source : Sources, event : Nat]
PortfolioType == [equity : Int, source : Sources, event : Nat]

TablesOK ==
  /\ positions \in [Slots -> PositionType \cup {NoPosition}]
  /\ trades \in Seq(TradeType)
  /\ breakdowns \in Seq(BreakdownType)
  /\ ledger \in Seq(LedgerType)
  /\ events \in Seq(EventType)
  /\ equity \in Seq(EquityType)
  /\ portfolio \in Seq(PortfolioType)

MemoryOK ==
  /\ run \in RunType
  /\ slotEq \in [Slots -> Int \cup {NoEquity}]
  /\ realized \in Int
  /\ lastClose \in Nat
  /\ errors \subseteq 0 .. NumSlots

TickOK ==
  /\ pc \in {"down", "idle", "margin", "ledger", "signal", "equity", "source",
             "portfolio"}
  /\ feed \in [Slots -> FeedType]
  /\ slot \in 0 .. NumSlots + 1
  /\ closing \in ClosingType \cup {NoClosing}
  /\ thisClose \in Nat

CountOK ==
  /\ mark \in [trades : Nat, faults : Nat]
  /\ used \in [ticks : Nat, crashes : Nat, faults : Nat]

\* The shape of the tables, of the PositionManager and of the tick in hand.
TypeOK == TablesOK /\ MemoryOK /\ TickOK /\ CountOK

\* What the program point says of the other variables; with TypeOK inductive.
ControlOK ==
  /\ pc \in {"down", "idle", "margin"} => slot = 0
  /\ pc \in {"equity", "source"} => slot \in Slots
  /\ pc = "ledger" => slot \in Slots \cup {0}
  /\ pc = "signal" => slot \in 1 .. NumSlots + 1
  /\ (pc = "ledger") = (closing # NoClosing)
  /\ closing # NoClosing => closing.breakdown \in DOMAIN breakdowns
  /\ pc = "source" => equity # <<>>
  /\ pc = "portfolio" => portfolio # <<>>

\* Trade i is the latest trade of its slot.
IsLast(i) == \A j \in DOMAIN trades : trades[j].slot = trades[i].slot => j <= i

\* Trade j directly follows trade i in the history of their slot.
Follows(i, j) ==
  /\ i < j /\ trades[i].slot = trades[j].slot
  /\ \A k \in DOMAIN trades : i < k /\ k < j => trades[k].slot # trades[i].slot

\* Whatever crashes and failing statements fall between the commits, the trades
\* of a slot alternate entry, exit, entry, ..., and the positions table holds an
\* open position exactly for the slots whose last trade is an entry, at its price.
PositionsMatchTrades ==
  /\ \A s \in Slots :
       positions[s] # NoPosition <=>
         \E i \in DOMAIN trades : /\ trades[i].slot = s /\ IsLast(i)
                                  /\ trades[i].side = "entry"
                                  /\ positions[s].entry = trades[i].price
  /\ \A i, j \in DOMAIN trades : Follows(i, j) => trades[i].side # trades[j].side
  /\ \A i \in DOMAIN trades :
       trades[i].side = "exit" => \E h \in DOMAIN trades : Follows(h, i)

\* An exit trade has exactly one breakdown, of its own profit.
ExitsBrokenDown ==
  \A i \in DOMAIN trades : trades[i].side = "exit" =>
    \E b \in DOMAIN breakdowns :
      /\ breakdowns[b].trade = i /\ breakdowns[b].gross = trades[i].pnl
      /\ \A c \in DOMAIN breakdowns : breakdowns[c].trade = i => c = b

BreakdownsOfExits ==
  \A b \in DOMAIN breakdowns :
    /\ breakdowns[b].trade \in DOMAIN trades
    /\ trades[breakdowns[b].trade].side = "exit"

\* A ledger row repeats the figures of a breakdown no other row names.
LedgerRepeats ==
  \A l \in DOMAIN ledger :
    /\ ledger[l].breakdown \in DOMAIN breakdowns
    /\ LET b == breakdowns[ledger[l].breakdown]
       IN ledger[l] = [trade |-> b.trade, breakdown |-> ledger[l].breakdown,
                       net |-> b.net, claim |-> b.claim]
    /\ \A m \in DOMAIN ledger : ledger[m].breakdown = ledger[l].breakdown => m = l

\* An event names the rows of one close, whose net claim was allowed.
EventsNameCloses ==
  \A e \in DOMAIN events :
    /\ events[e].ledger \in DOMAIN ledger
    /\ LET l == ledger[events[e].ledger]
       IN events[e].trade = l.trade /\ events[e].breakdown = l.breakdown /\ l.claim
    /\ (events[e].kind = "liquidation") = (trades[events[e].trade].signal = Liquidation)

\* The accounting rows form a chain whatever was interrupted: an exit trade has
\* exactly one breakdown, of its own profit; a ledger row repeats the figures of
\* the one breakdown it names; an event names a ledger row, its breakdown and its
\* trade, of a close whose net claim was allowed.
AccountingChain ==
  ExitsBrokenDown /\ BreakdownsOfExits /\ LedgerRepeats /\ EventsNameCloses

Unledgered == {b \in DOMAIN breakdowns :
                 \A l \in DOMAIN ledger : ledger[l].breakdown # b}

\* The legacy close writes its ledger row after its transaction: a crash or a
\* failing statement can lose that row, but only one row each, so the ledger
\* never falls further behind the breakdowns than the failures account for.
LedgerLag ==
  Cardinality(Unledgered) <=
    used.crashes + used.faults + (IF pc = "ledger" THEN 1 ELSE 0)

\* Once the margin check of a tick has run without error, no open position the
\* tick has a price for is at or below maintenance margin, entries of this very
\* tick included, until the tick ends.
MarginEnforced ==
  pc \in {"signal", "equity", "source", "portfolio"} /\ 0 \notin errors =>
    Due(feed) = {}

\* A breached position is not left alone: the margin phase closes it, or reports
\* a failed margin check, unless the process dies.
BreachResolved ==
  \A s \in Slots :
    (pc = "margin" /\ s \in Due(feed))
      ~> (positions[s] = NoPosition \/ 0 \in errors \/ pc = "down")

\* Net-sourced snapshots never go back to an older close: read in insertion
\* order, the closes the equity rows name never decrease.
SourcesInOrder ==
  \A i, j \in DOMAIN equity :
    i < j /\ equity[i].source = "net" /\ equity[j].source = "net" =>
      equity[i].event <= equity[j].event

\* An exit in estimated_net is all or nothing: position, trade, breakdown, ledger
\* row and accounting event commit together, so no crash or failing statement
\* leaves one without the others.  (For processes that only run estimated_net.)
NetCloseWhole ==
  /\ Len(events) = Len(ledger) /\ Len(ledger) = Len(breakdowns)
  /\ \A e \in DOMAIN events : events[e].ledger = e /\ events[e].breakdown = e

\* Exit trades of this process for slots S; a close in hand is not booked yet.
Booked(S) == {i \in DOMAIN trades :
               /\ i > mark.trades /\ trades[i].slot \in S /\ trades[i].side = "exit"
               /\ ~(closing # NoClosing /\ i = Len(trades))}

BookedPnl(i) ==
  IF run.mode = "legacy_gross" THEN trades[i].pnl
  ELSE LET b == CHOOSE c \in DOMAIN breakdowns : breakdowns[c].trade = i
       IN breakdowns[b].net

Profits(S) == [i \in DOMAIN trades |-> IF i \in Booked(S) THEN BookedPnl(i) ELSE 0]

\* The sum of a sequence.
Total(q) ==
  LET sum[i \in 0 .. Len(q)] == IF i = 0 THEN 0 ELSE sum[i - 1] + q[i]
  IN sum[Len(q)]

\* The first trade of this process in slot s liquidates an older process's position.
SeededByLiquidation(s) ==
  \E i \in DOMAIN trades :
    /\ i > mark.trades /\ trades[i].slot = s /\ trades[i].signal = Liquidation
    /\ \A j \in mark.trades + 1 .. i - 1 : trades[j].slot # s

\* The equity of slot s is what it started from plus what it has earned.
SlotBalances(s) ==
  IF slotEq[s] = NoEquity
  THEN \A i \in DOMAIN trades : trades[i].slot = s /\ i > mark.trades =>
         closing # NoClosing /\ i = Len(trades)
  ELSE slotEq[s] - Total(Profits({s})) \in
         IF SeededByLiquidation(s) THEN Sizes ELSE {run.size[s]}

\* As long as no statement has failed since the process started, its memory is the
\* sum of what it wrote: realized_pnl is the profit of its exit trades, gross or
\* net by mode, each booked once, and a slot's equity is its allocation plus the
\* profits of that slot alone; a slot first liquidated starts from the size of the
\* position it had.  A slot is untracked only if it has not traded.
BooksBalance ==
  pc # "down" /\ used.faults = mark.faults =>
    realized = Total(Profits(Slots)) /\ \A s \in Slots : SlotBalances(s)

\* In estimated_net a process started without a cost model never closes a
\* position, by signal or by liquidation, not even one an earlier process opened:
\* no exit trade, breakdown, ledger row or event appears.
FailClosed ==
  [][CloseRefused /\ pc # "down" =>
       /\ UNCHANGED <<breakdowns, ledger, events>>
       /\ \A s \in Slots : positions[s] # NoPosition => positions'[s] = positions[s]
    ]_vars

\* The paper trader implements the position book.
Book == INSTANCE PositionBook WITH
  Slots <- Slots,
  long <- {s \in Slots : positions[s] # NoPosition},
  fills <- [i \in DOMAIN trades |-> [slot |-> trades[i].slot, side |-> trades[i].side]]

\* Every step of the trader is a fill of the book or leaves it as it is.
BookSpec == Book!Spec

=============================================================================
