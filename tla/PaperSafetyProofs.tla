-------------------------- MODULE PaperSafetyProofs --------------------------
(***************************************************************************)
(* Proofs about PaperTrader for every number of slots, every price, size   *)
(* and leverage, every mode and cost rate, and every bound: first its type *)
(* invariant, then the safety properties that rest on it.                  *)
(***************************************************************************)
EXTENDS PaperTrader, SequenceTheorems, TLAPS

(***************************************************************************)
(* Lemmas about the operators the actions are built from.                  *)
(***************************************************************************)
LEMMA Constants ==
  /\ NumSlots \in Nat /\ NumSlots > 0
  /\ Slots \subseteq Nat /\ 1 \in Slots
  /\ \A q \in Prices : q \in Int /\ q > 0
  /\ \A z \in Sizes : z \in Int /\ z >= 0
  /\ \A c \in CostRates : c \in Int /\ c >= 0
  /\ \A s \in Slots : Leverage[s] \in Positive
<1>1. Prices \subseteq Positive /\ Sizes \subseteq Nat /\ CostRates \subseteq Nat
      /\ Leverage \in [Slots -> Positive] /\ NumSlots \in Positive
  BY PaperAssumption DEF PaperAssumption
<1> QED
  BY <1>1 DEF Positive, Slots

LEMMA PositionFields ==
  ASSUME NEW p \in PositionType
  PROVE  /\ p.entry \in Prices /\ p.entry \in Int /\ p.entry > 0
         /\ p.size \in Sizes /\ p.size \in Int
         /\ p.leverage \in Int
BY Constants DEF PositionType, Positive

LEMMA GrossType ==
  ASSUME NEW p \in PositionType, NEW price \in Prices
  PROVE  Gross(p, price) \in Int
<1> DEFINE scaled == (price - p.entry) * p.size * p.leverage
<1>1. scaled \in Int
  BY PositionFields, Constants
<1>2. scaled \div p.entry \in Int
  <2> HIDE DEF scaled
  <2> QED  BY <1>1, PositionFields
<1> QED
  BY <1>2 DEF Gross

LEMMA CostType ==
  ASSUME NEW p \in PositionType, run.cost \in CostRates
  PROVE  Cost(p) \in Int
BY PositionFields, Constants DEF Cost

LEMMA EmptyTick ==
  /\ NoFeed \in [Slots -> FeedType]
  /\ NoMemory \in [Slots -> Int \cup {NoEquity}]
BY DEF NoFeed, NoMemory, FeedType

LEMMA FeedFields ==
  ASSUME TypeOK, NEW s \in Slots
  PROVE  /\ feed[s].price \in Prices \cup {0}
         /\ feed[s].signal \in {-1, 0, 1}
BY DEF TypeOK, TickOK, FeedType

LEMMA CloseRowsType ==
  ASSUME TypeOK, NEW s \in Slots, positions[s] # NoPosition,
         NEW price \in Prices, NEW sig \in {-1, 0, 1, Liquidation},
         CloseRows(s, price, sig)
  PROVE  /\ positions' \in [Slots -> PositionType \cup {NoPosition}]
         /\ trades' \in Seq(TradeType)
         /\ breakdowns' \in Seq(BreakdownType)
         /\ Len(breakdowns') = Len(breakdowns) + 1
         /\ Gross(positions[s], price) \in Int
         /\ Gross(positions[s], price) - Cost(positions[s]) \in Int
<1> DEFINE p == positions[s]
           gross == Gross(p, price)
           trade == [slot |-> s, side |-> "exit", price |-> price, signal |-> sig,
                     pnl |-> gross]
           row == [trade |-> Len(trades) + 1, gross |-> gross, net |-> gross - Cost(p),
                   claim |-> ClaimAllowed]
<1>1. p \in PositionType /\ run.cost \in CostRates
  BY DEF TypeOK, TablesOK, MemoryOK, RunType
<1>2. gross \in Int /\ Cost(p) \in Int
  BY <1>1, GrossType, CostType
<1>3. trade \in TradeType
  BY <1>2 DEF TradeType
<1>4. Len(trades) + 1 \in Positive
  BY DEF TypeOK, TablesOK, Positive
<1>5. ClaimAllowed \in BOOLEAN
  BY DEF ClaimAllowed
<1>6. row \in BreakdownType
  BY <1>2, <1>4, <1>5 DEF BreakdownType
<1>7. /\ positions' = [positions EXCEPT ![s] = NoPosition]
      /\ trades' = Append(trades, trade)
      /\ breakdowns' = Append(breakdowns, row)
  BY DEF CloseRows
<1>8. positions' \in [Slots -> PositionType \cup {NoPosition}]
  BY <1>7 DEF TypeOK, TablesOK
<1> HIDE DEF gross, trade, row
<1>9. trades' \in Seq(TradeType) /\ breakdowns' \in Seq(BreakdownType)
      /\ Len(breakdowns') = Len(breakdowns) + 1
  BY <1>3, <1>6, <1>7 DEF TypeOK, TablesOK
<1> QED
  BY <1>2, <1>8, <1>9 DEF gross

LEMMA NetRowsType ==
  ASSUME TypeOK, NEW s \in Slots, positions[s] # NoPosition,
         NEW price \in Prices, NEW sig \in {-1, 0, 1, Liquidation},
         NetRows(s, price, sig)
  PROVE  /\ ledger' \in Seq(LedgerType)
         /\ events' \in Seq(EventType)
<1> DEFINE p == positions[s]
           net == Gross(p, price) - Cost(p)
           row == [trade |-> Len(trades) + 1, breakdown |-> Len(breakdowns) + 1,
                   net |-> net, claim |-> ClaimAllowed]
           event == [trade |-> Len(trades) + 1, breakdown |-> Len(breakdowns) + 1,
                     ledger |-> Len(ledger) + 1,
                     kind |-> IF sig = Liquidation THEN "liquidation" ELSE "normal_exit"]
<1>1. CloseRows(s, price, sig) /\ ledger' = Append(ledger, row)
      /\ events' = Append(events, event)
  BY DEF NetRows
<1>2. net \in Int
  BY <1>1, CloseRowsType
<1>3. ClaimAllowed \in BOOLEAN
  BY DEF ClaimAllowed
<1>4. /\ Len(trades) + 1 \in Positive /\ Len(breakdowns) + 1 \in Positive
      /\ Len(ledger) + 1 \in Positive
  BY DEF TypeOK, TablesOK, Positive
<1> HIDE DEF net
<1>5. row \in LedgerType
  BY <1>2, <1>3, <1>4 DEF LedgerType
<1>6. event \in EventType
  BY <1>4 DEF EventType
<1> HIDE DEF row, event
<1> QED
  BY <1>1, <1>5, <1>6 DEF TypeOK, TablesOK

LEMMA BookPnlType ==
  ASSUME TypeOK, NEW s \in Slots, NEW base \in Sizes, NEW pnl \in Int,
         BookPnl(s, base, pnl)
  PROVE  /\ realized' \in Int
         /\ slotEq' \in [Slots -> Int \cup {NoEquity}]
<1>1. base \in Int
  BY Constants
<1>2. (IF slotEq[s] = NoEquity THEN base ELSE slotEq[s]) + pnl \in Int
  BY <1>1 DEF TypeOK, MemoryOK
<1> QED
  BY <1>2 DEF BookPnl, TypeOK, MemoryOK

LEMMA EntryType ==
  ASSUME TypeOK, NEW s \in Slots
  PROVE  /\ positions[s] # NoPosition => positions[s].size \in Sizes
         /\ run.size[s] \in Sizes
<1>1. run.size[s] \in Sizes
  BY DEF TypeOK, MemoryOK, RunType
<1>2. ASSUME positions[s] # NoPosition PROVE positions[s].size \in Sizes
  <2>1. positions[s] \in PositionType
    BY <1>2 DEF TypeOK, TablesOK
  <2> QED  BY <2>1, PositionFields
<1> QED
  BY <1>1, <1>2

(***************************************************************************)
(* Type correctness.  TypeOK alone is not inductive: that LedgerInsert     *)
(* finds its breakdown, and that the slot loop stays within the slots,     *)
(* rest on what the program point says (ControlOK).                        *)
(***************************************************************************)
TypeInv == TypeOK /\ ControlOK

LEMMA TypeInit == Init => TypeInv
<1> SUFFICES ASSUME Init PROVE TypeInv
  OBVIOUS
<1>1. TablesOK
  BY DEF Init, TablesOK
<1>2. MemoryOK
  BY EmptyTick DEF Init, MemoryOK
<1>3. TickOK
  BY EmptyTick, Constants DEF Init, TickOK
<1>4. CountOK
  BY DEF Init, CountOK
<1>5. ControlOK
  BY DEF Init, ControlOK
<1> QED
  BY <1>1, <1>2, <1>3, <1>4, <1>5 DEF TypeInv, TypeOK

\* What a step leaves alone keeps its type.
LEMMA Kept ==
  /\ TablesOK /\ UNCHANGED tables => TablesOK'
  /\ MemoryOK /\ UNCHANGED memory => MemoryOK'
  /\ TickOK /\ UNCHANGED control => TickOK'
  /\ CountOK /\ UNCHANGED <<mark, used>> => CountOK'
<1>1. TablesOK /\ UNCHANGED tables => TablesOK'
  BY DEF TablesOK, tables
<1>2. MemoryOK /\ UNCHANGED memory => MemoryOK'
  BY DEF MemoryOK, memory
<1>3. TickOK /\ UNCHANGED control => TickOK'
  BY DEF TickOK, control
<1>4. CountOK /\ UNCHANGED <<mark, used>> => CountOK'
  BY DEF CountOK
<1> QED
  BY <1>1, <1>2, <1>3, <1>4

LEMMA LeaveTickType ==
  ASSUME NEW to \in {"down", "idle"}, LeaveTick(to)
  PROVE  TickOK' /\ ControlOK'
<1>1. TickOK'
  BY EmptyTick, Constants DEF LeaveTick, TickOK
<1>2. ControlOK'
  BY DEF LeaveTick, ControlOK
<1> QED
  BY <1>1, <1>2

LEMMA NextSlotType ==
  ASSUME TypeOK, slot \in 0 .. NumSlots, NextSlot, UNCHANGED feed
  PROVE  TickOK' /\ ControlOK'
<1>1. TickOK'
  BY Constants DEF NextSlot, TypeOK, TickOK
<1>2. ControlOK'
  BY Constants DEF NextSlot, ControlOK
<1> QED
  BY <1>1, <1>2

LEMMA ProcessLifeType ==
  ASSUME TypeInv, Start \/ Crash
  PROVE  TypeInv'
<1> USE DEF TypeInv, TypeOK
<1>1. TickOK' /\ ControlOK'
  BY LeaveTickType DEF Start, Crash
<1>2. TablesOK'
  BY Kept DEF Start, Crash
<1>3. MemoryOK'
  BY EmptyTick DEF Start, Crash, ForgetMemory, MemoryOK
<1>4. CountOK'
  BY DEF Start, Crash, CountOK, TablesOK
<1> QED
  BY <1>1, <1>2, <1>3, <1>4

LEMMA FeedsType == ASSUME NEW f \in [Slots -> Feeds] PROVE f \in [Slots -> FeedType]
<1>1. Feeds \subseteq FeedType
  BY PaperAssumption DEF PaperAssumption
<1> QED
  BY <1>1

LEMMA TickStartType ==
  ASSUME TypeInv, NEW f \in [Slots -> Feeds], BeginTick(f) \/ RefuseTick(f)
  PROVE  TypeInv'
<1> USE DEF TypeInv, TypeOK
<1>1. CountTick /\ UNCHANGED <<tables, run, slotEq, realized, lastClose, slot, closing,
                               thisClose, mark>>
  BY DEF BeginTick, RefuseTick, control
<1>2. TablesOK'
  BY <1>1, Kept
<1>3. MemoryOK'
  BY <1>1 DEF CountTick, MemoryOK
<1>4. CountOK'
  BY <1>1 DEF CountTick, CountOK
<1>5. TickOK' /\ ControlOK'
  <2>1. CASE BeginTick(f)
    BY <2>1, FeedsType DEF BeginTick, CountTick, TickOK, ControlOK
  <2>2. CASE RefuseTick(f)
    BY <2>2 DEF RefuseTick, CountTick, TickOK, ControlOK, control
  <2> QED  BY <2>1, <2>2
<1> QED
  BY <1>2, <1>3, <1>4, <1>5

\* A commit of CloseRows, then the memory of the close in hand.
LEMMA CloseGrossType ==
  ASSUME TypeInv, NEW s \in Slots, NEW base \in Sizes,
         NEW sig \in {-1, 0, 1, Liquidation},
         positions[s] # NoPosition, feed[s].price # 0,
         slot \in Slots \cup {0},
         CloseGross(s, base, sig)
  PROVE  TypeInv'
<1> USE DEF TypeInv
<1>1. feed[s].price \in Prices
  BY FeedFields
<1>2. /\ CloseRows(s, feed[s].price, sig)
      /\ closing' = [slot |-> s, base |-> base,
                     pnl |-> Gross(positions[s], feed[s].price),
                     breakdown |-> Len(breakdowns) + 1]
      /\ pc' = "ledger"
      /\ UNCHANGED <<ledger, events, equity, portfolio, memory, feed, slot,
                     thisClose, mark, used>>
  BY DEF CloseGross
<1>3. /\ positions' \in [Slots -> PositionType \cup {NoPosition}]
      /\ trades' \in Seq(TradeType)
      /\ breakdowns' \in Seq(BreakdownType)
      /\ Len(breakdowns') = Len(breakdowns) + 1
      /\ Gross(positions[s], feed[s].price) \in Int
  BY <1>1, <1>2, CloseRowsType
<1>4. Len(breakdowns) + 1 \in Positive
  BY DEF TypeOK, TablesOK, Positive
<1>5. closing' \in ClosingType
  BY <1>2, <1>3, <1>4 DEF ClosingType
<1>6. TablesOK'
  BY <1>2, <1>3 DEF TypeOK, TablesOK
<1>7. TickOK'
  BY <1>2, <1>5 DEF TypeOK, TickOK
<1>8. MemoryOK' /\ CountOK'
  BY <1>2, Kept DEF TypeOK
<1>9. closing' # NoClosing
  BY <1>5, PaperAssumption DEF PaperAssumption
<1>10. closing'.breakdown \in DOMAIN breakdowns'
  BY <1>2, <1>3 DEF TypeOK, TablesOK
<1>11. ControlOK'
  BY <1>2, <1>9, <1>10 DEF ControlOK
<1> QED
  BY <1>6, <1>7, <1>8, <1>11 DEF TypeOK

LEMMA NetRowsTables ==
  ASSUME TypeOK, NEW s \in Slots, positions[s] # NoPosition,
         NEW price \in Prices, NEW sig \in {-1, 0, 1, Liquidation},
         NetRows(s, price, sig), UNCHANGED <<equity, portfolio>>
  PROVE  TablesOK'
<1>1. /\ positions' \in [Slots -> PositionType \cup {NoPosition}]
      /\ trades' \in Seq(TradeType)
      /\ breakdowns' \in Seq(BreakdownType)
  BY CloseRowsType DEF NetRows
<1>2. ledger' \in Seq(LedgerType) /\ events' \in Seq(EventType)
  BY NetRowsType
<1> QED
  BY <1>1, <1>2 DEF TypeOK, TablesOK

LEMMA CloseNetType ==
  ASSUME TypeOK, NEW s \in Slots, positions[s] # NoPosition, feed[s].price # 0,
         NEW base \in Sizes, NEW sig \in {-1, 0, 1, Liquidation},
         CloseNet(s, base, sig)
  PROVE  /\ TablesOK' /\ CountOK'
         /\ realized' \in Int /\ slotEq' \in [Slots -> Int \cup {NoEquity}]
         /\ UNCHANGED <<run, errors, feed, slot, closing>>
         /\ Len(events) + 1 \in Nat
<1>1. feed[s].price \in Prices
  BY FeedFields
<1> DEFINE net == Gross(positions[s], feed[s].price) - Cost(positions[s])
<1>2. NetRows(s, feed[s].price, sig) /\ BookPnl(s, base, net)
  BY DEF CloseNet
<1>3. net \in Int
  BY <1>1, <1>2, CloseRowsType DEF NetRows
<1>4. UNCHANGED <<equity, portfolio, run, errors, feed, slot, closing, mark, used>>
  BY DEF CloseNet
<1>5. TablesOK'
  BY <1>1, <1>2, <1>4, NetRowsTables
<1> HIDE DEF net
<1>6. realized' \in Int /\ slotEq' \in [Slots -> Int \cup {NoEquity}]
  BY <1>2, <1>3, BookPnlType
<1>7. CountOK'
  BY <1>4, Kept DEF TypeOK
<1>8. Len(events) + 1 \in Nat
  BY DEF TypeOK, TablesOK
<1> QED
  BY <1>4, <1>5, <1>6, <1>7, <1>8

LEMMA DueOpen ==
  ASSUME NEW s \in Due(feed)
  PROVE  s \in Slots /\ positions[s] # NoPosition /\ feed[s].price # 0
BY DEF Due

LEMMA MarginPhaseType ==
  ASSUME TypeInv,
         \/ \E s \in Slots : LiquidateGross(s) \/ LiquidateNet(s)
         \/ MarginDone
  PROVE  TypeInv'
<1> USE DEF TypeInv
<1>1. ASSUME NEW s \in Slots, LiquidateGross(s) PROVE TypeInv'
  <2>1. positions[s] # NoPosition /\ feed[s].price # 0 /\ positions[s].size \in Sizes
    BY <1>1, DueOpen, EntryType DEF LiquidateGross
  <2>2. slot = 0 /\ CloseGross(s, positions[s].size, Liquidation)
    BY <1>1 DEF LiquidateGross, ControlOK
  <2> QED  BY <2>1, <2>2, CloseGrossType
<1>2. ASSUME NEW s \in Slots, LiquidateNet(s) PROVE TypeInv'
  <2>1. positions[s] # NoPosition /\ feed[s].price # 0 /\ positions[s].size \in Sizes
    BY <1>2, DueOpen, EntryType DEF LiquidateNet
  <2>2. CloseNet(s, positions[s].size, Liquidation)
        /\ lastClose' = Len(events) + 1 /\ UNCHANGED <<pc, thisClose>> /\ pc = "margin"
    BY <1>2 DEF LiquidateNet
  <2>3. /\ TablesOK' /\ CountOK'
        /\ realized' \in Int /\ slotEq' \in [Slots -> Int \cup {NoEquity}]
        /\ UNCHANGED <<run, errors, feed, slot, closing>>
        /\ Len(events) + 1 \in Nat
    BY <2>1, <2>2, CloseNetType
  <2>4. MemoryOK'
    BY <2>2, <2>3 DEF TypeOK, MemoryOK
  <2>5. TickOK' /\ ControlOK'
    BY <2>2, <2>3 DEF TypeOK, TickOK, ControlOK
  <2> QED  BY <2>3, <2>4, <2>5 DEF TypeOK
<1>3. CASE MarginDone
  <2>1. TablesOK' /\ MemoryOK' /\ CountOK'
    BY <1>3, Kept DEF MarginDone, TypeOK
  <2>2. TickOK' /\ ControlOK'
    BY <1>3, Constants DEF MarginDone, TypeOK, TickOK, ControlOK
  <2> QED  BY <2>1, <2>2 DEF TypeOK
<1> QED
  BY <1>1, <1>2, <1>3

LEMMA LedgerInsertType ==
  ASSUME TypeInv, LedgerInsert
  PROVE  TypeInv'
<1> USE DEF TypeInv
<1> DEFINE b == closing.breakdown
           row == [trade |-> breakdowns[b].trade, breakdown |-> b,
                   net |-> breakdowns[b].net, claim |-> breakdowns[b].claim]
<1>1. closing \in ClosingType /\ b \in DOMAIN breakdowns
  BY DEF LedgerInsert, TypeOK, TickOK, ControlOK
<1>2. breakdowns[b] \in BreakdownType
  BY <1>1 DEF TypeOK, TablesOK
<1>3. b \in Positive
  BY <1>1 DEF ClosingType
<1>4. row \in LedgerType
  BY <1>2, <1>3 DEF BreakdownType, LedgerType
<1>5. ledger' = Append(ledger, row)
      /\ UNCHANGED <<positions, trades, breakdowns, events, equity, portfolio, run,
                     lastClose, errors, feed, slot, thisClose, mark, used>>
      /\ closing' = NoClosing /\ pc' = IF slot = 0 THEN "margin" ELSE "equity"
  BY DEF LedgerInsert
<1>6. TablesOK'
  <2> HIDE DEF row
  <2> QED  BY <1>4, <1>5 DEF TypeOK, TablesOK
<1>7. MemoryOK'
  <2>1. closing.slot \in Slots /\ closing.base \in Sizes /\ closing.pnl \in Int
    BY <1>1 DEF ClosingType
  <2>2. realized' \in Int /\ slotEq' \in [Slots -> Int \cup {NoEquity}]
    BY <2>1, BookPnlType DEF LedgerInsert
  <2> QED  BY <1>5, <2>2 DEF TypeOK, MemoryOK
<1>8. CountOK'
  BY <1>5, Kept DEF TypeOK
<1>9. TickOK' /\ ControlOK'
  BY <1>5 DEF LedgerInsert, TypeOK, TickOK, ControlOK
<1> QED
  BY <1>6, <1>7, <1>8, <1>9 DEF TypeOK

LEMMA SlotInHand ==
  ASSUME TypeInv, InSlotLoop
  PROVE  /\ slot \in Slots /\ slot \in 0 .. NumSlots
         /\ Signal \in {-1, 0, 1}
         /\ Ready => feed[slot].price \in Prices /\ feed[slot].price # 0
         /\ run.size[slot] \in Sizes
<1>1. slot \in Slots
  BY DEF InSlotLoop
<1>2. Signal \in {-1, 0, 1}
  BY <1>1, FeedFields DEF Signal, TypeInv
<1>3. Ready => feed[slot].price \in Prices /\ feed[slot].price # 0
  BY <1>1, FeedFields DEF Ready, TypeInv
<1>4. run.size[slot] \in Sizes
  BY <1>1, EntryType DEF TypeInv
<1> QED
  BY <1>1, <1>2, <1>3, <1>4, Constants DEF Slots

LEMMA SkipType ==
  ASSUME TypeInv, SkipSlot \/ RefuseClose \/ Stay
  PROVE  TypeInv'
<1> USE DEF TypeInv, TypeOK
<1>1. CASE SkipSlot
  <2>1. slot \in 0 .. NumSlots
    BY <1>1, SlotInHand DEF SkipSlot
  <2>2. TickOK' /\ ControlOK'
    BY <1>1, <2>1, NextSlotType DEF SkipSlot
  <2>3. MemoryOK'
    BY <1>1, <2>1 DEF SkipSlot, MemoryOK
  <2> QED  BY <1>1, <2>2, <2>3, Kept DEF SkipSlot
<1>2. CASE RefuseClose
  BY <1>2, Kept, LeaveTickType DEF RefuseClose
<1>3. CASE Stay
  <2>1. TickOK' /\ ControlOK'
    BY <1>3, SlotInHand DEF Stay, TickOK, ControlOK, InSlotLoop
  <2> QED  BY <1>3, <2>1, Kept DEF Stay
<1> QED
  BY <1>1, <1>2, <1>3

LEMMA EnterType ==
  ASSUME TypeInv, Enter
  PROVE  TypeInv'
<1> DEFINE p == [entry |-> feed[slot].price, size |-> run.size[slot],
                 leverage |-> Leverage[slot]]
           trade == [slot |-> slot, side |-> "entry", price |-> feed[slot].price,
                     signal |-> 1, pnl |-> 0]
<1>1. /\ slot \in Slots /\ feed[slot].price \in Prices /\ run.size[slot] \in Sizes
      /\ Leverage[slot] \in Positive
  BY SlotInHand, Constants DEF Enter
<1>2. p \in PositionType /\ trade \in TradeType
  BY <1>1 DEF PositionType, TradeType
<1>3. /\ positions' = [positions EXCEPT ![slot] = p]
      /\ trades' = Append(trades, trade)
      /\ slotEq' = [slotEq EXCEPT ![slot] = IF @ = NoEquity THEN run.size[slot] ELSE @]
      /\ pc = "signal" /\ pc' = "equity"
      /\ UNCHANGED <<breakdowns, ledger, events, equity, portfolio, run, realized,
                     lastClose, errors, feed, slot, closing, thisClose, mark, used>>
  BY DEF Enter, InSlotLoop
<1>4. TablesOK'
  <2> HIDE DEF p, trade
  <2>1. positions' \in [Slots -> PositionType \cup {NoPosition}]
    BY <1>2, <1>3 DEF TypeInv, TypeOK, TablesOK
  <2>2. trades' \in Seq(TradeType)
    BY <1>2, <1>3 DEF TypeInv, TypeOK, TablesOK
  <2> QED  BY <1>3, <2>1, <2>2 DEF TypeInv, TypeOK, TablesOK
<1>5. MemoryOK'
  <2>1. run.size[slot] \in Int
    BY <1>1, Constants
  <2> QED  BY <1>3, <2>1 DEF TypeInv, TypeOK, MemoryOK
<1>6. TickOK' /\ ControlOK'
  BY <1>1, <1>3 DEF TypeInv, TypeOK, TickOK, ControlOK
<1>7. CountOK'
  BY <1>3, Kept DEF TypeInv, TypeOK
<1> QED
  BY <1>4, <1>5, <1>6, <1>7 DEF TypeInv, TypeOK

LEMMA ExitType ==
  ASSUME TypeInv, ExitGross \/ ExitNet
  PROVE  TypeInv'
<1>1. /\ slot \in Slots /\ Signal \in {-1, 0, 1, Liquidation}
      /\ feed[slot].price # 0 /\ run.size[slot] \in Sizes
      /\ positions[slot] # NoPosition /\ pc = "signal"
  BY SlotInHand DEF ExitGross, ExitNet, ExitDue, HasPosition, InSlotLoop
<1>2. CASE ExitGross
  BY <1>1, <1>2, CloseGrossType DEF ExitGross
<1>3. CASE ExitNet
  <2>1. CloseNet(slot, run.size[slot], Signal)
        /\ thisClose' = Len(events) + 1 /\ pc' = "equity" /\ UNCHANGED lastClose
    BY <1>3 DEF ExitNet
  <2>2. /\ TablesOK' /\ CountOK'
        /\ realized' \in Int /\ slotEq' \in [Slots -> Int \cup {NoEquity}]
        /\ UNCHANGED <<run, errors, feed, slot, closing>>
        /\ Len(events) + 1 \in Nat
    BY <1>1, <2>1, CloseNetType DEF TypeInv
  <2>3. MemoryOK'
    BY <2>1, <2>2 DEF TypeInv, TypeOK, MemoryOK
  <2>4. TickOK' /\ ControlOK'
    BY <1>1, <2>1, <2>2 DEF TypeInv, TypeOK, TickOK, ControlOK
  <2> QED  BY <2>2, <2>3, <2>4 DEF TypeInv, TypeOK
<1> QED
  BY <1>2, <1>3

\* A source row completes the last snapshot row and changes no other.
LEMMA WithSourceType ==
  ASSUME NEW e \in Nat, NEW rows, rows # <<>>
  PROVE  /\ rows \in Seq(EquityType) => WithSource(rows, e) \in Seq(EquityType)
         /\ rows \in Seq(PortfolioType) => WithSource(rows, e) \in Seq(PortfolioType)
<1> DEFINE src == IF e = 0 THEN "legacy" ELSE "net"
           Done(r) == [r EXCEPT !.source = src, !.event = e]
<1>1. src \in Sources
  BY DEF Sources
<1>2. ASSUME NEW T, rows \in Seq(T), \A r \in T : Done(r) \in T
      PROVE  WithSource(rows, e) \in Seq(T)
  <2> HIDE DEF Done
  <2>1. Len(rows) \in 1 .. Len(rows) /\ rows[Len(rows)] \in T
    BY <1>2
  <2>2. Done(rows[Len(rows)]) \in T
    BY <1>2, <2>1
  <2>3. WithSource(rows, e) = [rows EXCEPT ![Len(rows)] = Done(rows[Len(rows)])]
    BY DEF WithSource, Done
  <2> QED  BY <1>2, <2>1, <2>2, <2>3, ExceptSeq
<1>3. \A r \in EquityType : Done(r) \in EquityType
  <2> HIDE DEF src
  <2> QED  BY <1>1 DEF EquityType
<1>4. \A r \in PortfolioType : Done(r) \in PortfolioType
  <2> HIDE DEF src
  <2> QED  BY <1>1 DEF PortfolioType
<1> QED
  BY <1>2, <1>3, <1>4

LEMMA SnapshotType ==
  ASSUME TypeInv,
         EquitySnapshot \/ EquitySource \/ PortfolioSnapshot \/ PortfolioSource
  PROVE  TypeInv'
<1> USE DEF TypeInv, TypeOK
<1>1. CASE EquitySnapshot
  <2> DEFINE row == [slot |-> slot, equity |-> SlotEquity(slot), source |-> "none",
                     event |-> 0]
  <2>1. slot \in Slots /\ SlotEquity(slot) \in Int
    BY <1>1 DEF EquitySnapshot, ControlOK, SlotEquity, MemoryOK
  <2>2. row \in EquityType
    BY <2>1 DEF EquityType, Sources
  <2>3. equity' = Append(equity, row) /\ pc' = "source"
        /\ UNCHANGED <<positions, trades, breakdowns, ledger, events, portfolio,
                       memory, feed, slot, closing, thisClose, mark, used>>
        /\ pc = "equity"
    BY <1>1 DEF EquitySnapshot
  <2> HIDE DEF row
  <2>4. TablesOK' /\ equity' # <<>>
    BY <2>2, <2>3 DEF TablesOK
  <2>5. TickOK' /\ ControlOK'
    BY <2>1, <2>3, <2>4 DEF TickOK, ControlOK
  <2> QED  BY <2>3, <2>4, <2>5, Kept
<1>2. CASE EquitySource
  <2>1. slot \in 0 .. NumSlots /\ equity # <<>>
    BY <1>2, Constants DEF EquitySource, ControlOK, Slots
  <2>2. SourceClose \in Nat
    BY DEF SourceClose, TickOK, MemoryOK
  <2>3. TablesOK'
    BY <1>2, <2>1, <2>2, WithSourceType DEF EquitySource, TablesOK
  <2>4. MemoryOK'
    BY <1>2 DEF EquitySource, MemoryOK, TickOK
  <2>5. TickOK' /\ ControlOK'
    BY <1>2, <2>1, NextSlotType DEF EquitySource
  <2> QED  BY <1>2, <2>3, <2>4, <2>5, Kept DEF EquitySource
<1>3. CASE PortfolioSnapshot
  <2> DEFINE row == [equity |-> InitialCapital + realized, source |-> "none", event |-> 0]
  <2>1. row \in PortfolioType
    BY PaperAssumption DEF PaperAssumption, PortfolioType, Sources, MemoryOK, Positive
  <2>2. portfolio' = Append(portfolio, row) /\ pc' = "portfolio"
        /\ UNCHANGED <<positions, trades, breakdowns, ledger, events, equity, memory,
                       feed, slot, closing, thisClose, mark, used>>
        /\ pc = "signal"
    BY <1>3 DEF PortfolioSnapshot
  <2> HIDE DEF row
  <2>3. TablesOK' /\ portfolio' # <<>>
    BY <2>1, <2>2 DEF TablesOK
  <2>4. TickOK' /\ ControlOK'
    BY <2>2, <2>3 DEF TickOK, ControlOK
  <2> QED  BY <2>2, <2>3, <2>4, Kept
<1>4. CASE PortfolioSource
  <2>1. portfolio # <<>> /\ lastClose \in Nat
    BY <1>4 DEF PortfolioSource, ControlOK, MemoryOK
  <2>2. TablesOK'
    BY <1>4, <2>1, WithSourceType DEF PortfolioSource, TablesOK
  <2> QED  BY <1>4, <2>2, Kept, LeaveTickType DEF PortfolioSource
<1> QED
  BY <1>1, <1>2, <1>3, <1>4

LEMMA FaultType ==
  ASSUME TypeInv, Fault
  PROVE  TypeInv'
<1> USE DEF TypeInv, TypeOK
<1>1. CASE StatementFault
  <2>1. slot \in 0 .. NumSlots
    BY <1>1, SlotInHand, Constants DEF StatementFault, ControlOK, Slots
  <2>2. TickOK' /\ ControlOK'
    BY <1>1, <2>1, NextSlotType DEF StatementFault
  <2>3. MemoryOK' /\ CountOK'
    BY <1>1, <2>1 DEF StatementFault, CountFault, MemoryOK, CountOK
  <2> QED  BY <1>1, <2>2, <2>3, Kept DEF StatementFault
<1>2. ASSUME NEW s \in Slots, NEW sig \in {-1, 0, Liquidation}, UnbookedClose(s, sig)
      PROVE  TypeInv'
  <2>1. /\ positions[s] # NoPosition /\ feed[s].price # 0 /\ slot \in 0 .. NumSlots
    BY <1>2, DueOpen, SlotInHand, Constants
    DEF UnbookedClose, ExitDue, HasPosition, ControlOK, Slots
  <2>2. feed[s].price \in Prices
    BY <2>1, FeedFields
  <2>3. TablesOK'
    BY <1>2, <2>1, <2>2, NetRowsTables DEF UnbookedClose
  <2>4. TickOK' /\ ControlOK'
    BY <1>2, <2>1, NextSlotType DEF UnbookedClose
  <2>5. MemoryOK' /\ CountOK'
    BY <1>2, <2>1 DEF UnbookedClose, CountFault, MemoryOK, CountOK
  <2> QED  BY <2>3, <2>4, <2>5
<1>3. CASE AbortFault
  <2>1. CountOK'
    BY <1>3 DEF AbortFault, CountFault, CountOK
  <2> QED  BY <1>3, <2>1, Kept, LeaveTickType DEF AbortFault
<1> QED
  BY <1>1, <1>2, <1>3 DEF Fault

LEMMA TypeStep == TypeInv /\ [Next]_vars => TypeInv'
<1> SUFFICES ASSUME TypeInv, [Next]_vars PROVE TypeInv'
  OBVIOUS
<1>1. CASE Start \/ Crash
  BY <1>1, ProcessLifeType
<1>2. ASSUME NEW f \in [Slots -> Feeds], BeginTick(f) \/ RefuseTick(f) PROVE TypeInv'
  BY <1>2, TickStartType
<1>3. CASE Tick
  BY <1>3, MarginPhaseType, LedgerInsertType, SkipType, EnterType, ExitType, SnapshotType
  DEF Tick
<1>4. CASE Fault
  BY <1>4, FaultType
<1>5. CASE UNCHANGED vars
  <2>1. UNCHANGED <<tables, memory, control>> /\ UNCHANGED <<mark, used>>
    BY <1>5 DEF vars
  <2>2. ControlOK'
    BY <2>1 DEF TypeInv, ControlOK, tables, control
  <2> QED  BY <2>1, <2>2, Kept DEF TypeInv, TypeOK
<1> QED
  BY <1>1, <1>2, <1>3, <1>4, <1>5 DEF Next

\* TypeInv, the strengthening of TypeOK, holds in every reachable state.
THEOREM TypeInvariant == Spec => []TypeInv
<1> QED
  BY TypeInit, TypeStep, PTL DEF Spec

\* The tables, the PositionManager and the tick in hand keep their shape: in
\* particular the slot loop never leaves the slots and a ledger row is only ever
\* written from a breakdown row that exists.
THEOREM TypeCorrect == Spec => []TypeOK
<1>1. TypeInv => TypeOK
  BY DEF TypeInv
<1> QED
  BY <1>1, TypeInvariant, PTL

Sigs == {-1, 0, 1, Liquidation}

(***************************************************************************)
(* Fills.  Only two kinds of step touch positions and trades.              *)
(***************************************************************************)
\* A step that opens a position in s, at the price of the entry it records.
Opened(s) ==
  /\ positions[s] = NoPosition
  /\ \E p \in PositionType, t \in TradeType :
       /\ t.slot = s /\ t.side = "entry" /\ t.price = p.entry
       /\ positions' = [positions EXCEPT ![s] = p]
       /\ trades' = Append(trades, t)

\* A step that closes the position of s and records the exit.
Closed(s) ==
  /\ positions[s] # NoPosition
  /\ \E t \in TradeType :
       /\ t.slot = s /\ t.side = "exit"
       /\ positions' = [positions EXCEPT ![s] = NoPosition]
       /\ trades' = Append(trades, t)

LEMMA CloseRowsClosed ==
  ASSUME TypeOK, NEW s \in Slots, positions[s] # NoPosition,
         NEW price \in Prices, NEW sig \in Sigs, CloseRows(s, price, sig)
  PROVE  Closed(s)
<1> DEFINE gross == Gross(positions[s], price)
           t == [slot |-> s, side |-> "exit", price |-> price, signal |-> sig,
                 pnl |-> gross]
<1>1. gross \in Int
  BY GrossType DEF TypeOK, TablesOK
<1>2. t \in TradeType
  <2> HIDE DEF gross
  <2> QED  BY <1>1 DEF TradeType, Sigs
<1>3. /\ positions' = [positions EXCEPT ![s] = NoPosition]
      /\ trades' = Append(trades, t)
  BY DEF CloseRows
<1>4. t.slot = s /\ t.side = "exit"
  OBVIOUS
<1> HIDE DEF t
<1> QED
  BY <1>2, <1>3, <1>4 DEF Closed

LEMMA EnterOpened ==
  ASSUME TypeInv, Enter
  PROVE  slot \in Slots /\ Opened(slot)
<1> DEFINE p == [entry |-> feed[slot].price, size |-> run.size[slot],
                 leverage |-> Leverage[slot]]
           t == [slot |-> slot, side |-> "entry", price |-> feed[slot].price,
                 signal |-> 1, pnl |-> 0]
<1>1. /\ slot \in Slots /\ feed[slot].price \in Prices /\ run.size[slot] \in Sizes
      /\ Leverage[slot] \in Positive
  BY SlotInHand, Constants DEF Enter
<1>2. p \in PositionType /\ t \in TradeType
  BY <1>1 DEF PositionType, TradeType
<1>3. /\ positions[slot] = NoPosition
      /\ positions' = [positions EXCEPT ![slot] = p]
      /\ trades' = Append(trades, t)
  BY DEF Enter, HasPosition
<1>4. t.slot = slot /\ t.side = "entry" /\ t.price = p.entry
  OBVIOUS
<1> HIDE DEF p, t
<1> QED
  BY <1>1, <1>2, <1>3, <1>4 DEF Opened

\* A committed close of slot s, whatever the code does with it afterwards.
Close(s) == pc # "ledger" /\ \E sig \in Sigs :
  \/ /\ run.mode = "legacy_gross"
     /\ CloseRows(s, feed[s].price, sig)
     /\ pc' = "ledger" /\ closing'.breakdown = Len(breakdowns) + 1
     /\ UNCHANGED <<ledger, events, lastClose, thisClose>>
  \/ /\ run.mode = "estimated_net" /\ ClaimAllowed
     /\ NetRows(s, feed[s].price, sig)
     /\ pc' # "ledger"
     /\ \/ lastClose' = Len(events) + 1 /\ UNCHANGED thisClose
        \/ thisClose' = Len(events) + 1 /\ UNCHANGED lastClose
        \/ thisClose' = 0 /\ UNCHANGED lastClose

\* Steps that touch none of the tables a fill is written to.
Quiet == UNCHANGED <<positions, trades, breakdowns, ledger, events>>

\* Every step is quiet, opens a position, closes one the tick has a price for, or
\* completes a gross close.
LEMMA StepKinds ==
  ASSUME TypeInv, [Next]_vars
  PROVE  \/ Quiet
         \/ Enter
         \/ LedgerInsert
         \/ \E s \in Slots : /\ positions[s] # NoPosition /\ feed[s].price \in Prices
                             /\ Close(s)
                             /\ UNCHANGED <<run, feed, equity>>
<1> DEFINE Kind == \/ Quiet
                   \/ Enter
                   \/ LedgerInsert
                   \/ \E s \in Slots : /\ positions[s] # NoPosition
                                       /\ feed[s].price \in Prices
                                       /\ Close(s)
                                       /\ UNCHANGED <<run, feed, equity>>
<1> SUFFICES Kind
  OBVIOUS
<1> USE DEF TypeInv
<1> HIDE DEF Kind
<1>1. ASSUME NEW s \in Slots, LiquidateGross(s) \/ LiquidateNet(s) PROVE Kind
  <2>1. positions[s] # NoPosition /\ feed[s].price # 0
    BY <1>1, DueOpen DEF LiquidateGross, LiquidateNet
  <2>2. feed[s].price \in Prices
    BY <2>1, FeedFields
  <2>3. UNCHANGED <<run, feed, equity>>
    BY <1>1 DEF LiquidateGross, LiquidateNet, CloseGross, CloseNet, memory
  <2>4. CASE LiquidateGross(s)
    <3>1. Close(s)
      BY <2>4 DEF LiquidateGross, CloseGross, Close, Sigs, memory
    <3> QED  BY <2>1, <2>2, <2>3, <3>1 DEF Kind
  <2>5. CASE LiquidateNet(s)
    <3>1. Close(s)
      BY <2>5 DEF LiquidateNet, CloseNet, Close, Sigs
    <3> QED  BY <2>1, <2>2, <2>3, <3>1 DEF Kind
  <2> QED  BY <1>1, <2>4, <2>5
<1>2. ASSUME ExitGross \/ ExitNet PROVE Kind
  <2>1. /\ slot \in Slots /\ positions[slot] # NoPosition /\ feed[slot].price \in Prices
        /\ Signal \in Sigs
    BY <1>2, SlotInHand DEF ExitGross, ExitNet, ExitDue, HasPosition, Sigs
  <2>2. UNCHANGED <<run, feed, equity>>
    BY <1>2 DEF ExitGross, ExitNet, CloseGross, CloseNet, memory
  <2>3. CASE ExitGross
    <3>1. Close(slot)
      BY <2>1, <2>3 DEF ExitGross, ExitDue, InSlotLoop, CloseGross, Close, memory
    <3> QED  BY <2>1, <2>2, <3>1 DEF Kind
  <2>4. CASE ExitNet
    <3>1. Close(slot)
      BY <2>1, <2>4 DEF ExitNet, ExitDue, InSlotLoop, CloseNet, Close
    <3> QED  BY <2>1, <2>2, <3>1 DEF Kind
  <2> QED  BY <1>2, <2>3, <2>4
<1>3. ASSUME NEW s \in Slots, NEW sig \in {-1, 0, Liquidation}, UnbookedClose(s, sig)
      PROVE  Kind
  <2>1. positions[s] # NoPosition /\ feed[s].price \in Prices
    BY <1>3, DueOpen, SlotInHand, FeedFields DEF UnbookedClose, ExitDue, HasPosition
  <2>2. UNCHANGED <<run, feed, equity>> /\ Close(s)
    BY <1>3 DEF UnbookedClose, ExitDue, InSlotLoop, NextSlot, Close, Sigs
  <2> QED  BY <2>1, <2>2 DEF Kind
<1>4. CASE Start \/ Crash \/ (\E f \in [Slots -> Feeds] : BeginTick(f) \/ RefuseTick(f))
           \/ UNCHANGED vars
  BY <1>4 DEF Kind, Quiet, Start, Crash, BeginTick, RefuseTick, vars, tables
<1>5. CASE MarginDone \/ LedgerInsert \/ SkipSlot \/ RefuseClose \/ Enter \/ Stay
           \/ EquitySnapshot \/ EquitySource \/ PortfolioSnapshot \/ PortfolioSource
  BY <1>5 DEF Kind, Quiet, MarginDone, SkipSlot, RefuseClose, Stay,
     EquitySnapshot, EquitySource, PortfolioSnapshot, PortfolioSource, tables
<1>6. CASE StatementFault \/ AbortFault
  BY <1>6 DEF Kind, Quiet, StatementFault, AbortFault, tables
<1> QED
  BY <1>1, <1>2, <1>3, <1>4, <1>5, <1>6 DEF Next, Tick, Fault

LEMMA StepFills ==
  ASSUME TypeInv, [Next]_vars
  PROVE  \/ UNCHANGED <<positions, trades>>
         \/ \E s \in Slots : Opened(s) \/ Closed(s)
<1>1. CASE Quiet \/ LedgerInsert
  BY <1>1 DEF Quiet, LedgerInsert
<1>2. CASE Enter
  BY <1>2, EnterOpened
<1>3. ASSUME NEW s \in Slots, positions[s] # NoPosition, feed[s].price \in Prices, Close(s)
      PROVE  Closed(s)
  <2>1. PICK sig \in Sigs : CloseRows(s, feed[s].price, sig)
    BY <1>3 DEF Close, NetRows
  <2> QED  BY <1>3, <2>1, CloseRowsClosed DEF TypeInv
<1> QED
  BY <1>1, <1>2, <1>3, StepKinds

(***************************************************************************)
(* PositionsMatchTrades.  Its equivalence does not say that an entry at    *)
(* another price than the position's cannot be the last trade of a slot;   *)
(* the two implications kept here do.                                      *)
(***************************************************************************)
\* An open position is the last trade of its slot.
OpenOnRecord ==
  \A s \in Slots : positions[s] # NoPosition =>
    \E i \in DOMAIN trades : /\ trades[i].slot = s /\ IsLast(i)
                             /\ trades[i].side = "entry"
                             /\ positions[s].entry = trades[i].price

\* A slot whose last trade is an entry holds a position.
EntryOpen ==
  \A i \in DOMAIN trades :
    IsLast(i) /\ trades[i].side = "entry" => positions[trades[i].slot] # NoPosition

SidesAlternate ==
  \A i, j \in DOMAIN trades : Follows(i, j) => trades[i].side # trades[j].side

ExitsFollow ==
  \A i \in DOMAIN trades :
    trades[i].side = "exit" => \E h \in DOMAIN trades : Follows(h, i)

FillsInv == OpenOnRecord /\ EntryOpen /\ SidesAlternate /\ ExitsFollow

LEMMA FillsMatch == TypeOK /\ FillsInv => PositionsMatchTrades
<1> SUFFICES ASSUME TypeOK, FillsInv PROVE PositionsMatchTrades
  OBVIOUS
<1>1. ASSUME NEW s \in Slots, NEW i \in DOMAIN trades,
             trades[i].slot = s, IsLast(i), trades[i].side = "entry"
      PROVE  positions[s] # NoPosition
  BY <1>1 DEF FillsInv, EntryOpen
<1> QED
  BY <1>1 DEF FillsInv, OpenOnRecord, SidesAlternate, ExitsFollow, PositionsMatchTrades

\* What an appended trade does to the history of the slots.
LEMMA AppendedTrade ==
  ASSUME TypeOK, NEW t \in TradeType, trades' = Append(trades, t)
  PROVE  /\ Len(trades) \in Nat
         /\ DOMAIN trades = 1 .. Len(trades)
         /\ DOMAIN trades' = 1 .. Len(trades) + 1
         /\ \A i \in DOMAIN trades : trades'[i] = trades[i] /\ trades[i].slot \in Slots
         /\ trades'[Len(trades) + 1] = t
         /\ \A i \in DOMAIN trades' : IsLast(i)' <=>
              \/ i = Len(trades) + 1
              \/ i \in DOMAIN trades /\ IsLast(i) /\ trades[i].slot # t.slot
         /\ \A i, j \in DOMAIN trades' : Follows(i, j)' <=>
              \/ i \in DOMAIN trades /\ j \in DOMAIN trades /\ Follows(i, j)
              \/ /\ i \in DOMAIN trades /\ j = Len(trades) + 1
                 /\ IsLast(i) /\ trades[i].slot = t.slot
<1> DEFINE n == Len(trades)
<1>1. /\ n \in Nat /\ DOMAIN trades = 1 .. n /\ DOMAIN trades' = 1 .. n + 1
      /\ \A i \in DOMAIN trades : trades'[i] = trades[i]
      /\ trades'[n + 1] = t
  BY DEF TypeOK, TablesOK
<1>2. \A i \in DOMAIN trades : trades[i].slot \in Slots
  <2>1. \A i \in DOMAIN trades : trades[i] \in TradeType
    BY DEF TypeOK, TablesOK
  <2> QED  BY <2>1 DEF TradeType
<1> HIDE DEF n
<1>3. ASSUME NEW i \in DOMAIN trades'
      PROVE  IsLast(i)' <=> \/ i = n + 1
                            \/ i \in DOMAIN trades /\ IsLast(i) /\ trades[i].slot # t.slot
  <2>1. CASE i = n + 1
    BY <1>1, <2>1 DEF IsLast
  <2>2. CASE i \in DOMAIN trades
    BY <1>1, <2>2 DEF IsLast
  <2> QED  BY <1>1, <2>1, <2>2
<1>4. ASSUME NEW i \in DOMAIN trades', NEW j \in DOMAIN trades'
      PROVE  Follows(i, j)' <=>
               \/ i \in DOMAIN trades /\ j \in DOMAIN trades /\ Follows(i, j)
               \/ i \in DOMAIN trades /\ j = n + 1 /\ IsLast(i) /\ trades[i].slot = t.slot
  <2>1. CASE i = n + 1
    BY <1>1, <2>1 DEF Follows
  <2>2. CASE i \in DOMAIN trades /\ j \in DOMAIN trades
    BY <1>1, <2>2 DEF Follows
  <2>3. CASE i \in DOMAIN trades /\ j = n + 1
    BY <1>1, <2>3 DEF Follows, IsLast
  <2> QED  BY <1>1, <2>1, <2>2, <2>3
<1> QED
  BY <1>1, <1>2, <1>3, <1>4 DEF n

LEMMA FillsStep ==
  ASSUME TypeInv, FillsInv, [Next]_vars
  PROVE  FillsInv'
<1> USE DEF TypeInv
<1>1. CASE UNCHANGED <<positions, trades>>
  BY <1>1 DEF FillsInv, OpenOnRecord, EntryOpen, SidesAlternate, ExitsFollow, IsLast, Follows
<1>2. ASSUME NEW s \in Slots, Opened(s) \/ Closed(s) PROVE FillsInv'
  <2> PICK n \in Nat : n = Len(trades)
    BY DEF TypeOK, TablesOK
  <2>1. PICK t \in TradeType :
          /\ t.slot = s /\ trades' = Append(trades, t)
          /\ \A r \in Slots \ {s} : positions'[r] = positions[r]
          /\ \/ /\ t.side = "entry" /\ positions[s] = NoPosition
                /\ positions'[s] # NoPosition /\ positions'[s].entry = t.price
             \/ /\ t.side = "exit" /\ positions[s] # NoPosition
                /\ positions'[s] = NoPosition
    <3>1. CASE Opened(s)
      <4>1. PICK p \in PositionType, t \in TradeType :
              /\ t.slot = s /\ t.side = "entry" /\ t.price = p.entry
              /\ positions' = [positions EXCEPT ![s] = p]
              /\ trades' = Append(trades, t)
        BY <3>1 DEF Opened
      <4>2. p # NoPosition
        BY PaperAssumption DEF PaperAssumption
      <4> QED  BY <3>1, <4>1, <4>2 DEF Opened, TypeOK, TablesOK
    <3>2. CASE Closed(s)
      BY <3>2 DEF Closed, TypeOK, TablesOK
    <3> QED  BY <1>2, <3>1, <3>2
  <2>2. /\ n \in Nat
        /\ DOMAIN trades = 1 .. n /\ DOMAIN trades' = 1 .. n + 1
        /\ \A i \in DOMAIN trades : trades'[i] = trades[i] /\ trades[i].slot \in Slots
        /\ trades'[n + 1] = t
    BY <2>1, AppendedTrade
  <2>3. \A i \in DOMAIN trades' : IsLast(i)' <=>
          \/ i = n + 1
          \/ i \in DOMAIN trades /\ IsLast(i) /\ trades[i].slot # s
    BY <2>1, AppendedTrade
  <2>4. \A i, j \in DOMAIN trades' : Follows(i, j)' <=>
          \/ i \in DOMAIN trades /\ j \in DOMAIN trades /\ Follows(i, j)
          \/ i \in DOMAIN trades /\ j = n + 1 /\ IsLast(i) /\ trades[i].slot = s
    BY <2>1, AppendedTrade
  <2>5. OpenOnRecord'
    <3> SUFFICES ASSUME NEW r \in Slots, positions'[r] # NoPosition
                 PROVE  \E i \in DOMAIN trades' :
                          /\ trades'[i].slot = r /\ IsLast(i)'
                          /\ trades'[i].side = "entry"
                          /\ positions'[r].entry = trades'[i].price
      BY DEF OpenOnRecord
    <3>1. CASE r = s
      <4>1. n + 1 \in DOMAIN trades' /\ IsLast(n + 1)'
        BY <2>2, <2>3
      <4> QED  BY <2>1, <2>2, <3>1, <4>1
    <3>2. CASE r # s
      <4>1. PICK i \in DOMAIN trades : /\ trades[i].slot = r /\ IsLast(i)
                                       /\ trades[i].side = "entry"
                                       /\ positions[r].entry = trades[i].price
        BY <2>1, <3>2 DEF FillsInv, OpenOnRecord
      <4>2. i \in DOMAIN trades' /\ IsLast(i)'
        BY <2>2, <2>3, <3>2, <4>1
      <4> QED  BY <2>1, <2>2, <3>2, <4>1, <4>2
    <3> QED  BY <3>1, <3>2
  <2>6. EntryOpen'
    <3> SUFFICES ASSUME NEW i \in DOMAIN trades', IsLast(i)', trades'[i].side = "entry"
                 PROVE  positions'[trades'[i].slot] # NoPosition
      BY DEF EntryOpen
    <3>1. CASE i = n + 1
      BY <2>1, <2>2, <3>1
    <3>2. CASE i # n + 1
      <4>1. i \in DOMAIN trades /\ IsLast(i) /\ trades[i].slot # s
        BY <2>3, <3>2
      <4> QED  BY <2>1, <2>2, <4>1 DEF FillsInv, EntryOpen
    <3> QED  BY <3>1, <3>2
  <2>7. SidesAlternate'
    <3> SUFFICES ASSUME NEW i \in DOMAIN trades', NEW j \in DOMAIN trades', Follows(i, j)'
                 PROVE  trades'[i].side # trades'[j].side
      BY DEF SidesAlternate
    <3>1. CASE i \in DOMAIN trades /\ j \in DOMAIN trades /\ Follows(i, j)
      BY <2>2, <3>1 DEF FillsInv, SidesAlternate
    <3>2. CASE i \in DOMAIN trades /\ j = n + 1 /\ IsLast(i) /\ trades[i].slot = s
      <4>1. positions[s] = NoPosition => trades[i].side # "entry"
        BY <3>2 DEF FillsInv, EntryOpen
      <4>2. positions[s] # NoPosition => trades[i].side = "entry"
        <5>1. SUFFICES ASSUME positions[s] # NoPosition PROVE trades[i].side = "entry"
          OBVIOUS
        <5>2. PICK h \in DOMAIN trades : /\ trades[h].slot = s /\ IsLast(h)
                                         /\ trades[h].side = "entry"
          BY <5>1 DEF FillsInv, OpenOnRecord
        <5>3. h = i
          BY <2>2, <3>2, <5>2 DEF IsLast
        <5> QED  BY <5>2, <5>3
      <4> QED  BY <2>1, <2>2, <3>2, <4>1, <4>2
    <3> QED  BY <2>4, <3>1, <3>2
  <2>8. ExitsFollow'
    <3> SUFFICES ASSUME NEW i \in DOMAIN trades', trades'[i].side = "exit"
                 PROVE  \E h \in DOMAIN trades' : Follows(h, i)'
      BY DEF ExitsFollow
    <3>1. CASE i = n + 1
      <4>1. PICK h \in DOMAIN trades : trades[h].slot = s /\ IsLast(h)
        BY <2>1, <2>2, <3>1 DEF FillsInv, OpenOnRecord
      <4> QED  BY <2>2, <2>4, <3>1, <4>1
    <3>2. CASE i # n + 1
      <4>1. i \in DOMAIN trades
        BY <2>2, <3>2
      <4>2. PICK h \in DOMAIN trades : Follows(h, i)
        BY <2>2, <4>1 DEF FillsInv, ExitsFollow
      <4> QED  BY <2>2, <2>4, <4>1, <4>2
    <3> QED  BY <3>1, <3>2
  <2> QED
    BY <2>5, <2>6, <2>7, <2>8 DEF FillsInv
<1> QED
  BY <1>1, <1>2, StepFills

LEMMA FillsInit == Init => FillsInv
BY DEF Init, FillsInv, OpenOnRecord, EntryOpen, SidesAlternate, ExitsFollow

\* Whatever crashes and failing statements fall between the commits, trades of a
\* slot alternate and the open positions are the slots whose last trade is an entry.
THEOREM PositionsMatch == Spec => []PositionsMatchTrades
<1>1. TypeInv => TypeOK
  BY DEF TypeInv
<1>2. TypeInv /\ FillsInv /\ [Next]_vars => FillsInv'
  BY FillsStep
<1> QED
  BY <1>1, <1>2, FillsInit, FillsMatch, TypeInvariant, PTL DEF Spec

(***************************************************************************)
(* The paper trader implements the position book.                          *)
(***************************************************************************)
Long == {s \in Slots : positions[s] # NoPosition}
FillOf(t) == [slot |-> t.slot, side |-> t.side]
Fills == [i \in DOMAIN trades |-> FillOf(trades[i])]

LEMMA FillsAppend ==
  ASSUME TypeOK, NEW t \in TradeType, trades' = Append(trades, t)
  PROVE  Fills' = Append(Fills, FillOf(t))
<1> DEFINE T == {FillOf(r) : r \in TradeType}
<1>1. PICK n \in Nat : n = Len(trades)
  BY DEF TypeOK, TablesOK
<1>2. /\ DOMAIN trades = 1 .. n /\ DOMAIN trades' = 1 .. n + 1
      /\ \A i \in 1 .. n : trades[i] \in TradeType /\ trades'[i] = trades[i]
      /\ trades'[n + 1] = t
  BY <1>1 DEF TypeOK, TablesOK
<1> HIDE DEF T
<1>3. Fills \in [1 .. n -> T]
  BY <1>2 DEF Fills, T
<1>4. Fills \in Seq(T) /\ Len(Fills) = n
  BY <1>3
<1>5. FillOf(t) \in T
  BY DEF T
<1>6. /\ Append(Fills, FillOf(t)) \in [1 .. n + 1 -> T]
      /\ \A i \in 1 .. n : Append(Fills, FillOf(t))[i] = FillOf(trades[i])
      /\ Append(Fills, FillOf(t))[n + 1] = FillOf(t)
  <2>1. Append(Fills, FillOf(t)) \in Seq(T) /\ Len(Append(Fills, FillOf(t))) = n + 1
    BY <1>4, <1>5, AppendProperties
  <2>2. \A i \in 1 .. n : Append(Fills, FillOf(t))[i] = Fills[i]
    BY <1>4, <1>5, AppendProperties
  <2>3. Append(Fills, FillOf(t))[n + 1] = FillOf(t)
    BY <1>4, <1>5, AppendProperties
  <2> QED  BY <1>2, <2>1, <2>2, <2>3, LenProperties DEF Fills
<1>7. Fills' = [i \in 1 .. n + 1 |-> FillOf(trades'[i])]
  BY <1>2 DEF Fills
<1> DEFINE F == Append(Fills, FillOf(t))
<1>8. F \in [1 .. n + 1 -> T] /\ \A i \in 1 .. n + 1 : F[i] = FillOf(trades'[i])
  <2> HIDE DEF F
  <2>1. ASSUME NEW i \in 1 .. n + 1 PROVE F[i] = FillOf(trades'[i])
    BY <1>2, <1>6 DEF F
  <2> QED  BY <1>6, <2>1 DEF F
<1> HIDE DEF F
<1>9. F = [i \in 1 .. n + 1 |-> FillOf(trades'[i])]
  BY <1>8
<1> QED
  BY <1>7, <1>9 DEF F

LEMMA BookInit == Init => Book!Init
BY DEF Init, Book!Init

LEMMA BookStep ==
  ASSUME TypeInv, [Next]_vars
  PROVE  [Book!Next]_(Book!vars)
<1>1. Book!vars = <<Long, Fills>>
  BY DEF Book!vars, Long, Fills, FillOf
<1>2. CASE UNCHANGED <<positions, trades>>
  BY <1>1, <1>2 DEF Book!vars
<1>3. ASSUME NEW s \in Slots, Opened(s) PROVE Book!Next
  <2>1. PICK p \in PositionType, t \in TradeType :
          /\ t.slot = s /\ t.side = "entry"
          /\ positions' = [positions EXCEPT ![s] = p]
          /\ trades' = Append(trades, t)
    BY <1>3 DEF Opened
  <2>2. p # NoPosition
    BY PaperAssumption DEF PaperAssumption
  <2>3. s \notin Long /\ Long' = Long \cup {s}
    BY <1>3, <2>1, <2>2 DEF Opened, Long, TypeInv, TypeOK, TablesOK
  <2>4. Fills' = Append(Fills, [slot |-> s, side |-> "entry"])
    BY <2>1, FillsAppend DEF FillOf, TypeInv
  <2>5. Book!Enter(s)
    BY <2>3, <2>4 DEF Book!Enter, Long, Fills, FillOf
  <2> QED  BY <2>5 DEF Book!Next
<1>4. ASSUME NEW s \in Slots, Closed(s) PROVE Book!Next
  <2>1. PICK t \in TradeType :
          /\ t.slot = s /\ t.side = "exit"
          /\ positions' = [positions EXCEPT ![s] = NoPosition]
          /\ trades' = Append(trades, t)
    BY <1>4 DEF Closed
  <2>2. s \in Long /\ Long' = Long \ {s}
    BY <1>4, <2>1 DEF Closed, Long, TypeInv, TypeOK, TablesOK
  <2>3. Fills' = Append(Fills, [slot |-> s, side |-> "exit"])
    BY <2>1, FillsAppend DEF FillOf, TypeInv
  <2>4. Book!Exit(s)
    BY <2>2, <2>3 DEF Book!Exit, Long, Fills, FillOf
  <2> QED  BY <2>4 DEF Book!Next
<1> QED
  BY <1>2, <1>3, <1>4, StepFills

\* Every behaviour of the trader, crashes and failing statements included, is a
\* behaviour of the position book: a step is one fill of it or leaves it as it is.
THEOREM ImplementsBook == Spec => BookSpec
<1>1. TypeInv /\ [Next]_vars => [Book!Next]_(Book!vars)
  BY BookStep
<1> QED
  BY <1>1, BookInit, TypeInvariant, PTL DEF Spec, BookSpec, Book!Spec

(***************************************************************************)
(* Failing closed.                                                         *)
(***************************************************************************)
\* Only a gross close waits for its ledger row, and no start falls in between.
GrossLedger == pc = "ledger" => run.mode = "legacy_gross"

\* Whoever arrives at "ledger" has just closed a position.
LEMMA ArrivesAtLedger ==
  ASSUME TypeInv, [Next]_vars, pc' = "ledger"
  PROVE  \/ UNCHANGED vars
         \/ /\ run.mode = "legacy_gross" /\ run' = run
            /\ closing'.breakdown = Len(breakdowns) + 1
            /\ \E s \in Slots : Close(s)
<1>1. CASE UNCHANGED vars
  BY <1>1
<1>2. CASE Start \/ Crash \/ (\E f \in [Slots -> Feeds] : BeginTick(f) \/ RefuseTick(f))
           \/ MarginDone \/ LedgerInsert \/ SkipSlot \/ RefuseClose \/ Enter \/ Stay
           \/ EquitySnapshot \/ EquitySource \/ PortfolioSnapshot \/ PortfolioSource
           \/ StatementFault \/ AbortFault
  <2>1. pc' # "ledger"
    BY <1>2 DEF Start, Crash, BeginTick, RefuseTick, CountTick, MarginDone, LedgerInsert,
       SkipSlot, RefuseClose, Enter, Stay, EquitySnapshot, EquitySource, PortfolioSnapshot,
       PortfolioSource, StatementFault, AbortFault, LeaveTick, NextSlot, control
  <2> QED  BY <2>1
<1>3. CASE (\E s \in Slots : LiquidateNet(s)) \/ ExitNet
           \/ (\E s \in Slots, sig \in {-1, 0, Liquidation} : UnbookedClose(s, sig))
  <2>1. pc' # "ledger"
    BY <1>3 DEF LiquidateNet, ExitNet, UnbookedClose, NextSlot
  <2> QED  BY <2>1
<1>4. ASSUME NEW s \in Slots, NEW base, NEW sig \in Sigs, pc # "ledger",
             CloseGross(s, base, sig)
      PROVE  /\ run.mode = "legacy_gross" /\ run' = run
             /\ closing'.breakdown = Len(breakdowns) + 1 /\ Close(s)
  BY <1>4 DEF CloseGross, Close, memory
<1>5. ASSUME NEW s \in Slots, LiquidateGross(s)
      PROVE  /\ run.mode = "legacy_gross" /\ run' = run
             /\ closing'.breakdown = Len(breakdowns) + 1 /\ Close(s)
  BY <1>4, <1>5 DEF LiquidateGross, Sigs
<1>6. ASSUME ExitGross
      PROVE  /\ run.mode = "legacy_gross" /\ run' = run
             /\ closing'.breakdown = Len(breakdowns) + 1 /\ slot \in Slots /\ Close(slot)
  <2>1. slot \in Slots /\ Signal \in Sigs /\ pc # "ledger"
    BY <1>6, SlotInHand DEF ExitGross, ExitDue, InSlotLoop, Sigs
  <2> QED  BY <1>4, <1>6, <2>1 DEF ExitGross
<1> QED
  BY <1>1, <1>2, <1>3, <1>5, <1>6 DEF Next, Tick, Fault

LEMMA GrossLedgerStep ==
  ASSUME TypeInv, GrossLedger, [Next]_vars
  PROVE  GrossLedger'
BY ArrivesAtLedger DEF GrossLedger, vars, memory, control

\* A close refused for want of a cost model writes nothing, from either phase of
\* the tick and whoever opened the position.
THEOREM ClosesFailClosed == Spec => FailClosed
<1>1. ASSUME TypeInv, GrossLedger, [Next]_vars, CloseRefused, pc # "down"
      PROVE  /\ UNCHANGED <<breakdowns, ledger, events>>
             /\ \A s \in Slots : positions[s] # NoPosition => positions'[s] = positions[s]
  <2>1. run.mode # "legacy_gross" /\ ~ClaimAllowed
    BY <1>1 DEF CloseRefused
  <2>2. \A s \in Slots : ~Close(s)
    BY <2>1 DEF Close
  <2>3. ~LedgerInsert
    BY <1>1, <2>1 DEF LedgerInsert, GrossLedger
  <2>4. Quiet \/ Enter
    BY <1>1, <2>2, <2>3, StepKinds
  <2>5. CASE Enter
    BY <1>1, <2>5 DEF Enter, HasPosition, TypeInv, TypeOK, TablesOK
  <2> QED  BY <2>4, <2>5 DEF Quiet
<1>2. TypeInv /\ GrossLedger /\ [Next]_vars => GrossLedger'
  BY GrossLedgerStep
<1>3. Init => GrossLedger
  BY DEF Init, GrossLedger
<1>4. TypeInv /\ GrossLedger /\ [Next]_vars =>
        [CloseRefused /\ pc # "down" =>
           /\ UNCHANGED <<breakdowns, ledger, events>>
           /\ \A s \in Slots : positions[s] # NoPosition => positions'[s] = positions[s]
        ]_vars
  BY <1>1
<1> QED
  BY <1>2, <1>3, <1>4, TypeInvariant, PTL DEF Spec, FailClosed

(***************************************************************************)
(* Margin.  Entering at the latest close must not breach maintenance at    *)
(* once: maintenance_margin_pct is below 1 (the default is 0.2), which     *)
(* the code does not check.                                                *)
(***************************************************************************)
AfterMargin ==
  pc \in {"signal", "equity", "source", "portfolio"} \/ (pc = "ledger" /\ slot # 0)

MarginInv == AfterMargin /\ 0 \notin errors => Due(feed) = {}

LEMMA EntryNotBreached ==
  ASSUME MarginNum < MarginDen, NEW p \in PositionType
  PROVE  ~Breached(p, p.entry)
<1> DEFINE z == p.size
<1>1. p.entry \in Int /\ p.entry > 0 /\ z \in Int /\ p.leverage \in Int
  BY PositionFields
<1>2. MarginNum \in Int /\ MarginDen \in Int
  BY PaperAssumption DEF PaperAssumption, Positive
<1>3. Gross(p, p.entry) = 0
  <2>1. (p.entry - p.entry) * p.size * p.leverage = 0
    BY <1>1
  <2>2. 0 \div p.entry = 0
    BY <1>1
  <2> QED  BY <2>1, <2>2 DEF Gross
<1> HIDE DEF z
<1>4. z > 0 => ~((z + 0) * MarginDen <= MarginNum * z)
  <2> SUFFICES ASSUME z > 0 PROVE MarginNum * z < z * MarginDen
    BY <1>1, <1>2
  <2>1. z * (MarginDen - MarginNum) > 0
    BY <1>1, <1>2
  <2> QED  BY <1>1, <1>2, <2>1
<1> QED
  BY <1>3, <1>4 DEF Breached, z

\* Closing positions, or leaving them as they are, makes none due.
LEMMA DueShrinks ==
  ASSUME feed' = feed,
         \A r \in Slots : positions'[r] = positions[r] \/ positions'[r] = NoPosition
  PROVE  Due(feed)' \subseteq Due(feed)
BY DEF Due, Breached, Gross

LEMMA MarginStep ==
  ASSUME MarginNum < MarginDen, TypeInv, MarginInv, [Next]_vars
  PROVE  MarginInv'
<1> SUFFICES ASSUME AfterMargin', 0 \notin errors' PROVE Due(feed)' = {}
  BY DEF MarginInv
<1> USE DEF TypeInv
<1>1. CASE MarginDone
  BY <1>1 DEF MarginDone, Due, Breached, Gross, tables
<1>2. CASE AfterMargin /\ 0 \notin errors /\ feed' = feed
  <2>1. Due(feed) = {}
    BY <1>2 DEF MarginInv
  <2>2. CASE Enter
    <3> DEFINE p == [entry |-> feed[slot].price, size |-> run.size[slot],
                     leverage |-> Leverage[slot]]
    <3>1. /\ slot \in Slots /\ feed[slot].price \in Prices /\ run.size[slot] \in Sizes
          /\ Leverage[slot] \in Positive
      BY <2>2, SlotInHand, Constants DEF Enter
    <3>2. p \in PositionType
      BY <3>1 DEF PositionType
    <3>3. positions' = [positions EXCEPT ![slot] = p]
      BY <2>2 DEF Enter
    <3>4. p.entry = feed[slot].price
      OBVIOUS
    <3> HIDE DEF p
    <3>5. ~Breached(p, feed[slot].price)
      BY <3>2, <3>4, EntryNotBreached
    <3>6. \A r \in Slots : r # slot => positions'[r] = positions[r]
      BY <3>3 DEF TypeOK, TablesOK
    <3>7. positions'[slot] = p
      BY <3>1, <3>3 DEF TypeOK, TablesOK
    <3> QED  BY <1>2, <2>1, <3>5, <3>6, <3>7 DEF Due, Breached, Gross
  <2>3. CASE ~Enter
    <3>1. \A r \in Slots : positions'[r] = positions[r] \/ positions'[r] = NoPosition
      <4>1. CASE Quiet \/ LedgerInsert
        BY <4>1 DEF Quiet, LedgerInsert
      <4>2. ASSUME NEW s \in Slots, Close(s)
            PROVE  \A r \in Slots : positions'[r] = positions[r] \/ positions'[r] = NoPosition
        <5>1. positions' = [positions EXCEPT ![s] = NoPosition]
          BY <4>2 DEF Close, NetRows, CloseRows
        <5> QED  BY <5>1 DEF TypeOK, TablesOK
      <4> QED  BY <2>3, <4>1, <4>2, StepKinds
    <3> QED  BY <1>2, <2>1, <3>1, DueShrinks
  <2> QED  BY <2>2, <2>3
<1>3. MarginDone \/ (AfterMargin /\ 0 \notin errors /\ feed' = feed)
  <2>1. CASE UNCHANGED vars
    BY <2>1 DEF vars, memory, control, AfterMargin
  <2>2. CASE Start \/ Crash \/ (\E f \in [Slots -> Feeds] : BeginTick(f) \/ RefuseTick(f))
             \/ PortfolioSource \/ RefuseClose \/ AbortFault
             \/ (\E s \in Slots : LiquidateGross(s) \/ LiquidateNet(s))
    <3>1. ~AfterMargin'
      BY <2>2 DEF AfterMargin, Start, Crash, BeginTick, RefuseTick, CountTick, PortfolioSource,
         RefuseClose, AbortFault, LeaveTick, LiquidateGross, LiquidateNet, CloseGross, CloseNet,
         ControlOK, control
    <3> QED  BY <3>1
  <2>3. CASE SkipSlot \/ Enter \/ Stay \/ ExitGross \/ ExitNet \/ EquitySnapshot
             \/ EquitySource \/ PortfolioSnapshot
    <3>1. AfterMargin /\ feed' = feed
      BY <2>3 DEF SkipSlot, Enter, Stay, ExitGross, ExitNet, ExitDue, InSlotLoop, CloseGross,
         CloseNet, EquitySnapshot, EquitySource, PortfolioSnapshot, NextSlot, AfterMargin
    <3>2. errors \subseteq errors'
      BY <2>3 DEF SkipSlot, Enter, Stay, ExitGross, ExitNet, CloseGross,
         CloseNet, EquitySnapshot, EquitySource, PortfolioSnapshot, memory
    <3> QED  BY <3>1, <3>2
  <2>4. CASE LedgerInsert
    <3>1. slot # 0 /\ UNCHANGED <<feed, errors>> /\ pc = "ledger"
      BY <2>4 DEF LedgerInsert, AfterMargin
    <3> QED  BY <3>1 DEF AfterMargin
  <2>5. CASE StatementFault \/ (\E s \in Slots, sig \in {-1, 0, Liquidation} : UnbookedClose(s, sig))
    <3>1. errors' = errors \cup {slot} /\ feed' = feed /\ slot # 0
      BY <2>5 DEF StatementFault, UnbookedClose
    <3>2. AfterMargin
      BY <2>5, <3>1 DEF StatementFault, UnbookedClose, ExitDue, InSlotLoop, AfterMargin, ControlOK
    <3> QED  BY <3>1, <3>2
  <2> QED  BY <2>1, <2>2, <2>3, <2>4, <2>5 DEF Next, Tick, Fault
<1> QED
  BY <1>1, <1>2, <1>3

\* If a fresh position is not below maintenance, then after a margin check that
\* reported no error nothing the tick has a price for is, until the tick ends.
THEOREM MarginHolds ==
  ASSUME MarginNum < MarginDen
  PROVE  Spec => []MarginEnforced
<1>1. Init => MarginInv
  BY DEF Init, MarginInv, AfterMargin
<1>2. TypeInv /\ MarginInv /\ [Next]_vars => MarginInv'
  BY MarginStep
<1>3. MarginInv => MarginEnforced
  BY DEF MarginInv, AfterMargin, MarginEnforced
<1> QED
  BY <1>1, <1>2, <1>3, TypeInvariant, PTL DEF Spec
=============================================================================
