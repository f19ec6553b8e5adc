------------------------ MODULE PaperAccountingProofs ------------------------
(***************************************************************************)
(* The accounting rows of PaperTrader: the chain from trade to breakdown   *)
(* to ledger row to event, how far the ledger may lag, which close a       *)
(* snapshot names, and the books: what the process keeps in memory is the  *)
(* sum of what it wrote.  Proved for every value of the constants.         *)
(***************************************************************************)
EXTENDS PaperSafetyProofs, FiniteSetTheorems, WellFoundedInduction

(***************************************************************************)
(* Which close an equity snapshot names.                                   *)
(***************************************************************************)
\* Equity row i names a close no later than c.
NamesUpTo(i, c) == equity[i].source = "net" => equity[i].event <= c

\* No row names a close later than the ones that are next to be named.
SourcesInv ==
  /\ \A i \in DOMAIN equity : /\ NamesUpTo(i, Len(events))
                              /\ lastClose # 0 => NamesUpTo(i, lastClose)
                              /\ thisClose # 0 => NamesUpTo(i, thisClose)
  /\ lastClose <= Len(events) /\ thisClose <= Len(events)
  /\ SourcesInOrder

LEMMA EventFields ==
  ASSUME TypeOK
  PROVE  /\ \A i \in DOMAIN equity : equity[i].event \in Nat
         /\ lastClose \in Nat /\ thisClose \in Nat /\ Len(events) \in Nat
<1>1. \A i \in DOMAIN equity : equity[i] \in EquityType
  BY DEF TypeOK, TablesOK
<1> QED
  BY <1>1 DEF EquityType, TypeOK, TablesOK, MemoryOK, TickOK

\* What the rows appended by a net close do to the numbering of rows.
LEMMA NetRowsLen ==
  ASSUME TypeOK, NEW s \in Slots, NEW price, NEW sig, NetRows(s, price, sig)
  PROVE  /\ Len(trades') = Len(trades) + 1 /\ Len(breakdowns') = Len(breakdowns) + 1
         /\ Len(ledger') = Len(ledger) + 1 /\ Len(events') = Len(events) + 1
<1>1. \A S, q, e : q \in Seq(S) => Len(Append(q, e)) = Len(q) + 1
  OBVIOUS
<1> QED
  BY <1>1 DEF NetRows, CloseRows, TypeOK, TablesOK

\* Steps after which the same closes are next to be named, or none.
Still ==
  /\ UNCHANGED <<equity, events>>
  /\ lastClose' \in {0, lastClose} /\ thisClose' \in {0, thisClose}

\* Steps with a new close, newer than all before it.
NewClose ==
  /\ equity' = equity /\ Len(events') = Len(events) + 1
  /\ lastClose' \in {lastClose, Len(events) + 1}
  /\ thisClose' \in {0, thisClose, Len(events) + 1}

LEMMA NamedCloses ==
  ASSUME TypeInv, [Next]_vars
  PROVE  Still \/ NewClose \/ EquitySnapshot \/ EquitySource
<1>1. CASE UNCHANGED vars \/ Start \/ Crash
           \/ (\E f \in [Slots -> Feeds] : BeginTick(f) \/ RefuseTick(f))
           \/ StatementFault \/ AbortFault
  BY <1>1 DEF Still, vars, tables, memory, control, Start, Crash, BeginTick, RefuseTick,
     StatementFault, AbortFault, ForgetMemory, LeaveTick, NextSlot
<1>2. CASE MarginDone \/ LedgerInsert \/ SkipSlot \/ RefuseClose \/ Enter \/ Stay
           \/ ExitGross \/ PortfolioSnapshot \/ PortfolioSource
           \/ (\E s \in Slots : LiquidateGross(s))
  BY <1>2 DEF Still, tables, memory, MarginDone, LedgerInsert, SkipSlot, RefuseClose, Enter,
     Stay, ExitGross, PortfolioSnapshot, PortfolioSource, LiquidateGross, CloseGross,
     LeaveTick, NextSlot
<1>3. ASSUME NEW s \in Slots, LiquidateNet(s) PROVE NewClose
  BY <1>3, NetRowsLen DEF NewClose, LiquidateNet, CloseNet, TypeInv
<1>4. ASSUME ExitNet PROVE NewClose
  <2>1. slot \in Slots
    BY <1>4 DEF ExitNet, ExitDue, InSlotLoop
  <2> QED  BY <1>4, <2>1, NetRowsLen DEF NewClose, ExitNet, CloseNet, TypeInv
<1>5. ASSUME NEW s \in Slots, NEW sig \in {-1, 0, Liquidation}, UnbookedClose(s, sig)
      PROVE  NewClose
  BY <1>5, NetRowsLen DEF NewClose, UnbookedClose, NextSlot, TypeInv
<1> QED
  BY <1>1, <1>2, <1>3, <1>4, <1>5 DEF Next, Tick, Fault

LEMMA SourcesStep ==
  ASSUME TypeInv, SourcesInv, [Next]_vars
  PROVE  SourcesInv'
<1> USE DEF TypeInv
<1>1. /\ \A i \in DOMAIN equity : equity[i].event \in Nat
      /\ lastClose \in Nat /\ thisClose \in Nat /\ Len(events) \in Nat
  BY EventFields
<1>2. CASE Still
  BY <1>1, <1>2 DEF Still, SourcesInv, SourcesInOrder, NamesUpTo
<1>3. CASE NewClose
  BY <1>1, <1>3 DEF NewClose, SourcesInv, SourcesInOrder, NamesUpTo
<1>4. CASE EquitySnapshot
  <2> DEFINE row == [slot |-> slot, equity |-> SlotEquity(slot), source |-> "none",
                     event |-> 0]
  <2>1. equity' = Append(equity, row) /\ row.source = "none"
        /\ UNCHANGED <<events, lastClose, thisClose>>
    BY <1>4 DEF EquitySnapshot, memory
  <2> HIDE DEF row
  <2>2. PICK n \in Nat : n = Len(equity)
    BY DEF TypeOK, TablesOK
  <2>3. /\ DOMAIN equity = 1 .. n /\ DOMAIN equity' = 1 .. n + 1
        /\ \A i \in 1 .. n : equity'[i] = equity[i]
        /\ equity'[n + 1].source = "none"
    BY <2>1, <2>2 DEF TypeOK, TablesOK
  <2> QED  BY <1>1, <2>1, <2>3 DEF SourcesInv, SourcesInOrder, NamesUpTo
<1>5. CASE EquitySource
  <2>1. PICK n \in Nat : n = Len(equity)
    BY DEF TypeOK, TablesOK
  <2>2. DOMAIN equity = 1 .. n /\ n \in DOMAIN equity
    BY <1>5, <2>1 DEF EquitySource, ControlOK, TypeOK, TablesOK
  <2>3. /\ DOMAIN equity' = 1 .. n
        /\ \A i \in 1 .. n : i # n => equity'[i] = equity[i]
        /\ equity'[n].source = IF SourceClose = 0 THEN "legacy" ELSE "net"
        /\ equity'[n].event = SourceClose
    <3>1. equity' = [equity EXCEPT ![n] =
                       [@ EXCEPT !.source = IF SourceClose = 0 THEN "legacy" ELSE "net",
                                 !.event = SourceClose]]
      BY <1>5, <2>1 DEF EquitySource, WithSource
    <3>2. equity[n] \in EquityType
      BY <2>1, <2>2 DEF TypeOK, TablesOK
    <3> QED  BY <2>2, <3>1, <3>2 DEF EquityType
  <2>4. events' = events /\ thisClose' = 0
        /\ lastClose' = IF thisClose # 0 THEN thisClose ELSE lastClose
    BY <1>5 DEF EquitySource, NextSlot
  <2>5. /\ SourceClose \in {0, lastClose, thisClose}
        /\ thisClose # 0 => SourceClose = thisClose
    BY DEF SourceClose
  <2>6. ASSUME NEW i \in DOMAIN equity'
        PROVE  NamesUpTo(i, Len(events))' /\ (lastClose' # 0 => NamesUpTo(i, lastClose)')
    <3>1. CASE i = n
      BY <1>1, <2>2, <2>3, <2>4, <2>5, <3>1 DEF SourcesInv, NamesUpTo
    <3>2. CASE i # n
      BY <1>1, <2>2, <2>3, <2>4, <3>2 DEF SourcesInv, NamesUpTo
    <3> QED  BY <3>1, <3>2
  <2>7. SourcesInOrder'
    <3> SUFFICES ASSUME NEW i \in 1 .. n, NEW j \in 1 .. n, i < j,
                        equity'[i].source = "net", equity'[j].source = "net"
                 PROVE  equity'[i].event <= equity'[j].event
      BY <2>3 DEF SourcesInOrder
    <3>1. i # n /\ equity'[i] = equity[i]
      BY <2>1, <2>3
    <3>2. CASE j = n
      BY <1>1, <2>2, <2>3, <2>5, <3>1, <3>2 DEF SourcesInv, NamesUpTo
    <3>3. CASE j # n
      BY <2>2, <2>3, <3>1, <3>3 DEF SourcesInv, SourcesInOrder
    <3> QED  BY <3>2, <3>3
  <2> QED
    BY <1>1, <2>4, <2>6, <2>7 DEF SourcesInv
<1> QED
  BY <1>2, <1>3, <1>4, <1>5, NamedCloses

\* Over crashes, faults and changes of mode, no equity snapshot names an older
\* close than a snapshot before it.
THEOREM SourcesOrdered == Spec => []SourcesInOrder
<1>1. Init => SourcesInv
  BY DEF Init, SourcesInv, SourcesInOrder
<1>2. TypeInv /\ SourcesInv /\ [Next]_vars => SourcesInv'
  BY SourcesStep
<1>3. SourcesInv => SourcesInOrder
  BY DEF SourcesInv
<1> QED
  BY <1>1, <1>2, <1>3, TypeInvariant, PTL DEF Spec

(***************************************************************************)
(* Net closes are whole.                                                   *)
(***************************************************************************)
LEMMA NetCloseStep ==
  ASSUME Modes = {"estimated_net"}, TypeInv, GrossLedger, NetCloseWhole, [Next]_vars
  PROVE  NetCloseWhole'
<1>1. run.mode = "estimated_net" /\ pc # "ledger"
  BY DEF GrossLedger, TypeInv, TypeOK, MemoryOK, RunType
<1>2. CASE Quiet \/ Enter
  BY <1>2 DEF Quiet, Enter, NetCloseWhole
<1>3. ASSUME NEW s \in Slots, Close(s) PROVE NetCloseWhole'
  <2>1. PICK sig \in Sigs : NetRows(s, feed[s].price, sig)
    BY <1>1, <1>3 DEF Close
  <2> DEFINE event == [trade |-> Len(trades) + 1, breakdown |-> Len(breakdowns) + 1,
                       ledger |-> Len(ledger) + 1,
                       kind |-> IF sig = Liquidation THEN "liquidation" ELSE "normal_exit"]
  <2>2. events' = Append(events, event)
    BY <2>1 DEF NetRows
  <2>3. /\ Len(breakdowns') = Len(breakdowns) + 1 /\ Len(ledger') = Len(ledger) + 1
        /\ Len(events') = Len(events) + 1
    BY <2>1, NetRowsLen DEF TypeInv
  <2>4. PICK n \in Nat : n = Len(events)
    BY DEF TypeInv, TypeOK, TablesOK
  <2>5. event.ledger = n + 1 /\ event.breakdown = n + 1
    BY <2>4 DEF NetCloseWhole
  <2> HIDE DEF event
  <2>6. /\ DOMAIN events = 1 .. n /\ DOMAIN events' = 1 .. n + 1
        /\ \A i \in 1 .. n : events'[i] = events[i]
        /\ events'[n + 1] = event
    BY <2>2, <2>4 DEF TypeInv, TypeOK, TablesOK
  <2> QED  BY <2>3, <2>5, <2>6 DEF NetCloseWhole
<1> QED
  BY <1>1, <1>2, <1>3, StepKinds DEF LedgerInsert

\* As long as every process runs in estimated_net, no crash or failing statement
\* separates the rows of a close.
THEOREM NetClosesWhole ==
  ASSUME Modes = {"estimated_net"}
  PROVE  Spec => []NetCloseWhole
<1>1. Init => GrossLedger /\ NetCloseWhole
  BY DEF Init, GrossLedger, NetCloseWhole
<1>2. TypeInv /\ GrossLedger /\ NetCloseWhole /\ [Next]_vars => GrossLedger' /\ NetCloseWhole'
  BY GrossLedgerStep, NetCloseStep
<1> QED
  BY <1>1, <1>2, TypeInvariant, PTL DEF Spec

(***************************************************************************)
(* The chain of accounting rows.  It is inductive once the breakdown a     *)
(* gross close is about to enter in the ledger is known not to be there.   *)
(***************************************************************************)
Pending ==
  pc = "ledger" => \A m \in DOMAIN ledger : ledger[m].breakdown # closing.breakdown

ChainInv == AccountingChain /\ Pending

LEMMA AppendedRow ==
  ASSUME NEW T, NEW q \in Seq(T), NEW e
  PROVE  /\ Len(q) \in Nat /\ DOMAIN q = 1 .. Len(q)
         /\ DOMAIN Append(q, e) = 1 .. Len(q) + 1
         /\ \A i \in 1 .. Len(q) : Append(q, e)[i] = q[i]
         /\ Append(q, e)[Len(q) + 1] = e
OBVIOUS

\* The trade and the breakdown a close adds, n and b rows into their tables.
ClosePair(n, b) ==
  /\ DOMAIN trades = 1 .. n /\ DOMAIN trades' = 1 .. n + 1
  /\ \A i \in 1 .. n : trades'[i] = trades[i]
  /\ trades'[n + 1].side = "exit"
  /\ DOMAIN breakdowns = 1 .. b /\ DOMAIN breakdowns' = 1 .. b + 1
  /\ \A i \in 1 .. b : breakdowns'[i] = breakdowns[i]
  /\ breakdowns'[b + 1].trade = n + 1
  /\ breakdowns'[b + 1].gross = trades'[n + 1].pnl

LEMMA CloseRowsPair ==
  ASSUME TypeOK, NEW s \in Slots, NEW price, NEW sig, CloseRows(s, price, sig),
         NEW n \in Nat, NEW b \in Nat, n = Len(trades), b = Len(breakdowns)
  PROVE  /\ ClosePair(n, b)
         /\ trades'[n + 1].signal = sig
         /\ breakdowns'[b + 1].net = Gross(positions[s], price) - Cost(positions[s])
         /\ breakdowns'[b + 1].claim = ClaimAllowed
<1> DEFINE gross == Gross(positions[s], price)
           trade == [slot |-> s, side |-> "exit", price |-> price, signal |-> sig,
                     pnl |-> gross]
           row == [trade |-> n + 1, gross |-> gross, net |-> gross - Cost(positions[s]),
                   claim |-> ClaimAllowed]
<1>1. trades' = Append(trades, trade) /\ breakdowns' = Append(breakdowns, row)
  BY DEF CloseRows
<1>2. /\ trade.side = "exit" /\ trade.signal = sig /\ row.trade = n + 1
      /\ row.gross = trade.pnl /\ row.net = gross - Cost(positions[s])
      /\ row.claim = ClaimAllowed
  OBVIOUS
<1>3. trades \in Seq(TradeType) /\ breakdowns \in Seq(BreakdownType)
  BY DEF TypeOK, TablesOK
<1> HIDE DEF trade, row
<1>4. /\ DOMAIN trades = 1 .. n /\ DOMAIN trades' = 1 .. n + 1
      /\ \A i \in 1 .. n : trades'[i] = trades[i]
      /\ trades'[n + 1] = trade
  BY <1>1, <1>3, AppendedRow
<1>5. /\ DOMAIN breakdowns = 1 .. b /\ DOMAIN breakdowns' = 1 .. b + 1
      /\ \A i \in 1 .. b : breakdowns'[i] = breakdowns[i]
      /\ breakdowns'[b + 1] = row
  BY <1>1, <1>3, AppendedRow
<1> QED
  BY <1>2, <1>4, <1>5 DEF ClosePair

LEMMA PairStep ==
  ASSUME AccountingChain, NEW n \in Nat, NEW b \in Nat, ClosePair(n, b)
  PROVE  ExitsBrokenDown' /\ BreakdownsOfExits'
<1> USE DEF ClosePair, AccountingChain
<1>1. \A c \in 1 .. b : breakdowns'[c].trade \in 1 .. n
  BY DEF BreakdownsOfExits
<1>2. ASSUME NEW i \in DOMAIN trades', trades'[i].side = "exit"
      PROVE  \E d \in DOMAIN breakdowns' :
               /\ breakdowns'[d].trade = i /\ breakdowns'[d].gross = trades'[i].pnl
               /\ \A c \in DOMAIN breakdowns' : breakdowns'[c].trade = i => c = d
  <2>1. CASE i = n + 1
    BY <1>1, <2>1
  <2>2. CASE i \in 1 .. n
    <3>1. PICK d \in DOMAIN breakdowns :
            /\ breakdowns[d].trade = i /\ breakdowns[d].gross = trades[i].pnl
            /\ \A c \in DOMAIN breakdowns : breakdowns[c].trade = i => c = d
      BY <1>2, <2>2 DEF ExitsBrokenDown
    <3> QED  BY <2>2, <3>1
  <2> QED  BY <2>1, <2>2
<1>3. ExitsBrokenDown'
  BY <1>2 DEF ExitsBrokenDown
<1>4. BreakdownsOfExits'
  BY <1>1 DEF BreakdownsOfExits
<1> QED
  BY <1>3, <1>4

\* Rows that are only added to leave what names them as it is.
Extends(q, r) ==
  DOMAIN q \subseteq DOMAIN r /\ \A i \in DOMAIN q : r[i] = q[i]

LEMMA LedgerKept ==
  ASSUME LedgerRepeats, Extends(breakdowns, breakdowns'), ledger' = ledger
  PROVE  LedgerRepeats'
BY DEF LedgerRepeats, Extends

LEMMA EventsKept ==
  ASSUME TypeOK, AccountingChain, events' = events,
         Extends(trades, trades'), Extends(ledger, ledger')
  PROVE  EventsNameCloses'
<1>1. ASSUME NEW e \in DOMAIN events
      PROVE  events[e].trade \in DOMAIN trades
  <2>1. events[e].ledger \in DOMAIN ledger
        /\ events[e].trade = ledger[events[e].ledger].trade
    BY DEF AccountingChain, EventsNameCloses
  <2>2. ASSUME NEW l \in DOMAIN ledger PROVE ledger[l].trade \in DOMAIN trades
    <3>1. ledger[l].breakdown \in DOMAIN breakdowns
          /\ ledger[l].trade = breakdowns[ledger[l].breakdown].trade
      BY DEF AccountingChain, LedgerRepeats
    <3> QED  BY <3>1 DEF AccountingChain, BreakdownsOfExits
  <2> QED  BY <2>1, <2>2
<1> QED
  BY <1>1 DEF AccountingChain, EventsNameCloses, Extends

LEMMA ChainEnter ==
  ASSUME TypeInv, ChainInv, Enter
  PROVE  AccountingChain'
<1> USE DEF ChainInv, AccountingChain
<1>1. PICK t \in TradeType : t.side = "entry" /\ trades' = Append(trades, t)
  BY EnterOpened DEF Opened
<1>2. PICK n \in Nat : /\ DOMAIN trades = 1 .. n /\ DOMAIN trades' = 1 .. n + 1
                       /\ \A i \in 1 .. n : trades'[i] = trades[i]
                       /\ trades'[n + 1].side = "entry"
  <2>1. trades \in Seq(TradeType)
    BY DEF TypeInv, TypeOK, TablesOK
  <2> QED  BY <1>1, <2>1, AppendedRow
<1>3. UNCHANGED <<breakdowns, ledger, events>>
  BY DEF Enter
<1>4. ExitsBrokenDown'
  BY <1>2, <1>3 DEF ExitsBrokenDown
<1>5. BreakdownsOfExits'
  BY <1>2, <1>3 DEF BreakdownsOfExits
<1>6. LedgerRepeats'
  BY <1>3 DEF LedgerRepeats
<1>7. EventsNameCloses'
  BY <1>2, <1>3, EventsKept DEF Extends, TypeInv
<1> QED
  BY <1>4, <1>5, <1>6, <1>7

LEMMA ChainLedgerInsert ==
  ASSUME TypeInv, ChainInv, LedgerInsert
  PROVE  AccountingChain'
<1> USE DEF ChainInv, AccountingChain
<1> PICK b \in DOMAIN breakdowns : b = closing.breakdown
  BY DEF TypeInv, ControlOK, LedgerInsert
<1> DEFINE row == [trade |-> breakdowns[b].trade, breakdown |-> b,
                   net |-> breakdowns[b].net, claim |-> breakdowns[b].claim]
<1>1. ledger' = Append(ledger, row) /\ UNCHANGED <<trades, breakdowns, events>>
  BY DEF LedgerInsert
<1> PICK n \in Nat : n = Len(ledger)
  BY DEF TypeInv, TypeOK, TablesOK
<1>2. /\ DOMAIN ledger = 1 .. n /\ DOMAIN ledger' = 1 .. n + 1
      /\ \A i \in 1 .. n : ledger'[i] = ledger[i]
      /\ ledger'[n + 1] = row
  <2> HIDE DEF row
  <2> QED  BY <1>1, AppendedRow DEF TypeInv, TypeOK, TablesOK
<1>3. \A m \in 1 .. n : ledger[m].breakdown # b
  BY <1>2 DEF Pending, LedgerInsert
<1>4. LedgerRepeats'
  BY <1>1, <1>2, <1>3 DEF LedgerRepeats
<1>5. EventsNameCloses'
  BY <1>1, <1>2, EventsKept DEF Extends, TypeInv
<1> QED
  BY <1>1, <1>4, <1>5 DEF ExitsBrokenDown, BreakdownsOfExits

LEMMA ChainNetRows ==
  ASSUME TypeOK, AccountingChain, NEW s \in Slots, NEW price, NEW sig \in Sigs,
         NetRows(s, price, sig), ClaimAllowed
  PROVE  AccountingChain'
<1> USE DEF AccountingChain
<1>1. PICK n \in Nat, b \in Nat, l \in Nat, k \in Nat :
        n = Len(trades) /\ b = Len(breakdowns) /\ l = Len(ledger) /\ k = Len(events)
  BY DEF TypeOK, TablesOK
<1> DEFINE net == Gross(positions[s], price) - Cost(positions[s])
           claim == ClaimAllowed
           row == [trade |-> n + 1, breakdown |-> b + 1, net |-> net, claim |-> claim]
           event == [trade |-> n + 1, breakdown |-> b + 1, ledger |-> l + 1,
                     kind |-> IF sig = Liquidation THEN "liquidation" ELSE "normal_exit"]
<1>2. /\ ClosePair(n, b) /\ trades'[n + 1].signal = sig
      /\ breakdowns'[b + 1].net = net /\ breakdowns'[b + 1].claim = claim
  BY <1>1, CloseRowsPair DEF NetRows
<1>3. ledger' = Append(ledger, row) /\ events' = Append(events, event)
  BY <1>1 DEF NetRows
<1>4. /\ DOMAIN ledger = 1 .. l /\ DOMAIN ledger' = 1 .. l + 1
      /\ \A i \in 1 .. l : ledger'[i] = ledger[i]
      /\ ledger'[l + 1] = row
  <2> HIDE DEF row
  <2> QED  BY <1>1, <1>3, AppendedRow DEF TypeOK, TablesOK
<1>5. /\ DOMAIN events = 1 .. k /\ DOMAIN events' = 1 .. k + 1
      /\ \A i \in 1 .. k : events'[i] = events[i]
      /\ events'[k + 1] = event
  <2> HIDE DEF event
  <2> QED  BY <1>1, <1>3, AppendedRow DEF TypeOK, TablesOK
<1>6. \A i \in 1 .. l : ledger[i].breakdown \in 1 .. b
  BY <1>2, <1>4 DEF LedgerRepeats, ClosePair
<1> HIDE DEF net, claim
<1>7. LedgerRepeats'
  <2>1. row.breakdown = b + 1
    OBVIOUS
  <2>2. ASSUME NEW i \in 1 .. l + 1
        PROVE  /\ ledger'[i].breakdown \in 1 .. b + 1
               /\ \A m \in 1 .. l + 1 : ledger'[m].breakdown = ledger'[i].breakdown => m = i
    <3>1. \A m \in 1 .. l : ledger[m].breakdown # b + 1
      BY <1>6
    <3>2. \A j, m \in 1 .. l : ledger[m].breakdown = ledger[j].breakdown => m = j
      BY <1>4 DEF LedgerRepeats
    <3> HIDE DEF row
    <3> QED  BY <1>4, <1>6, <2>1, <3>1, <3>2
  <2>3. ASSUME NEW i \in 1 .. l + 1
        PROVE  ledger'[i] = [trade |-> breakdowns'[ledger'[i].breakdown].trade,
                             breakdown |-> ledger'[i].breakdown,
                             net |-> breakdowns'[ledger'[i].breakdown].net,
                             claim |-> breakdowns'[ledger'[i].breakdown].claim]
    <3>1. CASE i = l + 1
      BY <1>2, <1>4, <3>1 DEF ClosePair
    <3>2. CASE i \in 1 .. l
      <4>1. ledger'[i] = ledger[i] /\ ledger[i].breakdown \in 1 .. b
        BY <1>4, <1>6, <3>2
      <4>2. breakdowns'[ledger[i].breakdown] = breakdowns[ledger[i].breakdown]
        BY <1>2, <4>1 DEF ClosePair
      <4> QED  BY <1>4, <3>2, <4>1, <4>2 DEF LedgerRepeats
    <3> QED  BY <3>1, <3>2
  <2> QED
    BY <1>2, <1>4, <2>2, <2>3 DEF LedgerRepeats, ClosePair
<1>8. EventsNameCloses'
  <2>1. ASSUME NEW e \in 1 .. k PROVE events[e].trade \in 1 .. n
    <3>1. events[e].ledger \in 1 .. l /\ events[e].trade = ledger[events[e].ledger].trade
      BY <1>4, <1>5 DEF EventsNameCloses
    <3>2. ledger[events[e].ledger].breakdown \in DOMAIN breakdowns
          /\ events[e].trade = breakdowns[ledger[events[e].ledger].breakdown].trade
      BY <1>4, <3>1 DEF LedgerRepeats
    <3> QED  BY <1>2, <3>2 DEF BreakdownsOfExits, ClosePair
  <2> SUFFICES ASSUME NEW e \in 1 .. k + 1
      PROVE /\ events'[e].ledger \in DOMAIN ledger'
            /\ events'[e].trade = ledger'[events'[e].ledger].trade
            /\ events'[e].breakdown = ledger'[events'[e].ledger].breakdown
            /\ ledger'[events'[e].ledger].claim
            /\ (events'[e].kind = "liquidation")
                 = (trades'[events'[e].trade].signal = Liquidation)
    BY <1>5 DEF EventsNameCloses
  <2>2. CASE e = k + 1
    BY <1>2, <1>4, <1>5, <2>2 DEF claim
  <2>3. CASE e \in 1 .. k
    <3>1. events'[e] = events[e] /\ events[e].ledger \in 1 .. l
      BY <1>4, <1>5, <2>3 DEF EventsNameCloses
    <3>2. ledger'[events[e].ledger] = ledger[events[e].ledger]
      BY <1>4, <3>1
    <3>3. trades'[events[e].trade] = trades[events[e].trade]
      BY <1>2, <2>1, <2>3 DEF ClosePair
    <3>4. e \in DOMAIN events /\ events[e].ledger \in DOMAIN ledger'
      BY <1>4, <1>5, <2>3, <3>1
    <3> QED  BY <3>1, <3>2, <3>3, <3>4 DEF EventsNameCloses
  <2> QED  BY <2>2, <2>3
<1> QED
  BY <1>2, <1>7, <1>8, PairStep

LEMMA ChainGrossRows ==
  ASSUME TypeOK, AccountingChain, NEW s \in Slots, NEW price, NEW sig \in Sigs,
         CloseRows(s, price, sig), UNCHANGED <<ledger, events>>
  PROVE  AccountingChain'
<1>1. PICK n \in Nat, b \in Nat : n = Len(trades) /\ b = Len(breakdowns)
  BY DEF TypeOK, TablesOK
<1>2. ClosePair(n, b)
  BY <1>1, CloseRowsPair
<1>3. Extends(trades, trades') /\ Extends(breakdowns, breakdowns')
  BY <1>2 DEF Extends, ClosePair
<1>4. LedgerRepeats'
  BY <1>3, LedgerKept DEF AccountingChain
<1>5. EventsNameCloses'
  BY <1>3, EventsKept DEF Extends
<1> QED
  BY <1>2, <1>4, <1>5, PairStep DEF AccountingChain

LEMMA ChainStep ==
  ASSUME TypeInv, ChainInv, [Next]_vars
  PROVE  ChainInv'
<1>1. AccountingChain'
  <2>1. CASE Quiet
    BY <2>1 DEF Quiet, ChainInv, AccountingChain, ExitsBrokenDown, BreakdownsOfExits,
       LedgerRepeats, EventsNameCloses
  <2>2. ASSUME NEW s \in Slots, Close(s) PROVE AccountingChain'
    <3>1. PICK sig \in Sigs :
            \/ CloseRows(s, feed[s].price, sig) /\ UNCHANGED <<ledger, events>>
            \/ NetRows(s, feed[s].price, sig) /\ ClaimAllowed
      BY <2>2 DEF Close
    <3> QED  BY <3>1, ChainGrossRows, ChainNetRows DEF ChainInv, TypeInv
  <2> QED  BY <2>1, <2>2, ChainEnter, ChainLedgerInsert, StepKinds
<1>2. Pending'
  <2> SUFFICES ASSUME pc' = "ledger"
               PROVE  \A m \in DOMAIN ledger' : ledger'[m].breakdown # closing'.breakdown
    BY DEF Pending
  <2>1. CASE UNCHANGED vars
    BY <2>1 DEF ChainInv, Pending, vars, tables, control
  <2>2. ASSUME closing'.breakdown = Len(breakdowns) + 1, run.mode = "legacy_gross",
               NEW s \in Slots, Close(s)
        PROVE  \A m \in DOMAIN ledger' : ledger'[m].breakdown # closing'.breakdown
    <3>1. ledger' = ledger
      BY <2>2 DEF Close
    <3>2. \A m \in DOMAIN ledger : ledger[m].breakdown \in DOMAIN breakdowns
      BY DEF ChainInv, AccountingChain, LedgerRepeats
    <3>3. Len(breakdowns) + 1 \notin DOMAIN breakdowns
      BY DEF TypeInv, TypeOK, TablesOK
    <3> QED  BY <2>2, <3>1, <3>2, <3>3
  <2> QED  BY <2>1, <2>2, ArrivesAtLedger
<1> QED
  BY <1>1, <1>2 DEF ChainInv

LEMMA ChainInvariant == Spec => []ChainInv
<1>1. Init => ChainInv
  BY DEF Init, ChainInv, Pending, AccountingChain, ExitsBrokenDown, BreakdownsOfExits,
     LedgerRepeats, EventsNameCloses
<1>2. TypeInv /\ ChainInv /\ [Next]_vars => ChainInv'
  BY ChainStep
<1> QED
  BY <1>1, <1>2, TypeInvariant, PTL DEF Spec

\* Interrupted or not, and across changes of mode and cost model, an accounting
\* row never stands for anything but the close it names.
THEOREM AccountingChained == Spec => []AccountingChain
<1>1. ChainInv => AccountingChain
  BY DEF ChainInv
<1> QED
  BY <1>1, ChainInvariant, PTL

(***************************************************************************)
(* How far the ledger lags.                                                *)
(***************************************************************************)
Failures == used.crashes + used.faults

Lag == Cardinality(Unledgered)

LEMMA FiniteRows ==
  ASSUME NEW T, NEW q \in Seq(T), NEW U \in SUBSET DOMAIN q
  PROVE  IsFiniteSet(U) /\ Cardinality(U) \in Nat
<1>1. U \in SUBSET (1 .. Len(q)) /\ Len(q) \in Int
  OBVIOUS
<1>2. IsFiniteSet(U)
  BY <1>1, FS_Interval, FS_Subset
<1> QED
  BY <1>2, FS_CardinalityType

\* Failures are never forgotten, and whatever ends a gross close other than its
\* ledger row is one.
LEMMA FailuresCounted ==
  ASSUME TypeInv, [Next]_vars
  PROVE  /\ Failures <= Failures'
         /\ pc = "ledger" /\ pc' # "ledger" /\ ~LedgerInsert => Failures + 1 <= Failures'
<1> USE DEF TypeInv
<1>1. used \in [ticks : Nat, crashes : Nat, faults : Nat]
  BY DEF TypeOK, CountOK
<1>2. CASE used' = used
  <2>1. pc = "ledger" /\ pc' # "ledger" => LedgerInsert
    BY <1>2 DEF Next, Start, Crash, BeginTick, RefuseTick, CountTick, Tick, LiquidateGross,
       LiquidateNet, MarginDone, SkipSlot, RefuseClose, Enter, Stay, ExitGross, ExitNet,
       ExitDue, InSlotLoop, EquitySnapshot, EquitySource, PortfolioSnapshot,
       PortfolioSource, Fault, StatementFault, UnbookedClose, AbortFault, CountFault,
       TypeOK, CountOK, vars, control
  <2> QED  BY <1>1, <1>2, <2>1 DEF Failures
<1>3. CASE \E f \in [Slots -> Feeds] : BeginTick(f) \/ RefuseTick(f)
  <2>1. used' = [used EXCEPT !.ticks = @ + 1] /\ pc = "idle"
    BY <1>3 DEF BeginTick, RefuseTick, CountTick
  <2> QED  BY <1>1, <2>1 DEF Failures
<1>4. CASE Crash
  BY <1>1, <1>4 DEF Crash, Failures
<1>5. CASE Fault
  <2>1. used' = [used EXCEPT !.faults = @ + 1]
    BY <1>5 DEF Fault, StatementFault, UnbookedClose, AbortFault, CountFault
  <2> QED  BY <1>1, <2>1 DEF Failures
<1>6. CASE Start \/ Tick \/ UNCHANGED vars
  <2>1. used' = used
    BY <1>6 DEF Start, Tick, LiquidateGross, LiquidateNet, MarginDone, LedgerInsert, SkipSlot,
       RefuseClose, Enter, Stay, ExitGross, ExitNet, CloseGross, CloseNet, EquitySnapshot,
       EquitySource, PortfolioSnapshot, PortfolioSource, vars
  <2> QED  BY <1>2, <2>1
<1> QED
  BY <1>3, <1>4, <1>5, <1>6 DEF Next

\* The breakdowns without a ledger row after a close and after a ledger row.
LEMMA UnledgeredSteps ==
  ASSUME TypeInv, ChainInv, [Next]_vars
  PROVE  \/ ~LedgerInsert /\ Unledgered' \subseteq Unledgered
         \/ LedgerInsert /\ \E b \in Unledgered : Unledgered' \subseteq Unledgered \ {b}
         \/ /\ pc # "ledger" /\ pc' = "ledger"
            /\ \E b : Unledgered' \subseteq Unledgered \cup {b}
<1> USE DEF TypeInv
<1> PICK b \in Nat, l \in Nat : b = Len(breakdowns) /\ l = Len(ledger)
  BY DEF TypeOK, TablesOK
<1>1. DOMAIN breakdowns = 1 .. b /\ DOMAIN ledger = 1 .. l
  BY DEF TypeOK, TablesOK
<1>2. CASE LedgerInsert
  <2>1. /\ UNCHANGED breakdowns /\ pc = "ledger"
        /\ \E row : ledger' = Append(ledger, row) /\ row.breakdown = closing.breakdown
    BY <1>2 DEF LedgerInsert
  <2>2. closing.breakdown \in Unledgered
    BY <2>1 DEF ControlOK, ChainInv, Pending, Unledgered
  <2>3. /\ DOMAIN ledger' = 1 .. l + 1 /\ \A i \in 1 .. l : ledger'[i] = ledger[i]
        /\ ledger'[l + 1].breakdown = closing.breakdown
    BY <2>1, AppendedRow DEF TypeOK, TablesOK
  <2>4. Unledgered' \subseteq Unledgered \ {closing.breakdown}
    BY <1>1, <2>1, <2>3 DEF Unledgered
  <2> QED  BY <1>2, <2>2, <2>4
<1>3. CASE (Quiet \/ Enter) /\ ~LedgerInsert
  BY <1>3 DEF Quiet, Enter, Unledgered
<1>4. ASSUME NEW s \in Slots, Close(s), ~LedgerInsert
      PROVE  \/ Unledgered' \subseteq Unledgered
             \/ /\ pc # "ledger" /\ pc' = "ledger"
                /\ Unledgered' \subseteq Unledgered \cup {b + 1}
  <2>1. PICK sig \in Sigs :
          \/ /\ CloseRows(s, feed[s].price, sig) /\ ledger' = ledger
             /\ pc # "ledger" /\ pc' = "ledger"
          \/ NetRows(s, feed[s].price, sig)
    BY <1>4 DEF Close
  <2>2. CloseRows(s, feed[s].price, sig)
    BY <2>1 DEF NetRows
  <2>3. DOMAIN breakdowns' = 1 .. b + 1 /\ \A i \in 1 .. b : breakdowns'[i] = breakdowns[i]
    <3>1. PICK n \in Nat : n = Len(trades)
      BY DEF TypeOK, TablesOK
    <3> QED  BY <2>2, <3>1, CloseRowsPair DEF ClosePair
  <2>4. CASE ledger' = ledger
    BY <1>1, <2>3, <2>1, <2>4 DEF Unledgered, NetRows
  <2>5. CASE NetRows(s, feed[s].price, sig)
    <3>1. PICK row : ledger' = Append(ledger, row) /\ row.breakdown = b + 1
      BY <2>5 DEF NetRows
    <3>2. /\ DOMAIN ledger' = 1 .. l + 1 /\ \A i \in 1 .. l : ledger'[i] = ledger[i]
          /\ ledger'[l + 1].breakdown = b + 1
      BY <3>1, AppendedRow DEF TypeOK, TablesOK
    <3>3. Unledgered' \subseteq Unledgered
      BY <1>1, <2>3, <3>2 DEF Unledgered
    <3> QED  BY <3>3
  <2> QED  BY <2>1, <2>4, <2>5
<1> QED
  BY <1>2, <1>3, <1>4, StepKinds

LEMMA LagStep ==
  ASSUME TypeInv, ChainInv, LedgerLag, [Next]_vars
  PROVE  LedgerLag'
<1>1. TypeOK /\ TypeOK'
  BY TypeStep DEF TypeInv
<1>2. IsFiniteSet(Unledgered) /\ Lag \in Nat
  <2>1. Unledgered \in SUBSET DOMAIN breakdowns /\ breakdowns \in Seq(BreakdownType)
    BY <1>1 DEF Unledgered, TypeOK, TablesOK
  <2> QED  BY <2>1, FiniteRows DEF Lag
<1>3. IsFiniteSet(Unledgered') /\ Lag' \in Nat
  <2>1. Unledgered' \in SUBSET DOMAIN breakdowns' /\ breakdowns' \in Seq(BreakdownType)
    BY <1>1 DEF Unledgered, TypeOK, TablesOK
  <2> QED  BY <2>1, FiniteRows DEF Lag
<1>4. Failures \in Nat /\ Failures' \in Nat
  BY <1>1 DEF TypeOK, CountOK, Failures
<1>5. PICK n \in Nat, m \in Nat, f \in Nat, g \in Nat :
        n = Lag /\ m = Lag' /\ f = Failures /\ g = Failures'
  BY <1>2, <1>3, <1>4
<1>6. n <= f + 1 /\ (pc # "ledger" => n <= f)
  <2>1. Lag <= Failures + (IF pc = "ledger" THEN 1 ELSE 0)
    BY DEF LedgerLag, Lag, Failures
  <2> QED  BY <1>5, <2>1
<1>7. f <= g /\ (pc = "ledger" /\ pc' # "ledger" /\ ~LedgerInsert => f + 1 <= g)
  BY <1>5, FailuresCounted
<1>8. SUFFICES m <= g \/ (pc' = "ledger" /\ m <= g + 1)
  <2>1. m <= g + (IF pc' = "ledger" THEN 1 ELSE 0)
    BY <1>8
  <2> QED  BY <1>5, <2>1 DEF LedgerLag, Lag, Failures
<1>9. CASE ~LedgerInsert /\ Unledgered' \subseteq Unledgered
  <2>1. m <= n
    BY <1>2, <1>5, <1>9, FS_Subset DEF Lag
  <2> QED  BY <1>6, <1>7, <1>9, <2>1
<1>10. ASSUME LedgerInsert, NEW b \in Unledgered, Unledgered' \subseteq Unledgered \ {b}
       PROVE  m <= g
  <2>1. IsFiniteSet(Unledgered \ {b}) /\ Cardinality(Unledgered \ {b}) = n - 1
    BY <1>2, <1>5, <1>10, FS_RemoveElement DEF Lag
  <2>2. m <= n - 1
    BY <1>5, <1>10, <2>1, FS_Subset DEF Lag
  <2> QED  BY <1>6, <1>7, <2>2
<1>11. ASSUME pc # "ledger", pc' = "ledger", NEW b, Unledgered' \subseteq Unledgered \cup {b}
       PROVE  m <= g + 1
  <2>1. /\ IsFiniteSet(Unledgered \cup {b})
        /\ Cardinality(Unledgered \cup {b}) \in {n, n + 1}
    BY <1>2, <1>5, FS_AddElement DEF Lag
  <2>2. Cardinality(Unledgered') <= Cardinality(Unledgered \cup {b})
    BY <1>11, <2>1, FS_Subset
  <2>3. m <= n + 1
    BY <1>5, <2>1, <2>2 DEF Lag
  <2> QED  BY <1>6, <1>7, <1>11, <2>3
<1> QED
  BY <1>9, <1>10, <1>11, UnledgeredSteps

\* A failure costs the ledger at most one row, however the failures fall.
THEOREM LedgerLags == Spec => []LedgerLag
<1>1. Init => LedgerLag
  <2> SUFFICES ASSUME Init PROVE LedgerLag
    OBVIOUS
  <2>1. Unledgered = {}
    BY DEF Init, Unledgered
  <2>2. used.crashes = 0 /\ used.faults = 0 /\ pc # "ledger"
    BY DEF Init
  <2> QED  BY <2>1, <2>2, FS_EmptySet DEF LedgerLag
<1>2. TypeInv /\ ChainInv /\ LedgerLag /\ [Next]_vars => LedgerLag'
  BY LagStep
<1> QED
  BY <1>1, <1>2, TypeInvariant, ChainInvariant, PTL DEF Spec

(***************************************************************************)
(* Sums.  Total is defined by recursion, so what it does is shown by       *)
(* looking at the least index where it would not.                          *)
(***************************************************************************)
LEMMA LeastNatural ==
  ASSUME NEW S, S \subseteq Nat, S # {}
  PROVE  \E x \in S : \A y \in S : x <= y
<1>1. IsWellFoundedOn({ss \in Nat \X Nat : ss[1] < ss[2]}, Nat)
  BY NatLessThanWellFounded DEF OpToRel
<1>2. PICK x \in S : \A y \in S : <<y, x>> \notin {ss \in Nat \X Nat : ss[1] < ss[2]}
  BY <1>1, WFMin
<1>3. \A y \in S : ~(y < x)
  BY <1>2
<1> QED
  BY <1>2, <1>3

Sums(sum, q) == sum = [i \in 0 .. Len(q) |-> IF i = 0 THEN 0 ELSE sum[i - 1] + q[i]]

\* The recursion has a solution.
LEMMA TotalSums ==
  ASSUME NEW q, Len(q) \in Nat
  PROVE  \E sum : Sums(sum, q) /\ Total(q) = sum[Len(q)]
<1> DEFINE n == Len(q)
           Part(m, f) == f = [i \in 0 .. m |-> IF i = 0 THEN 0 ELSE f[i - 1] + q[i]]
           Bad == {m \in 0 .. n : ~ \E f : Part(m, f)}
<1>1. Bad = {}
  <2> SUFFICES ASSUME Bad # {} PROVE FALSE
    OBVIOUS
  <2>1. PICK m \in Bad : \A y \in Bad : m <= y
    <3> HIDE DEF Part
    <3>1. Bad \subseteq Nat
      OBVIOUS
    <3> QED  BY <3>1, LeastNatural
  <2>2. CASE m = 0
    <3>1. Part(m, [i \in 0 .. m |-> 0])
      BY <2>2
    <3> QED  BY <2>1, <3>1
  <2>3. CASE m # 0
    <3>1. m - 1 \in 0 .. n /\ m \in Nat \ {0}
      BY <2>1, <2>3
    <3>2. PICK g : Part(m - 1, g)
      <4> HIDE DEF Part
      <4>1. m - 1 \notin Bad
        BY <2>1, <3>1
      <4> QED  BY <3>1, <4>1
    <3> DEFINE h == [i \in 0 .. m |-> IF i = m THEN g[i - 1] + q[i] ELSE g[i]]
    <3>3. ASSUME NEW i \in 0 .. m
          PROVE  h[i] = IF i = 0 THEN 0 ELSE h[i - 1] + q[i]
      <4>1. CASE i = m
        BY <3>1, <4>1
      <4>2. CASE i # m /\ i = 0
        BY <3>1, <3>2, <4>2
      <4>3. CASE i # m /\ i # 0
        <5>1. g[i] = g[i - 1] + q[i]
          BY <3>1, <3>2, <4>3
        <5>2. h[i - 1] = g[i - 1] /\ h[i] = g[i]
          BY <3>1, <4>3
        <5> QED  BY <4>3, <5>1, <5>2
      <4> QED  BY <4>1, <4>2, <4>3
    <3>4. Part(m, h)
      BY <3>3
    <3> QED  BY <2>1, <3>4
  <2> QED  BY <2>2, <2>3
<1>2. \E f : Part(n, f)
  <2> HIDE DEF Part
  <2> QED  BY <1>1
<1> DEFINE sum == CHOOSE f : Part(n, f)
<1>3. Part(n, sum)
  <2> HIDE DEF Part
  <2> QED  BY <1>2
<1>4. Total(q) = sum[n]
  BY DEF Total
<1> QED
  BY <1>3, <1>4 DEF Sums

\* As far as two sequences agree, so do their sums.
LEMMA SumsAgree ==
  ASSUME NEW x \in Seq(Int), NEW y \in Seq(Int), NEW n \in Nat, n <= Len(x), n <= Len(y),
         \A i \in 1 .. n : x[i] = y[i],
         NEW f, NEW g, Sums(f, x), Sums(g, y)
  PROVE  f[n] = g[n] /\ f[n] \in Int
<1> DEFINE Bad == {i \in 0 .. n : ~(f[i] = g[i] /\ f[i] \in Int)}
<1>1. /\ Len(x) \in Nat /\ Len(y) \in Nat
      /\ \A i \in 1 .. n : i \in 0 .. Len(x) /\ i \in 0 .. Len(y) /\ i # 0 /\ x[i] \in Int
  OBVIOUS
<1>2. \A i \in 1 .. n : f[i] = f[i - 1] + x[i] /\ g[i] = g[i - 1] + y[i]
  BY <1>1 DEF Sums
<1>3. f[0] = 0 /\ g[0] = 0
  BY <1>1 DEF Sums
<1>4. Bad = {}
  <2> SUFFICES ASSUME Bad # {} PROVE FALSE
    OBVIOUS
  <2>1. PICK m \in Bad : \A i \in Bad : m <= i
    <3>1. Bad \subseteq Nat
      OBVIOUS
    <3> QED  BY <3>1, LeastNatural
  <2>2. m # 0
    BY <1>3, <2>1
  <2>3. m \in 1 .. n /\ m - 1 \in 0 .. n /\ m - 1 \notin Bad
    BY <2>1, <2>2
  <2>4. f[m - 1] = g[m - 1] /\ f[m - 1] \in Int
    BY <2>3
  <2>5. f[m] = f[m - 1] + x[m] /\ g[m] = g[m - 1] + x[m] /\ x[m] \in Int
    BY <1>1, <1>2, <2>3
  <2>6. f[m] = g[m] /\ f[m] \in Int
    BY <2>4, <2>5
  <2> QED
    BY <2>1, <2>6
<1>5. n \in 0 .. n
  OBVIOUS
<1> QED
  BY <1>4, <1>5

LEMMA TotalType ==
  ASSUME NEW x \in Seq(Int)
  PROVE  Total(x) \in Int
<1>1. PICK f : Sums(f, x) /\ Total(x) = f[Len(x)]
  BY TotalSums
<1> QED
  BY <1>1, SumsAgree

\* A sequence of zeros.
LEMMA TotalZero ==
  ASSUME NEW x \in Seq(Int), \A i \in 1 .. Len(x) : x[i] = 0
  PROVE  Total(x) = 0
<1>1. PICK f : Sums(f, x) /\ Total(x) = f[Len(x)]
  BY TotalSums
<1> DEFINE g == [i \in 0 .. Len(x) |-> 0]
<1>2. Sums(g, x)
  <2>1. Len(x) \in Nat
    OBVIOUS
  <2>2. ASSUME NEW i \in 0 .. Len(x) PROVE g[i] = IF i = 0 THEN 0 ELSE g[i - 1] + x[i]
    <3>1. i # 0 => i \in 1 .. Len(x) /\ i - 1 \in 0 .. Len(x)
      BY <2>1
    <3> QED  BY <3>1
  <2> QED
    BY <2>2 DEF Sums
<1>3. f[Len(x)] = g[Len(x)]
  BY <1>1, <1>2, SumsAgree
<1> QED
  BY <1>1, <1>3

\* One more term, or another last term.
LEMMA TotalStep ==
  ASSUME NEW x \in Seq(Int), NEW y \in Seq(Int), NEW n \in Nat, Len(y) = n + 1,
         \A i \in 1 .. n : y[i] = x[i], Len(x) \in {n, n + 1}
  PROVE  Total(y) = Total(x) + y[n + 1] - (IF Len(x) = n THEN 0 ELSE x[n + 1])
<1>1. PICK f, g : /\ Sums(f, x) /\ Total(x) = f[Len(x)]
                  /\ Sums(g, y) /\ Total(y) = g[n + 1]
  BY TotalSums
<1>2. f[n] = g[n] /\ f[n] \in Int
  <2>1. n <= Len(x) /\ n <= Len(y) /\ \A i \in 1 .. n : x[i] = y[i]
    OBVIOUS
  <2> QED  BY <1>1, <2>1, SumsAgree
<1>3. g[n + 1] = g[n] + y[n + 1]
  BY <1>1 DEF Sums
<1>4. Len(x) = n + 1 => f[n + 1] = f[n] + x[n + 1]
  BY <1>1 DEF Sums
<1>5. y[n + 1] \in Int /\ (Len(x) = n + 1 => x[n + 1] \in Int)
  OBVIOUS
<1> QED
  BY <1>1, <1>2, <1>3, <1>4, <1>5

(***************************************************************************)
(* The books.  Memory is compared with the trades made since the start;    *)
(* what is in hand is written but not booked.                              *)
(***************************************************************************)
InHand(i) == closing # NoClosing /\ i = Len(trades)

MarkOK == mark.trades <= Len(trades) /\ mark.faults <= used.faults

\* A close in hand is the last trade, and its base the one its slot may start from.
InHandOK ==
  closing # NoClosing =>
    LET t == trades[Len(trades)]
    IN /\ run.mode = "legacy_gross" /\ Len(trades) > mark.trades
       /\ t.slot = closing.slot /\ t.side = "exit" /\ t.pnl = closing.pnl
       /\ t.signal # Liquidation => closing.base = run.size[closing.slot]

\* A slot is tracked only once it has traded.
TradedIfTracked ==
  \A s \in Slots : slotEq[s] # NoEquity =>
    \E i \in DOMAIN trades : i > mark.trades /\ trades[i].slot = s /\ ~InHand(i)

Sound == pc # "down" /\ used.faults = mark.faults
Balanced ==
  TradedIfTracked /\ realized = Total(Profits(Slots)) /\ \A s \in Slots : SlotBalances(s)

BooksInv == MarkOK /\ InHandOK /\ (Sound => Balanced)

LEMMA ProfitsType ==
  TypeOK /\ AccountingChain =>
    \A S : /\ Profits(S) \in Seq(Int) /\ Len(Profits(S)) = Len(trades)
           /\ DOMAIN trades = 1 .. Len(trades) /\ Len(trades) \in Nat
<1> SUFFICES ASSUME TypeOK, AccountingChain, NEW S
             PROVE  /\ Profits(S) \in Seq(Int) /\ Len(Profits(S)) = Len(trades)
                    /\ DOMAIN trades = 1 .. Len(trades) /\ Len(trades) \in Nat
  OBVIOUS
<1>1. /\ trades \in Seq(TradeType) /\ breakdowns \in Seq(BreakdownType)
      /\ DOMAIN trades = 1 .. Len(trades) /\ Len(trades) \in Nat
  BY DEF TypeOK, TablesOK
<1>2. \A i \in DOMAIN trades : trades[i].pnl \in Int
  <2>1. \A i \in DOMAIN trades : trades[i] \in TradeType
    BY <1>1
  <2> QED  BY <2>1 DEF TradeType
<1>3. \A b \in DOMAIN breakdowns : breakdowns[b].net \in Int
  <2>1. \A b \in DOMAIN breakdowns : breakdowns[b] \in BreakdownType
    BY <1>1
  <2> QED  BY <2>1 DEF BreakdownType
<1>4. ASSUME NEW i \in DOMAIN trades, trades[i].side = "exit" PROVE BookedPnl(i) \in Int
  <2>1. \E c \in DOMAIN breakdowns : breakdowns[c].trade = i
    BY <1>4 DEF AccountingChain, ExitsBrokenDown
  <2> QED  BY <1>2, <1>3, <2>1 DEF BookedPnl
<1>5. \A i \in DOMAIN trades : Profits(S)[i] \in Int /\ DOMAIN Profits(S) = DOMAIN trades
  BY <1>4 DEF Profits, Booked
<1>6. Profits(S) \in [1 .. Len(trades) -> Int]
  BY <1>1, <1>5 DEF Profits
<1>7. Profits(S) \in Seq(Int) /\ Len(Profits(S)) = Len(trades)
  <2> DEFINE q == Profits(S)
             n == Len(trades)
  <2>1. q \in [1 .. n -> Int] /\ n \in Nat
    BY <1>1, <1>6
  <2> HIDE DEF q, n
  <2>2. q \in Seq(Int) /\ Len(q) = n
    BY <2>1
  <2> QED  BY <2>2 DEF q, n
<1> QED
  BY <1>1, <1>7

LEMMA ProfitsTypeNext ==
  (TypeOK /\ AccountingChain =>
    \A S : /\ Profits(S) \in Seq(Int) /\ Len(Profits(S)) = Len(trades)
           /\ DOMAIN trades = 1 .. Len(trades) /\ Len(trades) \in Nat)'
BY ProfitsType, PTL

\* One more trade, entered or exited, on the tables.
OneMore(n) ==
  /\ DOMAIN trades = 1 .. n /\ DOMAIN trades' = 1 .. n + 1 /\ Len(trades') = n + 1
  /\ \A i \in 1 .. n : trades'[i] = trades[i]
  /\ Extends(breakdowns, breakdowns')
  /\ \A c \in DOMAIN breakdowns' \ DOMAIN breakdowns : breakdowns'[c].trade = n + 1
  /\ closing = NoClosing /\ run' = run /\ mark' = mark

\* What was booked of the trades before stays booked as it was.
LEMMA ProfitsKept ==
  ASSUME AccountingChain, NEW n \in Nat, OneMore(n), NEW S, NEW i \in 1 .. n
  PROVE  Profits(S)'[i] = Profits(S)[i]
<1>1. i \in DOMAIN trades /\ i \in DOMAIN trades' /\ i # n + 1 /\ trades'[i] = trades[i]
  BY DEF OneMore
<1>2. i \in Booked(S)' <=> i \in Booked(S)
  BY <1>1 DEF Booked, OneMore
<1>3. ASSUME trades[i].side = "exit" PROVE BookedPnl(i)' = BookedPnl(i)
  <2>1. PICK d \in DOMAIN breakdowns :
          /\ breakdowns[d].trade = i
          /\ \A c \in DOMAIN breakdowns : breakdowns[c].trade = i => c = d
    BY <1>1, <1>3 DEF AccountingChain, ExitsBrokenDown
  <2>2. /\ d \in DOMAIN breakdowns' /\ breakdowns'[d] = breakdowns[d]
        /\ \A c \in DOMAIN breakdowns' : breakdowns'[c].trade = i => c = d
    BY <1>1, <2>1 DEF OneMore, Extends
  <2>3. BookedPnl(i) = IF run.mode = "legacy_gross" THEN trades[i].pnl ELSE breakdowns[d].net
    BY <2>1 DEF BookedPnl
  <2>4. BookedPnl(i)' = IF run'.mode = "legacy_gross" THEN trades'[i].pnl ELSE breakdowns'[d].net
    BY <2>1, <2>2 DEF BookedPnl
  <2> QED
    BY <1>1, <2>2, <2>3, <2>4 DEF OneMore
<1>4. i \in Booked(S) => trades[i].side = "exit"
  BY DEF Booked
<1> QED
  BY <1>1, <1>2, <1>3, <1>4 DEF Profits

LEMMA TotalOneMore ==
  ASSUME TypeOK, AccountingChain, TypeOK', AccountingChain', NEW n \in Nat, OneMore(n), NEW S
  PROVE  Total(Profits(S))' = Total(Profits(S)) + Profits(S)'[n + 1]
<1>1. /\ Profits(S) \in Seq(Int) /\ Len(Profits(S)) = n
      /\ Profits(S)' \in Seq(Int) /\ Len(Profits(S)') = n + 1
  BY ProfitsType, ProfitsTypeNext DEF OneMore
<1>2. \A i \in 1 .. n : Profits(S)'[i] = Profits(S)[i]
  BY ProfitsKept
<1> QED
  <2> DEFINE x == Profits(S)
             y == Profits(S)'
  <2>1. /\ x \in Seq(Int) /\ Len(x) = n /\ y \in Seq(Int) /\ Len(y) = n + 1
        /\ \A i \in 1 .. n : y[i] = x[i]
    BY <1>1, <1>2
  <2> HIDE DEF x, y
  <2>2. Total(y) = Total(x) + y[n + 1] - 0
    BY <2>1, TotalStep
  <2>3. Total(x) \in Int /\ y[n + 1] \in Int
    BY <2>1, TotalType
  <2>4. Total(y) = Total(x) + y[n + 1]
    BY <2>2, <2>3
  <2> QED
    BY <2>4 DEF x, y

\* A slot that has traded, or that does not trade now, starts from what it started from.
LEMMA SeededKept ==
  ASSUME NEW n \in Nat, OneMore(n), NEW s, mark.trades \in Nat,
         \/ trades'[n + 1].slot # s
         \/ \E i \in 1 .. n : i > mark.trades /\ trades[i].slot = s
  PROVE  SeededByLiquidation(s)' <=> SeededByLiquidation(s)
<1>1. ASSUME SeededByLiquidation(s) PROVE SeededByLiquidation(s)'
  BY <1>1 DEF SeededByLiquidation, OneMore
<1>2. ASSUME SeededByLiquidation(s)' PROVE SeededByLiquidation(s)
  <2>1. PICK i \in 1 .. n + 1 :
          /\ i > mark.trades /\ trades'[i].slot = s /\ trades'[i].signal = Liquidation
          /\ \A j \in mark.trades + 1 .. i - 1 : trades'[j].slot # s
    BY <1>2 DEF SeededByLiquidation, OneMore
  <2>2. i # n + 1
    <3>1. SUFFICES ASSUME i = n + 1 PROVE FALSE
      OBVIOUS
    <3>2. PICK j \in 1 .. n : j > mark.trades /\ trades[j].slot = s
      BY <2>1, <3>1
    <3>3. j \in mark.trades + 1 .. i - 1
      BY <3>1, <3>2
    <3> QED  BY <2>1, <3>2, <3>3 DEF OneMore
  <2>3. i \in 1 .. n /\ \A j \in mark.trades + 1 .. i - 1 : j \in 1 .. n
    BY <2>1, <2>2
  <2> QED
    BY <2>1, <2>3 DEF SeededByLiquidation, OneMore
<1> QED
  BY <1>1, <1>2

(***************************************************************************)
(* Steps.                                                                  *)
(***************************************************************************)
\* Nothing the books are made of changes.
Calm ==
  /\ UNCHANGED <<trades, breakdowns, realized, slotEq, run, mark, closing>>
  /\ used'.faults = used.faults /\ (pc = "down" => pc' = "down")

\* The process dies, or a statement fails.
Broken ==
  /\ UNCHANGED mark /\ closing' = NoClosing
  /\ \/ pc' = "down" /\ used'.faults = used.faults /\ trades' = trades
     \/ used'.faults = used.faults + 1 /\ Len(trades') >= Len(trades)

\* The position of slot s is closed, from this base.
Exits(s, base, sig) ==
  /\ pc # "down" /\ closing = NoClosing
  /\ positions[s] # NoPosition /\ feed[s].price \in Prices
  /\ base \in Sizes /\ sig \in Sigs /\ (sig # Liquidation => base = run.size[s])
  /\ \/ CloseGross(s, base, sig)
     \/ CloseNet(s, base, sig)

\* What a step does to the books.
LEMMA BookKinds ==
  ASSUME TypeInv, [Next]_vars
  PROVE  \/ Start \/ Calm \/ Broken \/ Enter \/ LedgerInsert
         \/ \E s \in Slots : \E base, sig : Exits(s, base, sig)
<1> DEFINE Kind == \/ Start \/ Calm \/ Broken \/ Enter \/ LedgerInsert
                   \/ \E s \in Slots : \E base, sig : Exits(s, base, sig)
<1> SUFFICES Kind
  OBVIOUS
<1>0. /\ pc # "ledger" => closing = NoClosing
      /\ used.faults \in Nat
      /\ \A f : used' = [used EXCEPT !.ticks = f] => used'.faults = used.faults
      /\ \A f : used' = [used EXCEPT !.crashes = f] => used'.faults = used.faults
      /\ \A f : used' = [used EXCEPT !.faults = f] => used'.faults = f
  BY DEF TypeInv, ControlOK, TypeOK, CountOK
<1> HIDE DEF Kind
<1>1. ASSUME UNCHANGED vars PROVE Kind
  BY <1>1 DEF Kind, Calm, vars, tables, memory, control
<1>2. ASSUME Start \/ Enter \/ LedgerInsert PROVE Kind
  BY <1>2 DEF Kind
<1>3. ASSUME Crash PROVE Kind
  <2>1. used'.faults = used.faults
    BY <1>0, <1>3 DEF Crash
  <2> QED  BY <1>3, <2>1 DEF Kind, Broken, Crash, LeaveTick, tables
<1>4. ASSUME NEW f \in [Slots -> Feeds], BeginTick(f) \/ RefuseTick(f) PROVE Kind
  <2>1. used'.faults = used.faults /\ pc # "down"
    BY <1>0, <1>4 DEF BeginTick, RefuseTick, CountTick
  <2> QED  BY <1>4, <2>1 DEF Kind, Calm, BeginTick, RefuseTick, tables, control
<1>5. ASSUME MarginDone \/ Stay \/ EquitySnapshot \/ PortfolioSnapshot PROVE Kind
  BY <1>5 DEF Kind, Calm, MarginDone, Stay, EquitySnapshot, PortfolioSnapshot, InSlotLoop,
     tables, memory
<1>6. ASSUME SkipSlot \/ RefuseClose \/ EquitySource \/ PortfolioSource PROVE Kind
  <2>1. pc # "ledger" /\ pc # "down"
    BY <1>6 DEF SkipSlot, RefuseClose, EquitySource, PortfolioSource, InSlotLoop
  <2>2. closing' = NoClosing
    BY <1>6 DEF SkipSlot, RefuseClose, EquitySource, PortfolioSource, NextSlot, LeaveTick
  <2> QED
    BY <1>0, <1>6, <2>1, <2>2 DEF Kind, Calm, SkipSlot, RefuseClose, EquitySource, PortfolioSource,
       tables, memory
<1>7. ASSUME StatementFault \/ AbortFault PROVE Kind
  <2>1. used'.faults = used.faults + 1
    BY <1>0, <1>7 DEF StatementFault, AbortFault, CountFault
  <2>2. Len(trades') >= Len(trades) /\ mark' = mark
    BY <1>7 DEF StatementFault, AbortFault, tables, TypeInv, TypeOK, TablesOK
  <2> QED  BY <1>7, <2>1, <2>2 DEF Kind, Broken, StatementFault, AbortFault, NextSlot, LeaveTick
<1>8. ASSUME NEW s \in Slots, NEW sig \in {-1, 0, Liquidation}, UnbookedClose(s, sig) PROVE Kind
  <2>1. used'.faults = used.faults + 1
    BY <1>0, <1>8 DEF UnbookedClose, CountFault
  <2>2. Len(trades') = Len(trades) + 1 /\ Len(trades) \in Nat
    BY <1>8, NetRowsLen DEF UnbookedClose, TypeInv, TypeOK, TablesOK
  <2> QED  BY <1>8, <2>1, <2>2 DEF Kind, Broken, UnbookedClose, NextSlot
<1>9. ASSUME NEW s \in Slots, LiquidateGross(s) \/ LiquidateNet(s) PROVE Kind
  <2>1. s \in Due(feed) /\ pc = "margin"
    BY <1>9 DEF LiquidateGross, LiquidateNet
  <2>2. positions[s] # NoPosition /\ feed[s].price \in Prices
    BY <2>1, DueOpen, FeedFields DEF TypeInv
  <2>3. positions[s].size \in Sizes /\ Liquidation \in Sigs
    BY <2>2, EntryType DEF TypeInv, Sigs
  <2>4. Exits(s, positions[s].size, Liquidation)
    BY <1>0, <1>9, <2>1, <2>2, <2>3 DEF Exits, LiquidateGross, LiquidateNet
  <2> QED  BY <2>4 DEF Kind
<1>10. ASSUME ExitGross \/ ExitNet PROVE Kind
  <2>1. ExitDue
    BY <1>10 DEF ExitGross, ExitNet
  <2>2. slot \in Slots /\ feed[slot].price \in Prices /\ run.size[slot] \in Sizes
    BY <2>1, SlotInHand, EntryType DEF ExitDue, TypeInv
  <2>3. positions[slot] # NoPosition /\ Signal \in Sigs /\ pc = "signal"
    BY <2>1, <2>2, FeedFields DEF ExitDue, HasPosition, InSlotLoop, Signal, Sigs, TypeInv
  <2>4. Exits(slot, run.size[slot], Signal)
    BY <1>0, <1>10, <2>2, <2>3 DEF Exits, ExitGross, ExitNet
  <2> QED  BY <2>2, <2>4 DEF Kind
<1> QED
  BY <1>1, <1>2, <1>3, <1>4, <1>5, <1>6, <1>7, <1>8, <1>9, <1>10 DEF Next, Tick, Fault

LEMMA BooksCalm ==
  ASSUME BooksInv, Calm
  PROVE  BooksInv'
<1>1. \A S : Profits(S)' = Profits(S)
  BY DEF Calm, Profits, Booked, BookedPnl
<1>2. \A s : SeededByLiquidation(s)' <=> SeededByLiquidation(s)
  BY DEF Calm, SeededByLiquidation
<1>3. \A s : SlotBalances(s)' <=> SlotBalances(s)
  BY <1>1, <1>2 DEF Calm, SlotBalances
<1>4. MarkOK' /\ InHandOK'
  BY DEF BooksInv, Calm, MarkOK, InHandOK
<1>5. Sound' => Sound
  BY DEF Sound, Calm
<1>6. Balanced => Balanced'
  BY <1>1, <1>3 DEF Balanced, Calm, TradedIfTracked, InHand
<1> QED
  BY <1>4, <1>5, <1>6 DEF BooksInv

LEMMA CountFields ==
  TypeOK => mark.trades \in Nat /\ mark.faults \in Nat /\ used.faults \in Nat /\ Len(trades) \in Nat
<1>1. TypeOK => Len(trades) \in Nat
  BY DEF TypeOK, TablesOK
<1>2. CountOK => mark.trades \in Nat /\ mark.faults \in Nat /\ used.faults \in Nat
  BY DEF CountOK
<1> QED
  BY <1>1, <1>2 DEF TypeOK

LEMMA CountFieldsNext == (TypeOK => Len(trades) \in Nat)'
<1>1. TypeOK => Len(trades) \in Nat
  BY CountFields
<1> QED
  BY <1>1, PTL

LEMMA BooksBroken ==
  ASSUME TypeInv, TypeInv', BooksInv, Broken
  PROVE  BooksInv'
<1>1. /\ mark.trades \in Nat /\ mark.faults \in Nat /\ used.faults \in Nat
      /\ Len(trades) \in Nat /\ Len(trades') \in Nat
  BY CountFields, CountFieldsNext DEF TypeInv
<1>2. MarkOK' /\ ~Sound'
  BY <1>1 DEF BooksInv, MarkOK, Broken, Sound
<1>3. InHandOK'
  BY DEF InHandOK, Broken
<1> QED
  BY <1>2, <1>3 DEF BooksInv

LEMMA BooksStart ==
  ASSUME TypeInv, TypeInv', AccountingChain', Start
  PROVE  BooksInv'
<1>1. /\ closing' = NoClosing /\ realized' = 0 /\ slotEq' = NoMemory
      /\ mark' = [trades |-> Len(trades), faults |-> used.faults]
      /\ trades' = trades /\ used' = used
  BY DEF Start, ForgetMemory, LeaveTick, tables
<1>2. /\ mark'.trades = Len(trades) /\ mark'.faults = used.faults
      /\ DOMAIN trades = 1 .. Len(trades) /\ Len(trades) \in Nat /\ used.faults \in Nat
  BY <1>1 DEF TypeInv, TypeOK, TablesOK, CountOK
<1>3. MarkOK' /\ InHandOK'
  BY <1>1, <1>2 DEF MarkOK, InHandOK
<1>4. Total(Profits(Slots))' = 0
  <2>1. Profits(Slots)' \in Seq(Int) /\ Len(Profits(Slots)') = Len(trades)
    BY <1>1, ProfitsTypeNext DEF TypeInv
  <2>2. \A i \in 1 .. Len(trades) : Profits(Slots)'[i] = 0
    BY <1>1, <1>2 DEF Profits, Booked
  <2> DEFINE y == Profits(Slots)'
  <2>3. y \in Seq(Int) /\ \A i \in 1 .. Len(y) : y[i] = 0
    BY <2>1, <2>2
  <2> HIDE DEF y
  <2>4. Total(y) = 0
    BY <2>3, TotalZero
  <2> QED  BY <2>4 DEF y
<1>5. \A s \in Slots : slotEq'[s] = NoEquity
  BY <1>1 DEF NoMemory
<1>6. \A s \in Slots : SlotBalances(s)'
  BY <1>1, <1>2, <1>5 DEF SlotBalances
<1>7. TradedIfTracked'
  BY <1>5 DEF TradedIfTracked
<1> QED
  BY <1>1, <1>3, <1>4, <1>6, <1>7 DEF BooksInv, Balanced

\* A slot with no booked trade has earned nothing.
LEMMA UntrackedZero ==
  ASSUME TypeOK, AccountingChain, NEW s,
         \A i \in DOMAIN trades : trades[i].slot = s /\ i > mark.trades => InHand(i)
  PROVE  Total(Profits({s})) = 0
<1> DEFINE x == Profits({s})
<1>1. x \in Seq(Int) /\ Len(x) = Len(trades) /\ DOMAIN trades = 1 .. Len(trades)
  BY ProfitsType
<1>2. \A i \in DOMAIN trades : x[i] = 0
  BY DEF Profits, Booked, InHand
<1> HIDE DEF x
<1>3. Total(x) = 0
  BY <1>1, <1>2, TotalZero
<1> QED
  BY <1>3 DEF x

\* The only trade of this process in a slot is the last one.
FirstIsLast(s) ==
  /\ Len(trades) > mark.trades /\ trades[Len(trades)].slot = s
  /\ \A i \in DOMAIN trades : i > mark.trades /\ trades[i].slot = s => i = Len(trades)

LEMMA SeededFirst ==
  TypeOK => \A s : FirstIsLast(s) =>
    (SeededByLiquidation(s) <=> trades[Len(trades)].signal = Liquidation)
<1> SUFFICES ASSUME TypeOK, NEW s, FirstIsLast(s)
             PROVE  SeededByLiquidation(s) <=> trades[Len(trades)].signal = Liquidation
  OBVIOUS
<1>1. mark.trades \in Nat /\ DOMAIN trades = 1 .. Len(trades) /\ Len(trades) \in Nat
  BY DEF TypeOK, TablesOK, CountOK
<1>2. Len(trades) \in DOMAIN trades /\ Len(trades) > mark.trades /\ trades[Len(trades)].slot = s
  BY <1>1 DEF FirstIsLast
<1>3. ASSUME NEW j \in mark.trades + 1 .. Len(trades) - 1 PROVE trades[j].slot # s
  <2>1. j \in DOMAIN trades /\ j > mark.trades /\ j # Len(trades)
    <3> DEFINE m == mark.trades
               n == Len(trades)
    <3>1. m \in Nat /\ n \in Nat /\ DOMAIN trades = 1 .. n /\ j \in m + 1 .. n - 1
      BY <1>1
    <3> HIDE DEF m, n
    <3>2. j \in 1 .. n /\ j > m /\ j # n
      BY <3>1
    <3> QED  BY <3>1, <3>2 DEF m, n
  <2> QED  BY <2>1 DEF FirstIsLast
<1>4. SeededByLiquidation(s) => trades[Len(trades)].signal = Liquidation
  BY DEF SeededByLiquidation, FirstIsLast
<1> QED
  BY <1>2, <1>3, <1>4 DEF SeededByLiquidation

LEMMA SeededFirstNext ==
  (TypeOK => \A s : FirstIsLast(s) =>
    (SeededByLiquidation(s) <=> trades[Len(trades)].signal = Liquidation))'
BY SeededFirst, PTL

LEMMA BooksEnter ==
  ASSUME TypeInv, TypeInv', AccountingChain, AccountingChain', BooksInv, Enter
  PROVE  BooksInv'
<1> PICK n \in Nat : n = Len(trades)
  BY DEF TypeInv, TypeOK, TablesOK
<1> DEFINE t == [slot |-> slot, side |-> "entry", price |-> feed[slot].price, signal |-> 1, pnl |-> 0]
<1>1. /\ trades' = Append(trades, t)
      /\ UNCHANGED <<breakdowns, run, realized, closing, mark, used>>
      /\ slotEq' = [slotEq EXCEPT ![slot] = IF @ = NoEquity THEN run.size[slot] ELSE @]
      /\ pc = "signal" /\ slot \in Slots
  BY DEF Enter, InSlotLoop
<1>2. t.slot = slot /\ t.side = "entry" /\ t.signal = 1
  OBVIOUS
<1> HIDE DEF t
<1>3. closing = NoClosing /\ closing' = NoClosing
  BY <1>1 DEF TypeInv, ControlOK
<1>4. /\ DOMAIN trades = 1 .. n /\ DOMAIN trades' = 1 .. n + 1 /\ Len(trades') = n + 1
      /\ \A i \in 1 .. n : trades'[i] = trades[i]
      /\ trades'[n + 1] = t
  <2>1. trades \in Seq(TradeType) /\ trades' \in Seq(TradeType)
    BY DEF TypeInv, TypeOK, TablesOK
  <2>2. DOMAIN trades' = 1 .. Len(trades') /\ Len(trades') \in Nat
    BY <2>1
  <2>3. DOMAIN trades' = 1 .. n + 1
    BY <1>1, <2>1, AppendedRow
  <2>4. Len(trades') = n + 1
    BY <1>1, <2>1
  <2> QED  BY <1>1, <2>1, <2>3, <2>4, AppendedRow
<1>5. OneMore(n)
  BY <1>1, <1>3, <1>4 DEF OneMore, Extends
<1>6. \A S : Profits(S)'[n + 1] = 0
  BY <1>2, <1>4 DEF Profits, Booked
<1>7. \A S : Total(Profits(S))' = Total(Profits(S))
  <2> TAKE S
  <2>1. Total(Profits(S))' = Total(Profits(S)) + Profits(S)'[n + 1]
    BY <1>5, TotalOneMore DEF TypeInv
  <2>2. Total(Profits(S)) \in Int
    BY ProfitsType, TotalType DEF TypeInv
  <2> QED  BY <1>6, <2>1, <2>2
<1>8. mark.trades \in Nat /\ mark.trades <= n /\ mark.trades < n + 1
  BY DEF TypeInv, TypeOK, CountOK, BooksInv, MarkOK
<1>9. MarkOK' /\ InHandOK'
  BY <1>1, <1>3, <1>4, <1>8 DEF BooksInv, MarkOK, InHandOK
<1> SUFFICES ASSUME Sound' PROVE Balanced'
  BY <1>9 DEF BooksInv
<1>10. Balanced
  BY <1>1 DEF BooksInv, Sound
<1>11. \A s \in Slots : slotEq'[s] = IF s = slot /\ slotEq[s] = NoEquity THEN run.size[s] ELSE slotEq[s]
  BY <1>1 DEF TypeInv, TypeOK, MemoryOK
<1>12. \A s \in Slots : slotEq[s] # NoEquity => \E i \in 1 .. n : i > mark.trades /\ trades[i].slot = s
  BY <1>4, <1>10 DEF Balanced, TradedIfTracked
<1>13. TradedIfTracked'
  <2> SUFFICES ASSUME NEW s \in Slots, slotEq'[s] # NoEquity
               PROVE  \E i \in DOMAIN trades' : i > mark'.trades /\ trades'[i].slot = s /\ ~InHand(i)'
    BY DEF TradedIfTracked
  <2>1. CASE s = slot
    BY <1>1, <1>2, <1>3, <1>4, <1>8, <2>1 DEF InHand
  <2>2. CASE s # slot
    BY <1>1, <1>3, <1>4, <1>11, <1>12, <2>2 DEF InHand
  <2> QED  BY <2>1, <2>2
<1>14. ASSUME NEW s \in Slots PROVE SlotBalances(s)'
  <2>1. SlotBalances(s)
    BY <1>10 DEF Balanced
  <2>2. CASE slotEq[s] # NoEquity
    <3>1. SeededByLiquidation(s)' <=> SeededByLiquidation(s)
      BY <1>5, <1>8, <1>12, <2>2, SeededKept
    <3> QED  BY <1>1, <1>7, <1>11, <2>1, <2>2, <3>1 DEF SlotBalances
  <2>3. CASE slotEq[s] = NoEquity /\ s # slot
    BY <1>1, <1>2, <1>3, <1>4, <1>11, <2>1, <2>3 DEF SlotBalances
  <2>4. CASE slotEq[s] = NoEquity /\ s = slot
    <3>1. \A i \in DOMAIN trades : i > mark.trades => trades[i].slot # s
      BY <1>3, <2>1, <2>4 DEF SlotBalances
    <3>2. Total(Profits({s})) = 0
      BY <3>1, UntrackedZero DEF TypeInv
    <3>3. ~SeededByLiquidation(s)'
      BY <1>1, <1>2, <1>4, <3>1 DEF SeededByLiquidation, Liquidation
    <3>4. run.size[s] \in Int /\ slotEq'[s] = run.size[s] /\ run.size[s] # NoEquity
      BY <1>11, <2>4, EntryType, Constants, PaperAssumption DEF TypeInv, PaperAssumption
    <3>5. slotEq'[s] - Total(Profits({s}))' = run.size[s]
      BY <1>7, <3>2, <3>4
    <3> QED  BY <1>1, <3>3, <3>4, <3>5 DEF SlotBalances
  <2> QED  BY <2>2, <2>3, <2>4
<1> QED
  BY <1>1, <1>7, <1>10, <1>13, <1>14 DEF Balanced

\* The trade of a close.
LEMMA CloseRowsTrade ==
  ASSUME TypeInv, TypeInv', AccountingChain, NEW s \in Slots, positions[s] # NoPosition,
         NEW price \in Prices, NEW sig, CloseRows(s, price, sig),
         closing = NoClosing, run' = run, mark' = mark,
         NEW n \in Nat, NEW b \in Nat, n = Len(trades), b = Len(breakdowns)
  PROVE  /\ OneMore(n) /\ ClosePair(n, b)
         /\ trades'[n + 1].slot = s /\ trades'[n + 1].side = "exit"
         /\ trades'[n + 1].signal = sig
         /\ trades'[n + 1].pnl = Gross(positions[s], price)
         /\ Gross(positions[s], price) \in Int /\ Cost(positions[s]) \in Int
         /\ breakdowns'[b + 1].net = Gross(positions[s], price) - Cost(positions[s])
<1> DEFINE gross == Gross(positions[s], price)
           t == [slot |-> s, side |-> "exit", price |-> price, signal |-> sig, pnl |-> gross]
<1>1. trades' = Append(trades, t) /\ \E row : breakdowns' = Append(breakdowns, row)
  BY DEF CloseRows
<1>2. t.slot = s /\ t.side = "exit" /\ t.signal = sig /\ t.pnl = gross
  OBVIOUS
<1> HIDE DEF t
<1>3. positions[s] \in PositionType /\ run.cost \in CostRates
  BY DEF TypeInv, TypeOK, TablesOK, MemoryOK, RunType
<1>4. gross \in Int /\ Cost(positions[s]) \in Int
  BY <1>3, GrossType, CostType
<1>5. ClosePair(n, b) /\ breakdowns'[b + 1].net = gross - Cost(positions[s])
  BY CloseRowsPair DEF TypeInv
<1>6. trades'[n + 1] = t /\ Len(trades') = n + 1
  <2>1. trades \in Seq(TradeType)
    BY DEF TypeInv, TypeOK, TablesOK
  <2> QED  BY <1>1, <2>1, AppendedRow
<1>7. OneMore(n)
  BY <1>5, <1>6 DEF OneMore, ClosePair, Extends
<1> QED
  BY <1>2, <1>4, <1>5, <1>6, <1>7

LEMMA BooksGross ==
  ASSUME TypeInv, TypeInv', AccountingChain, AccountingChain', BooksInv,
         NEW s \in Slots, NEW base, NEW sig, Exits(s, base, sig), CloseGross(s, base, sig)
  PROVE  BooksInv'
<1> PICK n \in Nat, b \in Nat : n = Len(trades) /\ b = Len(breakdowns)
  BY DEF TypeInv, TypeOK, TablesOK
<1> DEFINE price == feed[s].price
           hand == [slot |-> s, base |-> base, pnl |-> Gross(positions[s], price), breakdown |-> b + 1]
<1>1. /\ CloseRows(s, price, sig) /\ closing' = hand
      /\ run.mode = "legacy_gross" /\ pc' = "ledger"
      /\ UNCHANGED <<slotEq, realized, run, mark, used>>
  BY DEF CloseGross, memory
<1>2. /\ hand.slot = s /\ hand.base = base /\ hand.pnl = Gross(positions[s], price)
  OBVIOUS
<1> HIDE DEF hand
<1>3. /\ positions[s] # NoPosition /\ price \in Prices /\ closing = NoClosing
      /\ sig # Liquidation => base = run.size[s]
  BY DEF Exits
<1>4. /\ OneMore(n) /\ trades'[n + 1].slot = s /\ trades'[n + 1].side = "exit"
      /\ trades'[n + 1].signal = sig /\ trades'[n + 1].pnl = Gross(positions[s], price)
  BY <1>1, <1>3, CloseRowsTrade
<1>5. /\ DOMAIN trades = 1 .. n /\ DOMAIN trades' = 1 .. n + 1 /\ Len(trades') = n + 1
      /\ \A i \in 1 .. n : trades'[i] = trades[i]
  BY <1>4 DEF OneMore
<1>6. closing' # NoClosing /\ InHand(n + 1)' /\ \A i \in 1 .. n : ~InHand(i)'
  BY <1>1, <1>5 DEF TypeInv, ControlOK, InHand
<1>7. \A S : Profits(S)'[n + 1] = 0
  BY <1>5, <1>6 DEF Profits, Booked, InHand
<1>8. \A S : Total(Profits(S))' = Total(Profits(S))
  <2> TAKE S
  <2>1. Total(Profits(S))' = Total(Profits(S)) + Profits(S)'[n + 1]
    BY <1>4, TotalOneMore DEF TypeInv
  <2>2. Total(Profits(S)) \in Int
    BY ProfitsType, TotalType DEF TypeInv
  <2> QED  BY <1>7, <2>1, <2>2
<1>9. mark.trades \in Nat /\ mark.trades <= n /\ mark.trades < n + 1
  BY DEF TypeInv, TypeOK, CountOK, BooksInv, MarkOK
<1>10. MarkOK' /\ InHandOK'
  BY <1>1, <1>2, <1>3, <1>4, <1>5, <1>9 DEF BooksInv, MarkOK, InHandOK
<1> SUFFICES ASSUME Sound' PROVE Balanced'
  BY <1>10 DEF BooksInv
<1>11. Balanced
  BY <1>1 DEF BooksInv, Sound, Exits
<1>12. \A q \in Slots : slotEq[q] # NoEquity => \E i \in 1 .. n : i > mark.trades /\ trades[i].slot = q
  BY <1>5, <1>11 DEF Balanced, TradedIfTracked
<1>13. TradedIfTracked'
  BY <1>1, <1>5, <1>6, <1>12 DEF TradedIfTracked
<1>14. ASSUME NEW q \in Slots PROVE SlotBalances(q)'
  <2>1. SlotBalances(q)
    BY <1>11 DEF Balanced
  <2>2. CASE slotEq[q] # NoEquity
    <3>1. SeededByLiquidation(q)' <=> SeededByLiquidation(q)
      BY <1>4, <1>9, <1>12, <2>2, SeededKept
    <3> QED  BY <1>1, <1>8, <2>1, <2>2, <3>1 DEF SlotBalances
  <2>3. CASE slotEq[q] = NoEquity
    BY <1>1, <1>3, <1>5, <1>6, <2>1, <2>3 DEF SlotBalances
  <2> QED  BY <2>2, <2>3
<1> QED
  BY <1>1, <1>8, <1>11, <1>13, <1>14 DEF Balanced

LEMMA BooksNet ==
  ASSUME TypeInv, TypeInv', AccountingChain, AccountingChain', BooksInv, pc # "down",
         NEW s \in Slots, NEW base, NEW sig, Exits(s, base, sig), CloseNet(s, base, sig)
  PROVE  BooksInv'
<1> PICK n \in Nat, b \in Nat : n = Len(trades) /\ b = Len(breakdowns)
  BY DEF TypeInv, TypeOK, TablesOK
<1> DEFINE price == feed[s].price
           pnl == Gross(positions[s], price) - Cost(positions[s])
<1>1. /\ CloseRows(s, price, sig) /\ BookPnl(s, base, pnl)
      /\ run.mode = "estimated_net" /\ UNCHANGED <<run, mark, used, closing>>
  BY DEF CloseNet, NetRows
<1>2. /\ positions[s] # NoPosition /\ price \in Prices /\ closing = NoClosing
      /\ base \in Sizes /\ (sig # Liquidation => base = run.size[s])
  BY DEF Exits
<1>3. /\ OneMore(n) /\ ClosePair(n, b)
      /\ trades'[n + 1].slot = s /\ trades'[n + 1].side = "exit"
      /\ trades'[n + 1].signal = sig /\ breakdowns'[b + 1].net = pnl /\ pnl \in Int
  BY <1>1, <1>2, CloseRowsTrade
<1> HIDE DEF pnl
<1>4. /\ DOMAIN trades = 1 .. n /\ DOMAIN trades' = 1 .. n + 1 /\ Len(trades') = n + 1
      /\ \A i \in 1 .. n : trades'[i] = trades[i]
  BY <1>3 DEF OneMore
<1>5. mark.trades \in Nat /\ mark.trades <= n /\ mark.trades < n + 1
  BY DEF TypeInv, TypeOK, CountOK, BooksInv, MarkOK
<1>6. BookedPnl(n + 1)' = pnl
  <2>1. b + 1 \in DOMAIN breakdowns' /\ breakdowns'[b + 1].trade = n + 1
    BY <1>3 DEF ClosePair
  <2>2. \A c \in DOMAIN breakdowns' : breakdowns'[c].trade = n + 1 => c = b + 1
    <3>1. \A c \in DOMAIN breakdowns : breakdowns[c].trade \in 1 .. n
      BY <1>4 DEF AccountingChain, BreakdownsOfExits
    <3> QED  BY <1>3, <3>1 DEF ClosePair
  <2>3. BookedPnl(n + 1)' = breakdowns'[b + 1].net
    BY <1>1, <2>1, <2>2 DEF BookedPnl
  <2> QED  BY <1>3, <2>3
<1>7. \A S : Profits(S)'[n + 1] = IF s \in S THEN pnl ELSE 0
  <2>1. \A S : n + 1 \in Booked(S)' <=> s \in S
    BY <1>1, <1>2, <1>3, <1>4, <1>5 DEF Booked
  <2> QED  BY <1>4, <1>6, <2>1 DEF Profits
<1>8. \A S : /\ Total(Profits(S)) \in Int
             /\ Total(Profits(S))' = Total(Profits(S)) + (IF s \in S THEN pnl ELSE 0)
  <2> TAKE S
  <2>1. Total(Profits(S))' = Total(Profits(S)) + Profits(S)'[n + 1]
    BY <1>3, TotalOneMore DEF TypeInv
  <2>2. Total(Profits(S)) \in Int
    BY ProfitsType, TotalType DEF TypeInv
  <2> QED  BY <1>7, <2>1, <2>2
<1>9. MarkOK' /\ InHandOK'
  BY <1>1, <1>2, <1>4, <1>5 DEF BooksInv, MarkOK, InHandOK
<1> SUFFICES ASSUME Sound' PROVE Balanced'
  BY <1>9 DEF BooksInv
<1>10. Balanced
  BY <1>1 DEF BooksInv, Sound
<1>11. /\ realized' = realized + pnl
       /\ \A q \in Slots : slotEq'[q] = IF q # s THEN slotEq[q]
                                        ELSE (IF slotEq[s] = NoEquity THEN base ELSE slotEq[s]) + pnl
       /\ \A q \in Slots : slotEq[q] \in Int \cup {NoEquity}
  BY <1>1 DEF BookPnl, TypeInv, TypeOK, MemoryOK
<1>12. \A q \in Slots : slotEq[q] # NoEquity => \E i \in 1 .. n : i > mark.trades /\ trades[i].slot = q
  BY <1>4, <1>10 DEF Balanced, TradedIfTracked
<1>13. TradedIfTracked'
  <2> SUFFICES ASSUME NEW q \in Slots, slotEq'[q] # NoEquity
               PROVE  \E i \in DOMAIN trades' : i > mark'.trades /\ trades'[i].slot = q /\ ~InHand(i)'
    BY DEF TradedIfTracked
  <2>1. CASE q = s
    BY <1>1, <1>2, <1>3, <1>4, <1>5, <2>1 DEF InHand
  <2>2. CASE q # s
    BY <1>1, <1>2, <1>4, <1>11, <1>12, <2>2 DEF InHand
  <2> QED  BY <2>1, <2>2
<1>14. ASSUME NEW q \in Slots PROVE SlotBalances(q)'
  <2>1. SlotBalances(q)
    BY <1>10 DEF Balanced
  <2>2. CASE slotEq[q] # NoEquity
    <3>1. SeededByLiquidation(q)' <=> SeededByLiquidation(q)
      BY <1>3, <1>5, <1>12, <2>2, SeededKept
    <3>2. slotEq'[q] - Total(Profits({q}))' = slotEq[q] - Total(Profits({q}))
      BY <1>3, <1>8, <1>11, <2>2
    <3>3. slotEq'[q] # NoEquity
      BY <1>3, <1>11, <2>2, PaperAssumption DEF PaperAssumption
    <3> QED  BY <1>1, <2>1, <2>2, <3>1, <3>2, <3>3 DEF SlotBalances
  <2>3. CASE slotEq[q] = NoEquity /\ q # s
    BY <1>1, <1>2, <1>3, <1>4, <1>11, <2>1, <2>3 DEF SlotBalances
  <2>4. CASE slotEq[q] = NoEquity /\ q = s
    <3>1. \A i \in DOMAIN trades : i > mark.trades => trades[i].slot # s
      BY <1>2, <2>1, <2>4 DEF SlotBalances
    <3>2. Total(Profits({q})) = 0
      BY <2>4, <3>1, UntrackedZero DEF TypeInv
    <3>3. FirstIsLast(s)'
      BY <1>1, <1>3, <1>4, <1>5, <3>1 DEF FirstIsLast
    <3>4. SeededByLiquidation(s)' <=> sig = Liquidation
      BY <1>3, <1>4, <3>3, SeededFirstNext DEF TypeInv
    <3>5. base \in Int /\ slotEq'[q] = base + pnl
      BY <1>2, <1>11, <2>4, Constants
    <3>6. slotEq'[q] - Total(Profits({q}))' = base
      BY <1>3, <1>8, <2>4, <3>2, <3>5
    <3>7. slotEq'[q] # NoEquity
      BY <1>3, <3>5, PaperAssumption DEF PaperAssumption
    <3> QED  BY <1>1, <1>2, <2>4, <3>4, <3>6, <3>7 DEF SlotBalances
  <2> QED  BY <2>2, <2>3, <2>4
<1>15. realized' = Total(Profits(Slots))'
  BY <1>8, <1>10, <1>11 DEF Balanced
<1> QED
  BY <1>13, <1>14, <1>15 DEF Balanced

LEMMA BooksLedgerInsert ==
  ASSUME TypeInv, TypeInv', AccountingChain, AccountingChain', BooksInv, LedgerInsert
  PROVE  BooksInv'
<1> PICK n \in Nat : n = Len(trades)
  BY DEF TypeInv, TypeOK, TablesOK
<1> DEFINE s == closing.slot
           base == closing.base
           pnl == closing.pnl
<1>1. /\ BookPnl(s, base, pnl) /\ closing' = NoClosing /\ closing # NoClosing /\ pc = "ledger"
      /\ UNCHANGED <<trades, breakdowns, run, mark, used>>
  BY DEF LedgerInsert, TypeInv, ControlOK
<1>2. s \in Slots /\ base \in Sizes /\ pnl \in Int
  BY <1>1 DEF TypeInv, TypeOK, TickOK, ClosingType
<1>3. /\ run.mode = "legacy_gross" /\ n > mark.trades /\ trades[n].slot = s
      /\ trades[n].side = "exit" /\ trades[n].pnl = pnl
      /\ trades[n].signal # Liquidation => base = run.size[s]
  BY <1>1 DEF BooksInv, InHandOK
<1> HIDE DEF s, base, pnl
<1>4. DOMAIN trades = 1 .. n /\ mark.trades \in Nat /\ n \in 1 .. n
  <2>1. mark.trades \in Nat /\ n \in Nat
    BY CountFields DEF TypeInv
  <2>2. DOMAIN trades = 1 .. n
    BY DEF TypeInv, TypeOK, TablesOK
  <2> QED  BY <1>3, <2>1, <2>2
<1>5. \A S : /\ \A i \in 1 .. n : i # n => Profits(S)'[i] = Profits(S)[i]
             /\ Profits(S)[n] = 0 /\ Profits(S)'[n] = IF s \in S THEN pnl ELSE 0
  <2> TAKE S
  <2>1. \A i \in 1 .. n : i # n => (i \in Booked(S)' <=> i \in Booked(S))
    BY <1>1, <1>4 DEF Booked
  <2>2. n \notin Booked(S) /\ (n \in Booked(S)' <=> s \in S)
    BY <1>1, <1>3, <1>4 DEF Booked
  <2>3. \A i : BookedPnl(i)' = BookedPnl(i)
    BY <1>1 DEF BookedPnl
  <2>4. BookedPnl(n) = pnl
    BY <1>3 DEF BookedPnl
  <2> QED  BY <1>1, <1>4, <2>1, <2>2, <2>3, <2>4 DEF Profits
<1>6. \A S : /\ Total(Profits(S)) \in Int
             /\ Total(Profits(S))' = Total(Profits(S)) + (IF s \in S THEN pnl ELSE 0)
  <2> TAKE S
  <2> DEFINE x == Profits(S)
             y == Profits(S)'
             m == n - 1
  <2>1. /\ x \in Seq(Int) /\ Len(x) = n /\ y \in Seq(Int) /\ Len(y) = n
    BY <1>1, ProfitsType, ProfitsTypeNext DEF TypeInv
  <2>2. /\ \A i \in 1 .. n : i # n => y[i] = x[i]
        /\ x[n] = 0 /\ y[n] = IF s \in S THEN pnl ELSE 0
    BY <1>5
  <2> HIDE DEF x, y
  <2>3. m \in Nat /\ n = m + 1 /\ \A i \in 1 .. m : i \in 1 .. n /\ i # n
    BY <1>4
  <2> HIDE DEF m
  <2>4. Total(y) = Total(x) + y[m + 1] - (IF Len(x) = m THEN 0 ELSE x[m + 1])
    <3>1. Len(x) \in {m, m + 1} /\ Len(y) = m + 1 /\ \A i \in 1 .. m : y[i] = x[i]
      BY <2>1, <2>2, <2>3
    <3> QED  BY <2>1, <2>3, <3>1, TotalStep
  <2>5. Total(x) \in Int /\ Len(x) # m
    BY <2>1, <2>3, TotalType
  <2>6. Total(y) = Total(x) + y[n]
    BY <1>2, <2>2, <2>3, <2>4, <2>5
  <2> QED
    BY <2>2, <2>5, <2>6 DEF x, y
<1>7. MarkOK' /\ InHandOK'
  BY <1>1 DEF BooksInv, MarkOK, InHandOK
<1> SUFFICES ASSUME Sound' PROVE Balanced'
  BY <1>7 DEF BooksInv
<1>8. Balanced
  BY <1>1 DEF BooksInv, Sound
<1>9. /\ realized' = realized + pnl
      /\ \A q \in Slots : slotEq'[q] = IF q # s THEN slotEq[q]
                                       ELSE (IF slotEq[s] = NoEquity THEN base ELSE slotEq[s]) + pnl
      /\ \A q \in Slots : slotEq[q] \in Int \cup {NoEquity}
  BY <1>1 DEF BookPnl, TypeInv, TypeOK, MemoryOK
<1>10. \A q : SeededByLiquidation(q)' <=> SeededByLiquidation(q)
  BY <1>1 DEF SeededByLiquidation
<1>11. TradedIfTracked'
  <2> SUFFICES ASSUME NEW q \in Slots, slotEq'[q] # NoEquity
               PROVE  \E i \in DOMAIN trades' : i > mark'.trades /\ trades'[i].slot = q /\ ~InHand(i)'
    BY DEF TradedIfTracked
  <2>1. CASE q = s
    BY <1>1, <1>3, <1>4, <2>1 DEF InHand
  <2>2. CASE q # s
    BY <1>1, <1>8, <1>9, <2>2 DEF Balanced, TradedIfTracked, InHand
  <2> QED  BY <2>1, <2>2
<1>12. ASSUME NEW q \in Slots PROVE SlotBalances(q)'
  <2>1. SlotBalances(q)
    BY <1>8 DEF Balanced
  <2>2. CASE slotEq[q] # NoEquity
    <3>1. slotEq'[q] - Total(Profits({q}))' = slotEq[q] - Total(Profits({q}))
      BY <1>2, <1>6, <1>9, <2>2
    <3>2. slotEq'[q] # NoEquity
      BY <1>2, <1>9, <2>2, PaperAssumption DEF PaperAssumption
    <3> QED  BY <1>1, <1>10, <2>1, <2>2, <3>1, <3>2 DEF SlotBalances
  <2>3. CASE slotEq[q] = NoEquity /\ q # s
    BY <1>1, <1>3, <1>9, <2>1, <2>3 DEF SlotBalances
  <2>4. CASE slotEq[q] = NoEquity /\ q = s
    <3>1. \A i \in DOMAIN trades : trades[i].slot = q /\ i > mark.trades => i = n /\ InHand(i)
      BY <2>1, <2>4 DEF SlotBalances, InHand
    <3>2. Total(Profits({q})) = 0
      BY <3>1, UntrackedZero DEF TypeInv
    <3>3. SeededByLiquidation(q) <=> trades[n].signal = Liquidation
      BY <1>3, <2>4, <3>1, SeededFirst DEF TypeInv, FirstIsLast
    <3>4. base \in Int /\ slotEq'[q] = base + pnl
      BY <1>2, <1>9, <2>4, Constants
    <3>5. slotEq'[q] - Total(Profits({q}))' = base
      BY <1>2, <1>6, <2>4, <3>2, <3>4
    <3>6. slotEq'[q] # NoEquity
      BY <1>2, <3>4, PaperAssumption DEF PaperAssumption
    <3> QED  BY <1>1, <1>2, <1>3, <1>10, <2>4, <3>3, <3>5, <3>6 DEF SlotBalances
  <2> QED  BY <2>2, <2>3, <2>4
<1>13. realized' = Total(Profits(Slots))'
  BY <1>2, <1>6, <1>8, <1>9 DEF Balanced
<1> QED
  BY <1>11, <1>12, <1>13 DEF Balanced

LEMMA BooksStep ==
  TypeInv /\ TypeInv' /\ AccountingChain /\ AccountingChain' /\ BooksInv /\ [Next]_vars => BooksInv'
<1> SUFFICES ASSUME TypeInv, TypeInv', AccountingChain, AccountingChain', BooksInv, [Next]_vars
             PROVE  BooksInv'
  OBVIOUS
<1>1. ASSUME NEW s \in Slots, NEW base, NEW sig, Exits(s, base, sig) PROVE BooksInv'
  BY <1>1, BooksGross, BooksNet DEF Exits
<1> QED
  BY <1>1, BooksCalm, BooksBroken, BooksStart, BooksEnter, BooksLedgerInsert, BookKinds

LEMMA BooksInit == Init => BooksInv
<1> SUFFICES ASSUME Init PROVE BooksInv
  OBVIOUS
<1>1. /\ trades = <<>> /\ closing = NoClosing /\ pc = "down"
      /\ mark.trades = 0 /\ mark.faults = 0 /\ used.faults = 0
  BY DEF Init
<1>2. Len(trades) = 0
  BY <1>1
<1> QED
  BY <1>1, <1>2 DEF BooksInv, MarkOK, InHandOK, Sound

\* As long as no statement has failed since it started, the memory of the process is
\* the sum of what it wrote: realized_pnl of all its exits, a slot's equity of the
\* exits in that slot alone, each booked once and by the mode's own figure, a gross
\* close with its ledger row.
THEOREM BooksAlwaysBalance == Spec => []BooksBalance
<1>1. TypeInv /\ TypeInv' /\ AccountingChain /\ AccountingChain' /\ BooksInv /\ [Next]_vars => BooksInv'
  BY BooksStep
<1>2. BooksInv => BooksBalance
  BY DEF BooksInv, BooksBalance, Sound, Balanced
<1> QED
  BY <1>1, <1>2, BooksInit, TypeInvariant, AccountingChained, PTL DEF Spec
=============================================================================
