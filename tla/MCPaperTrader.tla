---------------------------- MODULE MCPaperTrader ----------------------------
EXTENDS PaperTrader

MCPrices == {1, 2}
MCLeverage == [s \in Slots |-> IF s = 1 THEN 2 ELSE 1]
MCLeverageLast == [s \in Slots |-> IF s = NumSlots THEN 2 ELSE 1]
\* no data; a price to enter or hold at, to exit at; too few bars
MCFeeds == {[price |-> 0, ready |-> FALSE, signal |-> 0],
            [price |-> 1, ready |-> FALSE, signal |-> 0],
            [price |-> 1, ready |-> TRUE, signal |-> 1],
            [price |-> 2, ready |-> TRUE, signal |-> 1],
            [price |-> 2, ready |-> TRUE, signal |-> 0]}
\* the same without the cases that carry no usable signal
MCReadyFeeds == {f \in MCFeeds : f.ready} \cup {[price |-> 0, ready |-> FALSE, signal |-> 0]}
=============================================================================
