------------------------------ MODULE OrderBook ------------------------------
(***************************************************************************)
(* One symbol's order book as matchingWorker.ts keeps it: a FIFO queue and *)
(* a running volume for every price level, the list of active prices of    *)
(* each side, and orderMap, which finds a resting order by its id.         *)
(*                                                                         *)
(* The worker is one thread and handles one message at a time, but it      *)
(* posts a TRADE_EXECUTED message in the middle of its matching loop, so   *)
(* an iteration of the loop is a step here: `taker` is the order being     *)
(* matched between two iterations.  An order is named by the order in      *)
(* which it reaches the worker (its id is a fresh UUID: the event store    *)
(* refuses a second ORDER_CREATED with the same key); prices are ticks and *)
(* quantities lots, and price 0 is a market order, as in the code.  The    *)
(* sorted arrays bidPrices and askPrices are the set `prices` and its best *)
(* member.  Three messages change nothing and are no steps: CANCEL_ORDER   *)
(* of an id the worker does not know, GET_DEPTH, and the ADD_ORDER without *)
(* a quantity that a triggered order sends; the last two post the depth    *)
(* again, which DepthFresh shows to be the depth posted before.            *)
(***************************************************************************)
EXTENDS Integers, Sequences, FiniteSets, Functions, SequencesExt

CONSTANTS MaxOrders,    \* bound: orders sent to the worker
          MaxPrice,     \* bound: highest limit price, in ticks
          MaxQuantity,  \* bound: largest order, in lots
          DepthLevels   \* levels in a DEPTH_UPDATE message (20 in the code)

ASSUME BookAssumption ==
    MaxOrders \in Nat /\ MaxPrice \in Nat /\ MaxQuantity \in Nat /\ DepthLevels \in Nat

VARIABLES node,     \* the OrderNode of every order: side, price, size, open quantity
          queue,    \* OrderQueue: the ids at a price level, oldest first
          volume,   \* OrderQueue.volume
          prices,   \* keys of bids/asks, and the members of bidPrices/askPrices
          orderMap, \* keys of orderMap
          taker,    \* the order that matchOrder works on, 0 for none
          arrived,  \* how many orders have been added
          posted,   \* TRADE_EXECUTED messages posted to the main thread
          depth     \* the last DEPTH_UPDATE posted

bookvars == <<queue, volume, prices, orderMap>>
vars == <<node, queue, volume, prices, orderMap, taker, arrived, posted, depth>>

Side == {"BUY", "SELL"}
Opposite(s) == IF s = "BUY" THEN "SELL" ELSE "BUY"
Id == 1..MaxOrders
Price == 1..MaxPrice
NoTaker == 0

OrderNode == [side : Side, price : 0..MaxPrice, size : Nat, quantity : Nat]
TradeMessage ==
    [maker : Id, taker : Id, price : Price, quantity : Nat \ {0}, buyer : Id, seller : Id]

\* ---- price levels ----

\* p comes before q in the sorted prices of side s: bids descend, asks ascend.
Better(s, p, q) == IF s = "BUY" THEN p > q ELSE p < q

\* Slip: the price list is sorted the other way round.
BestReversed(s) == CHOOSE p \in prices[s] : \A q \in prices[s] : ~Better(s, p, q)

Best(s) == CHOOSE p \in prices[s] : \A q \in prices[s] : ~Better(s, q, p)

\* Slip: an order at its very limit is left out.
AcceptsBetterOnly(t, p) ==
    \/ node[t].price = 0
    \/ node[t].side = "BUY" /\ p < node[t].price
    \/ node[t].side = "SELL" /\ p > node[t].price

\* The limit of order t allows a trade at p; a market order (price 0) allows any.
Accepts(t, p) ==
    \/ node[t].price = 0
    \/ node[t].side = "BUY" /\ p <= node[t].price
    \/ node[t].side = "SELL" /\ p >= node[t].price

\* Where an iteration of matchOrder finds the maker: the head of the best queue opposite.
MakerSide == Opposite(node[taker].side)
MakerPrice == Best(MakerSide)
Maker == Head(queue[MakerSide][MakerPrice])

\* Slip: the loop condition forgets taker.quantity > 0.
CanMatchUsedUp == prices[MakerSide] # {} /\ Accepts(taker, MakerPrice)

\* The loop of matchOrder has another iteration to run.
CanMatch ==
    /\ node[taker].quantity > 0
    /\ prices[MakerSide] # {}
    /\ Accepts(taker, MakerPrice)

\* What an order adds to the volume of its level.
OpenQuantity(i) == node[i].quantity

\* Slip: a taker that joins a level overwrites its volume.
JoinedVolumeFresh(s, p) == OpenQuantity(taker)

\* The volume of a level that the taker joins: a new OrderQueue starts from nothing.
JoinedVolume(s, p) ==
    IF p \in prices[s] THEN volume[s][p] + OpenQuantity(taker) ELSE OpenQuantity(taker)

\* Slip: remove unlinks the head whatever node it is given.
WithoutHead(q, i) == Tail(q)

\* A queue without the order that OrderQueue.remove unlinks.
Without(q, i) ==
    LET k == CHOOSE j \in 1..Len(q) : q[j] = i
    IN  SubSeq(q, 1, k - 1) \o SubSeq(q, k + 1, Len(q))

\* ---- messages to the main thread ----

\* broadcastDepth: the best levels of each side, with their volumes.
Snapshot(ps, vol) ==
    [s \in Side |->
        [p \in {p \in ps[s] : Cardinality({q \in ps[s] : Better(s, q, p)}) < DepthLevels} |-> vol[s][p]]]

Trade(m, p, x) ==
    LET takerBuys == node[taker].side = "BUY"
    IN  [maker |-> m, taker |-> taker, price |-> p, quantity |-> x,
         buyer |-> IF takerBuys THEN taker ELSE m,
         seller |-> IF takerBuys THEN m ELSE taker]

-----------------------------------------------------------------------------
Init ==
    /\ node = [i \in Id |-> [side |-> "BUY", price |-> 0, size |-> 0, quantity |-> 0]]
    /\ queue = [s \in Side |-> [p \in Price |-> <<>>]]
    /\ volume = [s \in Side |-> [p \in Price |-> 0]]
    /\ prices = [s \in Side |-> {}]
    /\ orderMap = {}
    /\ taker = NoTaker
    /\ arrived = 0
    /\ posted = <<>>
    /\ depth = Snapshot(prices, volume)

\* ADD_ORDER: addOrder builds the node and enters matchOrder.
AddOrder(s, p, q) ==
    /\ taker = NoTaker
    /\ arrived < MaxOrders
    /\ arrived' = arrived + 1
    /\ taker' = arrived + 1
    /\ node' = [node EXCEPT ![arrived + 1] = [side |-> s, price |-> p, size |-> q, quantity |-> q]]
    /\ UNCHANGED <<bookvars, posted, depth>>

\* The maker's quantity is used up: it is shifted off its queue and forgotten, and an
\* empty level is deleted.
FillMaker ==
    LET s == MakerSide
        p == MakerPrice
        m == Maker
        x == node[m].quantity
    IN  /\ taker # NoTaker
        /\ CanMatch
        /\ x <= node[taker].quantity
        /\ node' = [node EXCEPT ![taker].quantity = @ - x, ![m].quantity = 0]
        /\ posted' = Append(posted, Trade(m, p, x))
        /\ queue' = [queue EXCEPT ![s][p] = Tail(@)]
        /\ orderMap' = orderMap \ {m}
        /\ volume' = [volume EXCEPT ![s][p] = @ - x]
        /\ prices' = [prices EXCEPT ![s] = IF Len(queue[s][p]) = 1 THEN @ \ {p} ELSE @]
        /\ UNCHANGED <<taker, arrived, depth>>

\* Slip: only the maker's quantity is reduced.
FillTakerMakerOnly ==
    LET s == MakerSide
        p == MakerPrice
        m == Maker
        x == node[taker].quantity
    IN  /\ taker # NoTaker
        /\ CanMatch
        /\ x < node[m].quantity
        /\ node' = [node EXCEPT ![m].quantity = @ - x]
        /\ posted' = Append(posted, Trade(m, p, x))
        /\ volume' = [volume EXCEPT ![s][p] = @ - x]
        /\ UNCHANGED <<queue, prices, orderMap, taker, arrived, depth>>

\* The taker's quantity is used up first: the maker keeps its place in the queue.
FillTaker ==
    LET s == MakerSide
        p == MakerPrice
        m == Maker
        x == node[taker].quantity
    IN  /\ taker # NoTaker
        /\ CanMatch
        /\ x < node[m].quantity
        /\ node' = [node EXCEPT ![taker].quantity = 0, ![m].quantity = @ - x]
        /\ posted' = Append(posted, Trade(m, p, x))
        /\ volume' = [volume EXCEPT ![s][p] = @ - x]
        /\ UNCHANGED <<queue, prices, orderMap, taker, arrived, depth>>

\* insertResting: the remainder of a limit order joins its level, which is created if need be.
Rest ==
    LET s == node[taker].side
        p == node[taker].price
    IN  /\ taker # NoTaker
        /\ ~CanMatch
        /\ OpenQuantity(taker) > 0
        /\ p > 0
        /\ queue' = [queue EXCEPT ![s][p] = Append(@, taker)]
        /\ volume' = [volume EXCEPT ![s][p] = JoinedVolume(s, p)]
        /\ prices' = [prices EXCEPT ![s] = @ \cup {p}]
        /\ orderMap' = orderMap \cup {taker}
        /\ depth' = Snapshot(prices', volume')
        /\ taker' = NoTaker
        /\ UNCHANGED <<node, arrived, posted>>

\* Slip: a market order's remainder is kept for later.
LeaveWhenFilled ==
    /\ taker # NoTaker
    /\ ~CanMatch
    /\ node[taker].quantity = 0
    /\ depth' = Snapshot(prices, volume)
    /\ taker' = NoTaker
    /\ UNCHANGED <<node, bookvars, arrived, posted>>

\* The order is filled, or is a market order that finds no more liquidity.
Leave ==
    /\ taker # NoTaker
    /\ ~CanMatch
    /\ node[taker].quantity = 0 \/ node[taker].price = 0
    /\ depth' = Snapshot(prices, volume)
    /\ taker' = NoTaker
    /\ UNCHANGED <<node, bookvars, arrived, posted>>

\* CANCEL_ORDER of an order that rests in the book.
CancelOrder(i) ==
    LET s == node[i].side
        p == node[i].price
    IN  /\ taker = NoTaker
        /\ i \in orderMap
        /\ queue' = [queue EXCEPT ![s][p] = Without(@, i)]
        /\ volume' = [volume EXCEPT ![s][p] = @ - OpenQuantity(i)]
        /\ prices' = [prices EXCEPT ![s] = IF queue'[s][p] = <<>> THEN @ \ {p} ELSE @]
        /\ orderMap' = orderMap \ {i}
        /\ depth' = Snapshot(prices', volume')
        /\ UNCHANGED <<node, taker, arrived, posted>>

Matching == FillMaker \/ FillTaker \/ Rest \/ Leave

Next ==
    \/ \E s \in Side, p \in 0..MaxPrice, q \in 1..MaxQuantity : AddOrder(s, p, q)
    \/ Matching
    \/ \E i \in Id : CancelOrder(i)

\* The worker never stops in the middle of a message.
Spec == Init /\ [][Next]_vars /\ WF_vars(Matching)

-----------------------------------------------------------------------------
\* The orders that rest at a level, however they are linked.
Resting(s, p) == {i \in orderMap : node[i].side = s /\ node[i].price = p}

SumQuantity(S) == SumFunctionOnSet([i \in Id |-> node[i].quantity], S)

TradedQuantity(i) ==
    LET mine == {k \in 1..Len(posted) : i \in {posted[k].maker, posted[k].taker}}
    IN  SumFunctionOnSet([k \in 1..Len(posted) |-> posted[k].quantity], mine)

TypeOK ==
    /\ node \in [Id -> OrderNode]
    /\ queue \in [Side -> [Price -> Seq(Id)]]
    /\ volume \in [Side -> [Price -> Int]]
    /\ prices \in [Side -> SUBSET Price]
    /\ orderMap \subseteq 1..arrived
    /\ arrived \in 0..MaxOrders
    /\ taker \in {NoTaker, arrived}
    /\ posted \in Seq(TradeMessage)

\* Oldest order first.
InArrivalOrder(q) == \A j, k \in 1..Len(q) : j < k => q[j] < q[k]

\* orderMap, the queues and the price lists tell the same story: an order is found by id
\* exactly when it waits, once, in the queue of its own side and price; every queue is in
\* arrival order; a price is listed exactly when somebody waits there; and only limit
\* orders with something left to trade wait.
IndexConsistent ==
    /\ \A i \in orderMap : node[i].price > 0 /\ node[i].quantity > 0 /\ i # taker
    /\ \A s \in Side, p \in Price :
         /\ ToSet(queue[s][p]) = Resting(s, p)
         /\ InArrivalOrder(queue[s][p])
         /\ p \in prices[s] <=> queue[s][p] # <<>>

\* The running volume of a level, updated piecemeal by push, shift, remove and the
\* matching loop, is the quantity that really waits there.
VolumeMatches ==
    \A s \in Side : \A p \in prices[s] : volume[s][p] = SumQuantity(Resting(s, p))

\* No bid meets an ask: whatever could trade has traded before an order rests.
NotCrossed == \A b \in prices["BUY"], a \in prices["SELL"] : b < a

\* Between two messages the last depth that was posted, which getOrderBookDepth serves,
\* shows the best DepthLevels prices of each side with the quantity waiting there.
DepthFresh ==
    taker = NoTaker =>
      \A s \in Side :
        LET live == {node[i].price : i \in {j \in orderMap : node[j].side = s}}
            shown == DOMAIN depth[s]
        IN  /\ shown \subseteq live
            /\ Cardinality(shown) = IF Cardinality(live) < DepthLevels THEN Cardinality(live) ELSE DepthLevels
            /\ \A p \in shown, q \in live \ shown : IF s = "BUY" THEN p > q ELSE p < q
            /\ \A p \in shown : depth[s][p] = SumQuantity(Resting(s, p))

\* No quantity appears or disappears in the loop: what an order asked for is what it
\* traded, on both sides of the tape, plus what it still has.
Conservation == \A i \in 1..arrived : node[i].size = node[i].quantity + TradedQuantity(i)

\* The three together: what waits, what is shown of it and what was traded add up, after
\* any sequence of additions, partial fills and cancellations.
QuantitiesAgree == VolumeMatches /\ DepthFresh /\ Conservation

\* A taker meets a maker once.  The main thread stores a trade under the idempotency key
\* taker-maker (matchingEngine.ts:44), so a second trade of the pair would be dropped as a
\* duplicate of the first.
TradeOncePerPair ==
    \A j, k \in 1..Len(posted) :
        j # k => posted[j].taker # posted[k].taker \/ posted[j].maker # posted[k].maker

\* matchOrder always comes to an end (the code keeps a branch against an endless loop).
EveryMessageEnds == taker # NoTaker ~> taker = NoTaker

\* The book with its levels, queues and volumes implements price-time priority.
Exchange == INSTANCE PriceTimeExchange WITH
    order <- [i \in Id |-> [side |-> node[i].side, price |-> node[i].price, size |-> node[i].size]],
    left <- [i \in Id |-> node[i].quantity],
    open <- orderMap

PriceTimePriority == Exchange!ASpec
=============================================================================
