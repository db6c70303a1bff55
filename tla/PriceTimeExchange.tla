-------------------------- MODULE PriceTimeExchange --------------------------
(***************************************************************************)
(* What one symbol's matching worker promises, without its data           *)
(* structures: README.md lines 82-88 promise price-time priority and FIFO  *)
(* execution.  An open order is a member of a set; a trade is always       *)
(* against the open order of the other side that has priority.             *)
(*                                                                         *)
(* Orders are named by the order in which they reach the worker, so the    *)
(* earlier of two orders is the one with the smaller name.                 *)
(***************************************************************************)
EXTENDS Integers, Sequences

CONSTANTS MaxOrders,   \* bound: orders sent to the worker
          MaxPrice,    \* bound: highest limit price, in ticks
          MaxQuantity  \* bound: largest order, in lots

VARIABLES order,   \* what was asked for: side, price (0: market) and size
          left,    \* quantity of an order not yet traded
          open,    \* the orders that wait in the book
          taker,   \* the order being matched now, 0 for none
          arrived, \* how many orders have reached the worker
          posted   \* the trades, in execution order

avars == <<order, left, open, taker, arrived, posted>>

Side == {"BUY", "SELL"}
Opposite(s) == IF s = "BUY" THEN "SELL" ELSE "BUY"

AInit ==
    /\ order = [i \in 1..MaxOrders |-> [side |-> "BUY", price |-> 0, size |-> 0]]
    /\ left = [i \in 1..MaxOrders |-> 0]
    /\ open = {}
    /\ taker = 0
    /\ arrived = 0
    /\ posted = <<>>

\* A buyer accepts its limit or less, a seller its limit or more, a market order anything.
Accepts(t, p) ==
    \/ order[t].price = 0
    \/ order[t].side = "BUY" /\ p <= order[t].price
    \/ order[t].side = "SELL" /\ p >= order[t].price

Counterparties ==
    {m \in open : order[m].side = Opposite(order[taker].side) /\ Accepts(taker, order[m].price)}

\* m is served before n: a better price, or the same price and an earlier arrival.
HasPriority(m, n) ==
    \/ order[m].side = "BUY" /\ order[m].price > order[n].price
    \/ order[m].side = "SELL" /\ order[m].price < order[n].price
    \/ order[m].price = order[n].price /\ m < n

ASubmit(s, p, q) ==
    /\ taker = 0
    /\ arrived < MaxOrders
    /\ arrived' = arrived + 1
    /\ order' = [order EXCEPT ![arrived + 1] = [side |-> s, price |-> p, size |-> q]]
    /\ left' = [left EXCEPT ![arrived + 1] = q]
    /\ taker' = arrived + 1
    /\ UNCHANGED <<open, posted>>

\* What the taker and m exchange: all that the smaller of the two still wants.
Exchanged(m) == IF left[m] < left[taker] THEN left[m] ELSE left[taker]
Buyer(m) == IF order[taker].side = "BUY" THEN taker ELSE m
Seller(m) == IF order[taker].side = "BUY" THEN m ELSE taker

\* m, which has priority over every other counterparty, trades with the taker.
Execution(m) ==
    /\ \A n \in Counterparties \ {m} : HasPriority(m, n)
    /\ left' = [left EXCEPT ![m] = @ - Exchanged(m), ![taker] = @ - Exchanged(m)]
    /\ open' = IF left[m] = Exchanged(m) THEN open \ {m} ELSE open
    /\ posted' = Append(posted,
         [maker |-> m, taker |-> taker, price |-> order[m].price, quantity |-> Exchanged(m),
          buyer |-> Buyer(m), seller |-> Seller(m)])

AExecute ==
    /\ taker # 0
    /\ left[taker] > 0
    /\ \E m \in Counterparties : Execution(m)
    /\ UNCHANGED <<order, taker, arrived>>

\* Nothing left to match: the remainder of a limit order waits, that of a market order is dropped.
AClose ==
    /\ taker # 0
    /\ left[taker] = 0 \/ Counterparties = {}
    /\ open' = IF left[taker] > 0 /\ order[taker].price > 0 THEN open \cup {taker} ELSE open
    /\ taker' = 0
    /\ UNCHANGED <<order, left, arrived, posted>>

ACancel(i) ==
    /\ taker = 0
    /\ i \in open
    /\ open' = open \ {i}
    /\ UNCHANGED <<order, left, taker, arrived, posted>>

ANext ==
    \/ \E s \in Side, p \in 0..MaxPrice, q \in 1..MaxQuantity : ASubmit(s, p, q)
    \/ AExecute
    \/ AClose
    \/ \E i \in 1..MaxOrders : ACancel(i)

ASpec == AInit /\ [][ANext]_avars
=============================================================================
