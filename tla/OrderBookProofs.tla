--------------------------- MODULE OrderBookProofs ---------------------------
(***************************************************************************)
(* The order book is well typed, its indexes agree, it is never crossed    *)
(* and its volumes, depth and trades add up, for any number of orders, any *)
(* prices and any quantities.                                              *)
(* BookInv is inductive: the price lists say where makers are only because *)
(* the queues and orderMap agree, and a resting order leaves the book      *)
(* uncrossed only because its whole loop ran against the best price.       *)
(* QuantityInv adds the sums: what waits at a level is its volume, the     *)
(* last depth is the snapshot of these volumes, and what an order traded   *)
(* is what it lost.                                                        *)
(***************************************************************************)
EXTENDS OrderBook, Arithmetic, SequenceTheorems

BookInv == TypeOK /\ IndexConsistent /\ NotCrossed

-----------------------------------------------------------------------------
\* A non-empty set of listed prices has a best price: the code reads it at index 0 of the
\* sorted array.
LEMMA HasBest ==
  ASSUME NEW N \in Nat, NEW T \in SUBSET (1..N), T # {}, NEW s
  PROVE  \E p \in T : \A q \in T : ~Better(s, q, p)
<1> DEFINE UpTo(p) == {q \in T : ~Better(s, p, q)}
           Downs == {UpTo(p) : p \in T}
<1>1. IsFiniteSet(1..N)
  BY FS_Interval, 1 \in Int, N \in Int
<1>2. \A S \in SUBSET T : S \in FiniteSubsetsOf(T)
  <2> TAKE S \in SUBSET T
  <2>1. S \in SUBSET (1..N)
    OBVIOUS
  <2> QED BY <1>1, <2>1, FS_Subset DEF FiniteSubsetsOf
<1>3. Downs \subseteq FiniteSubsetsOf(T) /\ Downs # {}
  BY <1>2
<1>4. PICK X \in Downs : \A Y \in Downs : ~(<<Y, X>> \in StrictSubsetOrdering(T))
  <2>1. IsWellFoundedOn(StrictSubsetOrdering(T), FiniteSubsetsOf(T))
    BY FS_StrictSubsetOrderingWellFounded
  <2> HIDE DEF Downs
  <2> QED BY <1>3, <2>1, WFMin
<1>5. PICK p \in T : X = UpTo(p)
  BY <1>4
<1>6. ASSUME NEW q \in T, Better(s, q, p) PROVE FALSE
  <2>1. UpTo(p) \subseteq T /\ UpTo(q) \subseteq T
    OBVIOUS
  <2>2. p \in UpTo(p) /\ p \notin UpTo(q)
    BY <1>6 DEF Better
  <2>3. \A r \in T : ~Better(s, q, r) => ~Better(s, p, r)
    BY <1>6 DEF Better
  <2>4. UpTo(q) \subseteq UpTo(p)
    BY <2>3
  <2>5. UpTo(q) \in Downs
    OBVIOUS
  <2> HIDE DEF UpTo, Downs
  <2>6. <<UpTo(q), UpTo(p)>> \in StrictSubsetOrdering(T)
    BY <2>1, <2>2, <2>4 DEF StrictSubsetOrdering
  <2> QED BY <2>5, <2>6, <1>4, <1>5
<1> QED BY <1>6

LEMMA BestIsBest ==
  ASSUME TypeOK, NEW s \in Side, prices[s] # {}
  PROVE  Best(s) \in prices[s] /\ \A q \in prices[s] : ~Better(s, q, Best(s))
<1>1. prices[s] \in SUBSET (1..MaxPrice)
  BY DEF TypeOK, Price
<1>2. \E p \in prices[s] : \A q \in prices[s] : ~Better(s, q, p)
  BY <1>1, HasBest, BookAssumption
<1> QED BY <1>2 DEF Best

\* What it means to wait in a queue.
LEMMA InQueue ==
  ASSUME NEW q \in Seq(Id), NEW x
  PROVE  x \in ToSet(q) <=> \E j \in 1..Len(q) : q[j] = x
<1>1. DOMAIN q = 1..Len(q)
  BY LenProperties
<1> QED BY <1>1 DEF ToSet

\* shift: the head leaves, the others keep their order.
LEMMA ShiftQueue ==
  ASSUME NEW q \in Seq(Id), q # <<>>, InArrivalOrder(q)
  PROVE  /\ Head(q) \in Id /\ Head(q) \in ToSet(q)
         /\ Tail(q) \in Seq(Id)
         /\ ToSet(Tail(q)) = ToSet(q) \ {Head(q)}
         /\ InArrivalOrder(Tail(q))
         /\ Tail(q) # <<>> <=> Len(q) # 1
<1>1. Len(q) \in Nat \ {0} /\ \A j \in 1..Len(q) : q[j] \in Int
  <2>1. Len(q) \in Nat \ {0}
    BY EmptySeq
  <2>2. \A j \in 1..Len(q) : q[j] \in Id
    BY ElementOfSeq
  <2> QED BY <2>1, <2>2 DEF Id
<1>2. /\ Tail(q) \in Seq(Id)
      /\ Len(Tail(q)) = Len(q) - 1
      /\ \A j \in 1..Len(q) - 1 : Tail(q)[j] = q[j+1]
      /\ Head(q) = q[1]
  BY HeadTailProperties
<1>3. Head(q) \in Id /\ Head(q) \in ToSet(q)
  BY <1>1, <1>2, ElementOfSeq, InQueue
<1>4. ToSet(Tail(q)) = ToSet(q) \ {Head(q)}
  <2>1. ASSUME NEW x \in ToSet(Tail(q)) PROVE x \in ToSet(q) /\ x # q[1]
    <3>1. PICK j \in 1..Len(q) - 1 : Tail(q)[j] = x
      <4>1. \E j \in 1..Len(Tail(q)) : Tail(q)[j] = x
        BY <1>2, <2>1, InQueue, Zenon
      <4>2. Len(Tail(q)) = Len(q) - 1
        BY <1>2
      <4> QED BY ONLY <4>1, <4>2
    <3>2. j + 1 \in 1..Len(q) /\ q[j + 1] = x /\ q[1] < q[j + 1]
      BY <3>1, <1>1, <1>2 DEF InArrivalOrder
    <3>3. x \in ToSet(q)
      BY <3>2, InQueue
    <3> QED BY <3>2, <3>3, <1>1
  <2>2. ASSUME NEW x \in ToSet(q), x # q[1] PROVE x \in ToSet(Tail(q))
    <3>1. PICK j \in 1..Len(q) : q[j] = x
      BY <2>2, InQueue
    <3>2. j - 1 \in 1..Len(q) - 1 /\ Tail(q)[j - 1] = x
      BY <3>1, <2>2, <1>1, <1>2
    <3>3. j - 1 \in 1..Len(Tail(q))
      BY <3>2, <1>2
    <3> QED BY <3>2, <3>3, <1>2, InQueue, Zenon
  <2> QED BY <1>2, <2>1, <2>2
<1>5. InArrivalOrder(Tail(q))
  BY <1>1, <1>2 DEF InArrivalOrder
<1>6. Tail(q) # <<>> <=> Len(Tail(q)) # 0
  BY <1>2, EmptySeq
<1> QED BY <1>1, <1>2, <1>3, <1>4, <1>5, <1>6

\* push: a newer order joins at the tail.
LEMMA PushQueue ==
  ASSUME NEW q \in Seq(Id), NEW i \in Id, InArrivalOrder(q), \A j \in ToSet(q) : j < i
  PROVE  /\ Append(q, i) \in Seq(Id)
         /\ Append(q, i) # <<>>
         /\ ToSet(Append(q, i)) = ToSet(q) \cup {i}
         /\ InArrivalOrder(Append(q, i))
<1>1. Len(q) \in Nat /\ DOMAIN q = 1..Len(q)
  BY LenProperties
<1>2. /\ Append(q, i) \in Seq(Id)
      /\ Append(q, i) # <<>>
      /\ Len(Append(q, i)) = Len(q) + 1
      /\ \A k \in 1..Len(q) : Append(q, i)[k] = q[k]
      /\ Append(q, i)[Len(q) + 1] = i
  BY AppendProperties
<1>3. DOMAIN Append(q, i) = 1..Len(q) + 1
  BY <1>2, LenProperties
<1>4. ToSet(Append(q, i)) = ToSet(q) \cup {i}
  BY <1>1, <1>2, <1>3 DEF ToSet
<1>5. InArrivalOrder(Append(q, i))
  BY <1>1, <1>2, SMTT(60) DEF InArrivalOrder, ToSet
<1> QED BY <1>2, <1>4, <1>5

\* remove: the order is unlinked wherever it stands.
LEMMA RemoveFromQueue ==
  ASSUME NEW q \in Seq(Id), NEW i \in ToSet(q), InArrivalOrder(q)
  PROVE  /\ Without(q, i) \in Seq(Id)
         /\ ToSet(Without(q, i)) = ToSet(q) \ {i}
         /\ InArrivalOrder(Without(q, i))
<1> DEFINE k == CHOOSE j \in 1..Len(q) : q[j] = i
           a == SubSeq(q, 1, k - 1)
           b == SubSeq(q, k + 1, Len(q))
           w == a \o b
<1>1. Len(q) \in Nat /\ DOMAIN q = 1..Len(q) /\ \A j \in 1..Len(q) : q[j] \in Id
  BY LenProperties, ElementOfSeq
<1>2. k \in 1..Len(q) /\ q[k] = i
  BY <1>1 DEF ToSet
<1> HIDE DEF k
<1>3. /\ a \in Seq(Id) /\ Len(a) = k - 1
      /\ \A j \in 1..k - 1 : a[j] = q[j]
  <2>1. \A j \in 1..k-1 : q[j] \in Id
    BY <1>1, <1>2
  <2>2. k - 1 \in Int /\ 1 \in Int
    BY <1>1, <1>2
  <2>3. /\ a \in Seq(Id)
        /\ Len(a) = IF 1 <= k - 1 THEN k - 1 - 1 + 1 ELSE 0
        /\ \A j \in 1..(k - 1 - 1 + 1) : a[j] = q[1 + j - 1]
    BY <2>1, <2>2, SubSeqProperties
  <2> QED BY <2>3, <1>1, <1>2
<1>4. /\ b \in Seq(Id) /\ Len(b) = Len(q) - k
      /\ \A j \in 1..Len(q) - k : b[j] = q[k + j]
  <2>1. \A j \in k+1..Len(q) : q[j] \in Id
    BY <1>1, <1>2
  <2>2. k + 1 \in Int /\ Len(q) \in Int
    BY <1>1, <1>2
  <2>3. /\ b \in Seq(Id)
        /\ Len(b) = IF k + 1 <= Len(q) THEN Len(q) - (k + 1) + 1 ELSE 0
        /\ \A j \in 1..(Len(q) - (k + 1) + 1) : b[j] = q[k + 1 + j - 1]
    BY <2>1, <2>2, SubSeqProperties
  <2> QED BY <2>3, <1>1, <1>2
<1>5. /\ w \in Seq(Id) /\ Len(w) = Len(q) - 1
      /\ \A j \in 1..Len(q) - 1 : w[j] = IF j < k THEN q[j] ELSE q[j + 1]
  <2>1. /\ w \in Seq(Id) /\ Len(w) = Len(a) + Len(b)
        /\ \A j \in 1..Len(a) + Len(b) : w[j] = IF j <= Len(a) THEN a[j] ELSE b[j - Len(a)]
    BY <1>3, <1>4, ConcatProperties
  <2> HIDE DEF a, b, w
  <2>2. Len(a) + Len(b) = Len(q) - 1 /\ Len(a) = k - 1
    BY <1>1, <1>2, <1>3, <1>4
  <2>3. ASSUME NEW j \in 1..Len(q) - 1, j < k PROVE w[j] = q[j]
    BY <2>1, <2>2, <2>3, <1>1, <1>2, <1>3
  <2>4. ASSUME NEW j \in 1..Len(q) - 1, ~(j < k) PROVE w[j] = q[j + 1]
    <3>1. w[j] = b[j - (k - 1)] /\ j - (k - 1) \in 1..Len(q) - k
      BY <2>1, <2>2, <2>4, <1>1, <1>2
    <3>2. b[j - (k - 1)] = q[k + (j - (k - 1))] /\ k + (j - (k - 1)) = j + 1
      BY <3>1, <1>1, <1>2, <1>4
    <3> QED BY <3>1, <3>2
  <2> QED BY <2>1, <2>2, <2>3, <2>4
<1> HIDE DEF a, b, w
<1>6. \A j \in 1..Len(q) : q[j] \in Int
  BY <1>1 DEF Id
<1>7. ToSet(w) = ToSet(q) \ {i}
  <2>1. ASSUME NEW x \in ToSet(w) PROVE x \in ToSet(q) /\ x # i
    <3>1. PICK j \in 1..Len(q) - 1 : w[j] = x
      BY <1>5, <2>1, InQueue
    <3>2. PICK n \in 1..Len(q) : n # k /\ q[n] = x
      BY <3>1, <1>1, <1>2, <1>5
    <3>3. q[n] # q[k]
      BY <3>2, <1>1, <1>2, <1>6 DEF InArrivalOrder
    <3> QED BY <3>2, <3>3, <1>2, InQueue
  <2>2. ASSUME NEW x \in ToSet(q), x # i PROVE x \in ToSet(w)
    <3>1. PICK n \in 1..Len(q) : q[n] = x
      BY <2>2, InQueue
    <3>2. PICK j \in 1..Len(q) - 1 : w[j] = x
      <4>1. CASE n < k
        BY <4>1, <3>1, <1>1, <1>2, <1>5
      <4>2. CASE n > k
        <5>1. n - 1 \in 1..Len(q) - 1 /\ ~(n - 1 < k) /\ (n - 1) + 1 = n
          BY <4>2, <1>1, <1>2
        <5> QED BY <5>1, <3>1, <1>5
      <4> QED BY <4>1, <4>2, <3>1, <2>2, <1>1, <1>2
    <3> QED BY <3>2, <1>5, InQueue
  <2> QED BY <2>1, <2>2
<1>8. InArrivalOrder(w)
  BY <1>1, <1>2, <1>5, <1>6 DEF InArrivalOrder
<1> QED BY <1>5, <1>7, <1>8, ZenonT(60) DEF Without, k, a, b, w

-----------------------------------------------------------------------------
\* A trade changes the open quantity of a node and nothing else of it.
WithQuantity(r, x) == [r EXCEPT !.quantity = x]

LEMMA ReduceNode ==
  \A r \in OrderNode, x \in Nat :
    /\ WithQuantity(r, x) \in OrderNode
    /\ WithQuantity(r, x).side = r.side
    /\ WithQuantity(r, x).price = r.price
    /\ WithQuantity(r, x).size = r.size
    /\ WithQuantity(r, x).quantity = x
BY DEF WithQuantity, OrderNode

\* A trade reduces two nodes and leaves the others alone.
LEMMA ReduceNodes ==
  ASSUME node \in [Id -> OrderNode],
         NEW i \in Id, NEW j \in Id, i # j, NEW x \in Nat, NEW y \in Nat,
         node' = [node EXCEPT ![i].quantity = x, ![j].quantity = y]
  PROVE  /\ node' \in [Id -> OrderNode]
         /\ \A k \in Id : /\ node'[k].side = node[k].side /\ node'[k].price = node[k].price
                        /\ node'[k].size = node[k].size
         /\ \A k \in Id : k # i /\ k # j => node'[k] = node[k]
         /\ node'[i].quantity = x /\ node'[j].quantity = y
<1>1. node' = [k \in Id |-> IF k = i THEN WithQuantity(node[i], x)
                           ELSE IF k = j THEN WithQuantity(node[j], y)
                           ELSE node[k]]
  BY DEF WithQuantity
<1>2. \A k \in Id : node[k] \in OrderNode
  OBVIOUS
<1>3. node'[i] = WithQuantity(node[i], x) /\ node'[j] = WithQuantity(node[j], y)
  BY <1>1
<1>4. \A k \in Id : k # i /\ k # j => node'[k] = node[k]
  BY <1>1
<1>5. /\ node'[i] \in OrderNode /\ node'[j] \in OrderNode
      /\ node'[i].side = node[i].side /\ node'[j].side = node[j].side
      /\ node'[i].price = node[i].price /\ node'[j].price = node[j].price
      /\ node'[i].size = node[i].size /\ node'[j].size = node[j].size
      /\ node'[i].quantity = x /\ node'[j].quantity = y
  <2>1. node[i] \in OrderNode /\ node[j] \in OrderNode
    BY <1>2
  <2>2. /\ WithQuantity(node[i], x) \in OrderNode
        /\ WithQuantity(node[i], x).side = node[i].side
        /\ WithQuantity(node[i], x).price = node[i].price
        /\ WithQuantity(node[i], x).size = node[i].size
        /\ WithQuantity(node[i], x).quantity = x
    BY <2>1, ReduceNode, Zenon
  <2>3. /\ WithQuantity(node[j], y) \in OrderNode
        /\ WithQuantity(node[j], y).side = node[j].side
        /\ WithQuantity(node[j], y).price = node[j].price
        /\ WithQuantity(node[j], y).size = node[j].size
        /\ WithQuantity(node[j], y).quantity = y
    BY <2>1, ReduceNode, Zenon
  <2> QED BY <1>3, <2>2, <2>3
<1>6. \A k \in Id : /\ node'[k] \in OrderNode
                   /\ node'[k].side = node[k].side /\ node'[k].price = node[k].price
                   /\ node'[k].size = node[k].size
  BY <1>2, <1>4, <1>5
<1>7. node' \in [Id -> OrderNode]
  <2>1. node' = [k \in Id |-> node'[k]]
    BY <1>1
  <2> QED BY <2>1, <1>6
<1> QED BY <1>4, <1>5, <1>6, <1>7

\* What the invariant says of an order that rests in the book.
LEMMA RestingOrder ==
  ASSUME BookInv, NEW i \in orderMap
  PROVE  /\ i \in Id /\ i # taker /\ i <= arrived
         /\ node[i] \in OrderNode
         /\ node[i].side \in Side /\ node[i].price \in Price
         /\ node[i].quantity \in Nat /\ node[i].quantity > 0
<1>1. i \in Id /\ i <= arrived
  BY BookAssumption DEF BookInv, TypeOK, Id
<1>2. node[i] \in OrderNode
  BY <1>1 DEF BookInv, TypeOK
<1>3. i # taker /\ node[i].price > 0 /\ node[i].quantity > 0
  BY DEF BookInv, IndexConsistent
<1>4. node[i].side \in Side /\ node[i].price \in 0..MaxPrice /\ node[i].quantity \in Nat
  BY <1>2 DEF OrderNode
<1>5. node[i].price \in Price
  BY <1>3, <1>4, BookAssumption DEF Price
<1> QED BY <1>1, <1>2, <1>3, <1>4, <1>5

\* What the loop of matchOrder relies on: the maker it reads exists, waits at the best
\* price of the other side and has something left.
LEMMA MakerIsThere ==
  ASSUME BookInv, taker # NoTaker, CanMatch
  PROVE  /\ taker \in Id /\ MakerSide \in Side
         /\ MakerPrice \in Price /\ MakerPrice \in prices[MakerSide]
         /\ queue[MakerSide][MakerPrice] \in Seq(Id)
         /\ queue[MakerSide][MakerPrice] # <<>>
         /\ InArrivalOrder(queue[MakerSide][MakerPrice])
         /\ ToSet(queue[MakerSide][MakerPrice]) = Resting(MakerSide, MakerPrice)
         /\ Maker \in Id /\ Maker \in Resting(MakerSide, MakerPrice) /\ Maker # taker
         /\ node[Maker].quantity \in Nat \ {0}
         /\ node[taker].quantity \in Nat \ {0}
<1>1. taker \in Id /\ MakerSide \in Side
  BY BookAssumption DEF BookInv, TypeOK, NoTaker, Id, MakerSide, Opposite, Side
<1>2. MakerPrice \in prices[MakerSide] /\ MakerPrice \in Price
  BY <1>1, BestIsBest DEF BookInv, CanMatch, TypeOK, MakerPrice
<1>3. /\ queue[MakerSide][MakerPrice] \in Seq(Id)
      /\ queue[MakerSide][MakerPrice] # <<>>
      /\ InArrivalOrder(queue[MakerSide][MakerPrice])
      /\ ToSet(queue[MakerSide][MakerPrice]) = Resting(MakerSide, MakerPrice)
  BY <1>1, <1>2 DEF BookInv, TypeOK, IndexConsistent
<1>4. Maker \in Id /\ Maker \in Resting(MakerSide, MakerPrice)
  BY <1>3, ShiftQueue DEF Maker
<1>5. Maker \in orderMap
  BY <1>4 DEF Resting
<1>6. Maker # taker /\ node[Maker].quantity \in Nat \ {0}
  BY <1>5, RestingOrder
<1>7. node[taker].quantity \in Nat /\ node[taker].quantity > 0
  BY <1>1 DEF CanMatch, BookInv, TypeOK, OrderNode
<1> QED BY <1>1, <1>2, <1>3, <1>4, <1>6, <1>7

\* The trade message of an iteration is well formed.
LEMMA TradeType ==
  ASSUME NEW m \in Id, NEW p \in Price, NEW x \in Nat \ {0}, taker \in Id
  PROVE  Trade(m, p, x) \in TradeMessage
BY DEF Trade, TradeMessage

\* An iteration of the loop trades x: what its two kinds, which differ in who is used up,
\* have in common.
Trades(x) ==
    /\ \A i \in Id : /\ node'[i].side = node[i].side /\ node'[i].price = node[i].price
                     /\ node'[i].size = node[i].size
    /\ \A i \in Id : i # taker /\ i # Maker => node'[i] = node[i]
    /\ node'[taker].quantity = node[taker].quantity - x
    /\ node'[Maker].quantity = node[Maker].quantity - x
    /\ posted' = Append(posted, Trade(Maker, MakerPrice, x))
    /\ orderMap' = IF node[Maker].quantity = x THEN orderMap \ {Maker} ELSE orderMap
    /\ volume' = [volume EXCEPT ![MakerSide][MakerPrice] = @ - x]
    /\ \A s \in Side : prices'[s] \subseteq prices[s]
    /\ UNCHANGED <<taker, arrived, depth>>

LEMMA FillTrades ==
  ASSUME BookInv, FillMaker \/ FillTaker
  PROVE  /\ taker # NoTaker /\ CanMatch
         /\ \E x \in Nat \ {0} :
              /\ x = IF node[Maker].quantity < node[taker].quantity THEN node[Maker].quantity ELSE node[taker].quantity
              /\ Trades(x)
<1> DEFINE t == taker
           m == Maker
<1>1. taker # NoTaker /\ CanMatch
  BY DEF FillMaker, FillTaker
<1>2. /\ t \in Id /\ m \in Id /\ t # m
      /\ node[m].quantity \in Nat \ {0} /\ node[t].quantity \in Nat \ {0} /\ node \in [Id -> OrderNode]
      /\ prices \in [Side -> SUBSET Price]
  BY <1>1, MakerIsThere DEF BookInv, TypeOK
<1>3. CASE FillMaker
  <2> DEFINE x == node[m].quantity
             y == node[t].quantity - x
  <2>1. /\ x <= node[t].quantity
        /\ node' = [node EXCEPT ![t].quantity = @ - x, ![m].quantity = 0]
        /\ posted' = Append(posted, Trade(m, MakerPrice, x))
        /\ orderMap' = orderMap \ {m} /\ UNCHANGED <<taker, arrived, depth>>
        /\ volume' = [volume EXCEPT ![MakerSide][MakerPrice] = @ - x]
    BY <1>3 DEF FillMaker
  <2>2. x = IF node[m].quantity < node[t].quantity THEN node[m].quantity ELSE node[t].quantity
    BY <1>2, <2>1
  <2>3. /\ y \in Nat /\ 0 \in Nat /\ 0 = node[m].quantity - x
        /\ node' = [node EXCEPT ![t].quantity = y, ![m].quantity = 0]
    BY <1>2, <2>1
  <2>4. \A s \in Side : prices'[s] \subseteq prices[s]
    BY <1>2, <1>3 DEF FillMaker
  <2> HIDE DEF m, x, y, t, BookInv
  <2>5. /\ \A k \in Id : /\ node'[k].side = node[k].side /\ node'[k].price = node[k].price
                         /\ node'[k].size = node[k].size
        /\ \A k \in Id : k # t /\ k # m => node'[k] = node[k]
        /\ node'[t].quantity = y /\ node'[m].quantity = 0
    <3>1. node'[t].quantity = y /\ node'[m].quantity = 0
      <4>1. node[t] \in OrderNode /\ node[m] \in OrderNode
        BY <1>2
      <4>2. node'[t] = WithQuantity(node[t], y) /\ node'[m] = WithQuantity(node[m], 0)
        BY <1>2, <2>3 DEF WithQuantity
      <4>3. WithQuantity(node[t], y).quantity = y /\ WithQuantity(node[m], 0).quantity = 0
        BY <2>3, <4>1, ReduceNode, Zenon
      <4> QED BY <4>2, <4>3
    <3>2. ASSUME NEW k \in Id
          PROVE  /\ node'[k].side = node[k].side /\ node'[k].price = node[k].price
                 /\ node'[k].size = node[k].size
                 /\ k # t /\ k # m => node'[k] = node[k]
      BY <1>2, <2>3, ReduceNodes
    <3> QED BY <3>1, <3>2
  <2>6. Trades(x) /\ x \in Nat \ {0}
    BY <1>2, <2>1, <2>3, <2>4, <2>5 DEF Trades, m, x, y, t
  <2> QED BY <1>1, <2>2, <2>6 DEF m, t
<1>4. CASE FillTaker
  <2> DEFINE x == node[t].quantity
             y == node[m].quantity - x
  <2>1. /\ x < node[m].quantity
        /\ node' = [node EXCEPT ![t].quantity = 0, ![m].quantity = @ - x]
        /\ posted' = Append(posted, Trade(m, MakerPrice, x))
        /\ UNCHANGED <<orderMap, prices, taker, arrived, depth>>
        /\ volume' = [volume EXCEPT ![MakerSide][MakerPrice] = @ - x]
    BY <1>4 DEF FillTaker
  <2>2. x = IF node[m].quantity < node[t].quantity THEN node[m].quantity ELSE node[t].quantity
    BY <1>2, <2>1
  <2>3. /\ y \in Nat /\ 0 \in Nat /\ 0 = node[t].quantity - x
        /\ node' = [node EXCEPT ![t].quantity = 0, ![m].quantity = y]
    BY <1>2, <2>1
  <2>4. orderMap' = IF node[m].quantity = x THEN orderMap \ {m} ELSE orderMap
    BY <1>2, <2>1
  <2> HIDE DEF m, x, y, t, BookInv
  <2>5. /\ \A k \in Id : /\ node'[k].side = node[k].side /\ node'[k].price = node[k].price
                         /\ node'[k].size = node[k].size
        /\ \A k \in Id : k # t /\ k # m => node'[k] = node[k]
        /\ node'[t].quantity = 0 /\ node'[m].quantity = y
    <3>1. node'[t].quantity = 0 /\ node'[m].quantity = y
      <4>1. node[t] \in OrderNode /\ node[m] \in OrderNode
        BY <1>2
      <4>2. node'[t] = WithQuantity(node[t], 0) /\ node'[m] = WithQuantity(node[m], y)
        BY <1>2, <2>3 DEF WithQuantity
      <4>3. WithQuantity(node[t], 0).quantity = 0 /\ WithQuantity(node[m], y).quantity = y
        BY <2>3, <4>1, ReduceNode, Zenon
      <4> QED BY <4>2, <4>3
    <3>2. ASSUME NEW k \in Id
          PROVE  /\ node'[k].side = node[k].side /\ node'[k].price = node[k].price
                 /\ node'[k].size = node[k].size
                 /\ k # t /\ k # m => node'[k] = node[k]
      BY <1>2, <2>3, ReduceNodes
    <3> QED BY <3>1, <3>2
  <2>6. Trades(x) /\ x \in Nat \ {0}
    BY <1>2, <2>1, <2>3, <2>4, <2>5 DEF Trades, m, x, y, t
  <2> QED BY <1>1, <2>2, <2>6 DEF m, t
<1> QED BY <1>3, <1>4

LEMMA InitBookInv == Init => BookInv
<1> SUFFICES ASSUME Init PROVE BookInv
  OBVIOUS
<1>1. TypeOK
  <2>1. node \in [Id -> OrderNode]
    BY BookAssumption DEF Init, OrderNode, Side
  <2>2. queue \in [Side -> [Price -> Seq(Id)]] /\ posted \in Seq(TradeMessage)
    BY EmptySeq DEF Init
  <2>3. volume \in [Side -> [Price -> Int]] /\ prices \in [Side -> SUBSET Price]
    BY DEF Init
  <2>4. orderMap \subseteq 1..arrived /\ arrived \in 0..MaxOrders /\ taker \in {NoTaker, arrived}
    BY BookAssumption DEF Init
  <2> QED BY <2>1, <2>2, <2>3, <2>4 DEF TypeOK
<1>2. IndexConsistent
  <2>1. orderMap = {} /\ ToSet(<<>>) = {} /\ InArrivalOrder(<<>>)
    BY DEF Init, ToSet, InArrivalOrder
  <2>2. \A s \in Side, p \in Price : queue[s][p] = <<>> /\ prices[s] = {} /\ Resting(s, p) = {}
    BY DEF Init, Resting
  <2> QED BY <2>1, <2>2 DEF IndexConsistent
<1>3. NotCrossed
  BY DEF Init, NotCrossed, Side
<1> QED BY <1>1, <1>2, <1>3 DEF BookInv

LEMMA AddOrderBookInv ==
  ASSUME BookInv, NEW s \in Side, NEW p \in 0..MaxPrice, NEW q \in 1..MaxQuantity,
         AddOrder(s, p, q)
  PROVE  BookInv'
<1> DEFINE n == arrived + 1
           r == [side |-> s, price |-> p, size |-> q, quantity |-> q]
<1>1. /\ arrived < MaxOrders /\ arrived' = n /\ taker' = n
      /\ node' = [node EXCEPT ![n] = r]
      /\ UNCHANGED <<queue, volume, prices, orderMap, posted>>
  BY DEF AddOrder, bookvars
<1>2. n \in Id /\ n \in 0..MaxOrders /\ \A i \in orderMap : i < n /\ i \in Id /\ i \in 1..n
  BY <1>1, RestingOrder, BookAssumption DEF BookInv, TypeOK, Id
<1>3. r \in OrderNode
  BY BookAssumption DEF OrderNode
<1>4. TypeOK'
  <2>1. node' \in [Id -> OrderNode]
    BY <1>1, <1>3 DEF BookInv, TypeOK
  <2> HIDE DEF n, r
  <2>2. orderMap' \subseteq 1..n
    BY <1>1, <1>2
  <2> QED BY <1>1, <1>2, <2>1, <2>2 DEF BookInv, TypeOK
<1>5. \A i \in orderMap : node'[i] = node[i] /\ i # taker'
  BY <1>1, <1>2, BookAssumption DEF BookInv, TypeOK, Id
<1>6. \A ss \in Side, pp \in Price : Resting(ss, pp)' = Resting(ss, pp)
  BY <1>1, <1>5 DEF Resting
<1>7. IndexConsistent'
  BY <1>1, <1>5, <1>6 DEF BookInv, IndexConsistent
<1>8. NotCrossed'
  BY <1>1 DEF BookInv, NotCrossed
<1> QED BY <1>4, <1>7, <1>8 DEF BookInv

LEMMA FillMakerBookInv ==
  ASSUME BookInv, FillMaker
  PROVE  BookInv'
<1> DEFINE s == MakerSide
           p == MakerPrice
           m == Maker
           x == node[m].quantity
<1>1. /\ taker # NoTaker /\ CanMatch /\ x <= node[taker].quantity
      /\ node' = [node EXCEPT ![taker].quantity = @ - x, ![m].quantity = 0]
      /\ posted' = Append(posted, Trade(m, p, x))
      /\ queue' = [queue EXCEPT ![s][p] = Tail(@)]
      /\ orderMap' = orderMap \ {m}
      /\ volume' = [volume EXCEPT ![s][p] = @ - x]
      /\ prices' = [prices EXCEPT ![s] = IF Len(queue[s][p]) = 1 THEN @ \ {p} ELSE @]
      /\ UNCHANGED <<taker, arrived>>
  BY DEF FillMaker
<1>2. /\ taker \in Id /\ s \in Side /\ p \in Price /\ p \in prices[s]
      /\ queue[s][p] \in Seq(Id) /\ queue[s][p] # <<>>
      /\ InArrivalOrder(queue[s][p])
      /\ ToSet(queue[s][p]) = Resting(s, p)
      /\ m \in Id /\ m \in Resting(s, p) /\ m # taker
      /\ x \in Nat \ {0}
      /\ node[taker].quantity \in Nat
  BY <1>1, MakerIsThere
<1>n. node \in [Id -> OrderNode] /\ node[taker].quantity - x \in Nat /\ 0 \in Nat
  BY <1>1, <1>2 DEF BookInv, TypeOK
<1> HIDE DEF s, p, m, x
<1>3. /\ Tail(queue[s][p]) \in Seq(Id)
      /\ ToSet(Tail(queue[s][p])) = Resting(s, p) \ {m}
      /\ InArrivalOrder(Tail(queue[s][p]))
      /\ Tail(queue[s][p]) # <<>> <=> Len(queue[s][p]) # 1
  BY <1>2, ShiftQueue DEF s, p, m, Maker
<1>4. TypeOK'
  <2>1. node' \in [Id -> OrderNode]
    <3>1. node' = [node EXCEPT ![taker].quantity = node[taker].quantity - x, ![m].quantity = 0]
      BY <1>1
    <3> HIDE DEF BookInv
    <3> QED BY <3>1, <1>2, <1>n, ReduceNodes
  <2>2. queue' \in [Side -> [Price -> Seq(Id)]]
    BY <1>1, <1>2, <1>3 DEF BookInv, TypeOK
  <2>3. volume' \in [Side -> [Price -> Int]]
    BY <1>1, <1>2 DEF BookInv, TypeOK
  <2>4. posted' \in Seq(TradeMessage)
    BY <1>1, <1>2, TradeType, AppendProperties DEF BookInv, TypeOK
  <2> QED BY <1>1, <1>2, <2>1, <2>2, <2>3, <2>4 DEF BookInv, TypeOK
<1>5. \A i \in orderMap' : i \in Id /\ node'[i] = node[i]
  <2> SUFFICES ASSUME NEW i \in orderMap' PROVE i \in Id /\ node'[i] = node[i]
    OBVIOUS
  <2>1. i \in orderMap /\ i # m
    BY <1>1
  <2>2. i \in Id /\ i # taker
    BY <2>1, RestingOrder
  <2> QED BY <1>1, <1>2, <1>n, <2>1, <2>2, ReduceNodes
<1>6. \A ss \in Side, pp \in Price :
        Resting(ss, pp)' = IF ss = s /\ pp = p THEN Resting(s, p) \ {m} ELSE Resting(ss, pp)
  <2> TAKE ss \in Side, pp \in Price
  <2>1. Resting(ss, pp)' = Resting(ss, pp) \ {m}
    BY <1>1, <1>5 DEF Resting
  <2>2. ~(ss = s /\ pp = p) => m \notin Resting(ss, pp)
    BY <1>2 DEF Resting
  <2> QED BY <2>1, <2>2
<1>7. IndexConsistent'
  <2>1. \A i \in orderMap' : node'[i].price > 0 /\ node'[i].quantity > 0 /\ i # taker'
    BY <1>1, <1>5 DEF BookInv, IndexConsistent
  <2>2. ASSUME NEW ss \in Side, NEW pp \in Price
        PROVE  /\ ToSet(queue'[ss][pp]) = Resting(ss, pp)'
               /\ InArrivalOrder(queue'[ss][pp])
               /\ pp \in prices'[ss] <=> queue'[ss][pp] # <<>>
    <3>1. CASE ss = s /\ pp = p
      <4>1. queue'[ss][pp] = Tail(queue[s][p])
        BY <1>1, <1>2, <3>1 DEF BookInv, TypeOK
      <4>2. pp \in prices'[ss] <=> Len(queue[s][p]) # 1
        BY <1>1, <1>2, <3>1 DEF BookInv, TypeOK
      <4> QED BY <1>3, <1>6, <3>1, <4>1, <4>2
    <3>2. CASE ~(ss = s /\ pp = p)
      <4>1. queue'[ss][pp] = queue[ss][pp]
        BY <1>1, <1>2, <3>2 DEF BookInv, TypeOK
      <4>2. pp \in prices'[ss] <=> pp \in prices[ss]
        BY <1>1, <1>2, <3>2 DEF BookInv, TypeOK
      <4> QED BY <1>6, <3>2, <4>1, <4>2 DEF BookInv, IndexConsistent
    <3> QED BY <3>1, <3>2
  <2> QED BY <2>1, <2>2 DEF IndexConsistent
<1>8. NotCrossed'
  <2>1. \A ss \in Side : prices'[ss] \subseteq prices[ss]
    BY <1>1, <1>2 DEF BookInv, TypeOK
  <2> QED BY <2>1 DEF BookInv, NotCrossed, Side
<1> QED BY <1>4, <1>7, <1>8 DEF BookInv

LEMMA FillTakerBookInv ==
  ASSUME BookInv, FillTaker
  PROVE  BookInv'
<1> DEFINE s == MakerSide
           p == MakerPrice
           m == Maker
           x == node[taker].quantity
<1>1. /\ taker # NoTaker /\ CanMatch /\ x < node[m].quantity
      /\ node' = [node EXCEPT ![taker].quantity = 0, ![m].quantity = @ - x]
      /\ posted' = Append(posted, Trade(m, p, x))
      /\ volume' = [volume EXCEPT ![s][p] = @ - x]
      /\ UNCHANGED <<queue, prices, orderMap, taker, arrived>>
  BY DEF FillTaker
<1>2. /\ taker \in Id /\ s \in Side /\ p \in Price
      /\ m \in Id /\ m # taker
      /\ node[m].quantity \in Nat
      /\ x \in Nat \ {0}
  BY <1>1, MakerIsThere
<1>n. node \in [Id -> OrderNode] /\ node[m].quantity - x \in Nat \ {0} /\ 0 \in Nat
  BY <1>1, <1>2 DEF BookInv, TypeOK
<1> HIDE DEF s, p, m, x
<1>3. TypeOK'
  <2>1. node' \in [Id -> OrderNode]
    <3>1. node' = [node EXCEPT ![taker].quantity = 0, ![m].quantity = node[m].quantity - x]
      BY <1>1
    <3> QED BY <3>1, <1>2, <1>n, ReduceNodes
  <2>2. volume' \in [Side -> [Price -> Int]]
    BY <1>1, <1>2 DEF BookInv, TypeOK
  <2>3. posted' \in Seq(TradeMessage)
    BY <1>1, <1>2, TradeType, AppendProperties DEF BookInv, TypeOK
  <2> QED BY <1>1, <2>1, <2>2, <2>3 DEF BookInv, TypeOK
<1>4. \A i \in orderMap : /\ node'[i].side = node[i].side /\ node'[i].price = node[i].price
                          /\ node'[i].quantity > 0
  <2> TAKE i \in orderMap
  <2>1. i \in Id /\ i # taker /\ node[i].quantity > 0
    BY RestingOrder
  <2>2. /\ node'[i].side = node[i].side /\ node'[i].price = node[i].price
        /\ i # m => node'[i] = node[i]
        /\ node'[m].quantity = node[m].quantity - x
    BY <1>1, <1>2, <1>n, <2>1, ReduceNodes
  <2> QED BY <1>n, <2>1, <2>2
<1>5. \A ss \in Side, pp \in Price : Resting(ss, pp)' = Resting(ss, pp)
  BY <1>1, <1>4 DEF Resting
<1>6. IndexConsistent'
  BY <1>1, <1>4, <1>5 DEF BookInv, IndexConsistent
<1>7. NotCrossed'
  BY <1>1 DEF BookInv, NotCrossed
<1> QED BY <1>3, <1>6, <1>7 DEF BookInv

\* When the loop stops with something left of a limit order, nobody opposite accepts its
\* price: the loop looked at the best price, and the others are worse.
LEMMA LoopExhausted ==
  ASSUME BookInv, taker # NoTaker, ~CanMatch, node[taker].quantity > 0, node[taker].price > 0
  PROVE  /\ taker \in Id /\ node[taker] \in OrderNode /\ node[taker].price \in Price
         /\ node[taker].side \in Side
         /\ \A q \in prices[MakerSide] : ~Accepts(taker, q)
<1>1. taker \in Id /\ node[taker] \in OrderNode
  BY BookAssumption DEF BookInv, TypeOK, NoTaker, Id
<1>2. node[taker].side \in Side /\ node[taker].price \in 0..MaxPrice
  BY <1>1 DEF OrderNode
<1>3. node[taker].price \in Price
  BY <1>2, BookAssumption DEF Price
<1>4. MakerSide \in Side /\ MakerSide = IF node[taker].side = "BUY" THEN "SELL" ELSE "BUY"
  BY DEF MakerSide, Opposite, Side
<1>5. ASSUME NEW q \in prices[MakerSide] PROVE ~Accepts(taker, q)
  <2>1. MakerPrice \in prices[MakerSide] /\ ~Better(MakerSide, q, MakerPrice)
    BY <1>4, BestIsBest DEF BookInv, MakerPrice
  <2>2. ~Accepts(taker, MakerPrice)
    BY <1>5 DEF CanMatch
  <2>3. q \in Int /\ MakerPrice \in Int
    BY <2>1, <1>4, BookAssumption DEF BookInv, TypeOK, Price
  <2> QED BY <1>2, <1>3, <1>4, <2>1, <2>2, <2>3 DEF Better, Accepts, Price, Side
<1> QED BY <1>1, <1>2, <1>3, <1>5

LEMMA RestBookInv ==
  ASSUME BookInv, Rest
  PROVE  BookInv'
<1> DEFINE s == node[taker].side
           p == node[taker].price
<1>1. /\ taker # NoTaker /\ ~CanMatch /\ node[taker].quantity > 0 /\ p > 0
      /\ queue' = [queue EXCEPT ![s][p] = Append(@, taker)]
      /\ volume' = [volume EXCEPT ![s][p] = JoinedVolume(s, p)]
      /\ prices' = [prices EXCEPT ![s] = @ \cup {p}]
      /\ orderMap' = orderMap \cup {taker}
      /\ taker' = NoTaker
      /\ UNCHANGED <<node, arrived, posted>>
  BY DEF Rest, OpenQuantity
<1>2. /\ taker \in Id /\ node[taker] \in OrderNode /\ p \in Price /\ s \in Side
      /\ \A q \in prices[MakerSide] : ~Accepts(taker, q)
  BY <1>1, LoopExhausted
<1> HIDE DEF s, p
<1>3. taker = arrived /\ taker \in 1..arrived /\ arrived \in Nat
  BY <1>1, BookAssumption DEF BookInv, TypeOK, NoTaker
<1>4. /\ queue[s][p] \in Seq(Id) /\ InArrivalOrder(queue[s][p])
      /\ ToSet(queue[s][p]) = Resting(s, p)
  BY <1>2 DEF BookInv, TypeOK, IndexConsistent
<1>5. \A i \in Resting(s, p) : i < taker
  BY <1>3, RestingOrder DEF Resting, Id
<1>6. /\ Append(queue[s][p], taker) \in Seq(Id)
      /\ Append(queue[s][p], taker) # <<>>
      /\ ToSet(Append(queue[s][p], taker)) = Resting(s, p) \cup {taker}
      /\ InArrivalOrder(Append(queue[s][p], taker))
  BY <1>2, <1>4, <1>5, PushQueue
<1>7. TypeOK'
  <2>1. queue' \in [Side -> [Price -> Seq(Id)]]
    BY <1>1, <1>2, <1>6 DEF BookInv, TypeOK
  <2>2. JoinedVolume(s, p) \in Int
    BY <1>2 DEF BookInv, TypeOK, JoinedVolume, OpenQuantity, OrderNode
  <2>3. volume' \in [Side -> [Price -> Int]]
    BY <1>1, <1>2, <2>2 DEF BookInv, TypeOK
  <2>4. prices' \in [Side -> SUBSET Price]
    BY <1>1, <1>2 DEF BookInv, TypeOK
  <2> QED BY <1>1, <1>3, <2>1, <2>3, <2>4 DEF BookInv, TypeOK
<1>8. \A ss \in Side, pp \in Price :
        Resting(ss, pp)' = IF ss = s /\ pp = p THEN Resting(s, p) \cup {taker} ELSE Resting(ss, pp)
  BY <1>1 DEF Resting, s, p
<1>9. IndexConsistent'
  <2>1. \A i \in orderMap' : node'[i].price > 0 /\ node'[i].quantity > 0 /\ i # taker'
    <3>1. node'[taker].price > 0 /\ node'[taker].quantity > 0 /\ taker # taker'
      BY <1>1 DEF p
    <3>2. \A i \in orderMap : node'[i].price > 0 /\ node'[i].quantity > 0 /\ i # taker'
      BY <1>1, RestingOrder, BookAssumption DEF BookInv, IndexConsistent, NoTaker, Id
    <3> QED BY <1>1, <3>1, <3>2
  <2>2. ASSUME NEW ss \in Side, NEW pp \in Price
        PROVE  /\ ToSet(queue'[ss][pp]) = Resting(ss, pp)'
               /\ InArrivalOrder(queue'[ss][pp])
               /\ pp \in prices'[ss] <=> queue'[ss][pp] # <<>>
    <3>1. CASE ss = s /\ pp = p
      <4>1. queue'[ss][pp] = Append(queue[s][p], taker) /\ pp \in prices'[ss]
        BY <1>1, <1>2, <3>1 DEF BookInv, TypeOK
      <4> QED BY <1>6, <1>8, <3>1, <4>1
    <3>2. CASE ~(ss = s /\ pp = p)
      <4>1. queue'[ss][pp] = queue[ss][pp]
        BY <1>1, <1>2, <3>2 DEF BookInv, TypeOK
      <4>2. pp \in prices'[ss] <=> pp \in prices[ss]
        BY <1>1, <1>2, <3>2 DEF BookInv, TypeOK
      <4> QED BY <1>8, <3>2, <4>1, <4>2 DEF BookInv, IndexConsistent
    <3> QED BY <3>1, <3>2
  <2> QED BY <2>1, <2>2 DEF IndexConsistent
<1>10. NotCrossed'
  <2>1. /\ prices \in [Side -> SUBSET Price] /\ "BUY" \in Side /\ "SELL" \in Side
        /\ prices'["BUY"] = IF s = "BUY" THEN prices["BUY"] \cup {p} ELSE prices["BUY"]
        /\ prices'["SELL"] = IF s = "SELL" THEN prices["SELL"] \cup {p} ELSE prices["SELL"]
    BY <1>1, <1>2 DEF BookInv, TypeOK, Side
  <2>2. \A b \in prices["BUY"], a \in prices["SELL"] : b < a
    BY DEF BookInv, NotCrossed
  <2>3. CASE s = "BUY"
    <3>1. \A a \in prices["SELL"] : ~(a <= p) /\ a \in Int /\ p \in Int
      BY <1>2, <2>1, <2>3, BookAssumption DEF Accepts, MakerSide, Opposite, Price, s, p
    <3> QED BY <2>1, <2>2, <2>3, <3>1 DEF NotCrossed
  <2>4. CASE s = "SELL"
    <3>1. \A b \in prices["BUY"] : ~(b >= p) /\ b \in Int /\ p \in Int
      BY <1>2, <2>1, <2>4, BookAssumption DEF Accepts, MakerSide, Opposite, Price, s, p
    <3> QED BY <2>1, <2>2, <2>4, <3>1 DEF NotCrossed
  <2> QED BY <1>2, <2>3, <2>4 DEF Side
<1> QED BY <1>7, <1>9, <1>10 DEF BookInv

LEMMA LeaveBookInv ==
  ASSUME BookInv, Leave
  PROVE  BookInv'
<1>1. /\ UNCHANGED <<node, queue, volume, prices, orderMap, arrived, posted>>
      /\ taker' = NoTaker
  BY DEF Leave, bookvars
<1>2. TypeOK'
  BY <1>1 DEF BookInv, TypeOK
<1>3. \A i \in orderMap : i # NoTaker
  BY RestingOrder, BookAssumption DEF NoTaker, Id
<1>4. \A ss \in Side, pp \in Price : Resting(ss, pp)' = Resting(ss, pp)
  BY <1>1 DEF Resting
<1>5. IndexConsistent'
  BY <1>1, <1>3, <1>4 DEF BookInv, IndexConsistent
<1>6. NotCrossed'
  BY <1>1 DEF BookInv, NotCrossed
<1> QED BY <1>2, <1>5, <1>6 DEF BookInv

LEMMA CancelOrderBookInv ==
  ASSUME BookInv, NEW i \in Id, CancelOrder(i)
  PROVE  BookInv'
<1> DEFINE s == node[i].side
           p == node[i].price
<1>1. /\ i \in orderMap
      /\ queue' = [queue EXCEPT ![s][p] = Without(@, i)]
      /\ volume' = [volume EXCEPT ![s][p] = @ - node[i].quantity]
      /\ prices' = [prices EXCEPT ![s] = IF queue'[s][p] = <<>> THEN @ \ {p} ELSE @]
      /\ orderMap' = orderMap \ {i}
      /\ UNCHANGED <<node, taker, arrived, posted>>
  BY DEF CancelOrder, OpenQuantity
<1>2. /\ s \in Side /\ p \in Price /\ i \in Resting(s, p) /\ node[i].quantity \in Nat
  BY <1>1, RestingOrder DEF Resting
<1> HIDE DEF s, p
<1>3. /\ queue[s][p] \in Seq(Id) /\ InArrivalOrder(queue[s][p])
      /\ ToSet(queue[s][p]) = Resting(s, p)
      /\ p \in prices[s] <=> queue[s][p] # <<>>
  BY <1>2 DEF BookInv, TypeOK, IndexConsistent
<1>4. /\ Without(queue[s][p], i) \in Seq(Id)
      /\ ToSet(Without(queue[s][p], i)) = Resting(s, p) \ {i}
      /\ InArrivalOrder(Without(queue[s][p], i))
  BY <1>2, <1>3, RemoveFromQueue
<1>5. p \in prices[s]
  BY <1>2, <1>3 DEF ToSet
<1>6. TypeOK'
  <2>1. queue' \in [Side -> [Price -> Seq(Id)]]
    BY <1>1, <1>2, <1>4 DEF BookInv, TypeOK
  <2>2. volume' \in [Side -> [Price -> Int]]
    BY <1>1, <1>2 DEF BookInv, TypeOK
  <2>3. prices' \in [Side -> SUBSET Price]
    BY <1>1, <1>2 DEF BookInv, TypeOK
  <2> QED BY <1>1, <2>1, <2>2, <2>3 DEF BookInv, TypeOK
<1>7. \A ss \in Side, pp \in Price :
        Resting(ss, pp)' = IF ss = s /\ pp = p THEN Resting(s, p) \ {i} ELSE Resting(ss, pp)
  BY <1>1 DEF Resting, s, p
<1>8. IndexConsistent'
  <2>1. \A j \in orderMap' : node'[j].price > 0 /\ node'[j].quantity > 0 /\ j # taker'
    BY <1>1 DEF BookInv, IndexConsistent
  <2>2. ASSUME NEW ss \in Side, NEW pp \in Price
        PROVE  /\ ToSet(queue'[ss][pp]) = Resting(ss, pp)'
               /\ InArrivalOrder(queue'[ss][pp])
               /\ pp \in prices'[ss] <=> queue'[ss][pp] # <<>>
    <3>1. CASE ss = s /\ pp = p
      <4>1. queue'[ss][pp] = Without(queue[s][p], i)
        BY <1>1, <1>2, <3>1 DEF BookInv, TypeOK
      <4>2. pp \in prices'[ss] <=> queue'[ss][pp] # <<>>
        BY <1>1, <1>2, <1>5, <3>1 DEF BookInv, TypeOK
      <4> QED BY <1>4, <1>7, <3>1, <4>1, <4>2
    <3>2. CASE ~(ss = s /\ pp = p)
      <4>1. queue'[ss][pp] = queue[ss][pp]
        BY <1>1, <1>2, <3>2 DEF BookInv, TypeOK
      <4>2. pp \in prices'[ss] <=> pp \in prices[ss]
        BY <1>1, <1>2, <3>2 DEF BookInv, TypeOK
      <4> QED BY <1>7, <3>2, <4>1, <4>2 DEF BookInv, IndexConsistent
    <3> QED BY <3>1, <3>2
  <2> QED BY <2>1, <2>2 DEF IndexConsistent
<1>9. NotCrossed'
  <2>1. \A ss \in Side : prices'[ss] \subseteq prices[ss]
    BY <1>1, <1>2 DEF BookInv, TypeOK
  <2> QED BY <2>1 DEF BookInv, NotCrossed, Side
<1> QED BY <1>6, <1>8, <1>9 DEF BookInv

LEMMA NextBookInv == BookInv /\ [Next]_vars => BookInv'
<1> SUFFICES ASSUME BookInv, [Next]_vars PROVE BookInv'
  OBVIOUS
<1>1. ASSUME NEW s \in Side, NEW p \in 0..MaxPrice, NEW q \in 1..MaxQuantity, AddOrder(s, p, q)
      PROVE  BookInv'
  BY <1>1, AddOrderBookInv
<1>2. CASE FillMaker
  BY <1>2, FillMakerBookInv
<1>3. CASE FillTaker
  BY <1>3, FillTakerBookInv
<1>4. CASE Rest
  BY <1>4, RestBookInv
<1>5. CASE Leave
  BY <1>5, LeaveBookInv
<1>6. ASSUME NEW i \in Id, CancelOrder(i)
      PROVE  BookInv'
  BY <1>6, CancelOrderBookInv
<1>7. CASE UNCHANGED vars
  BY <1>7 DEF vars, BookInv, TypeOK, IndexConsistent, NotCrossed, Resting
<1> QED BY <1>1, <1>2, <1>3, <1>4, <1>5, <1>6, <1>7 DEF Next, Matching

\* The inductive invariant holds of every behaviour of the worker.
THEOREM BookInvariant == Spec => []BookInv
BY InitBookInv, NextBookInv, PTL DEF Spec

\* The fields of every node, queue, price list and trade message keep their types.
THEOREM BookTyped == Spec => []TypeOK
<1>1. BookInv => TypeOK
  BY DEF BookInv
<1> QED BY <1>1, BookInvariant, PTL

\* orderMap, the queues and the price lists of addOrder, cancelOrder and matchOrder agree
\* at every step of the matching loop.
THEOREM BookIndexed == Spec => []IndexConsistent
<1>1. BookInv => IndexConsistent
  BY DEF BookInv
<1> QED BY <1>1, BookInvariant, PTL

\* The best bid is always below the best ask.
THEOREM BookNeverCrossed == Spec => []NotCrossed
<1>1. BookInv => NotCrossed
  BY DEF BookInv
<1> QED BY <1>1, BookInvariant, PTL

-----------------------------------------------------------------------------
\* Every trade has used up one of its two orders, and nothing is ever added to an order:
\* that is why the pair cannot trade again.
TradesSpent ==
    \A k \in 1..Len(posted) :
      /\ posted[k].maker \in 1..arrived /\ posted[k].taker \in 1..arrived
      /\ node[posted[k].maker].quantity = 0 \/ node[posted[k].taker].quantity = 0

TradeInv == BookInv /\ TradesSpent /\ TradeOncePerPair

\* An iteration of the loop trades a pair that has not traded and uses up one of the two.
LEMMA PairIsSpent ==
  ASSUME TradeInv, taker # NoTaker, CanMatch,
         NEW x \in Nat \ {0}, NEW y \in Nat, NEW z \in Nat, y = 0 \/ z = 0,
         node' = [node EXCEPT ![taker].quantity = y, ![Maker].quantity = z],
         posted' = Append(posted, Trade(Maker, MakerPrice, x)),
         arrived' = arrived
  PROVE  TradesSpent' /\ TradeOncePerPair'
<1> DEFINE t == Trade(Maker, MakerPrice, x)
<1>1. /\ taker \in Id /\ Maker \in Id /\ Maker # taker /\ MakerPrice \in Price
      /\ Maker \in orderMap
      /\ node[Maker].quantity # 0 /\ node[taker].quantity # 0
  BY MakerIsThere DEF TradeInv, Resting
<1>2. node \in [Id -> OrderNode] /\ arrived \in Nat /\ posted \in Seq(TradeMessage)
  BY DEF TradeInv, BookInv, TypeOK
<1>3. /\ \A k \in Id : k # taker /\ k # Maker => node'[k] = node[k]
      /\ node'[taker].quantity = y /\ node'[Maker].quantity = z
  <2> HIDE DEF t
  <2>1. \A k \in Id : k # taker /\ k # Maker => node'[k] = node[k]
    BY <1>1, <1>2
  <2>2. node'[taker].quantity = y
    BY <1>1, <1>2, ReduceNodes, ZenonT(60)
  <2>3. node'[Maker].quantity = z
    BY <1>1, <1>2 DEF OrderNode
  <2> QED BY <2>1, <2>2, <2>3
<1>4. Maker \in 1..arrived /\ taker \in 1..arrived
  BY <1>1 DEF TradeInv, BookInv, TypeOK, NoTaker, Id
<1>5. t \in TradeMessage /\ t.maker = Maker /\ t.taker = taker
  BY <1>1, TradeType DEF Trade
<1>6. /\ Len(posted') = Len(posted) + 1 /\ posted'[Len(posted) + 1] = t
      /\ \A k \in 1..Len(posted) : posted'[k] = posted[k]
      /\ Len(posted) \in Nat
  <2> HIDE DEF t
  <2>1. posted' = Append(posted, t)
    BY DEF t
  <2> QED BY <1>2, <1>5, <2>1, AppendProperties
<1> HIDE DEF t
<1>7. \A k \in 1..Len(posted) :
        /\ posted[k].maker \in 1..arrived /\ posted[k].taker \in 1..arrived
        /\ node[posted[k].maker].quantity = 0 \/ node[posted[k].taker].quantity = 0
        /\ ~(posted[k].maker = Maker /\ posted[k].taker = taker)
  BY <1>1 DEF TradeInv, TradesSpent
<1>8. 1..arrived \subseteq Id
  BY <1>2, BookAssumption DEF TradeInv, BookInv, TypeOK, Id
<1>9. \A i \in 1..arrived : node[i].quantity = 0 => node'[i].quantity = 0
  <2> SUFFICES ASSUME NEW i \in 1..arrived, node[i].quantity = 0
               PROVE  node'[i].quantity = 0
    OBVIOUS
  <2>1. i # taker /\ i # Maker
    BY <1>1
  <2> QED BY <1>3, <1>8, <2>1
<1>10. \A k \in 1..Len(posted') : k = Len(posted) + 1 \/ k \in 1..Len(posted)
  BY <1>6
<1>11. TradesSpent'
  <2> SUFFICES ASSUME NEW k \in 1..Len(posted')
               PROVE  /\ posted'[k].maker \in 1..arrived /\ posted'[k].taker \in 1..arrived
                      /\ node'[posted'[k].maker].quantity = 0 \/ node'[posted'[k].taker].quantity = 0
    BY DEF TradesSpent
  <2>1. CASE k = Len(posted) + 1
    BY <1>3, <1>4, <1>5, <1>6, <2>1
  <2>2. CASE k \in 1..Len(posted)
    BY <1>6, <1>7, <1>9, <2>2
  <2> QED BY <1>10, <2>1, <2>2
<1>12. TradeOncePerPair'
  <2> SUFFICES ASSUME NEW j \in 1..Len(posted'), NEW k \in 1..Len(posted'), j # k
               PROVE  posted'[j].taker # posted'[k].taker \/ posted'[j].maker # posted'[k].maker
    BY DEF TradeOncePerPair
  <2>1. CASE j \in 1..Len(posted) /\ k \in 1..Len(posted)
    BY <1>6, <2>1 DEF TradeInv, TradeOncePerPair
  <2>2. CASE j = Len(posted) + 1 /\ k \in 1..Len(posted)
    BY <1>5, <1>6, <1>7, <2>2
  <2>3. CASE j \in 1..Len(posted) /\ k = Len(posted) + 1
    BY <1>5, <1>6, <1>7, <2>3
  <2> QED BY <1>10, <2>1, <2>2, <2>3
<1> QED BY <1>11, <1>12

LEMMA NextTradeInv == TradeInv /\ [Next]_vars => TradeInv'
<1> SUFFICES ASSUME TradeInv, [Next]_vars PROVE TradeInv'
  OBVIOUS
<1>1. BookInv'
  BY NextBookInv DEF TradeInv
<1> SUFFICES TradesSpent' /\ TradeOncePerPair'
  BY <1>1 DEF TradeInv
<1>2. ASSUME NEW s \in Side, NEW p \in 0..MaxPrice, NEW q \in 1..MaxQuantity, AddOrder(s, p, q)
      PROVE  TradesSpent' /\ TradeOncePerPair'
  <2>1. /\ posted' = posted /\ arrived' = arrived + 1
        /\ node' = [node EXCEPT ![arrived + 1] = [side |-> s, price |-> p, size |-> q, quantity |-> q]]
    BY <1>2 DEF AddOrder
  <2>2. node \in [Id -> OrderNode] /\ arrived \in Nat /\ 1..arrived \subseteq Id
    BY BookAssumption DEF TradeInv, BookInv, TypeOK, Id
  <2>3. \A i \in 1..arrived : node'[i] = node[i]
    BY <2>1, <2>2
  <2>4. 1..arrived \subseteq 1..arrived'
    BY <2>1, <2>2
  <2> QED BY <2>1, <2>3, <2>4 DEF TradeInv, TradesSpent, TradeOncePerPair
<1>3. CASE FillMaker
  <2>1. /\ taker # NoTaker /\ CanMatch /\ node[Maker].quantity <= node[taker].quantity
        /\ node' = [node EXCEPT ![taker].quantity = node[taker].quantity - node[Maker].quantity,
                                ![Maker].quantity = 0]
        /\ posted' = Append(posted, Trade(Maker, MakerPrice, node[Maker].quantity))
        /\ arrived' = arrived
    <3>1. taker # Maker /\ taker \in Id /\ node \in [Id -> OrderNode]
      BY <1>3, MakerIsThere DEF FillMaker, TradeInv, BookInv, TypeOK
    <3> QED BY <1>3, <3>1 DEF FillMaker
  <2>2. node[Maker].quantity \in Nat \ {0} /\ node[taker].quantity - node[Maker].quantity \in Nat
    BY <2>1, MakerIsThere DEF TradeInv
  <2> QED BY <2>1, <2>2, PairIsSpent
<1>4. CASE FillTaker
  <2>1. /\ taker # NoTaker /\ CanMatch /\ node[taker].quantity < node[Maker].quantity
        /\ node' = [node EXCEPT ![taker].quantity = 0,
                                ![Maker].quantity = node[Maker].quantity - node[taker].quantity]
        /\ posted' = Append(posted, Trade(Maker, MakerPrice, node[taker].quantity))
        /\ arrived' = arrived
    <3>1. taker # Maker /\ Maker \in Id /\ node \in [Id -> OrderNode]
      BY <1>4, MakerIsThere DEF FillTaker, TradeInv, BookInv, TypeOK
    <3> QED BY <1>4, <3>1 DEF FillTaker
  <2>2. node[taker].quantity \in Nat \ {0} /\ node[Maker].quantity - node[taker].quantity \in Nat
    BY <2>1, MakerIsThere DEF TradeInv
  <2> QED BY <2>1, <2>2, PairIsSpent
<1>5. CASE Rest
  BY <1>5 DEF Rest, TradeInv, TradesSpent, TradeOncePerPair
<1>6. CASE Leave
  BY <1>6 DEF Leave, TradeInv, TradesSpent, TradeOncePerPair
<1>7. ASSUME NEW i \in Id, CancelOrder(i)
      PROVE  TradesSpent' /\ TradeOncePerPair'
  BY <1>7 DEF CancelOrder, TradeInv, TradesSpent, TradeOncePerPair
<1>8. CASE UNCHANGED vars
  BY <1>8 DEF vars, TradeInv, TradesSpent, TradeOncePerPair
<1> QED BY <1>2, <1>3, <1>4, <1>5, <1>6, <1>7, <1>8 DEF Next, Matching

\* No taker meets the same maker twice, so the key taker-maker under which the main thread
\* stores a trade never makes the event store drop one.
THEOREM BookTradesOnce == Spec => []TradeOncePerPair
<1>1. Init => TradeInv
  <2> SUFFICES ASSUME Init PROVE TradesSpent /\ TradeOncePerPair
    BY InitBookInv DEF TradeInv
  <2> QED BY DEF Init, TradesSpent, TradeOncePerPair
<1>2. TradeInv => TradeOncePerPair
  BY DEF TradeInv
<1> QED BY <1>1, <1>2, NextTradeInv, PTL DEF Spec

-----------------------------------------------------------------------------
\* ---- the worker implements price-time priority ----

\* The counterparties of the taker are the resting orders whose level it accepts, and each
\* of them waits at a listed price.
LEMMA CounterpartiesRest ==
  ASSUME BookInv, taker # NoTaker
  PROVE  /\ taker \in Id /\ MakerSide \in Side /\ MakerSide = Opposite(node[taker].side)
         /\ Exchange!Counterparties = {m \in orderMap : node[m].side = MakerSide /\ Accepts(taker, node[m].price)}
         /\ \A m \in orderMap : m \in Id /\ node[m].side \in Side /\ node[m].price \in prices[node[m].side]
<1>1. taker \in Id /\ MakerSide \in Side /\ MakerSide = Opposite(node[taker].side)
  BY BookAssumption DEF BookInv, TypeOK, NoTaker, Id, MakerSide, Opposite, Side
<1>2. \A m \in orderMap : m \in Id /\ node[m].side \in Side /\ node[m].price \in prices[node[m].side]
  <2> TAKE m \in orderMap
  <2>1. m \in Id /\ node[m].side \in Side /\ node[m].price \in Price
    BY RestingOrder
  <2>2. m \in Resting(node[m].side, node[m].price)
    BY DEF Resting
  <2>3. /\ ToSet(queue[node[m].side][node[m].price]) = Resting(node[m].side, node[m].price)
        /\ node[m].price \in prices[node[m].side] <=> queue[node[m].side][node[m].price] # <<>>
    BY <2>1 DEF BookInv, IndexConsistent
  <2>4. queue[node[m].side][node[m].price] # <<>>
    BY <2>2, <2>3 DEF ToSet
  <2> QED BY <2>1, <2>3, <2>4
<1>3. Exchange!Counterparties = {m \in orderMap : node[m].side = MakerSide /\ Accepts(taker, node[m].price)}
  BY <1>1, <1>2 DEF Exchange!Counterparties, Exchange!Accepts, Exchange!Opposite, Accepts, Opposite
<1> QED BY <1>1, <1>2, <1>3

\* The head of the best queue has priority over everybody the taker could trade with.
LEMMA MakerHasPriority ==
  ASSUME BookInv, taker # NoTaker, CanMatch
  PROVE  /\ Maker \in Exchange!Counterparties /\ node[Maker].price = MakerPrice
         /\ \A n \in Exchange!Counterparties \ {Maker} : Exchange!HasPriority(Maker, n)
<1>1. /\ MakerPrice \in Price /\ MakerPrice \in prices[MakerSide]
      /\ queue[MakerSide][MakerPrice] \in Seq(Id) /\ queue[MakerSide][MakerPrice] # <<>>
      /\ InArrivalOrder(queue[MakerSide][MakerPrice])
      /\ ToSet(queue[MakerSide][MakerPrice]) = Resting(MakerSide, MakerPrice)
      /\ Maker \in Id /\ Maker \in Resting(MakerSide, MakerPrice)
  BY MakerIsThere
<1>2. Maker \in orderMap /\ node[Maker].side = MakerSide /\ node[Maker].price = MakerPrice
  BY <1>1 DEF Resting
<1>3. Maker \in Exchange!Counterparties
  BY <1>2, CounterpartiesRest DEF CanMatch
<1>4. ASSUME NEW n \in Exchange!Counterparties, n # Maker
      PROVE  Exchange!HasPriority(Maker, n)
  <2>1. /\ n \in orderMap /\ n \in Id /\ node[n].side = MakerSide /\ MakerSide \in Side
        /\ node[n].price \in prices[MakerSide]
    BY <1>4, CounterpartiesRest
  <2>2. ~Better(MakerSide, node[n].price, MakerPrice)
    BY <2>1, BestIsBest DEF BookInv, MakerPrice
  <2>3. node[n].price \in Price
    BY <2>1, RestingOrder
  <2>4. CASE node[n].price # MakerPrice
    BY <1>1, <1>2, <2>1, <2>2, <2>3, <2>4, BookAssumption DEF Better, Exchange!HasPriority, Price, Side
  <2>5. CASE node[n].price = MakerPrice
    <3>1. n \in ToSet(queue[MakerSide][MakerPrice])
      BY <1>1, <2>1, <2>5 DEF Resting
    <3>2. PICK j \in 1..Len(queue[MakerSide][MakerPrice]) : queue[MakerSide][MakerPrice][j] = n
      BY <1>1, <3>1, InQueue
    <3>3. Maker = queue[MakerSide][MakerPrice][1] /\ 1 \in 1..Len(queue[MakerSide][MakerPrice])
      BY <1>1 DEF Maker
    <3>4. 1 < j
      BY <1>1, <1>4, <3>2, <3>3
    <3>5. Maker < n
      BY <1>1, <3>2, <3>3, <3>4 DEF InArrivalOrder
    <3> QED BY <1>1, <1>2, <2>1, <2>5, <3>5 DEF Exchange!HasPriority
  <2> QED BY <2>4, <2>5
<1> QED BY <1>2, <1>3, <1>4

\* When the loop stops, nobody is left to trade with, or nothing.
LEMMA StopsForAReason ==
  ASSUME BookInv, taker # NoTaker, ~CanMatch, node[taker].quantity > 0
  PROVE  Exchange!Counterparties = {}
<1>1. \A q \in prices[MakerSide] : ~Accepts(taker, q)
  <2>1. CASE node[taker].price > 0
    BY <2>1, LoopExhausted
  <2>2. CASE node[taker].price = 0
    BY <2>2 DEF CanMatch, Accepts
  <2>3. node[taker].price \in 0..MaxPrice
    BY CounterpartiesRest DEF BookInv, TypeOK, OrderNode
  <2> QED BY <2>1, <2>2, <2>3, BookAssumption
<1> QED BY <1>1, CounterpartiesRest

\* An iteration that trades x is the abstract execution.
LEMMA TradeExecutes ==
  ASSUME BookInv, taker # NoTaker, CanMatch, NEW x \in Nat,
         x = IF node[Maker].quantity < node[taker].quantity THEN node[Maker].quantity ELSE node[taker].quantity,
         Trades(x)
  PROVE  Exchange!AExecute
<1> DEFINE t == taker
<1>0. PICK m : m = Maker
  OBVIOUS
<1>1. /\ t \in Id /\ m \in Id /\ m # t /\ node[m].quantity \in Nat /\ node[t].quantity \in Nat \ {0}
      /\ node \in [Id -> OrderNode]
  BY <1>0, MakerIsThere DEF BookInv, TypeOK
<1>2. /\ m \in Exchange!Counterparties /\ node[m].price = MakerPrice
      /\ \A n \in Exchange!Counterparties \ {m} : Exchange!HasPriority(m, n)
  BY <1>0, MakerHasPriority
<1> DEFINE ord == [i \in Id |-> [side |-> node[i].side, price |-> node[i].price, size |-> node[i].size]]
           lef == [i \in Id |-> node[i].quantity]
<1>3. /\ \A i \in Id : i # t /\ i # m => node'[i] = node[i]
      /\ node'[t].quantity = node[t].quantity - x /\ node'[m].quantity = node[m].quantity - x
      /\ posted' = Append(posted, Trade(m, node[m].price, x))
      /\ orderMap' = IF node[m].quantity = x THEN orderMap \ {m} ELSE orderMap
      /\ x = IF node[m].quantity < node[t].quantity THEN node[m].quantity ELSE node[t].quantity
  BY <1>0, <1>2 DEF Trades
<1>4. [i \in Id |-> [side |-> node'[i].side, price |-> node'[i].price, size |-> node'[i].size]] = ord
  BY DEF Trades
<1>5. [i \in Id |-> node'[i].quantity] = [lef EXCEPT ![m] = @ - x, ![t] = @ - x]
  <2>1. \A i \in Id : node'[i].quantity = [lef EXCEPT ![m] = @ - x, ![t] = @ - x][i]
    BY <1>1, <1>3
  <2> QED BY <2>1
<1>6. /\ lef[m] = node[m].quantity /\ lef[t] = node[t].quantity
      /\ ord[m].price = node[m].price /\ ord[t].side = node[t].side
  BY <1>1
<1>7. Trade(m, node[m].price, x) =
        [maker |-> m, taker |-> t, price |-> ord[m].price, quantity |-> x,
         buyer |-> IF ord[t].side = "BUY" THEN t ELSE m,
         seller |-> IF ord[t].side = "BUY" THEN m ELSE t]
  BY <1>6 DEF Trade
<1>8. t # 0 /\ lef[t] > 0
  BY <1>1, <1>6 DEF NoTaker
<1>9. Exchange!Exchanged(m) = x
  BY <1>1, <1>3 DEF Exchange!Exchanged
<1>10. Exchange!Buyer(m) = (IF ord[t].side = "BUY" THEN t ELSE m) /\ Exchange!Seller(m) = (IF ord[t].side = "BUY" THEN m ELSE t)
  BY DEF Exchange!Buyer, Exchange!Seller
<1>11. Exchange!Execution(m)
  <2>1. [i \in Id |-> node'[i].quantity]
        = [lef EXCEPT ![m] = @ - Exchange!Exchanged(m), ![t] = @ - Exchange!Exchanged(m)]
    BY <1>5, <1>9
  <2>2. orderMap' = IF lef[m] = Exchange!Exchanged(m) THEN orderMap \ {m} ELSE orderMap
    BY <1>3, <1>6, <1>9
  <2>3. posted' = Append(posted,
          [maker |-> m, taker |-> t, price |-> ord[m].price, quantity |-> Exchange!Exchanged(m),
           buyer |-> Exchange!Buyer(m), seller |-> Exchange!Seller(m)])
    BY <1>3, <1>7, <1>9, <1>10
  <2> QED BY <1>2, <2>1, <2>2, <2>3 DEF Exchange!Execution
<1>12. UNCHANGED <<[i \in Id |-> [side |-> node[i].side, price |-> node[i].price, size |-> node[i].size]],
                   taker, arrived>>
  BY <1>4 DEF Trades
<1>13. [i \in Id |-> node[i].quantity][taker] > 0 /\ taker # 0
  BY <1>8
<1>14. \E n \in Exchange!Counterparties : Exchange!Execution(n)
  BY <1>2, <1>11, Zenon
<1> HIDE DEF ord, lef, t
<1> QED
  BY <1>12, <1>13, <1>14, Zenon DEF Exchange!AExecute

\* Each of the two kinds of iteration is such a trade.
LEMMA FillExecutes ==
  ASSUME BookInv, FillMaker \/ FillTaker PROVE Exchange!AExecute
BY FillTrades, TradeExecutes

\* The steps map to the abstract steps, one for one.
LEMMA AddSubmits ==
  ASSUME BookInv, NEW s \in Side, NEW p \in 0..MaxPrice, NEW q \in 1..MaxQuantity, AddOrder(s, p, q)
  PROVE  Exchange!ASubmit(s, p, q)
<1>1. node \in [Id -> OrderNode] /\ arrived + 1 \in Id
  BY BookAssumption DEF BookInv, TypeOK, AddOrder, Id
<1>2. node' = [node EXCEPT ![arrived + 1] = [side |-> s, price |-> p, size |-> q, quantity |-> q]]
  BY DEF AddOrder
<1> DEFINE n == arrived + 1
<1>3. [i \in Id |-> [side |-> node'[i].side, price |-> node'[i].price, size |-> node'[i].size]]
      = [[i \in Id |-> [side |-> node[i].side, price |-> node[i].price, size |-> node[i].size]]
           EXCEPT ![n] = [side |-> s, price |-> p, size |-> q]]
  BY <1>1, <1>2
<1>4. [i \in Id |-> node'[i].quantity] = [[i \in Id |-> node[i].quantity] EXCEPT ![n] = q]
  BY <1>1, <1>2
<1> QED BY <1>3, <1>4 DEF AddOrder, Exchange!ASubmit, NoTaker, bookvars

LEMMA LeavingCloses ==
  ASSUME BookInv, Rest \/ Leave PROVE Exchange!AClose
<1>1. /\ taker # NoTaker /\ ~CanMatch /\ taker' = NoTaker /\ UNCHANGED <<node, arrived, posted>>
  BY DEF Rest, Leave
<1>2. taker \in Id /\ node[taker].quantity \in Nat /\ node[taker].price \in 0..MaxPrice
  BY <1>1, CounterpartiesRest DEF BookInv, TypeOK, OrderNode
<1>3. node[taker].quantity = 0 \/ Exchange!Counterparties = {}
  BY <1>1, <1>2, StopsForAReason
<1>4. orderMap' = IF node[taker].quantity > 0 /\ node[taker].price > 0 THEN orderMap \cup {taker} ELSE orderMap
  BY <1>2, BookAssumption DEF Rest, Leave, OpenQuantity, bookvars
<1> QED BY <1>1, <1>2, <1>3, <1>4 DEF Exchange!AClose, NoTaker

LEMMA CancelCancels ==
  ASSUME BookInv, NEW i \in Id, CancelOrder(i) PROVE Exchange!ACancel(i)
BY DEF CancelOrder, Exchange!ACancel, NoTaker

LEMMA BookImplements == BookInv /\ [Next]_vars => [Exchange!ANext]_(Exchange!avars)
<1> SUFFICES ASSUME BookInv, [Next]_vars PROVE Exchange!ANext \/ UNCHANGED Exchange!avars
  OBVIOUS
<1>1. ASSUME NEW s \in Side, NEW p \in 0..MaxPrice, NEW q \in 1..MaxQuantity, AddOrder(s, p, q)
      PROVE  Exchange!ANext
  BY <1>1, AddSubmits DEF Exchange!ANext, Exchange!Side, Side
<1>2. CASE FillMaker \/ FillTaker
  BY <1>2, FillExecutes DEF Exchange!ANext
<1>3. CASE Rest \/ Leave
  BY <1>3, LeavingCloses DEF Exchange!ANext
<1>4. ASSUME NEW i \in Id, CancelOrder(i) PROVE Exchange!ANext
  BY <1>4, CancelCancels DEF Exchange!ANext, Id
<1>5. CASE UNCHANGED vars
  BY <1>5 DEF vars, bookvars, Exchange!avars
<1> QED BY <1>1, <1>2, <1>3, <1>4, <1>5 DEF Next, Matching

LEMMA InitImplements == Init => Exchange!AInit
<1> SUFFICES ASSUME Init PROVE Exchange!AInit
  OBVIOUS
<1>1. node = [i \in Id |-> [side |-> "BUY", price |-> 0, size |-> 0, quantity |-> 0]]
  BY DEF Init
<1> QED BY <1>1 DEF Init, Exchange!AInit, Id, NoTaker

\* The queues, price lists and orderMap of the worker implement price-time priority: every
\* trade is with the waiting order of the other side that was best, and first at its price.
THEOREM BookPriceTime == Spec => PriceTimePriority
BY BookInvariant, BookImplements, InitImplements, PTL DEF Spec, PriceTimePriority, Exchange!ASpec

-----------------------------------------------------------------------------
\* ---- what waits at a level ----

\* What each order has left to trade, as one function.
Quantities == [i \in Id |-> node[i].quantity]

\* The members of a level, and what is left of them.
LEMMA LevelFinite ==
  ASSUME BookInv, NEW s \in Side, NEW p \in Price
  PROVE  /\ Resting(s, p) \subseteq Id /\ IsFiniteSet(Resting(s, p)) /\ taker \notin Resting(s, p)
         /\ \A i \in Id : Quantities[i] = node[i].quantity /\ node[i].quantity \in Nat
<1>1. Resting(s, p) \subseteq Id /\ taker \notin Resting(s, p)
  BY RestingOrder DEF Resting
<1>2. IsFiniteSet(Id)
  <2>1. 1 \in Int /\ MaxOrders \in Int
    BY BookAssumption
  <2> QED BY <2>1, FS_Interval DEF Id
<1>3. IsFiniteSet(Resting(s, p))
  BY <1>1, <1>2, FS_Subset
<1>4. \A i \in Id : Quantities[i] = node[i].quantity /\ node[i].quantity \in Nat
  BY DEF Quantities, BookInv, TypeOK, OrderNode
<1> QED BY <1>1, <1>3, <1>4

\* What an iteration takes from the maker it takes from the maker's level.
LEMMA TradeKeepsVolumes ==
  ASSUME BookInv, BookInv', VolumeMatches, taker # NoTaker, CanMatch,
         NEW x \in Nat, Trades(x)
  PROVE  VolumeMatches'
<1> DEFINE m == Maker
<1>1. /\ taker \in Id /\ m \in Id /\ m # taker /\ MakerSide \in Side /\ MakerPrice \in Price
      /\ m \in Resting(MakerSide, MakerPrice) /\ node \in [Id -> OrderNode]
      /\ volume \in [Side -> [Price -> Int]] /\ prices \in [Side -> SUBSET Price]
  BY MakerIsThere DEF BookInv, TypeOK
<1>2. SUFFICES ASSUME NEW s \in Side, NEW p \in prices'[s]
               PROVE  volume'[s][p] = SumFunctionOnSet(Quantities', Resting(s, p)')
  BY DEF VolumeMatches, SumQuantity, Quantities
<1>3. p \in prices[s] /\ p \in Price
  BY <1>1 DEF Trades
<1> DEFINE R == Resting(s, p)
<1>4. volume[s][p] = SumFunctionOnSet(Quantities, R)
  BY <1>3 DEF VolumeMatches, SumQuantity, Quantities
<1>5. /\ R \subseteq Id /\ IsFiniteSet(R) /\ taker \notin R
      /\ \A i \in Id : Quantities[i] = node[i].quantity /\ node[i].quantity \in Nat
  BY <1>3, LevelFinite
<1>6. \A i \in Id : Quantities'[i] = node'[i].quantity /\ node'[i].quantity \in Nat
  BY DEF Quantities, BookInv, TypeOK, OrderNode
<1>7. \A i \in R : i # m => Quantities'[i] = Quantities[i]
  BY <1>5, <1>6 DEF Trades
<1>8. Resting(s, p)' = IF node[m].quantity = x THEN R \ {m} ELSE R
  <2>1. \A i \in orderMap : i \in Id
    BY RestingOrder
  <2> QED BY <2>1 DEF Trades, Resting
<1>9. Quantities[m] = node[m].quantity /\ Quantities'[m] = node[m].quantity - x /\ node[m].quantity \in Nat
  BY <1>1, <1>5, <1>6 DEF Trades
<1> HIDE DEF m, R
<1>10. CASE s = MakerSide /\ p = MakerPrice
  <2>1. volume'[s][p] = volume[s][p] - x /\ m \in R
    BY <1>1, <1>10 DEF Trades, R, m
  <2>2. CASE node[m].quantity = x
    <3>1. SumFunctionOnSet(Quantities, R) = x + SumFunctionOnSet(Quantities, R \ {m})
      BY <1>5, <1>9, <2>1, <2>2, SumRemove
    <3>2. SumFunctionOnSet(Quantities', R \ {m}) = SumFunctionOnSet(Quantities, R \ {m})
      <4>1. IsFiniteSet(R \ {m}) /\ \A i \in R \ {m} : Quantities[i] \in Int /\ Quantities'[i] = Quantities[i]
        BY <1>5, <1>7, FS_RemoveElement
      <4> QED BY <4>1, SumSame
    <3>3. SumFunctionOnSet(Quantities, R \ {m}) \in Int
      <4>1. IsFiniteSet(R \ {m}) /\ \A i \in R \ {m} : Quantities[i] \in Int
        BY <1>5, FS_RemoveElement
      <4> QED BY <4>1, SumType
    <3> QED BY <1>4, <1>8, <2>1, <2>2, <3>1, <3>2, <3>3
  <2>3. CASE node[m].quantity # x
    <3>1. \A i \in R : Quantities[i] \in Int /\ Quantities'[i] \in Int
      BY <1>5, <1>6
    <3>2. SumFunctionOnSet(Quantities', R) = SumFunctionOnSet(Quantities, R) + Quantities'[m] - Quantities[m]
      BY <1>5, <1>7, <2>1, <3>1, SumUpdate
    <3>3. SumFunctionOnSet(Quantities, R) \in Int
      BY <1>5, <3>1, SumType
    <3> QED BY <1>4, <1>8, <1>9, <2>1, <2>3, <3>2, <3>3
  <2> QED BY <2>2, <2>3
<1>11. CASE ~(s = MakerSide /\ p = MakerPrice)
  <2>1. volume'[s][p] = volume[s][p]
    BY <1>1, <1>3, <1>11 DEF Trades
  <2>2. m \notin R
    BY <1>1, <1>11 DEF R, m, Resting
  <2>3. Resting(s, p)' = R
    BY <1>8, <2>2
  <2>4. \A i \in R : Quantities[i] \in Int /\ Quantities'[i] = Quantities[i]
    BY <1>5, <1>7, <2>2
  <2>5. SumFunctionOnSet(Quantities', R) = SumFunctionOnSet(Quantities, R)
    BY <1>5, <2>4, SumSame
  <2> QED BY <1>4, <2>1, <2>3, <2>5
<1> QED BY <1>10, <1>11

\* The other steps: an order arrives (it rests nowhere yet), joins a level, leaves one.
LEMMA NextVolumes ==
  ASSUME BookInv, BookInv', VolumeMatches, [Next]_vars
  PROVE  VolumeMatches'
<1>0. /\ node \in [Id -> OrderNode] /\ volume \in [Side -> [Price -> Int]] /\ prices \in [Side -> SUBSET Price]
  BY DEF BookInv, TypeOK
<1>1. ASSUME NEW s \in Side, NEW p \in 0..MaxPrice, NEW q \in 1..MaxQuantity, AddOrder(s, p, q)
      PROVE  VolumeMatches'
  <2>1. /\ \A i \in orderMap : node'[i] = node[i] /\ i \in Id
        /\ UNCHANGED <<volume, prices, orderMap>>
    <3>1. \A i \in orderMap : i \in Id /\ i # arrived + 1
      BY BookAssumption DEF BookInv, TypeOK, Id
    <3> QED BY <1>0, <1>1, <3>1 DEF AddOrder, bookvars
  <2> SUFFICES ASSUME NEW r \in Side, NEW l \in prices[r]
               PROVE  volume[r][l] = SumFunctionOnSet(Quantities', Resting(r, l)')
    BY <2>1 DEF VolumeMatches, SumQuantity, Quantities
  <2>2. Resting(r, l)' = Resting(r, l)
    BY <2>1 DEF Resting
  <2>3. \A i \in Resting(r, l) : Quantities[i] \in Int /\ Quantities'[i] = Quantities[i]
    <3>1. \A i \in Resting(r, l) : i \in Id /\ node'[i] = node[i]
      BY <2>1 DEF Resting
    <3>2. \A i \in Resting(r, l) : node[i].quantity \in Int
      BY <1>0, <3>1 DEF OrderNode
    <3> QED BY <3>1, <3>2 DEF Quantities
  <2>4. IsFiniteSet(Resting(r, l))
    BY <1>0, LevelFinite
  <2>5. SumFunctionOnSet(Quantities', Resting(r, l)) = SumFunctionOnSet(Quantities, Resting(r, l))
    BY <2>3, <2>4, SumSame
  <2>6. volume[r][l] = SumFunctionOnSet(Quantities, Resting(r, l))
    BY DEF VolumeMatches, SumQuantity, Quantities
  <2> QED BY <2>2, <2>5, <2>6
<1>2. CASE FillMaker \/ FillTaker
  BY <1>2, FillTrades, TradeKeepsVolumes
<1>3. CASE Rest
  <2>1. taker \in Id
    BY <1>3, CounterpartiesRest DEF Rest
  <2>2. node[taker].side \in Side /\ node[taker].price \in Price
    BY <1>0, <1>3, <2>1, BookAssumption DEF Rest, OrderNode, Price
  <2>3. PICK s \in Side, p \in Price : s = node[taker].side /\ p = node[taker].price
    BY <2>2
  <2>4. /\ node' = node /\ orderMap' = orderMap \cup {taker}
        /\ prices' = [prices EXCEPT ![s] = @ \cup {p}]
        /\ volume' = [volume EXCEPT ![s][p] = JoinedVolume(s, p)]
    BY <1>3, <2>3 DEF Rest
  <2>5. Quantities' = Quantities
    BY <2>4 DEF Quantities
  <2> SUFFICES ASSUME NEW r \in Side, NEW l \in prices'[r]
               PROVE  volume'[r][l] = SumFunctionOnSet(Quantities, Resting(r, l)')
    BY <2>5 DEF VolumeMatches, SumQuantity, Quantities
  <2>6. CASE r = s /\ l = p
    <3>1. Resting(s, p)' = Resting(s, p) \cup {taker}
      BY <2>3, <2>4 DEF Resting
    <3>2. volume'[s][p] = JoinedVolume(s, p)
      BY <1>0, <2>1, <2>4
    <3>3. JoinedVolume(s, p) = Quantities[taker] + SumFunctionOnSet(Quantities, Resting(s, p))
      <4>1. Quantities[taker] = node[taker].quantity /\ node[taker].quantity \in Nat
        BY <2>1, LevelFinite
      <4>2. CASE p \in prices[s]
        <5>1. volume[s][p] = SumFunctionOnSet(Quantities, Resting(s, p)) /\ volume[s][p] \in Int
          BY <1>0, <2>1, <4>2 DEF VolumeMatches, SumQuantity, Quantities
        <5> QED BY <4>1, <4>2, <5>1 DEF JoinedVolume, OpenQuantity
      <4>3. CASE p \notin prices[s]
        <5>1. Resting(s, p) = {}
          BY <2>1, <4>3, EmptySeq DEF BookInv, IndexConsistent, ToSet
        <5>2. SumFunctionOnSet(Quantities, Resting(s, p)) = 0
          BY <5>1, SumEmpty
        <5> QED BY <4>1, <4>3, <5>2 DEF JoinedVolume, OpenQuantity
      <4> QED BY <4>2, <4>3
    <3>4. SumFunctionOnSet(Quantities, Resting(s, p) \cup {taker})
          = Quantities[taker] + SumFunctionOnSet(Quantities, Resting(s, p))
      <4> DEFINE R == Resting(s, p)
      <4>1. IsFiniteSet(R) /\ taker \notin R /\ \A i \in R \cup {taker} : Quantities[i] \in Int
        BY <2>1, LevelFinite
      <4> HIDE DEF R
      <4>2. SumFunctionOnSet(Quantities, R \cup {taker}) = Quantities[taker] + SumFunctionOnSet(Quantities, R)
        BY <4>1, SumAdd
      <4> QED BY <4>2 DEF R
    <3> QED BY <2>6, <3>1, <3>2, <3>3, <3>4
  <2>7. CASE ~(r = s /\ l = p)
    <3>1. l \in prices[r] /\ l \in Price /\ volume'[r][l] = volume[r][l]
      BY <1>0, <2>1, <2>4, <2>7
    <3>2. Resting(r, l)' = Resting(r, l)
      BY <2>3, <2>4, <2>7 DEF Resting
    <3> QED BY <3>1, <3>2 DEF VolumeMatches, SumQuantity, Quantities
  <2> QED BY <2>6, <2>7
<1>4. ASSUME NEW i \in Id, CancelOrder(i) PROVE VolumeMatches'
  <2>0. PICK s \in Side, p \in Price : s = node[i].side /\ p = node[i].price
    BY <1>4, RestingOrder DEF CancelOrder
  <2>1. i \in orderMap /\ i \in Resting(s, p)
    BY <1>4, <2>0 DEF CancelOrder, Resting
  <2>2. /\ node' = node /\ orderMap' = orderMap \ {i}
        /\ volume' = [volume EXCEPT ![s][p] = volume[s][p] - node[i].quantity]
        /\ \A r \in Side : prices'[r] \subseteq prices[r]
    BY <1>0, <1>4, <2>0, <2>1 DEF CancelOrder, OpenQuantity
  <2>3. Quantities' = Quantities
    BY <2>2 DEF Quantities
  <2> SUFFICES ASSUME NEW r \in Side, NEW l \in prices[r]
               PROVE  volume'[r][l] = SumFunctionOnSet(Quantities, Resting(r, l)')
    BY <2>2, <2>3 DEF VolumeMatches, SumQuantity, Quantities
  <2>4. volume[r][l] = SumFunctionOnSet(Quantities, Resting(r, l)) /\ volume[r][l] \in Int /\ l \in Price
    BY <1>0 DEF VolumeMatches, SumQuantity, Quantities
  <2>5. CASE r = s /\ l = p
    <3> DEFINE R == Resting(s, p)
    <3>1. Resting(s, p)' = R \ {i}
      BY <2>0, <2>1, <2>2 DEF Resting
    <3>2. volume'[s][p] = volume[s][p] - node[i].quantity
      BY <1>0, <2>1, <2>2
    <3>3. /\ IsFiniteSet(R) /\ i \in R /\ \A j \in R : Quantities[j] \in Int
          /\ Quantities[i] = node[i].quantity /\ node[i].quantity \in Nat
      BY <2>1, LevelFinite
    <3>4. SumFunctionOnSet(Quantities, R \ {i}) \in Int
      <4> DEFINE T == R \ {i}
      <4>1. IsFiniteSet(T) /\ \A j \in T : Quantities[j] \in Int
        BY <3>3, FS_RemoveElement
      <4> HIDE DEF R, T
      <4>2. SumFunctionOnSet(Quantities, T) \in Int
        BY <4>1, SumType
      <4> QED BY <4>2 DEF T
    <3> HIDE DEF R
    <3>5. SumFunctionOnSet(Quantities, R) = Quantities[i] + SumFunctionOnSet(Quantities, R \ {i})
      BY <3>3, SumRemove
    <3>6. volume[s][p] = SumFunctionOnSet(Quantities, R)
      BY <2>4, <2>5 DEF R
    <3>7. volume[s][p] - node[i].quantity = SumFunctionOnSet(Quantities, R \ {i})
      BY <3>3, <3>4, <3>5, <3>6
    <3> QED BY <2>5, <3>1, <3>2, <3>7
  <2>6. CASE ~(r = s /\ l = p)
    <3>1. volume'[r][l] = volume[r][l]
      BY <1>0, <2>1, <2>2, <2>4, <2>6
    <3>2. Resting(r, l)' = Resting(r, l)
      BY <2>0, <2>2, <2>6 DEF Resting
    <3> QED BY <2>4, <3>1, <3>2
  <2> QED BY <2>5, <2>6
<1>5. CASE Leave \/ UNCHANGED vars
  <2>1. UNCHANGED <<node, volume, prices, orderMap>>
    BY <1>5 DEF Leave, vars, bookvars
  <2> QED BY <2>1 DEF VolumeMatches, SumQuantity, Resting
<1> QED BY <1>1, <1>2, <1>3, <1>4, <1>5 DEF Next, Matching

-----------------------------------------------------------------------------
\* ---- the depth ----

\* The prices of T that precede p on side s, and the members of T that fewer than k precede.
Before(s, T, p) == {q \in T : Better(s, q, p)}
BestPrices(s, T, k) == {p \in T : Cardinality(Before(s, T, p)) < k}

\* They are the k best of T, or all there are: the worst of T is one of them only while
\* there is room for it.
LEMMA BestPricesCount ==
  ASSUME NEW N \in Nat, NEW P \in SUBSET (1..N), NEW k \in Nat, NEW s \in Side
  PROVE  Cardinality(BestPrices(s, P, k)) = IF Cardinality(P) < k THEN Cardinality(P) ELSE k
<1> DEFINE Ahead(A, p) == Before(s, A, p)
           BestOf(A) == BestPrices(s, A, k)
           Right(A) == Cardinality(BestOf(A)) = IF Cardinality(A) < k THEN Cardinality(A) ELSE k
           Bad == {A \in SUBSET P : ~Right(A)}
<1>1. \A A \in SUBSET (1..N) : IsFiniteSet(A)
  <2>1. IsFiniteSet(1..N)
    BY FS_Interval, 1 \in Int, N \in Int
  <2> QED BY <2>1, FS_Subset
<1>2. SUFFICES ASSUME Bad # {} PROVE FALSE
  OBVIOUS
<1>3. PICK A \in Bad : \A B \in SUBSET A : B # A => B \notin Bad
  <2>1. Bad \in SUBSET (SUBSET P) /\ IsFiniteSet(P)
    BY <1>1
  <2> HIDE DEF Bad
  <2> QED BY <1>2, <2>1, Minimal
<1>4. A \in SUBSET (1..N) /\ A \in SUBSET P /\ ~Right(A) /\ IsFiniteSet(A)
  BY <1>1, <1>3
<1>5. A # {}
  <2>1. BestOf({}) = {} /\ Cardinality({}) = 0
    BY FS_EmptySet DEF BestPrices
  <2> QED BY <1>4, <2>1
<1>6. PICK w \in A : \A q \in A : ~Better(s, w, q)
  <2>1. \E w \in A : \A q \in A : ~Better(Opposite(s), q, w)
    BY <1>4, <1>5, HasBest
  <2>2. \A w, q \in A : Better(Opposite(s), q, w) <=> Better(s, w, q)
    BY <1>4 DEF Better, Opposite, Side
  <2> QED BY <2>1, <2>2
<1> DEFINE B == A \ {w}
<1>7. B \in SUBSET (1..N) /\ IsFiniteSet(B) /\ Cardinality(A) = Cardinality(B) + 1 /\ Cardinality(B) \in Nat
  <2>1. B \in SUBSET (1..N) /\ IsFiniteSet(B)
    BY <1>1, <1>4
  <2>2. Cardinality(B) = Cardinality(A) - 1 /\ Cardinality(A) \in Nat
    BY <1>4, <1>6, FS_RemoveElement, FS_CardinalityType
  <2>3. Cardinality(B) \in Nat
    BY <2>1, FS_CardinalityType
  <2> QED BY <2>1, <2>2, <2>3
<1>8. Right(B)
  BY <1>3, <1>4
<1>9. /\ \A p \in B : Ahead(A, p) = Ahead(B, p)
      /\ Ahead(A, w) = B
  <2>1. \A p \in A : ~Better(s, w, p)
    BY <1>6
  <2>2. \A q \in B : Better(s, q, w)
    <3>1. \A q \in B : q \in Int /\ w \in Int /\ q # w /\ ~Better(s, w, q)
      BY <1>4, <1>6
    <3> QED BY <3>1 DEF Better
  <2>3. ~Better(s, w, w)
    BY <1>6
  <2> QED BY <2>1, <2>2, <2>3 DEF Before
<1>10. BestOf(A) = IF Cardinality(B) < k THEN BestOf(B) \cup {w} ELSE BestOf(B)
  <2>1. \A p \in A : p \in BestOf(A) <=> Cardinality(Ahead(A, p)) < k
    BY DEF BestPrices
  <2>2. \A p \in B : p \in BestOf(B) <=> Cardinality(Ahead(B, p)) < k
    BY DEF BestPrices
  <2>3. BestOf(A) \subseteq A /\ BestOf(B) \subseteq B /\ A = B \cup {w}
    BY <1>6 DEF BestPrices
  <2> HIDE DEF BestOf, Ahead
  <2>4. \A p \in B : p \in BestOf(A) <=> p \in BestOf(B)
    BY <1>9, <2>1, <2>2
  <2>5. w \in BestOf(A) <=> Cardinality(B) < k
    BY <1>6, <1>9, <2>1
  <2> HIDE DEF B
  <2>6. CASE Cardinality(B) < k
    BY <2>3, <2>4, <2>5, <2>6
  <2>7. CASE ~(Cardinality(B) < k)
    <3>1. \A p : p \in BestOf(A) <=> p \in BestOf(B)
      BY <2>3, <2>4, <2>5, <2>7
    <3> QED BY <2>7, <3>1, Zenon
  <2> QED BY <2>6, <2>7
<1>11. /\ IsFiniteSet(BestOf(B)) /\ w \notin BestOf(B)
       /\ Cardinality(BestOf(B) \cup {w}) = Cardinality(BestOf(B)) + 1
  <2>1. IsFiniteSet(BestOf(B)) /\ w \notin BestOf(B)
    BY <1>7, FS_Subset DEF BestPrices
  <2> HIDE DEF BestOf
  <2> QED BY <2>1, FS_AddElement
<1> HIDE DEF BestOf, B
<1> QED BY <1>4, <1>7, <1>8, <1>10, <1>11

\* What the worker posted last is what it would post now.
DepthPosted == taker = NoTaker => depth = Snapshot(prices, volume)

\* Such a depth shows the best levels and what waits there.
LEMMA SnapshotIsFresh ==
  ASSUME BookInv, VolumeMatches, DepthPosted PROVE DepthFresh
<1> SUFFICES ASSUME depth = Snapshot(prices, volume), NEW s \in Side
             PROVE  LET live == {node[i].price : i \in {j \in orderMap : node[j].side = s}}
                        shown == DOMAIN depth[s]
                    IN  /\ shown \subseteq live
                        /\ Cardinality(shown) = IF Cardinality(live) < DepthLevels THEN Cardinality(live) ELSE DepthLevels
                        /\ \A p \in shown, q \in live \ shown : IF s = "BUY" THEN p > q ELSE p < q
                        /\ \A p \in shown : depth[s][p] = SumQuantity(Resting(s, p))
  BY DEF DepthPosted, DepthFresh
<1> DEFINE P == prices[s]
           Ahead(p) == Before(s, P, p)
           shown == BestPrices(s, P, DepthLevels)
<1>1. depth[s] = [p \in shown |-> volume[s][p]]
  BY DEF Snapshot, BestPrices, Before
<1>2. {node[i].price : i \in {j \in orderMap : node[j].side = s}} = P
  <2>1. \A j \in orderMap : node[j].side = s => node[j].price \in P
    <3> TAKE j \in orderMap
    <3>1. node[j].price \in Price
      BY RestingOrder
    <3> HAVE node[j].side = s
    <3>2. j \in Resting(s, node[j].price)
      BY DEF Resting
    <3>3. ToSet(queue[s][node[j].price]) = Resting(s, node[j].price)
      BY <3>1 DEF BookInv, IndexConsistent
    <3>4. queue[s][node[j].price] # <<>>
      BY <3>2, <3>3 DEF ToSet
    <3> QED BY <3>1, <3>4 DEF BookInv, IndexConsistent
  <2>2. ASSUME NEW p \in P PROVE \E j \in orderMap : node[j].side = s /\ node[j].price = p
    <3>1. p \in Price /\ queue[s][p] \in Seq(Id)
      BY DEF BookInv, TypeOK
    <3>2. queue[s][p] # <<>> /\ ToSet(queue[s][p]) = Resting(s, p) /\ InArrivalOrder(queue[s][p])
      BY <3>1 DEF BookInv, IndexConsistent
    <3>3. Head(queue[s][p]) \in Resting(s, p)
      BY <3>1, <3>2, ShiftQueue
    <3> QED BY <3>3 DEF Resting
  <2> QED BY <2>1, <2>2
<1>3. P \in SUBSET (1..MaxPrice) /\ MaxPrice \in Nat /\ DepthLevels \in Nat
  BY BookAssumption DEF BookInv, TypeOK, Price
<1>4. Cardinality(shown) = IF Cardinality(P) < DepthLevels THEN Cardinality(P) ELSE DepthLevels
  BY <1>3, BestPricesCount
<1>5. ASSUME NEW p \in shown, NEW q \in P \ shown PROVE Better(s, p, q)
  <2>1. p \in Int /\ q \in Int /\ p # q /\ \A r \in P : r \in Int
    BY <1>3 DEF BestPrices
  <2>2. SUFFICES ASSUME Better(s, q, p) PROVE FALSE
    BY <2>1 DEF Better
  <2>3. Ahead(q) \subseteq Ahead(p)
    BY <2>1, <2>2 DEF Better, Before
  <2>4. IsFiniteSet(Ahead(p))
    <3>1. IsFiniteSet(1..MaxPrice)
      BY <1>3, FS_Interval, 1 \in Int, MaxPrice \in Int
    <3> QED BY <1>3, <3>1, FS_Subset DEF Before
  <2>5. Cardinality(Ahead(q)) <= Cardinality(Ahead(p)) /\ Cardinality(Ahead(p)) \in Nat /\ Cardinality(Ahead(q)) \in Nat
    <3> HIDE DEF Ahead
    <3>1. IsFiniteSet(Ahead(q))
      BY <2>3, <2>4, FS_Subset
    <3> QED BY <2>3, <2>4, <3>1, FS_Subset, FS_CardinalityType
  <2>6. Cardinality(Ahead(p)) < DepthLevels /\ ~(Cardinality(Ahead(q)) < DepthLevels)
    BY DEF BestPrices
  <2> QED BY <1>3, <2>5, <2>6
<1>6. \A p \in shown : volume[s][p] = SumQuantity(Resting(s, p))
  BY DEF VolumeMatches, BestPrices
<1>7. DOMAIN depth[s] = shown /\ shown \subseteq P /\ \A p \in shown : depth[s][p] = volume[s][p]
  BY <1>1 DEF BestPrices
<1> HIDE DEF shown, P
<1>8. \A p \in shown, q \in P \ shown : IF s = "BUY" THEN p > q ELSE p < q
  BY <1>5 DEF Better
<1> QED BY <1>2, <1>4, <1>6, <1>7, <1>8

\* Every message ends with a post.
LEMMA NextDepth ==
  ASSUME BookInv, DepthPosted, [Next]_vars PROVE DepthPosted'
<1>1. ASSUME NEW s \in Side, NEW p \in 0..MaxPrice, NEW q \in 1..MaxQuantity, AddOrder(s, p, q)
      PROVE  DepthPosted'
  <2>1. arrived \in Nat
    BY DEF BookInv, TypeOK
  <2> QED BY <1>1, <2>1 DEF AddOrder, DepthPosted, NoTaker
<1>2. CASE FillMaker \/ FillTaker
  BY <1>2, FillTrades DEF Trades, DepthPosted
<1>3. CASE Rest
  BY <1>3 DEF Rest, DepthPosted
<1>4. CASE Leave
  BY <1>4 DEF Leave, DepthPosted, bookvars
<1>5. ASSUME NEW i \in Id, CancelOrder(i) PROVE DepthPosted'
  BY <1>5 DEF CancelOrder, DepthPosted
<1>6. CASE UNCHANGED vars
  BY <1>6 DEF vars, bookvars, DepthPosted
<1> QED BY <1>1, <1>2, <1>3, <1>4, <1>5, <1>6 DEF Next, Matching

-----------------------------------------------------------------------------
\* ---- the tape ----

\* The trades of an order, and the quantity of every trade.
TradesOf(i) == {k \in 1..Len(posted) : i \in {posted[k].maker, posted[k].taker}}
Quantity == [k \in 1..Len(posted) |-> posted[k].quantity]

LEMMA TapeFinite ==
  ASSUME posted \in Seq(TradeMessage), NEW i
  PROVE  /\ IsFiniteSet(TradesOf(i)) /\ \A k \in TradesOf(i) : Quantity[k] \in Int
         /\ TradedQuantity(i) = SumFunctionOnSet(Quantity, TradesOf(i)) /\ TradedQuantity(i) \in Int
<1>1. IsFiniteSet(1..Len(posted)) /\ Len(posted) \in Nat
  <2>1. 1 \in Int /\ Len(posted) \in Nat
    BY LenProperties
  <2> QED BY <2>1, FS_Interval
<1>2. IsFiniteSet(TradesOf(i))
  BY <1>1, FS_Subset DEF TradesOf
<1>3. \A k \in TradesOf(i) : Quantity[k] \in Int
  <2> TAKE k \in TradesOf(i)
  <2>1. k \in 1..Len(posted)
    BY DEF TradesOf
  <2>2. posted[k] \in TradeMessage
    BY <2>1, ElementOfSeq
  <2> QED BY <2>1, <2>2 DEF Quantity, TradeMessage
<1>4. TradedQuantity(i) = SumFunctionOnSet(Quantity, TradesOf(i))
  BY DEF TradedQuantity, Quantity, TradesOf
<1> QED BY <1>2, <1>3, <1>4, SumType

\* A trade of x adds x to what its two orders have traded.
LEMMA TradeIsTaped ==
  ASSUME posted \in Seq(TradeMessage), NEW t \in TradeMessage, posted' = Append(posted, t), NEW i
  PROVE  TradedQuantity(i)' = IF i \in {t.maker, t.taker} THEN TradedQuantity(i) + t.quantity ELSE TradedQuantity(i)
<1> DEFINE n == Len(posted)
<1>1. /\ n \in Nat /\ Len(posted') = n + 1 /\ posted' \in Seq(TradeMessage) /\ posted'[n + 1] = t
      /\ \A k \in 1..n : posted'[k] = posted[k]
  BY LenProperties, AppendProperties
<1>2. \A k \in 1..n : Quantity'[k] = Quantity[k]
  BY <1>1 DEF Quantity
<1>3. Quantity'[n + 1] = t.quantity /\ t.quantity \in Int
  BY <1>1 DEF Quantity, TradeMessage
<1>4. /\ IsFiniteSet(TradesOf(i)) /\ \A k \in TradesOf(i) : Quantity[k] \in Int
      /\ TradedQuantity(i) = SumFunctionOnSet(Quantity, TradesOf(i)) /\ TradedQuantity(i) \in Int
  BY TapeFinite
<1>5. TradedQuantity(i)' = SumFunctionOnSet(Quantity', TradesOf(i)')
  BY DEF TradedQuantity, Quantity, TradesOf
<1>6. TradesOf(i) \subseteq 1..n /\ n + 1 \notin TradesOf(i)
  BY <1>1 DEF TradesOf
<1>7. TradesOf(i)' = IF i \in {t.maker, t.taker} THEN TradesOf(i) \cup {n + 1} ELSE TradesOf(i)
  <2>1. \A k : k \in 1..(n + 1) <=> k \in 1..n \/ k = n + 1
    BY <1>1
  <2> HIDE DEF n
  <2> QED BY <1>1, <2>1 DEF TradesOf, n
<1>8. SumFunctionOnSet(Quantity', TradesOf(i)) = SumFunctionOnSet(Quantity, TradesOf(i))
  <2>1. \A k \in TradesOf(i) : Quantity[k] \in Int /\ Quantity'[k] = Quantity[k]
    BY <1>2, <1>4, <1>6
  <2> QED BY <1>4, <2>1, SumSame
<1>9. SumFunctionOnSet(Quantity', TradesOf(i) \cup {n + 1}) = Quantity'[n + 1] + SumFunctionOnSet(Quantity', TradesOf(i))
  <2>1. \A k \in TradesOf(i) \cup {n + 1} : Quantity'[k] \in Int
    BY <1>2, <1>3, <1>4, <1>6
  <2> HIDE DEF n
  <2> QED BY <1>4, <1>6, <2>1, SumAdd
<1> HIDE DEF n
<1> QED BY <1>3, <1>4, <1>5, <1>7, <1>8, <1>9

LEMMA NextConservation ==
  ASSUME TradeInv, Conservation, [Next]_vars PROVE Conservation'
<1>0. /\ BookInv /\ node \in [Id -> OrderNode] /\ posted \in Seq(TradeMessage) /\ arrived \in Nat /\ 1..arrived \subseteq Id
  BY BookAssumption DEF TradeInv, BookInv, TypeOK, Id
<1>1. ASSUME NEW s \in Side, NEW p \in 0..MaxPrice, NEW q \in 1..MaxQuantity, AddOrder(s, p, q)
      PROVE  Conservation'
  <2>1. /\ arrived' = arrived + 1 /\ posted' = posted /\ arrived + 1 \in Id
        /\ node' = [node EXCEPT ![arrived + 1] = [side |-> s, price |-> p, size |-> q, quantity |-> q]]
    BY <1>0, <1>1, BookAssumption DEF AddOrder, Id
  <2>2. \A i \in 1..arrived : node'[i] = node[i]
    BY <1>0, <2>1
  <2>3. node'[arrived + 1].size = q /\ node'[arrived + 1].quantity = q
    BY <1>0, <2>1
  <2>4. TradedQuantity(arrived + 1) = 0
    <3>1. TradesOf(arrived + 1) = {}
      BY <1>0 DEF TradesOf, TradeInv, TradesSpent
    <3> QED BY <1>0, <3>1, TapeFinite, SumEmpty
  <2>5. ASSUME NEW i \in 1..arrived' PROVE node'[i].size = node'[i].quantity + TradedQuantity(i)'
    <3>1. TradedQuantity(i)' = TradedQuantity(i)
      BY <2>1 DEF TradedQuantity
    <3>2. CASE i \in 1..arrived
      BY <2>2, <3>1, <3>2 DEF Conservation
    <3>3. CASE i = arrived + 1
      BY <2>3, <2>4, <3>1, <3>3
    <3> QED BY <1>0, <2>1, <3>2, <3>3
  <2> QED BY <2>5 DEF Conservation
<1>2. CASE FillMaker \/ FillTaker
  <2>1. PICK x \in Nat \ {0} : Trades(x)
    BY <1>0, <1>2, FillTrades
  <2>2. /\ taker \in Id /\ Maker \in Id /\ Maker # taker /\ MakerPrice \in Price
        /\ node[Maker].quantity \in Nat /\ node[taker].quantity \in Nat
    BY <1>0, <1>2, FillTrades, MakerIsThere
  <2>3. PICK t \in TradeMessage : t = Trade(Maker, MakerPrice, x)
    BY <2>2, TradeType
  <2>4. t.maker = Maker /\ t.taker = taker /\ t.quantity = x
    BY <2>3 DEF Trade
  <2>5. posted' = Append(posted, t) /\ arrived' = arrived
    BY <2>1, <2>3 DEF Trades
  <2>6. ASSUME NEW i \in 1..arrived PROVE node'[i].size = node'[i].quantity + TradedQuantity(i)'
    <3>1. TradedQuantity(i)' = IF i \in {t.maker, t.taker} THEN TradedQuantity(i) + t.quantity ELSE TradedQuantity(i)
      BY <1>0, <2>5, TradeIsTaped
    <3>2. TradedQuantity(i) \in Int
      BY <1>0, TapeFinite
    <3>3. i \in Id /\ node[i].size = node[i].quantity + TradedQuantity(i) /\ node[i].quantity \in Nat
      BY <1>0 DEF Conservation, OrderNode
    <3>4. node'[i].size = node[i].size
      BY <2>1, <3>3 DEF Trades
    <3>5. node'[i].quantity = IF i \in {t.maker, t.taker} THEN node[i].quantity - x ELSE node[i].quantity
      BY <2>1, <2>4, <3>3 DEF Trades
    <3> QED BY <2>4, <3>1, <3>2, <3>3, <3>4, <3>5
  <2> QED BY <2>5, <2>6 DEF Conservation
<1>3. CASE Rest \/ Leave \/ (\E i \in Id : CancelOrder(i)) \/ UNCHANGED vars
  <2>1. UNCHANGED <<node, arrived, posted>>
    BY <1>3 DEF Rest, Leave, CancelOrder, vars
  <2> QED BY <2>1 DEF Conservation, TradedQuantity
<1> QED BY <1>1, <1>2, <1>3 DEF Next, Matching

-----------------------------------------------------------------------------
QuantityInv == TradeInv /\ VolumeMatches /\ DepthPosted /\ Conservation

\* What waits at a level, what the last depth shows and what the tape says was traded add
\* up, after any sequence of orders, partial fills and cancellations.
THEOREM BookQuantities == Spec => []QuantitiesAgree
<1>1. Init => QuantityInv
  <2> SUFFICES ASSUME Init PROVE QuantityInv
    OBVIOUS
  <2>1. TradeInv
    BY InitBookInv DEF TradeInv, Init, TradesSpent, TradeOncePerPair
  <2>2. VolumeMatches /\ Conservation
    BY DEF Init, VolumeMatches, Conservation
  <2>3. DepthPosted
    BY DEF Init, DepthPosted
  <2> QED BY <2>1, <2>2, <2>3 DEF QuantityInv
<1>2. QuantityInv /\ [Next]_vars => QuantityInv'
  <2> SUFFICES ASSUME QuantityInv, [Next]_vars PROVE QuantityInv'
    OBVIOUS
  <2>1. BookInv /\ BookInv' /\ TradeInv'
    BY NextBookInv, NextTradeInv DEF QuantityInv, TradeInv
  <2> QED BY <2>1, NextVolumes, NextDepth, NextConservation DEF QuantityInv
<1>3. QuantityInv => QuantitiesAgree
  BY SnapshotIsFresh DEF QuantityInv, TradeInv, QuantitiesAgree
<1> QED BY <1>1, <1>2, <1>3, PTL DEF Spec
=============================================================================
