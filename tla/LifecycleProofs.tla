---------------------------- MODULE LifecycleProofs ----------------------------
(***************************************************************************)
(* Orders from intent to trade, for any number of orders, repeated         *)
(* intents, cancellations, events sent again, messages missed, failed      *)
(* calls and restarts: the event store holds one outcome of each intent,   *)
(* no event is published twice but by ioredis, the stream tells causes     *)
(* before effects, a cancelled node leaves the book, no trade is dropped   *)
(* as a duplicate unless an order was fed twice, the orders table repeats  *)
(* what the projection has handled, and every intent that was not missed   *)
(* is answered.                                                            *)
(*                                                                         *)
(* They hold together.  A copy of an event that has a key is followed by   *)
(* another only if its answer was lost, because the store takes the key    *)
(* once; an order is activated once more only if its creation was sent     *)
(* again, because the projection's index passes each copy once; and a pair *)
(* of orders trades once more only if one of them is fed once more.        *)
(***************************************************************************)
EXTENDS OrderLifecycle, SequenceTheorems, TLAPS

USE DEF clientvars, logvars, loopvars, handlervars, bookvars, workervars

IsAt(type, o, i) == stream[i].type = type /\ stream[i].order = o

Created(o) == \E i \in 1..Len(stream) : IsAt("ORDER_CREATED", o, i)

\* The feed has passed an activation of o, and the one that put a node into the book.
Activated(o) == \E i \in 1..read["matching"] : IsAt("ORDER_ACTIVATED", o, i)
NodeFed(n) == n.at \in 1..read["matching"] /\ IsAt("ORDER_ACTIVATED", n.order, n.at)

\* The creation of o was sent again.
SentAgain(o) == \E i \in 1..Len(stream) : IsAt("ORDER_CREATED", o, i) /\ i \in unanswered

\* A handler that is busy has a message, and an index is within its topic.
Positions ==
    /\ \A s \in Subscriber : since[s] <= read[s]
    /\ read["intents"] <= Len(intents) /\ read["cancels"] <= Len(cancels)
    /\ read["projection"] <= Len(stream) /\ read["matching"] <= Len(stream)
    /\ intentPc # "idle" => read["intents"] < Len(intents)
    /\ cancelPc # "idle" => read["cancels"] < Len(cancels)
    /\ projectPc # "idle" => read["projection"] < Len(stream) /\ Projected.type = "ORDER_CREATED"

KeysApart == \A e, f \in store : KeyOf(e) \cap KeyOf(f) # {} => e = f

\* An event that a handler is about to publish is stored, and its copies are unanswered.
ToPublish(e) == e \in store /\ \A i \in 1..Len(stream) : stream[i] = e => i \in unanswered

IntentInHand ==
    /\ intentPc = "publish" => ToPublish(Event("ORDER_CREATED", Current("intents", intents)))
    /\ intentPc = "publishReject" => ToPublish(Event("ORDER_REJECTED", Current("intents", intents)))

CancelInHand == cancelPc = "publish" => ToPublish(Event("ORDER_CANCELED", Current("cancels", cancels)))

\* What the projection has not passed is not activated, unless an answer was lost.
ToActivate ==
    /\ projectPc = "publish" => Event("ORDER_ACTIVATED", Projected.order) \in store
    /\ \A i, j \in 1..Len(stream) :
         i > read["projection"] /\ stream[i].type = "ORDER_CREATED" /\ IsAt("ORDER_ACTIVATED", stream[i].order, j)
           => j \in unanswered \/ SentAgain(stream[i].order)

\* The two orders of a trade were fed once each.
FedOnce(t) == ~FedTwice(t.taker.order) /\ ~FedTwice(t.maker.order)

TradesInHand ==
    /\ \A t \in trades : NodeFed(t.taker) /\ NodeFed(t.maker)
    /\ \A t \in trades : t.stored => ToPublish(TradeEvent(t))
    /\ \A t \in trades : ~t.stored /\ FedOnce(t) => TradeEvent(t) \notin store
    /\ \A t, u \in trades : TradeEvent(t) = TradeEvent(u) /\ ((t.stored /\ u.stored) \/ FedOnce(t)) => t = u
    /\ \A e \in store : e.type = "TRADE_EXECUTED" => Activated(e.order)

\* The map knows a node, or its order was activated once more.
Mapped ==
    \A n \in book : \/ orderMap[n.order] = n.at
                    \/ \E i \in 1..read["matching"] : i # n.at /\ IsAt("ORDER_ACTIVATED", n.order, i)

Known ==
    /\ \A o \in Order : row[o] # "NONE" => Created(o)
    /\ \A i \in 1..Len(cancels) : row[cancels[i]] # "NONE"
    /\ projectPc # "idle" => row[Projected.order] # "NONE"
    /\ \A i \in 1..Len(stream) :
         stream[i].type \in {"ORDER_ACTIVATED", "ORDER_CANCELED"} => row[stream[i].order] # "NONE"
    /\ \A n \in book : NodeFed(n) /\ n.at > since["matching"]

LifeInv ==
    /\ TypeOK /\ Positions /\ KeysApart
    /\ PublishedOnce /\ CausalOrder /\ CanceledLeavesBook
    /\ IntentInHand /\ CancelInHand /\ ToActivate /\ TradesInHand /\ Mapped /\ Known

-----------------------------------------------------------------------------
LEMMA LifeStarts == Init => LifeInv
<1> SUFFICES ASSUME Init PROVE LifeInv
  OBVIOUS
<1> USE DEF Init
<1>1. /\ intents = <<>> /\ cancels = <<>> /\ stream = <<>> /\ Len(intents) = 0 /\ Len(cancels) = 0 /\ Len(stream) = 0
      /\ intents \in Seq(Order) /\ cancels \in Seq(Order) /\ stream \in Seq(StoredEvent)
  BY EmptySeq
<1>2. TypeOK
  BY <1>1, LifecycleAssumption DEF TypeOK
<1>3. Positions /\ KeysApart
  BY <1>1 DEF Positions, KeysApart, Subscriber
<1>4. PublishedOnce /\ CausalOrder /\ CanceledLeavesBook
  BY <1>1 DEF PublishedOnce, CausalOrder, CanceledLeavesBook, At, ToSet
<1>5. IntentInHand /\ CancelInHand /\ ToActivate /\ TradesInHand /\ Mapped /\ Known
  BY <1>1 DEF IntentInHand, CancelInHand, ToActivate, TradesInHand, Mapped, Known
<1> QED
  BY <1>2, <1>3, <1>4, <1>5 DEF LifeInv

\* The messages that handlers work on are orders and events.
LEMMA MessagesTyped ==
  ASSUME TypeOK, Positions
  PROVE  /\ \A s \in Subscriber : read[s] \in Nat /\ since[s] \in Nat
         /\ Len(intents) \in Nat /\ Len(cancels) \in Nat /\ Len(stream) \in Nat
         /\ Pending("intents", intents) => Current("intents", intents) \in Order
         /\ Pending("cancels", cancels) => Current("cancels", cancels) \in Order
         /\ Pending("projection", stream) => Projected \in StoredEvent
         /\ Pending("matching", stream) => Fed \in StoredEvent
         /\ \A i \in 1..Len(stream) : stream[i] \in StoredEvent
<1>1. /\ \A s \in Subscriber : read[s] \in Nat /\ since[s] \in Nat
      /\ intents \in Seq(Order) /\ cancels \in Seq(Order) /\ stream \in Seq(StoredEvent)
  BY DEF TypeOK
<1>2. {"intents", "cancels", "projection", "matching"} \subseteq Subscriber
  BY DEF Subscriber
<1>3. ASSUME NEW S, NEW topic \in Seq(S), NEW s \in Subscriber, Pending(s, topic)
      PROVE  Current(s, topic) \in S
  <2>1. read[s] + 1 \in 1..Len(topic)
    BY <1>1, <1>3, LenProperties DEF Pending
  <2> QED
    BY <1>3, <2>1, ElementOfSeq DEF Current
<1> QED
  BY <1>1, <1>2, <1>3, LenProperties, ElementOfSeq DEF Projected, Fed

LEMMA EventsTyped ==
  /\ \A o \in Order, type \in EventType : Event(type, o) \in StoredEvent
  /\ \A t \in [taker : Node, maker : Node, stored : BOOLEAN] : TradeEvent(t) \in StoredEvent
  /\ \A e \in StoredEvent : e.order \in Order /\ e.type \in EventType \cup {"TRADE_EXECUTED"}
BY DEF Event, TradeEvent, StoredEvent, EventType, Node

LEMMA Extended ==
  ASSUME NEW S, NEW s \in Seq(S), NEW e \in S
  PROVE  /\ Append(s, e) \in Seq(S)
         /\ Len(s) \in Nat /\ Len(Append(s, e)) = Len(s) + 1
         /\ \A i \in 1..Len(s) : Append(s, e)[i] = s[i]
         /\ Append(s, e)[Len(s) + 1] = e
BY AppendProperties, LenProperties

\* A busy handler has a message.
LEMMA AtWork ==
  ASSUME TypeOK, Positions
  PROVE  /\ intentPc # "idle" => Pending("intents", intents)
         /\ cancelPc # "idle" => Pending("cancels", cancels)
         /\ projectPc # "idle" => Pending("projection", stream)
BY DEF Positions, Pending

LEMMA FinishTyped ==
  ASSUME TypeOK, NEW s \in Subscriber, Finish(s)
  PROVE  /\ read' \in [Subscriber -> Nat] /\ since' = since
         /\ read'[s] = read[s] + 1
         /\ \A r \in Subscriber \ {s} : read'[r] = read[r]
BY DEF TypeOK, Finish

LEMMA FaultsTyped ==
  ASSUME TypeOK, Fault \/ NoFault PROVE faults' \in Nat
BY DEF TypeOK, Fault, NoFault

\* A publication lands an event at the end of the stream, answered or not.
Lands(e) ==
    /\ stream' = Append(stream, e)
    /\ unanswered' = unanswered \/ unanswered' = unanswered \cup {Len(stream) + 1}

LEMMA LandLands == \A e : Land(e) \/ LandUnanswered(e) => Lands(e)
BY DEF Land, LandUnanswered, Lands

LEMMA StreamTyped ==
  ASSUME TypeOK, NEW e \in StoredEvent, (stream' = stream /\ unanswered' = unanswered) \/ Lands(e)
  PROVE  stream' \in Seq(StoredEvent) /\ unanswered' \subseteq 1..Len(stream')
<1>1. stream \in Seq(StoredEvent) /\ unanswered \subseteq 1..Len(stream)
  BY DEF TypeOK
<1>2. Append(stream, e) \in Seq(StoredEvent) /\ Len(stream) \in Nat /\ Len(Append(stream, e)) = Len(stream) + 1
  BY ONLY <1>1, e \in StoredEvent, Extended
<1>3. CASE stream' = stream /\ unanswered' = unanswered
  BY <1>1, <1>3
<1>4. CASE Lands(e)
  <2>1. stream' \in Seq(StoredEvent) /\ Len(stream') = Len(stream) + 1
    BY <1>2, <1>4 DEF Lands
  <2>2. 1..Len(stream') = (1..Len(stream)) \cup {Len(stream) + 1}
    BY <1>2, <2>1
  <2> QED
    BY <1>1, <1>4, <2>1, <2>2 DEF Lands
<1> QED
  BY <1>3, <1>4

\* What the worker does with an activated order.
Fills(makers, kept, rests) ==
    /\ makers \subseteq Opposing(Fed.order) /\ kept \subseteq makers
    /\ book' = (book \ (makers \ kept)) \cup (IF rests THEN {FedNode} ELSE {})
    /\ orderMap' = [o \in Order |->
                      IF rests /\ o = FedNode.order THEN FedNode.at
                      ELSE IF \E m \in makers \ kept : m.order = o THEN 0 ELSE orderMap[o]]
    /\ trades' = trades \cup {[taker |-> FedNode, maker |-> m, stored |-> FALSE] : m \in makers}

LEMMA FeedEffect ==
  ASSUME FeedActivated
  PROVE  \E makers, kept : \E rests \in BOOLEAN : Fills(makers, kept, rests)
<1>1. FedNode.order = Fed.order
  BY DEF FedNode
<1>2. PICK makers \in SUBSET Opposing(FedNode.order) :
        \E kept \in SUBSET makers, rests \in BOOLEAN : Match(FedNode, makers, kept, rests)
  BY Zenon DEF FeedActivated, AddOrder
<1>3. PICK kept \in SUBSET makers, rests \in BOOLEAN : Match(FedNode, makers, kept, rests)
  BY <1>2
<1>4. Fills(makers, kept, rests)
  BY <1>1, <1>3 DEF Match, Fills
<1> QED
  BY <1>4

LEMMA RebootTyped ==
  ASSUME TypeOK, Reboot, UNCHANGED <<clientvars, logvars, row, skips>>, faults' \in Nat, crashes' \in Nat
  PROVE  TypeOK'
<1>1. \A s \in Subscriber : Len(Topic(s)) \in Nat
  BY LenProperties DEF Subscriber, Topic, TypeOK
<1>2. read' \in [Subscriber -> Nat] /\ since' \in [Subscriber -> Nat]
  BY <1>1 DEF Reboot
<1> QED
  BY <1>2 DEF TypeOK, Reboot

LEMMA TypeStep ==
  ASSUME TypeOK, Positions, Next PROVE TypeOK'
<1> USE MessagesTyped, EventsTyped, AtWork, FinishTyped, FaultsTyped, StreamTyped, LandLands
<1>0. Subscriber = {"intents", "cancels", "projection", "matching"}
  BY DEF Subscriber
<1>1. ASSUME NEW o \in Order, PlaceOrder(o) PROVE TypeOK'
  BY <1>1, Extended DEF TypeOK, PlaceOrder
<1>2. ASSUME NEW o \in Order, RequestCancel(o) \/ ResendCancel(o) PROVE TypeOK'
  <2>1. /\ cancels' = Append(cancels, o)
        /\ UNCHANGED <<intents, logvars, loopvars, handlervars, row, workervars, skips, faults, crashes>>
    BY <1>2 DEF RequestCancel, ResendCancel
  <2> QED
    BY <2>1, Extended DEF TypeOK
<1>3. ASSUME CheckRisk PROVE TypeOK'
  BY <1>3 DEF TypeOK, CheckRisk
<1>4. ASSUME AppendCreated PROVE TypeOK'
  <2>1. Event("ORDER_CREATED", Current("intents", intents)) \in StoredEvent
    BY <1>4 DEF AppendCreated, EventType
  <2> QED
    BY <1>4, <2>1 DEF TypeOK, AppendCreated
<1>5. ASSUME PublishCreated PROVE TypeOK'
  <2>1. Event("ORDER_CREATED", Current("intents", intents)) \in StoredEvent
    BY <1>5 DEF PublishCreated, EventType
  <2>2. stream' \in Seq(StoredEvent) /\ unanswered' \subseteq 1..Len(stream')
    BY <1>5, <2>1 DEF PublishCreated
  <2>3. read' \in [Subscriber -> Nat] /\ since' = since
    BY <1>0, <1>5 DEF TypeOK, PublishCreated
  <2> QED
    BY <1>5, <2>2, <2>3 DEF TypeOK, PublishCreated
<1>6. ASSUME AppendRejected PROVE TypeOK'
  <2>1. Event("ORDER_REJECTED", Current("intents", intents)) \in StoredEvent
    BY <1>6 DEF AppendRejected, EventType
  <2>3. read' \in [Subscriber -> Nat] /\ since' = since
    BY <1>0, <1>6 DEF TypeOK, AppendRejected
  <2> QED
    BY <1>6, <2>1, <2>3 DEF TypeOK, AppendRejected
<1>7. ASSUME PublishRejected PROVE TypeOK'
  <2>1. Event("ORDER_REJECTED", Current("intents", intents)) \in StoredEvent
    BY <1>7 DEF PublishRejected, EventType
  <2>2. stream' \in Seq(StoredEvent) /\ unanswered' \subseteq 1..Len(stream')
    BY <1>7, <2>1 DEF PublishRejected
  <2>3. read' \in [Subscriber -> Nat] /\ since' = since
    BY <1>0, <1>7 DEF TypeOK, PublishRejected
  <2> QED
    BY <1>7, <2>2, <2>3 DEF TypeOK, PublishRejected
<1>8. ASSUME AppendCanceled PROVE TypeOK'
  <2>1. Event("ORDER_CANCELED", Current("cancels", cancels)) \in StoredEvent
    BY <1>8 DEF AppendCanceled, EventType
  <2>3. read' \in [Subscriber -> Nat] /\ since' = since
    BY <1>0, <1>8 DEF TypeOK, AppendCanceled
  <2> QED
    BY <1>8, <2>1, <2>3 DEF TypeOK, AppendCanceled
<1>9. ASSUME PublishCanceled PROVE TypeOK'
  <2>1. Event("ORDER_CANCELED", Current("cancels", cancels)) \in StoredEvent
    BY <1>9 DEF PublishCanceled, EventType
  <2>2. stream' \in Seq(StoredEvent) /\ unanswered' \subseteq 1..Len(stream')
    BY <1>9, <2>1 DEF PublishCanceled
  <2>3. read' \in [Subscriber -> Nat] /\ since' = since
    BY <1>0, <1>9 DEF TypeOK, PublishCanceled
  <2> QED
    BY <1>9, <2>2, <2>3 DEF TypeOK, PublishCanceled
<1>10. ASSUME ProjectCreated PROVE TypeOK'
  <2>3. read' \in [Subscriber -> Nat] /\ since' = since
    BY <1>0, <1>10 DEF TypeOK, ProjectCreated
  <2> QED
    BY <1>10, <2>3 DEF TypeOK, ProjectCreated
<1>11. ASSUME AppendActivated PROVE TypeOK'
  <2>1. Event("ORDER_ACTIVATED", Projected.order) \in StoredEvent
    BY <1>11 DEF AppendActivated, EventType
  <2>3. read' \in [Subscriber -> Nat] /\ since' = since
    BY <1>0, <1>11 DEF TypeOK, AppendActivated
  <2> QED
    BY <1>11, <2>1, <2>3 DEF TypeOK, AppendActivated
<1>12. ASSUME PublishActivated PROVE TypeOK'
  <2>1. Event("ORDER_ACTIVATED", Projected.order) \in StoredEvent
    BY <1>12 DEF PublishActivated, EventType
  <2>2. stream' \in Seq(StoredEvent) /\ unanswered' \subseteq 1..Len(stream')
    BY <1>12, <2>1 DEF PublishActivated
  <2>3. read' \in [Subscriber -> Nat] /\ since' = since
    BY <1>0, <1>12 DEF TypeOK, PublishActivated
  <2> QED
    BY <1>12, <2>2, <2>3 DEF TypeOK, PublishActivated
<1>13. ASSUME ProjectStatus PROVE TypeOK'
  <2>3. read' \in [Subscriber -> Nat] /\ since' = since
    BY <1>0, <1>13 DEF TypeOK, ProjectStatus
  <2> QED
    BY <1>13, <2>3 DEF TypeOK, ProjectStatus, FirstStatus
<1>14. ASSUME ProjectNothing PROVE TypeOK'
  <2>3. read' \in [Subscriber -> Nat] /\ since' = since
    BY <1>0, <1>14 DEF TypeOK, ProjectNothing
  <2> QED
    BY <1>14, <2>3 DEF TypeOK, ProjectNothing
<1>15. ASSUME FeedActivated PROVE TypeOK'
  <2>1. PICK makers, kept : \E rests \in BOOLEAN : Fills(makers, kept, rests)
    BY <1>15, FeedEffect
  <2>2. PICK rests \in BOOLEAN : Fills(makers, kept, rests)
    BY <2>1
  <2>3. read' \in [Subscriber -> Nat] /\ since' = since
    BY <1>0, <1>15 DEF TypeOK, FeedActivated
  <2>4. FedNode \in Node /\ makers \subseteq Node
    BY <1>0, <1>15, <2>2 DEF FeedActivated, FedNode, Fills, Opposing, TypeOK, Node
  <2>5. book' \subseteq Node
    BY <2>2, <2>4 DEF TypeOK, Fills
  <2>6. orderMap' \in [Order -> Nat]
    <3>1. FedNode.at \in Nat
      BY <2>4 DEF Node
    <3> HIDE DEF FedNode
    <3> QED
      BY <2>2, <3>1 DEF TypeOK, Fills
  <2>7. trades' \subseteq [taker : Node, maker : Node, stored : BOOLEAN]
    <3>1. \A m \in makers : [taker |-> FedNode, maker |-> m, stored |-> FALSE] \in [taker : Node, maker : Node, stored : BOOLEAN]
      BY <2>4
    <3>2. trades \subseteq [taker : Node, maker : Node, stored : BOOLEAN]
      BY DEF TypeOK
    <3>3. trades' = trades \cup {[taker |-> FedNode, maker |-> m, stored |-> FALSE] : m \in makers}
      BY <2>2 DEF Fills
    <3> QED
      BY ONLY <3>1, <3>2, <3>3
  <2> QED
    BY <1>15, <2>3, <2>5, <2>6, <2>7 DEF TypeOK, FeedActivated
<1>16. ASSUME FeedCanceled PROVE TypeOK'
  <2>3. read' \in [Subscriber -> Nat] /\ since' = since
    BY <1>0, <1>16 DEF TypeOK, FeedCanceled
  <2> QED
    BY <1>16, <2>3 DEF TypeOK, FeedCanceled
<1>17. ASSUME FeedNothing PROVE TypeOK'
  <2>3. read' \in [Subscriber -> Nat] /\ since' = since
    BY <1>0, <1>17 DEF TypeOK, FeedNothing
  <2> QED
    BY <1>17, <2>3 DEF TypeOK, FeedNothing
<1>18. ASSUME NEW t \in trades, AppendTrade(t) PROVE TypeOK'
  <2>1. t \in [taker : Node, maker : Node, stored : BOOLEAN] /\ TradeEvent(t) \in StoredEvent
    BY <1>18 DEF TypeOK
  <2>2. [t EXCEPT !.stored = TRUE] \in [taker : Node, maker : Node, stored : BOOLEAN]
    BY <2>1
  <2> QED
    BY <1>18, <2>1, <2>2 DEF TypeOK, AppendTrade
<1>19. ASSUME NEW t \in trades, PublishTrade(t) PROVE TypeOK'
  <2>1. TradeEvent(t) \in StoredEvent
    BY <1>19 DEF TypeOK
  <2>2. stream' \in Seq(StoredEvent) /\ unanswered' \subseteq 1..Len(stream')
    BY <1>19, <2>1 DEF PublishTrade
  <2> QED
    BY <1>19, <2>2 DEF TypeOK, PublishTrade
<1>20. ASSUME Restart \/ FailTrade PROVE TypeOK'
  <2>1. faults' \in Nat /\ crashes' \in Nat
    BY <1>20 DEF TypeOK, Restart, FailTrade
  <2> QED
    BY <1>20, <2>1, RebootTyped DEF Restart, FailTrade
<1>21. ASSUME NEW s \in Subscriber, Skip(s) PROVE TypeOK'
  <2>1. Len(Topic(s)) \in Nat
    BY <1>0 DEF Topic
  <2>2. /\ read' = [read EXCEPT ![s] = Len(Topic(s))] /\ since' = [since EXCEPT ![s] = Len(Topic(s))]
        /\ skips' = skips + 1
        /\ UNCHANGED <<clientvars, logvars, handlervars, row, workervars, faults, crashes>>
    BY <1>21 DEF Skip
  <2>3. read' \in [Subscriber -> Nat] /\ since' \in [Subscriber -> Nat]
    BY <2>1, <2>2 DEF TypeOK
  <2>4. skips' \in Nat
    BY <2>2 DEF TypeOK
  <2> HIDE DEF Skip
  <2> QED
    BY ONLY <2>2, <2>3, <2>4, TypeOK DEF TypeOK, clientvars, logvars, handlervars, workervars
<1> QED
  BY <1>1, <1>2, <1>3, <1>4, <1>5, <1>6, <1>7, <1>8, <1>9, <1>10, <1>11, <1>12, <1>13, <1>14,
     <1>15, <1>16, <1>17, <1>18, <1>19, <1>20, <1>21
     DEF Next, ProcessIntent, ProcessCancel, ProjectEvent, Feed, HandleTrade

-----------------------------------------------------------------------------
\* A step publishes e: e is stored, and what it tells of has happened.
Publishes(e) ==
    /\ e \in store /\ Lands(e)
    /\ store' = store /\ row' = row
    /\ \A i \in 1..Len(stream) : stream[i] = e =>
         i \in unanswered \/ (e.type = "ORDER_ACTIVATED" /\ SentAgain(e.order))
    /\ e.type \in {"ORDER_ACTIVATED", "ORDER_CANCELED"} => row[e.order] # "NONE"
    /\ e.type = "TRADE_EXECUTED" => Activated(e.order) /\ Activated(e.maker)

Unpublished == stream' = stream /\ unanswered' = unanswered

LEMMA Landed == \A e : ToPublish(e) => \A i \in 1..Len(stream) : stream[i] = e => i \in unanswered
BY DEF ToPublish

\* The messages a handler works on say what it may publish.
LEMMA InHand ==
  ASSUME LifeInv
  PROVE  /\ Pending("cancels", cancels) => row[Current("cancels", cancels)] # "NONE"
         /\ projectPc # "idle" =>
              /\ row[Projected.order] # "NONE"
              /\ \A i \in 1..Len(stream) : stream[i] = Event("ORDER_ACTIVATED", Projected.order) =>
                   i \in unanswered \/ SentAgain(Projected.order)
<1> USE MessagesTyped DEF LifeInv
<1>1. ASSUME Pending("cancels", cancels) PROVE row[Current("cancels", cancels)] # "NONE"
  <2>1. read["cancels"] + 1 \in 1..Len(cancels)
    BY <1>1 DEF Pending, Subscriber
  <2> QED
    BY <2>1 DEF Known, Current
<1>2. ASSUME projectPc # "idle", NEW i \in 1..Len(stream), stream[i] = Event("ORDER_ACTIVATED", Projected.order)
      PROVE  i \in unanswered \/ SentAgain(Projected.order)
  <2>1. /\ read["projection"] + 1 \in 1..Len(stream) /\ read["projection"] + 1 > read["projection"]
        /\ Projected = stream[read["projection"] + 1] /\ Projected.type = "ORDER_CREATED"
    BY <1>2 DEF Positions, Projected, Current, Subscriber
  <2>2. IsAt("ORDER_ACTIVATED", Projected.order, i)
    BY <1>2 DEF IsAt, Event
  <2> QED
    BY <2>1, <2>2 DEF ToActivate
<1> QED
  BY <1>1, <1>2 DEF Known

LEMMA PublishStep ==
  ASSUME LifeInv, Next
  PROVE  Unpublished \/ \E e \in StoredEvent : Publishes(e)
<1>0. TypeOK /\ Positions
  BY DEF LifeInv
<1> USE <1>0, MessagesTyped, EventsTyped, AtWork, LandLands, Landed DEF Unpublished
<1>1. ASSUME PublishCreated PROVE Unpublished \/ \E e \in StoredEvent : Publishes(e)
  <2> DEFINE e == Event("ORDER_CREATED", Current("intents", intents))
  <2>1. e \in StoredEvent /\ e.type = "ORDER_CREATED" /\ ToPublish(e)
    BY <1>1 DEF PublishCreated, EventType, Event, LifeInv, IntentInHand
  <2>2. CASE Land(e) \/ LandUnanswered(e)
    BY <1>1, <2>1, <2>2 DEF PublishCreated, Publishes, ToPublish
  <2> QED
    BY <1>1, <2>2 DEF PublishCreated
<1>2. ASSUME PublishRejected PROVE Unpublished \/ \E e \in StoredEvent : Publishes(e)
  <2> DEFINE e == Event("ORDER_REJECTED", Current("intents", intents))
  <2>1. e \in StoredEvent /\ e.type = "ORDER_REJECTED" /\ ToPublish(e)
    BY <1>2 DEF PublishRejected, EventType, Event, LifeInv, IntentInHand
  <2>2. CASE Land(e) \/ LandUnanswered(e)
    BY <1>2, <2>1, <2>2 DEF PublishRejected, Publishes, ToPublish
  <2> QED
    BY <1>2, <2>2 DEF PublishRejected
<1>3. ASSUME PublishCanceled PROVE Unpublished \/ \E e \in StoredEvent : Publishes(e)
  <2> DEFINE e == Event("ORDER_CANCELED", Current("cancels", cancels))
  <2>1. e \in StoredEvent /\ e.type = "ORDER_CANCELED" /\ ToPublish(e) /\ row[e.order] # "NONE"
    BY <1>3, InHand DEF PublishCanceled, EventType, Event, LifeInv, CancelInHand
  <2>2. CASE Land(e) \/ LandUnanswered(e)
    BY <1>3, <2>1, <2>2 DEF PublishCanceled, Publishes, ToPublish
  <2> QED
    BY <1>3, <2>2 DEF PublishCanceled
<1>4. ASSUME PublishActivated PROVE Unpublished \/ \E e \in StoredEvent : Publishes(e)
  <2> DEFINE e == Event("ORDER_ACTIVATED", Projected.order)
  <2>1. e \in StoredEvent /\ e.type = "ORDER_ACTIVATED" /\ e.order = Projected.order
    BY <1>4 DEF PublishActivated, EventType, Event
  <2>2. e \in store /\ row[e.order] # "NONE" /\ \A i \in 1..Len(stream) : stream[i] = e => i \in unanswered \/ SentAgain(e.order)
    BY <1>4, <2>1, InHand DEF PublishActivated, LifeInv, ToActivate
  <2>3. CASE Land(e) \/ LandUnanswered(e)
    BY <1>4, <2>1, <2>2, <2>3 DEF PublishActivated, Publishes
  <2> QED
    BY <1>4, <2>3 DEF PublishActivated
<1>5. ASSUME NEW t \in trades, PublishTrade(t) PROVE Unpublished \/ \E e \in StoredEvent : Publishes(e)
  <2> DEFINE e == TradeEvent(t)
  <2>1. t \in [taker : Node, maker : Node, stored : BOOLEAN] /\ e \in StoredEvent
    BY DEF TypeOK
  <2>2. e.type = "TRADE_EXECUTED" /\ e.order = t.taker.order /\ e.maker = t.maker.order
    BY DEF TradeEvent
  <2>3. ToPublish(e) /\ Activated(t.taker.order) /\ Activated(t.maker.order)
    BY <1>5 DEF PublishTrade, LifeInv, TradesInHand, NodeFed, Activated
  <2>4. Lands(e) /\ store' = store /\ row' = row
    BY <1>5 DEF PublishTrade
  <2> QED
    BY <2>1, <2>2, <2>3, <2>4 DEF Publishes, ToPublish
<1>6. ASSUME NEW o \in Order, PlaceOrder(o) \/ RequestCancel(o) \/ ResendCancel(o) PROVE Unpublished
  BY <1>6 DEF PlaceOrder, RequestCancel, ResendCancel
<1>7. ASSUME CheckRisk \/ AppendCreated \/ AppendRejected \/ AppendCanceled \/ Restart \/ FailTrade PROVE Unpublished
  BY <1>7 DEF CheckRisk, AppendCreated, AppendRejected, AppendCanceled, Restart, FailTrade
<1>8. ASSUME ProjectCreated \/ AppendActivated \/ ProjectStatus \/ ProjectNothing \/ Feed PROVE Unpublished
  BY <1>8 DEF ProjectCreated, AppendActivated, ProjectStatus, ProjectNothing, Feed, FeedActivated, FeedCanceled, FeedNothing
<1>9. ASSUME NEW t \in trades, AppendTrade(t) PROVE Unpublished
  BY <1>9 DEF AppendTrade
<1>10. ASSUME NEW s \in Subscriber, Skip(s) PROVE Unpublished
  BY <1>10 DEF Skip
<1> HIDE DEF Unpublished
<1> QED
  BY ONLY Next, <1>1, <1>2, <1>3, <1>4, <1>5, <1>6, <1>7, <1>8, <1>9, <1>10
     DEF Next, ProcessIntent, ProcessCancel, ProjectEvent, HandleTrade

\* Topics only grow, at their ends.
LEMMA Grown ==
  ASSUME NEW S, NEW s \in Seq(S), NEW t, t = s \/ \E e \in S : t = Append(s, e)
  PROVE  Len(s) <= Len(t) /\ \A i \in 1..Len(s) : t[i] = s[i]
<1>1. Len(s) \in Nat
  BY LenProperties
<1>2. ASSUME NEW e \in S, t = Append(s, e) PROVE Len(s) <= Len(t) /\ \A i \in 1..Len(s) : t[i] = s[i]
  BY <1>1, <1>2, Extended
<1> QED
  BY <1>1, <1>2

\* Who places and cancels orders, who stores, and how far the loops go.
LEMMA Clients ==
  ASSUME Next
  PROVE  /\ intents' = intents \/ \E o \in Order : intents' = Append(intents, o)
         /\ cancels' = cancels \/ \E o \in Order : RequestCancel(o) \/ ResendCancel(o)
<1>1. ASSUME NEW o \in Order, PlaceOrder(o) \/ RequestCancel(o) \/ ResendCancel(o)
      PROVE  /\ intents' = intents \/ \E p \in Order : intents' = Append(intents, p)
             /\ cancels' = cancels \/ \E p \in Order : RequestCancel(p) \/ ResendCancel(p)
  BY <1>1 DEF PlaceOrder, RequestCancel, ResendCancel
<1>2. ASSUME ~\E o \in Order : PlaceOrder(o) \/ RequestCancel(o) \/ ResendCancel(o) PROVE intents' = intents /\ cancels' = cancels
  BY <1>2 DEF Next, Skip, ProcessIntent, ProcessCancel, ProjectEvent, Feed, HandleTrade, Restart, FailTrade,
         CheckRisk, AppendCreated, PublishCreated, AppendRejected, PublishRejected, AppendCanceled, PublishCanceled,
         ProjectCreated, AppendActivated, PublishActivated, ProjectStatus, ProjectNothing,
         FeedActivated, FeedCanceled, FeedNothing, AppendTrade, PublishTrade
<1> QED
  BY <1>1, <1>2

LEMMA TopicsGrow ==
  ASSUME LifeInv, Next
  PROVE  /\ Len(intents) <= Len(intents') /\ \A i \in 1..Len(intents) : intents'[i] = intents[i]
         /\ Len(cancels) <= Len(cancels') /\ \A i \in 1..Len(cancels) : cancels'[i] = cancels[i]
         /\ Len(stream) <= Len(stream') /\ \A i \in 1..Len(stream) : stream'[i] = stream[i]
         /\ unanswered \subseteq unanswered'
<1>0. /\ intents \in Seq(Order) /\ cancels \in Seq(Order) /\ stream \in Seq(StoredEvent)
      /\ Len(intents) \in Nat /\ Len(cancels) \in Nat /\ Len(stream) \in Nat
  BY MessagesTyped DEF LifeInv, TypeOK
<1>1. intents' = intents \/ \E o \in Order : intents' = Append(intents, o)
  BY Clients
<1>2. cancels' = cancels \/ \E o \in Order : cancels' = Append(cancels, o)
  BY Clients DEF RequestCancel, ResendCancel
<1>3. (stream' = stream \/ \E e \in StoredEvent : stream' = Append(stream, e)) /\ unanswered \subseteq unanswered'
  BY PublishStep DEF Publishes, Lands, Unpublished
<1>4. Len(intents) <= Len(intents') /\ \A i \in 1..Len(intents) : intents'[i] = intents[i]
  BY ONLY <1>0, <1>1, Grown
<1>5. Len(cancels) <= Len(cancels') /\ \A i \in 1..Len(cancels) : cancels'[i] = cancels[i]
  BY ONLY <1>0, <1>2, Grown
<1>6. Len(stream) <= Len(stream') /\ \A i \in 1..Len(stream) : stream'[i] = stream[i]
  BY ONLY <1>0, <1>3, Grown
<1> QED
  BY <1>3, <1>4, <1>5, <1>6

\* A loop stays where it is, finishes a message, or goes to the end of its topic.
Busy(s) ==
    CASE s = "intents" -> intentPc # "idle" [] s = "cancels" -> cancelPc # "idle"
      [] s = "projection" -> projectPc # "idle" [] s = "matching" -> FALSE
Stays(s) == read'[s] = read[s] /\ since'[s] = since[s]
Finishes(s) == Pending(s, Topic(s)) /\ read'[s] = read[s] + 1 /\ since'[s] = since[s]
ToEnd(s) == read'[s] = Len(Topic(s)) /\ since'[s] = Len(Topic(s)) /\ Topic(s)' = Topic(s)

LEMMA LoopStep ==
  ASSUME TypeOK, Positions, Next, NEW s \in Subscriber
  PROVE  Stays(s) \/ Finishes(s) \/ ToEnd(s)
<1> DEFINE Goal == Stays(s) \/ Finishes(s) \/ ToEnd(s)
<1>0. /\ Subscriber = {"intents", "cancels", "projection", "matching"}
      /\ Topic("intents") = intents /\ Topic("cancels") = cancels
      /\ Topic("projection") = stream /\ Topic("matching") = stream
  BY DEF Subscriber, Topic
<1>1. ASSUME NEW r \in Subscriber, Finish(r), Pending(r, Topic(r)) PROVE Goal
  BY <1>1, FinishTyped DEF Stays, Finishes
<1>2. ASSUME read' = read, since' = since PROVE Goal
  BY <1>2 DEF Stays
<1>3. ASSUME NEW r \in Subscriber, Skip(r) PROVE Goal
  <2>1. /\ read' = [read EXCEPT ![r] = Len(Topic(r))] /\ since' = [since EXCEPT ![r] = Len(Topic(r))]
        /\ UNCHANGED <<clientvars, logvars>>
    BY <1>3 DEF Skip
  <2>2. CASE r = s
    BY <2>1, <2>2 DEF TypeOK, ToEnd, Topic
  <2>3. CASE r # s
    BY <2>1, <2>3 DEF TypeOK, Stays
  <2> QED
    BY <2>2, <2>3
<1>4. ASSUME Restart \/ FailTrade PROVE Goal
  <2>1. Reboot /\ UNCHANGED <<clientvars, logvars>>
    BY <1>4 DEF Restart, FailTrade
  <2> QED
    BY <2>1 DEF Reboot, ToEnd, Topic
<1> HIDE DEF Goal
<1>5. ASSUME NEW o \in Order, PlaceOrder(o) \/ RequestCancel(o) \/ ResendCancel(o) PROVE Goal
  BY <1>2, <1>5 DEF PlaceOrder, RequestCancel, ResendCancel
<1>6. ASSUME ProcessIntent PROVE Goal
  <2>1. (read' = read /\ since' = since) \/ (Finish("intents") /\ intentPc # "idle")
    BY <1>6 DEF ProcessIntent, CheckRisk, AppendCreated, PublishCreated, AppendRejected, PublishRejected
  <2> QED
    BY <1>0, <1>1, <1>2, <2>1, AtWork
<1>7. ASSUME ProcessCancel PROVE Goal
  <2>1. (read' = read /\ since' = since) \/ (Finish("cancels") /\ (Pending("cancels", cancels) \/ cancelPc # "idle"))
    BY <1>7 DEF ProcessCancel, AppendCanceled, PublishCanceled
  <2> QED
    BY <1>0, <1>1, <1>2, <2>1, AtWork
<1>8. ASSUME ProjectEvent PROVE Goal
  <2>1. (read' = read /\ since' = since) \/ (Finish("projection") /\ (Pending("projection", stream) \/ projectPc # "idle"))
    BY <1>8 DEF ProjectEvent, ProjectCreated, AppendActivated, PublishActivated, ProjectStatus, ProjectNothing
  <2> QED
    BY <1>0, <1>1, <1>2, <2>1, AtWork
<1>9. ASSUME Feed PROVE Goal
  <2>1. Finish("matching") /\ Pending("matching", stream)
    BY <1>9 DEF Feed, FeedActivated, FeedCanceled, FeedNothing
  <2> QED
    BY <1>0, <1>1, <2>1
<1>10. ASSUME NEW t \in trades, AppendTrade(t) \/ PublishTrade(t) PROVE Goal
  BY <1>2, <1>10 DEF AppendTrade, PublishTrade
<1> QED
  BY <1>3, <1>4, <1>5, <1>6, <1>7, <1>8, <1>9, <1>10 DEF Next, HandleTrade, Goal

\* The process ends and starts anew.
Dies == (Restart \/ FailTrade) /\ Reboot

\* Which action moves which loop, handler and table.
LEMMA Moves ==
  ASSUME Next
  PROVE  /\ \/ read' = read /\ since' = since
            \/ ProcessIntent /\ Finish("intents")
            \/ ProcessCancel /\ Finish("cancels")
            \/ ProjectEvent /\ Finish("projection")
            \/ Feed /\ Finish("matching")
            \/ Dies \/ \E s \in Subscriber : Skip(s)
         /\ intentPc' = intentPc \/ ProcessIntent \/ Dies
         /\ cancelPc' = cancelPc \/ ProcessCancel \/ Dies
         /\ projectPc' = projectPc \/ ProjectEvent \/ Dies
         /\ row' = row \/ ProjectCreated \/ ProjectStatus
         /\ (book' = book /\ orderMap' = orderMap) \/ FeedActivated \/ FeedCanceled \/ Dies
         /\ trades' = trades \/ FeedActivated \/ (\E t \in trades : AppendTrade(t) \/ PublishTrade(t)) \/ Dies
<1> DEFINE Goal ==
         /\ \/ read' = read /\ since' = since
            \/ ProcessIntent /\ Finish("intents")
            \/ ProcessCancel /\ Finish("cancels")
            \/ ProjectEvent /\ Finish("projection")
            \/ Feed /\ Finish("matching")
            \/ Dies \/ \E s \in Subscriber : Skip(s)
         /\ intentPc' = intentPc \/ ProcessIntent \/ Dies
         /\ cancelPc' = cancelPc \/ ProcessCancel \/ Dies
         /\ projectPc' = projectPc \/ ProjectEvent \/ Dies
         /\ row' = row \/ ProjectCreated \/ ProjectStatus
         /\ (book' = book /\ orderMap' = orderMap) \/ FeedActivated \/ FeedCanceled \/ Dies
         /\ trades' = trades \/ FeedActivated \/ (\E t \in trades : AppendTrade(t) \/ PublishTrade(t)) \/ Dies
<1>1. ASSUME NEW o \in Order, PlaceOrder(o) \/ RequestCancel(o) \/ ResendCancel(o) PROVE Goal
  BY <1>1 DEF PlaceOrder, RequestCancel, ResendCancel
<1>2. ASSUME NEW s \in Subscriber, Skip(s) PROVE Goal
  BY <1>2 DEF Skip
<1>3. ASSUME ProcessIntent PROVE Goal
  <2>1. (read' = read /\ since' = since) \/ Finish("intents")
    BY <1>3 DEF ProcessIntent, CheckRisk, AppendCreated, PublishCreated, AppendRejected, PublishRejected
  <2>2. UNCHANGED <<cancelPc, projectPc, row, workervars>>
    BY <1>3 DEF ProcessIntent, CheckRisk, AppendCreated, PublishCreated, AppendRejected, PublishRejected
  <2> QED
    BY <1>3, <2>1, <2>2
<1>4. ASSUME ProcessCancel PROVE Goal
  <2>1. (read' = read /\ since' = since) \/ Finish("cancels")
    BY <1>4 DEF ProcessCancel, AppendCanceled, PublishCanceled
  <2>2. UNCHANGED <<intentPc, projectPc, row, workervars>>
    BY <1>4 DEF ProcessCancel, AppendCanceled, PublishCanceled
  <2> QED
    BY <1>4, <2>1, <2>2
<1>5. ASSUME ProjectEvent PROVE Goal
  <2>1. (read' = read /\ since' = since) \/ Finish("projection")
    BY <1>5 DEF ProjectEvent, ProjectCreated, AppendActivated, PublishActivated, ProjectStatus, ProjectNothing
  <2>2. UNCHANGED <<intentPc, cancelPc, workervars>>
    BY <1>5 DEF ProjectEvent, ProjectCreated, AppendActivated, PublishActivated, ProjectStatus, ProjectNothing
  <2>3. row' = row \/ ProjectCreated \/ ProjectStatus
    BY <1>5 DEF ProjectEvent, AppendActivated, PublishActivated, ProjectNothing
  <2> QED
    BY <1>5, <2>1, <2>2, <2>3
<1>6. ASSUME Feed PROVE Goal
  <2>1. Finish("matching") /\ UNCHANGED <<handlervars, row>>
    BY <1>6 DEF Feed, FeedActivated, FeedCanceled, FeedNothing
  <2>2. UNCHANGED workervars \/ FeedActivated \/ (FeedCanceled /\ trades' = trades)
    BY <1>6 DEF Feed, FeedCanceled, FeedNothing
  <2> QED
    BY <1>6, <2>1, <2>2
<1>7. ASSUME NEW t \in trades, AppendTrade(t) \/ PublishTrade(t) PROVE Goal
  BY <1>7 DEF AppendTrade, PublishTrade
<1>8. ASSUME Restart \/ FailTrade PROVE Goal
  <2>1. Dies /\ row' = row
    BY <1>8 DEF Restart, FailTrade, Dies
  <2> QED
    BY <2>1
<1> HIDE DEF Goal
<1>9. Goal
  BY <1>1, <1>2, <1>3, <1>4, <1>5, <1>6, <1>7, <1>8 DEF Next, HandleTrade
<1> QED
  BY <1>9 DEF Goal

\* A handler that is busy after a step works on the message its loop was at before.
LEMMA BusyStep ==
  ASSUME TypeOK, Positions, Next
  PROVE  /\ intentPc' # "idle" => Stays("intents") /\ Pending("intents", intents)
         /\ cancelPc' # "idle" => Stays("cancels") /\ Pending("cancels", cancels)
         /\ projectPc' # "idle" => Stays("projection") /\ Pending("projection", stream) /\ Projected.type = "ORDER_CREATED"
<1>0. /\ Subscriber = {"intents", "cancels", "projection", "matching"}
      /\ projectPc # "idle" => Projected.type = "ORDER_CREATED"
  BY DEF Subscriber, Positions
<1>1. Dies => intentPc' = "idle" /\ cancelPc' = "idle" /\ projectPc' = "idle"
  BY DEF Dies, Reboot
<1>2. ASSUME NEW s \in Subscriber, NEW r \in Subscriber, r # s, Finish(r) \/ Skip(r) PROVE Stays(s)
  BY <1>2, FinishTyped DEF Stays, TypeOK, Skip
<1>3. (read' = read /\ since' = since) => \A s \in Subscriber : Stays(s)
  BY DEF Stays
<1>4. ASSUME intentPc' # "idle" PROVE Stays("intents") /\ Pending("intents", intents)
  <2>1. CASE ProcessIntent
    <3>1. read' = read /\ since' = since /\ (intentPc # "idle" \/ Pending("intents", intents))
      BY <1>4, <2>1 DEF ProcessIntent, CheckRisk, AppendCreated, PublishCreated, AppendRejected, PublishRejected
    <3> QED
      BY <1>0, <1>3, <3>1, AtWork
  <2>2. CASE ~ProcessIntent
    <3>1. intentPc' = intentPc /\ ~Skip("intents")
      BY <1>1, <1>4, <2>2, Moves DEF Skip
    <3> QED
      BY <1>0, <1>1, <1>2, <1>3, <1>4, <2>2, <3>1, AtWork, Moves
  <2> QED
    BY <2>1, <2>2
<1>5. ASSUME cancelPc' # "idle" PROVE Stays("cancels") /\ Pending("cancels", cancels)
  <2>1. CASE ProcessCancel
    <3>1. read' = read /\ since' = since /\ (cancelPc # "idle" \/ Pending("cancels", cancels))
      BY <1>5, <2>1 DEF ProcessCancel, AppendCanceled, PublishCanceled
    <3> QED
      BY <1>0, <1>3, <3>1, AtWork
  <2>2. CASE ~ProcessCancel
    <3>1. cancelPc' = cancelPc /\ ~Skip("cancels")
      BY <1>1, <1>5, <2>2, Moves DEF Skip
    <3> QED
      BY <1>0, <1>1, <1>2, <1>3, <1>5, <2>2, <3>1, AtWork, Moves
  <2> QED
    BY <2>1, <2>2
<1>6. ASSUME projectPc' # "idle" PROVE Stays("projection") /\ Pending("projection", stream) /\ Projected.type = "ORDER_CREATED"
  <2>1. CASE ProjectEvent
    <3>1. read' = read /\ since' = since /\ (projectPc # "idle" \/ (Pending("projection", stream) /\ Projected.type = "ORDER_CREATED"))
      BY <1>6, <2>1 DEF ProjectEvent, ProjectCreated, AppendActivated, PublishActivated, ProjectStatus, ProjectNothing
    <3> QED
      BY <1>0, <1>3, <3>1, AtWork
  <2>2. CASE ~ProjectEvent
    <3>1. projectPc' = projectPc /\ ~Skip("projection")
      BY <1>1, <1>6, <2>2, Moves DEF Skip
    <3> QED
      BY <1>0, <1>1, <1>2, <1>3, <1>6, <2>2, <3>1, AtWork, Moves
  <2> QED
    BY <2>1, <2>2
<1> QED
  BY <1>4, <1>5, <1>6

\* The message of a loop that stays at it.
LEMMA SameMessage ==
  ASSUME LifeInv, Next
  PROVE  /\ Stays("intents") /\ Pending("intents", intents) => Current("intents", intents)' = Current("intents", intents)
         /\ Stays("cancels") /\ Pending("cancels", cancels) => Current("cancels", cancels)' = Current("cancels", cancels)
         /\ Stays("projection") /\ Pending("projection", stream) => Projected' = Projected
<1>0. \A s \in {"intents", "cancels", "projection"} : read[s] \in Nat
  BY MessagesTyped DEF LifeInv, Subscriber
<1>1. ASSUME Stays("intents"), Pending("intents", intents) PROVE Current("intents", intents)' = Current("intents", intents)
  <2>1. read["intents"] + 1 \in 1..Len(intents)
    BY <1>0, <1>1, MessagesTyped DEF Pending, LifeInv
  <2> QED
    BY <1>1, <2>1, TopicsGrow DEF Current, Stays
<1>2. ASSUME Stays("cancels"), Pending("cancels", cancels) PROVE Current("cancels", cancels)' = Current("cancels", cancels)
  <2>1. read["cancels"] + 1 \in 1..Len(cancels)
    BY <1>0, <1>2, MessagesTyped DEF Pending, LifeInv
  <2> QED
    BY <1>2, <2>1, TopicsGrow DEF Current, Stays
<1>3. ASSUME Stays("projection"), Pending("projection", stream) PROVE Projected' = Projected
  <2>1. read["projection"] + 1 \in 1..Len(stream)
    BY <1>0, <1>3, MessagesTyped DEF Pending, LifeInv
  <2> QED
    BY <1>3, <2>1, TopicsGrow DEF Current, Projected, Stays
<1> QED
  BY <1>1, <1>2, <1>3

\* An index moves on past a message that was there, or to the end of its topic.
LEMMA PositionsStep ==
  ASSUME LifeInv, Next
  PROVE  /\ Positions'
         /\ read["matching"] <= read'["matching"] /\ read'["matching"] <= Len(stream)
         /\ read["projection"] <= read'["projection"] /\ read'["projection"] <= Len(stream)
<1>0. TypeOK /\ Positions /\ TypeOK'
  BY TypeStep DEF LifeInv
<1>1. /\ Topic("intents") = intents /\ Topic("cancels") = cancels
      /\ Topic("projection") = stream /\ Topic("matching") = stream
      /\ Subscriber = {"intents", "cancels", "projection", "matching"}
  BY DEF Topic, Subscriber
<1>2. /\ \A s \in Subscriber : read[s] \in Nat /\ since[s] \in Nat /\ since[s] <= read[s]
      /\ read["intents"] <= Len(intents) /\ read["cancels"] <= Len(cancels)
      /\ read["projection"] <= Len(stream) /\ read["matching"] <= Len(stream)
      /\ Len(intents) \in Nat /\ Len(cancels) \in Nat /\ Len(stream) \in Nat
  BY <1>0, MessagesTyped DEF Positions
<1>3. /\ Len(intents') \in Nat /\ Len(cancels') \in Nat /\ Len(stream') \in Nat
      /\ Len(intents) <= Len(intents') /\ Len(cancels) <= Len(cancels') /\ Len(stream) <= Len(stream')
  BY <1>0, TopicsGrow, LenProperties DEF TypeOK
<1>4. ASSUME NEW s \in Subscriber
      PROVE  since'[s] <= read'[s] /\ read[s] <= read'[s] /\ read'[s] <= Len(Topic(s)) /\ read'[s] \in Nat
  <2>1. read[s] <= Len(Topic(s)) /\ Len(Topic(s)) \in Nat
    BY <1>1, <1>2
  <2> QED
    BY <1>0, <1>2, <2>1, LoopStep DEF Stays, Finishes, ToEnd, Pending
<1>5. /\ intentPc' # "idle" => read'["intents"] < Len(intents')
      /\ cancelPc' # "idle" => read'["cancels"] < Len(cancels')
      /\ projectPc' # "idle" => read'["projection"] < Len(stream') /\ Projected'.type = "ORDER_CREATED"
  BY <1>0, <1>1, <1>2, <1>3, BusyStep, SameMessage DEF Pending, Stays
<1>6. /\ read'["intents"] <= Len(intents') /\ read'["cancels"] <= Len(cancels')
      /\ read'["projection"] <= Len(stream') /\ read'["matching"] <= Len(stream')
  BY <1>1, <1>3, <1>4
<1> QED
  BY <1>1, <1>4, <1>5, <1>6 DEF Positions

\* Created, Activated and NodeFed after a step.
ThenCreated(o) ==
    \E i \in 1..Len(stream') : stream'[i].type = "ORDER_CREATED" /\ stream'[i].order = o
ThenActivated(o) ==
    \E i \in 1..read'["matching"] : stream'[i].type = "ORDER_ACTIVATED" /\ stream'[i].order = o
ThenFed(n) ==
    n.at \in 1..read'["matching"] /\ stream'[n.at].type = "ORDER_ACTIVATED" /\ stream'[n.at].order = n.order

\* What has been published stays so.
LEMMA Kept ==
  ASSUME LifeInv, Next
  PROVE  /\ \A o : Created(o) => ThenCreated(o)
         /\ \A o : Activated(o) => ThenActivated(o)
         /\ \A n : NodeFed(n) => ThenFed(n)
<1>0. TypeOK /\ Positions /\ TypeOK'
  BY TypeStep DEF LifeInv
<1>1. /\ Len(stream) \in Nat /\ read["matching"] \in Nat /\ Len(stream') \in Nat /\ read'["matching"] \in Nat
      /\ read["matching"] <= Len(stream)
  BY <1>0, MessagesTyped, LenProperties DEF Positions, Subscriber, TypeOK
<1>2. ASSUME NEW o, Created(o) PROVE ThenCreated(o)
  <2>1. PICK i \in 1..Len(stream) : IsAt("ORDER_CREATED", o, i)
    BY <1>2 DEF Created
  <2>2. i \in 1..Len(stream') /\ stream'[i] = stream[i]
    BY <1>1, TopicsGrow
  <2> QED
    BY <2>1, <2>2 DEF ThenCreated, IsAt
<1>3. ASSUME NEW i \in 1..read["matching"] PROVE i \in 1..read'["matching"] /\ stream'[i] = stream[i]
  BY <1>1, TopicsGrow, PositionsStep
<1>4. ASSUME NEW o, Activated(o) PROVE ThenActivated(o)
  <2>1. PICK i \in 1..read["matching"] : IsAt("ORDER_ACTIVATED", o, i)
    BY <1>4 DEF Activated
  <2> QED
    BY <1>3, <2>1 DEF ThenActivated, IsAt
<1>5. ASSUME NEW n, NodeFed(n) PROVE ThenFed(n)
  BY <1>3, <1>5 DEF NodeFed, ThenFed, IsAt
<1> QED
  BY <1>2, <1>4, <1>5

\* Only an event without a key, or with one of its own, enters the store.
Stores(e) ==
    /\ store' = store \cup {e}
    /\ KeyOf(e) = {} \/ ~IsDuplicate(e)
    /\ e.type = "TRADE_EXECUTED" => Activated(e.order)

LEMMA StoreStep ==
  ASSUME LifeInv, Next
  PROVE  store' = store \/ \E e \in StoredEvent : Stores(e)
<1>0. TypeOK /\ Positions
  BY DEF LifeInv
<1> USE <1>0, MessagesTyped, EventsTyped, AtWork
<1>1. ASSUME AppendCreated PROVE store' = store \/ \E e \in StoredEvent : Stores(e)
  <2> DEFINE e == Event("ORDER_CREATED", Current("intents", intents))
  <2>1. e \in StoredEvent /\ e.type = "ORDER_CREATED"
    BY <1>1 DEF AppendCreated, EventType, Event
  <2> QED
    BY <1>1, <2>1 DEF AppendCreated, Stores
<1>2. ASSUME AppendRejected PROVE store' = store \/ \E e \in StoredEvent : Stores(e)
  <2> DEFINE e == Event("ORDER_REJECTED", Current("intents", intents))
  <2>1. e \in StoredEvent /\ e.type = "ORDER_REJECTED"
    BY <1>2 DEF AppendRejected, EventType, Event
  <2> QED
    BY <1>2, <2>1 DEF AppendRejected, Stores
<1>3. ASSUME AppendCanceled PROVE store' = store \/ \E e \in StoredEvent : Stores(e)
  <2> DEFINE e == Event("ORDER_CANCELED", Current("cancels", cancels))
  <2>1. e \in StoredEvent /\ e.type = "ORDER_CANCELED"
    BY <1>3 DEF AppendCanceled, EventType, Event
  <2> QED
    BY <1>3, <2>1 DEF AppendCanceled, Stores
<1>4. ASSUME AppendActivated PROVE store' = store \/ \E e \in StoredEvent : Stores(e)
  <2> DEFINE e == Event("ORDER_ACTIVATED", Projected.order)
  <2>1. e \in StoredEvent /\ e.type = "ORDER_ACTIVATED"
    BY <1>4 DEF AppendActivated, EventType, Event
  <2>2. KeyOf(e) = {}
    BY <2>1 DEF KeyOf
  <2> QED
    BY <1>4, <2>1, <2>2 DEF AppendActivated, Stores
<1>5. ASSUME NEW t \in trades, AppendTrade(t) PROVE store' = store \/ \E e \in StoredEvent : Stores(e)
  <2> DEFINE e == TradeEvent(t)
  <2>1. e \in StoredEvent /\ e.order = t.taker.order
    BY DEF TypeOK, TradeEvent
  <2>2. Activated(t.taker.order)
    BY DEF LifeInv, TradesInHand, NodeFed, Activated
  <2>3. store' = store \/ (store' = store \cup {e} /\ ~IsDuplicate(e))
    BY <1>5 DEF AppendTrade
  <2> QED
    BY <2>1, <2>2, <2>3 DEF Stores
<1>6. ASSUME NEW o \in Order, PlaceOrder(o) \/ RequestCancel(o) \/ ResendCancel(o) PROVE store' = store
  BY <1>6 DEF PlaceOrder, RequestCancel, ResendCancel
<1>7. ASSUME CheckRisk \/ PublishCreated \/ PublishRejected \/ PublishCanceled \/ Restart \/ FailTrade PROVE store' = store
  BY <1>7 DEF CheckRisk, PublishCreated, PublishRejected, PublishCanceled, Restart, FailTrade
<1>8. ASSUME ProjectCreated \/ PublishActivated \/ ProjectStatus \/ ProjectNothing \/ Feed PROVE store' = store
  BY <1>8 DEF ProjectCreated, PublishActivated, ProjectStatus, ProjectNothing, Feed, FeedActivated, FeedCanceled, FeedNothing
<1>9. ASSUME NEW t \in trades, PublishTrade(t) PROVE store' = store
  BY <1>9 DEF PublishTrade
<1>10. ASSUME NEW s \in Subscriber, Skip(s) PROVE store' = store
  BY <1>10 DEF Skip
<1> QED
  BY ONLY Next, <1>1, <1>2, <1>3, <1>4, <1>5, <1>6, <1>7, <1>8, <1>9, <1>10
     DEF Next, ProcessIntent, ProcessCancel, ProjectEvent, HandleTrade

LEMMA KeysStep ==
  ASSUME LifeInv, Next PROVE KeysApart'
<1>1. KeysApart
  BY DEF LifeInv
<1>2. \A e : KeyOf(e)' = KeyOf(e)
  BY DEF KeyOf
<1>3. ASSUME NEW e \in StoredEvent, Stores(e) PROVE KeysApart'
  BY <1>1, <1>2, <1>3 DEF Stores, KeysApart, IsDuplicate
<1> QED
  BY <1>1, <1>2, <1>3, StoreStep DEF KeysApart

\* What a published event adds to the stream.
LEMMA PublishEffect ==
  ASSUME LifeInv, NEW e \in StoredEvent, Publishes(e)
  PROVE  /\ Len(stream) \in Nat /\ Len(stream') = Len(stream) + 1
         /\ \A i \in 1..Len(stream) : stream'[i] = stream[i]
         /\ stream'[Len(stream) + 1] = e
         /\ unanswered \subseteq 1..Len(stream)
         /\ unanswered' = unanswered \/ unanswered' = unanswered \cup {Len(stream) + 1}
<1>1. stream \in Seq(StoredEvent) /\ unanswered \subseteq 1..Len(stream)
  BY DEF LifeInv, TypeOK
<1>2. stream' = Append(stream, e) /\ (unanswered' = unanswered \/ unanswered' = unanswered \cup {Len(stream) + 1})
  BY DEF Publishes, Lands
<1> QED
  BY ONLY <1>1, <1>2, e \in StoredEvent, Extended

LEMMA PublishedOnceStep ==
  ASSUME LifeInv, Next PROVE PublishedOnce'
<1>0. PublishedOnce /\ TypeOK
  BY DEF LifeInv
<1>1. store \subseteq store'
  BY StoreStep DEF Stores
<1>2. CASE Unpublished
  BY <1>0, <1>1, <1>2 DEF PublishedOnce, Unpublished, At
<1>3. ASSUME NEW e \in StoredEvent, Publishes(e) PROVE PublishedOnce'
  <2> DEFINE n == Len(stream)
             Again(o) == \E k \in 1..n : stream[k].type = "ORDER_CREATED" /\ stream[k].order = o /\ k \in unanswered
             Again2(o) == \E k \in 1..(n + 1) : stream'[k].type = "ORDER_CREATED" /\ stream'[k].order = o /\ k \in unanswered'
             Ok(i) == i \in unanswered \/ (stream[i].type = "ORDER_ACTIVATED" /\ Again(stream[i].order))
             Ok2(i) == i \in unanswered' \/ (stream'[i].type = "ORDER_ACTIVATED" /\ Again2(stream'[i].order))
  <2>0. /\ n \in Nat /\ Len(stream') = n + 1 /\ \A i \in 1..n : stream'[i] = stream[i]
        /\ stream'[n + 1] = e /\ unanswered \subseteq unanswered'
    BY <1>3, PublishEffect
  <2>1. \A i \in 1..n : stream[i] = e => Ok(i)
    BY <1>3 DEF Publishes, SentAgain, IsAt
  <2>2. e \in store' /\ \A i \in 1..n : stream[i] \in store'
    BY <1>0, <1>1, <1>3 DEF Publishes, PublishedOnce, ToSet
  <2>3. \A i, j \in 1..n : i < j /\ stream[i] = stream[j] => Ok(i)
    BY <1>0 DEF PublishedOnce, At
  <2>4. \A o : Again(o) => Again2(o)
    BY <2>0
  <2> HIDE DEF Again, Again2
  <2>5. \A i \in 1..n : Ok(i) => Ok2(i)
    BY <2>0, <2>4
  <2> HIDE DEF Ok, Ok2
  <2>6. ASSUME NEW i \in 1..(n + 1), NEW j \in 1..(n + 1), i < j, stream'[i] = stream'[j] PROVE Ok2(i)
    <3>1. i \in 1..n /\ (j \in 1..n \/ j = n + 1)
      BY <2>0, <2>6
    <3> QED
      BY <2>0, <2>1, <2>3, <2>5, <2>6, <3>1
  <2>7. \A i \in 1..(n + 1) : stream'[i] \in store'
    <3>1. \A i \in 1..(n + 1) : i \in 1..n \/ i = n + 1
      BY <2>0
    <3> QED
      BY <2>0, <2>2, <3>1
  <2> QED
    BY <2>0, <2>6, <2>7 DEF PublishedOnce, ToSet, Ok2, Again2, At
<1> QED
  BY <1>2, <1>3, PublishStep

LEMMA CausalStep ==
  ASSUME LifeInv, Next PROVE CausalOrder'
<1>0. CausalOrder /\ TypeOK /\ Positions /\ Known
  BY DEF LifeInv
<1>1. CASE Unpublished
  BY <1>0, <1>1 DEF CausalOrder, At, Unpublished
<1>2. ASSUME NEW e \in StoredEvent, Publishes(e) PROVE CausalOrder'
  <2> DEFINE n == Len(stream)
             Was(type, o, i) == \E j \in 1..n : j < i /\ stream[j].type = type /\ stream[j].order = o
             Is(type, o, i) == \E j \in 1..(n + 1) : j < i /\ stream'[j].type = type /\ stream'[j].order = o
  <2>1. /\ n \in Nat /\ Len(stream') = n + 1 /\ stream'[n + 1] = e
        /\ \A i \in 1..n : stream'[i] = stream[i]
    BY <1>2, PublishEffect
  <2>2. \A i \in 1..n :
          /\ stream[i].type \in {"ORDER_ACTIVATED", "ORDER_CANCELED"} => Was("ORDER_CREATED", stream[i].order, i)
          /\ stream[i].type = "TRADE_EXECUTED" =>
               \A o \in {stream[i].order, stream[i].maker} : Was("ORDER_ACTIVATED", o, i)
    BY <1>0 DEF CausalOrder, At
  <2>3. \A type, o : \A i \in 1..n : Was(type, o, i) => Is(type, o, i)
    BY <2>1
  <2>4. \A o : Created(o) => Is("ORDER_CREATED", o, n + 1)
    BY <2>1 DEF Created, IsAt
  <2>5. \A o : Activated(o) => Is("ORDER_ACTIVATED", o, n + 1)
    <3>1. read["matching"] \in Nat /\ read["matching"] <= n
      BY <1>0, MessagesTyped DEF Positions, Subscriber
    <3>2. ASSUME NEW o, Activated(o) PROVE Is("ORDER_ACTIVATED", o, n + 1)
      <4>1. PICK i \in 1..read["matching"] : IsAt("ORDER_ACTIVATED", o, i)
        BY <3>2 DEF Activated
      <4>2. i \in 1..n /\ i \in 1..(n + 1) /\ i < n + 1 /\ stream'[i] = stream[i]
        BY <2>1, <3>1
      <4> QED
        BY <4>1, <4>2 DEF IsAt
    <3> QED
      BY <3>2
  <2> HIDE DEF Was, Is
  <2>6. \A i \in 1..(n + 1) :
          /\ stream'[i].type \in {"ORDER_ACTIVATED", "ORDER_CANCELED"} => Is("ORDER_CREATED", stream'[i].order, i)
          /\ stream'[i].type = "TRADE_EXECUTED" =>
               \A o \in {stream'[i].order, stream'[i].maker} : Is("ORDER_ACTIVATED", o, i)
    <3>1. ASSUME NEW i \in 1..n
          PROVE  /\ stream'[i].type \in {"ORDER_ACTIVATED", "ORDER_CANCELED"} => Is("ORDER_CREATED", stream'[i].order, i)
                 /\ stream'[i].type = "TRADE_EXECUTED" =>
                      \A o \in {stream'[i].order, stream'[i].maker} : Is("ORDER_ACTIVATED", o, i)
      BY <2>1, <2>2, <2>3
    <3>2. e.order \in Order
      BY EventsTyped
    <3>3. /\ e.type \in {"ORDER_ACTIVATED", "ORDER_CANCELED"} => Is("ORDER_CREATED", e.order, n + 1)
          /\ e.type = "TRADE_EXECUTED" => \A o \in {e.order, e.maker} : Is("ORDER_ACTIVATED", o, n + 1)
      BY <1>0, <1>2, <2>4, <2>5, <3>2 DEF Publishes, Known
    <3> QED
      BY <2>1, <3>1, <3>3
  <2> QED
    BY <2>1, <2>6 DEF CausalOrder, At, Is
<1> QED
  BY <1>1, <1>2, PublishStep

\* The matching loop stays, is fed one event, or loses what it had not read while the book
\* is empty.
LEMMA FeedMoves ==
  ASSUME LifeInv, Next
  PROVE  \/ /\ read'["matching"] = read["matching"] /\ since'["matching"] = since["matching"]
            /\ book' = book /\ orderMap' = orderMap
         \/ /\ Feed /\ stream' = stream /\ unanswered' = unanswered
            /\ read["matching"] + 1 \in 1..Len(stream) /\ Fed = stream[read["matching"] + 1]
            /\ read'["matching"] = read["matching"] + 1 /\ since'["matching"] = since["matching"]
         \/ book' = {}
<1>0. /\ TypeOK /\ Positions /\ read["matching"] \in Nat /\ since["matching"] \in Nat /\ Len(stream) \in Nat
      /\ Subscriber = {"intents", "cancels", "projection", "matching"}
      /\ \A n \in book : NodeFed(n) /\ n.at > since["matching"]
  BY MessagesTyped DEF LifeInv, Subscriber, Known
<1>1. CASE Feed
  <2>1. /\ stream' = stream /\ unanswered' = unanswered /\ Finish("matching") /\ Pending("matching", stream)
    BY <1>1 DEF Feed, FeedActivated, FeedCanceled, FeedNothing
  <2>2. read'["matching"] = read["matching"] + 1 /\ since'["matching"] = since["matching"]
    BY <1>0, <2>1, FinishTyped
  <2>3. read["matching"] + 1 \in 1..Len(stream) /\ Fed = stream[read["matching"] + 1]
    BY <1>0, <2>1 DEF Pending, Fed, Current
  <2> QED
    BY <1>1, <2>1, <2>2, <2>3
<1>2. CASE Dies
  BY <1>2 DEF Dies, Reboot
<1>3. ASSUME Skip("matching") PROVE book' = {}
  <2>1. read["matching"] = since["matching"] /\ book' = book
    BY <1>3 DEF Skip
  <2>2. \A n \in book : FALSE
    BY <1>0, <2>1 DEF NodeFed
  <2> QED
    BY <2>1, <2>2
<1>4. ASSUME ~Feed, ~Dies, ~Skip("matching")
      PROVE  /\ read'["matching"] = read["matching"] /\ since'["matching"] = since["matching"]
             /\ book' = book /\ orderMap' = orderMap
  <2>1. book' = book /\ orderMap' = orderMap
    BY <1>4, Moves DEF Feed
  <2>2. \/ read' = read /\ since' = since
        \/ \E s \in Subscriber \ {"matching"} : Finish(s) \/ Skip(s)
    BY <1>0, <1>4, Moves
  <2>3. ASSUME NEW s \in Subscriber \ {"matching"}, Finish(s) \/ Skip(s)
        PROVE  read'["matching"] = read["matching"] /\ since'["matching"] = since["matching"]
    BY <1>0, <2>3, FinishTyped DEF Skip, TypeOK
  <2> QED
    BY <2>1, <2>2, <2>3
<1> QED
  BY <1>1, <1>2, <1>3, <1>4

LEMMA LeavesBookStep ==
  ASSUME LifeInv, Next PROVE CanceledLeavesBook'
<1> DEFINE Other(n, j) == \E i \in 1..Len(stream) : IsAt("ORDER_ACTIVATED", n.order, i) /\ i # n.at /\ i < j
<1>0. /\ TypeOK /\ Positions /\ Mapped /\ Len(stream) \in Nat /\ read["matching"] \in Nat /\ read["matching"] <= Len(stream)
      /\ \A n \in book : \A j \in 1..Len(stream) :
            IsAt("ORDER_CANCELED", n.order, j) /\ n.at < j /\ j <= read["matching"] => Other(n, j)
  BY MessagesTyped DEF LifeInv, CanceledLeavesBook, At, IsAt, Positions, Subscriber
<1>1. /\ read'["matching"] <= Len(stream) /\ Len(stream) <= Len(stream') /\ Len(stream') \in Nat /\ read'["matching"] \in Nat
      /\ \A i \in 1..Len(stream) : stream'[i] = stream[i]
  BY <1>0, TypeStep, TopicsGrow, PositionsStep, LenProperties DEF TypeOK, Subscriber
<1>2. SUFFICES ASSUME NEW n \in book', NEW j \in 1..Len(stream'),
                      stream'[j].type = "ORDER_CANCELED", stream'[j].order = n.order,
                      n.at < j, j <= read'["matching"]
               PROVE  Other(n, j)
  BY <1>0, <1>1 DEF CanceledLeavesBook, At, IsAt
<1>3. j \in 1..Len(stream) /\ IsAt("ORDER_CANCELED", n.order, j)
  BY <1>1, <1>2 DEF IsAt
<1>4. CASE n \in book /\ j <= read["matching"]
  BY <1>0, <1>2, <1>3, <1>4
<1>5. CASE n \notin book \/ j > read["matching"]
  <2>1. /\ Feed /\ Fed = stream[read["matching"] + 1] /\ read'["matching"] = read["matching"] + 1
    BY <1>0, <1>2, <1>5, FeedMoves
  <2>2. CASE n \in book
    <3>1. j = read["matching"] + 1 /\ Fed.type = "ORDER_CANCELED" /\ Fed.order = n.order
      BY <1>0, <1>2, <1>3, <1>5, <2>1, <2>2 DEF IsAt
    <3>2. book' = book \ {[order |-> n.order, at |-> orderMap[n.order]]}
      BY <2>1, <3>1 DEF Feed, FeedActivated, FeedCanceled, FeedNothing
    <3>3. n \in Node
      BY <1>0, <2>2 DEF TypeOK
    <3>4. orderMap[n.order] # n.at
      BY <1>2, <3>2, <3>3 DEF Node
    <3>5. PICK i \in 1..read["matching"] : i # n.at /\ IsAt("ORDER_ACTIVATED", n.order, i)
      BY <1>0, <2>2, <3>4 DEF Mapped
    <3>6. i \in 1..Len(stream) /\ i < j
      BY <1>0, <3>1
    <3> QED
      BY <3>5, <3>6
  <2>3. CASE n \notin book
    <3>1. FeedActivated
      BY <1>2, <2>1, <2>3 DEF Feed, FeedCanceled, FeedNothing
    <3>2. n = FedNode
      BY <1>2, <2>3, <3>1, FeedEffect DEF Fills
    <3>3. n.at = read["matching"] + 1
      BY <3>2 DEF FedNode
    <3> QED
      BY <1>0, <1>2, <2>1, <3>3
  <2> QED
    BY <2>2, <2>3
<1> QED
  BY <1>0, <1>3, <1>4, <1>5

LEMMA MappedStep ==
  ASSUME LifeInv, Next PROVE Mapped'
<1> DEFINE Again(n) == \E i \in 1..read["matching"] : i # n.at /\ IsAt("ORDER_ACTIVATED", n.order, i)
           Again2(n) == \E i \in 1..read'["matching"] :
                          i # n.at /\ stream'[i].type = "ORDER_ACTIVATED" /\ stream'[i].order = n.order
<1>0. /\ TypeOK /\ Positions /\ read["matching"] \in Nat /\ Len(stream) \in Nat /\ read["matching"] <= Len(stream)
      /\ \A n \in book : n \in Node /\ NodeFed(n) /\ (orderMap[n.order] = n.at \/ Again(n))
      /\ orderMap \in [Order -> Nat]
  BY MessagesTyped DEF LifeInv, TypeOK, Mapped, Known, Positions, Subscriber
<1>1. /\ read["matching"] <= read'["matching"] /\ read'["matching"] \in Nat
      /\ \A i \in 1..Len(stream) : stream'[i] = stream[i]
  BY <1>0, TypeStep, TopicsGrow, PositionsStep DEF TypeOK, Subscriber
<1>2. \A i \in 1..read["matching"] : i \in 1..read'["matching"] /\ stream'[i] = stream[i]
  BY <1>0, <1>1
<1>3. \A n : Again(n) => Again2(n)
  BY <1>2 DEF IsAt
<1>4. SUFFICES ASSUME NEW n \in book' PROVE orderMap'[n.order] = n.at \/ Again2(n)
  BY DEF Mapped, IsAt
<1>5. CASE book' = book /\ orderMap' = orderMap
  BY <1>0, <1>3, <1>4, <1>5
<1>6. ASSUME Feed, stream' = stream, Fed = stream[read["matching"] + 1], read'["matching"] = read["matching"] + 1
      PROVE  orderMap'[n.order] = n.at \/ Again2(n)
  <2>1. CASE FeedNothing
    BY <1>5, <2>1 DEF FeedNothing
  <2>2. CASE FeedCanceled
    <3>1. /\ book' = book \ {[order |-> Fed.order, at |-> orderMap[Fed.order]]}
          /\ orderMap' = [orderMap EXCEPT ![Fed.order] = 0]
      BY <2>2 DEF FeedCanceled
    <3>2. n \in book /\ n \in Node /\ (orderMap[n.order] = n.at \/ Again(n))
      BY <1>0, <1>4, <3>1
    <3>3. CASE n.order = Fed.order
      BY <1>3, <1>4, <3>1, <3>2, <3>3 DEF Node
    <3>4. CASE n.order # Fed.order
      BY <1>0, <1>3, <3>1, <3>2, <3>4
    <3> QED
      BY <3>3, <3>4
  <2>3. CASE FeedActivated
    <3>1. PICK makers, kept : \E rests \in BOOLEAN : Fills(makers, kept, rests)
      BY <2>3, FeedEffect
    <3>2. PICK rests \in BOOLEAN : Fills(makers, kept, rests)
      BY <3>1
    <3>3. /\ makers \subseteq book /\ n \in (book \ (makers \ kept)) \cup (IF rests THEN {FedNode} ELSE {})
          /\ FedNode.order = Fed.order /\ FedNode.at = read["matching"] + 1
          /\ Fed.type = "ORDER_ACTIVATED" /\ Fed.order \in Order
      BY <1>0, <1>4, <2>3, <3>2, MessagesTyped, EventsTyped DEF Fills, Opposing, FedNode, FeedActivated
    <3>4. \A o \in Order : orderMap'[o] =
            IF rests /\ o = FedNode.order THEN FedNode.at
            ELSE IF \E m \in makers \ kept : m.order = o THEN 0 ELSE orderMap[o]
      BY <3>2 DEF Fills
    <3>5. read["matching"] + 1 \in 1..read'["matching"] /\ stream'[read["matching"] + 1] = Fed
      BY <1>0, <1>6
    <3> HIDE DEF FedNode
    <3>6. CASE rests /\ n = FedNode
      BY <3>3, <3>4, <3>6
    <3>7. CASE ~(rests /\ n = FedNode)
      <4>1. n \in book /\ n \notin makers \ kept /\ n \in Node /\ n.order \in Order /\ n.at \in 1..read["matching"]
        BY <1>0, <3>3, <3>7 DEF NodeFed, Node
      <4>2. CASE rests /\ n.order = FedNode.order
        <5>1. read["matching"] + 1 # n.at
          BY <1>0, <4>1
        <5> QED
          BY <3>3, <3>5, <4>2, <5>1
      <4>3. ASSUME NEW m \in makers \ kept, m.order = n.order PROVE Again2(n)
        <5>1. m \in Node /\ NodeFed(m) /\ m # n
          BY <1>0, <3>3, <4>1, <4>3
        <5>2. m.at # n.at
          BY <4>1, <4>3, <5>1 DEF Node
        <5> QED
          BY <1>2, <4>3, <5>1, <5>2 DEF NodeFed, IsAt
      <4>4. CASE ~(rests /\ n.order = FedNode.order) /\ ~\E m \in makers \ kept : m.order = n.order
        <5>1. orderMap'[n.order] = orderMap[n.order]
          BY <3>4, <4>1, <4>4
        <5> QED
          BY <1>0, <1>3, <4>1, <5>1
      <4> QED
        BY <4>2, <4>3, <4>4
    <3> QED
      BY <3>6, <3>7
  <2> QED
    BY <1>6, <2>1, <2>2, <2>3 DEF Feed
<1> QED
  BY <1>4, <1>5, <1>6, FeedMoves

\* A row stays, and comes only with a creation.
LEMMA RowStays ==
  ASSUME LifeInv, Next
  PROVE  \A o \in Order : /\ row[o] # "NONE" => row'[o] # "NONE"
                          /\ row'[o] # "NONE" => Created(o)
<1>0. TypeOK /\ Positions /\ Known
  BY DEF LifeInv
<1>1. CASE row' = row
  BY <1>0, <1>1 DEF Known
<1>2. ASSUME ProjectCreated, NEW o \in Order
      PROVE  (row[o] # "NONE" => row'[o] # "NONE") /\ (row'[o] # "NONE" => Created(o))
  <2>1. read["projection"] + 1 \in 1..Len(stream) /\ Projected = stream[read["projection"] + 1]
    BY <1>0, <1>2, MessagesTyped DEF ProjectCreated, Pending, Projected, Current, Subscriber
  <2>2. Created(Projected.order)
    BY <1>2, <2>1 DEF ProjectCreated, Created, IsAt
  <2> QED
    BY <1>0, <1>2, <2>2 DEF ProjectCreated, Known, TypeOK
<1>3. ASSUME ProjectStatus, NEW o \in Order
      PROVE  (row[o] # "NONE" => row'[o] # "NONE") /\ (row'[o] # "NONE" => Created(o))
  <2>1. row' = row \/ row' = [row EXCEPT ![Projected.order] = IF @ = "NONE" THEN @
                              ELSE IF Projected.type = "ORDER_CANCELED" THEN "CANCELED" ELSE FirstStatus(Projected.order)]
    BY <1>3 DEF ProjectStatus
  <2>2. FirstStatus(Projected.order) # "NONE"
    BY DEF FirstStatus
  <2> QED
    BY <1>0, <2>1, <2>2 DEF Known, TypeOK
<1> QED
  BY <1>1, <1>2, <1>3, Moves

LEMMA KnownStep ==
  ASSUME LifeInv, Next PROVE Known'
<1>0. TypeOK /\ Positions /\ Known /\ TypeOK'
  BY TypeStep DEF LifeInv
<1>a. \A o \in Order : row[o] # "NONE" => row'[o] # "NONE"
  BY RowStays
<1>1. \A o \in Order : row'[o] # "NONE" => ThenCreated(o)
  BY RowStays, Kept
<1>2. \A i \in 1..Len(cancels') : row'[cancels'[i]] # "NONE"
  <2>1. \A i \in 1..Len(cancels) : row[cancels[i]] # "NONE" /\ cancels[i] \in Order
    BY <1>0, ElementOfSeq DEF Known, TypeOK
  <2>2. CASE cancels' = cancels
    BY <1>a, <2>1, <2>2
  <2>3. ASSUME NEW o \in Order, RequestCancel(o) \/ ResendCancel(o) PROVE \A i \in 1..Len(cancels') : row'[cancels'[i]] # "NONE"
    <3>1. cancels' = Append(cancels, o) /\ cancels \in Seq(Order) /\ row' = row /\ row[o] # "NONE"
      BY <1>0, <2>1, <2>3 DEF RequestCancel, ResendCancel, TypeOK, ToSet
    <3>2. /\ Len(cancels) \in Nat /\ Len(cancels') = Len(cancels) + 1
          /\ \A i \in 1..Len(cancels) : cancels'[i] = cancels[i]
          /\ cancels'[Len(cancels) + 1] = o
      BY ONLY <3>1, o \in Order, Extended
    <3>3. ASSUME NEW i \in 1..Len(cancels') PROVE i \in 1..Len(cancels) \/ i = Len(cancels) + 1
      BY <3>2
    <3> QED
      BY <2>1, <3>1, <3>2, <3>3
  <2> QED
    BY <2>2, <2>3, Clients
<1>3. projectPc' # "idle" => row'[Projected'.order] # "NONE"
  <2> SUFFICES ASSUME projectPc' # "idle" PROVE row'[Projected.order] # "NONE"
    BY BusyStep, SameMessage, <1>0
  <2>1. Projected \in StoredEvent /\ Projected.order \in Order
    BY <1>0, BusyStep, MessagesTyped, EventsTyped
  <2>2. CASE ProjectCreated
    BY <1>0, <2>1, <2>2 DEF ProjectCreated, TypeOK
  <2>3. CASE ~ProjectCreated
    <3>1. projectPc # "idle"
      BY <2>3, Moves DEF ProjectEvent, AppendActivated, PublishActivated, ProjectStatus, ProjectNothing, Dies, Reboot
    <3> QED
      BY <1>0, <1>a, <2>1, <3>1 DEF Known
  <2> QED
    BY <2>2, <2>3
<1>4. \A i \in 1..Len(stream') : stream'[i].type \in {"ORDER_ACTIVATED", "ORDER_CANCELED"} => row'[stream'[i].order] # "NONE"
  <2>1. \A i \in 1..Len(stream) : stream[i].order \in Order
    BY <1>0, MessagesTyped, EventsTyped
  <2>2. CASE Unpublished
    BY <1>0, <1>a, <2>1, <2>2 DEF Unpublished, Known
  <2>3. ASSUME NEW e \in StoredEvent, Publishes(e), NEW i \in 1..Len(stream'), stream'[i].type \in {"ORDER_ACTIVATED", "ORDER_CANCELED"}
        PROVE  row'[stream'[i].order] # "NONE"
    <3>1. CASE i \in 1..Len(stream)
      BY <1>0, <1>a, <2>1, <2>3, <3>1, PublishEffect DEF Known
    <3>2. CASE i \notin 1..Len(stream)
      <4>1. stream'[i] = e
        BY <2>3, <3>2, PublishEffect
      <4> QED
        BY <2>3, <4>1 DEF Publishes
    <3> QED
      BY <3>1, <3>2
  <2> QED
    BY <2>2, <2>3, PublishStep
<1>5. \A n \in book' : ThenFed(n) /\ n.at > since'["matching"]
  <2>1. \A n \in book : ThenFed(n) /\ n.at > since["matching"]
    BY <1>0, Kept DEF Known
  <2>2. CASE book' = book /\ since'["matching"] = since["matching"]
    BY <2>1, <2>2
  <2>3. ASSUME Feed, stream' = stream, Fed = stream[read["matching"] + 1], since'["matching"] = since["matching"],
               read'["matching"] = read["matching"] + 1, NEW n \in book'
        PROVE  ThenFed(n) /\ n.at > since'["matching"]
    <3>1. CASE n \in book
      BY <2>1, <2>3, <3>1
    <3>2. CASE n \notin book
      <4>1. FeedActivated
        BY <2>3, <3>2 DEF Feed, FeedCanceled, FeedNothing
      <4>2. n = FedNode
        BY <2>3, <3>2, <4>1, FeedEffect DEF Fills
      <4>3. n.order = Fed.order /\ n.at = read["matching"] + 1 /\ Fed.type = "ORDER_ACTIVATED"
        BY <4>1, <4>2 DEF FedNode, FeedActivated
      <4>4. read["matching"] \in Nat /\ since["matching"] \in Nat /\ since["matching"] <= read["matching"]
        BY <1>0, MessagesTyped DEF Subscriber, Positions
      <4> QED
        BY <2>3, <4>3, <4>4 DEF ThenFed
    <3> QED
      BY <3>1, <3>2
  <2> QED
    BY <2>2, <2>3, FeedMoves
<1> QED
  BY <1>1, <1>2, <1>3, <1>4, <1>5 DEF Known, Created, NodeFed, ThenCreated, ThenFed, IsAt

\* Who publishes what.
LEMMA Publishers ==
  ASSUME LifeInv, Next
  PROVE  \/ Unpublished
         \/ \E e \in StoredEvent :
              /\ Lands(e)
              /\ \/ PublishCreated /\ e.type = "ORDER_CREATED"
                 \/ PublishRejected /\ e.type = "ORDER_REJECTED"
                 \/ PublishCanceled /\ e.type = "ORDER_CANCELED"
                 \/ PublishActivated /\ e.type = "ORDER_ACTIVATED" /\ e.order = Projected.order /\ (Land(e) \/ LandUnanswered(e))
                 \/ \E t \in trades : PublishTrade(t) /\ e = TradeEvent(t) /\ e.type = "TRADE_EXECUTED"
<1>0. TypeOK /\ Positions
  BY DEF LifeInv
<1> USE <1>0, MessagesTyped, EventsTyped, AtWork, LandLands
<1>1. ASSUME PublishCreated, ~Unpublished
      PROVE  \E e \in StoredEvent : Lands(e) /\ e.type = "ORDER_CREATED"
  <2>1. Event("ORDER_CREATED", Current("intents", intents)) \in StoredEvent
    BY <1>1 DEF PublishCreated, EventType
  <2> QED
    BY <1>1, <2>1 DEF PublishCreated, Event, Unpublished
<1>2. ASSUME PublishRejected, ~Unpublished
      PROVE  \E e \in StoredEvent : Lands(e) /\ e.type = "ORDER_REJECTED"
  <2>1. Event("ORDER_REJECTED", Current("intents", intents)) \in StoredEvent
    BY <1>2 DEF PublishRejected, EventType
  <2> QED
    BY <1>2, <2>1 DEF PublishRejected, Event, Unpublished
<1>3. ASSUME PublishCanceled, ~Unpublished
      PROVE  \E e \in StoredEvent : Lands(e) /\ e.type = "ORDER_CANCELED"
  <2>1. Event("ORDER_CANCELED", Current("cancels", cancels)) \in StoredEvent
    BY <1>3 DEF PublishCanceled, EventType
  <2> QED
    BY <1>3, <2>1 DEF PublishCanceled, Event, Unpublished
<1>4. ASSUME PublishActivated, ~Unpublished
      PROVE  \E e \in StoredEvent : Lands(e) /\ e.type = "ORDER_ACTIVATED" /\ e.order = Projected.order /\ (Land(e) \/ LandUnanswered(e))
  <2>1. Event("ORDER_ACTIVATED", Projected.order) \in StoredEvent
    BY <1>4 DEF PublishActivated, EventType
  <2> QED
    BY <1>4, <2>1 DEF PublishActivated, Event, Unpublished
<1>5. ASSUME NEW t \in trades, PublishTrade(t)
      PROVE  \E e \in StoredEvent : Lands(e) /\ e = TradeEvent(t) /\ e.type = "TRADE_EXECUTED"
  <2>1. TradeEvent(t) \in StoredEvent /\ TradeEvent(t).type = "TRADE_EXECUTED"
    BY DEF TypeOK, TradeEvent
  <2> QED
    BY <1>5, <2>1 DEF PublishTrade
<1>6. \/ Unpublished \/ PublishCreated \/ PublishRejected \/ PublishCanceled \/ PublishActivated
      \/ \E t \in trades : PublishTrade(t)
  BY DEF Next, Skip, PlaceOrder, RequestCancel, ResendCancel, ProcessIntent, ProcessCancel, ProjectEvent, Feed, HandleTrade, Restart,
         FailTrade, CheckRisk, AppendCreated, AppendRejected, AppendCanceled, ProjectCreated, AppendActivated, ProjectStatus,
         ProjectNothing, FeedActivated, FeedCanceled, FeedNothing, AppendTrade, Unpublished
<1> QED
  BY ONLY <1>1, <1>2, <1>3, <1>4, <1>5, <1>6

\* ToPublish after a step.
ThenToPublish(e) == e \in store' /\ \A i \in 1..Len(stream') : stream'[i] = e => i \in unanswered'

LEMMA StillToPublish ==
  ASSUME LifeInv, Next, NEW e \in StoredEvent, ToPublish(e),
         Unpublished \/ (\E f \in StoredEvent : f # e /\ Lands(f)) \/ LandUnanswered(e)
  PROVE  ThenToPublish(e)
<1>1. e \in store'
  BY StoreStep DEF Stores, ToPublish
<1>2. CASE Unpublished
  BY <1>1, <1>2 DEF ToPublish, ThenToPublish, Unpublished
<1>3. ASSUME NEW f \in StoredEvent, Lands(f), f # e \/ LandUnanswered(e) PROVE ThenToPublish(e)
  <2>1. stream \in Seq(StoredEvent) /\ stream' = Append(stream, f) /\ unanswered \subseteq unanswered'
    BY <1>3 DEF LifeInv, TypeOK, Lands
  <2>2. /\ Len(stream) \in Nat /\ Len(stream') = Len(stream) + 1
        /\ \A i \in 1..Len(stream) : stream'[i] = stream[i]
        /\ stream'[Len(stream) + 1] = f
    BY ONLY <1>3, <2>1, Extended
  <2>3. \A i \in 1..Len(stream') : i \in 1..Len(stream) \/ i = Len(stream) + 1
    BY <2>2
  <2>4. \A i \in 1..Len(stream) : stream[i] = e => i \in unanswered
    BY DEF ToPublish
  <2>5. f # e \/ Len(stream) + 1 \in unanswered'
    BY <1>3 DEF LandUnanswered
  <2> QED
    BY <1>1, <2>1, <2>2, <2>3, <2>4, <2>5 DEF ThenToPublish
<1> QED
  BY <1>2, <1>3, LandLands

\* An event that is not a duplicate is stored for the first time.
LEMMA NewToPublish ==
  ASSUME LifeInv, NEW e, KeyOf(e) # {}, ~IsDuplicate(e), store' = store \cup {e}, stream' = stream
  PROVE  ThenToPublish(e)
<1>1. e \notin store
  BY DEF IsDuplicate
<1>2. \A i \in 1..Len(stream) : stream[i] \in store
  BY DEF LifeInv, PublishedOnce, ToSet
<1> QED
  BY <1>1, <1>2 DEF ThenToPublish

LEMMA Keyed ==
  /\ \A o : KeyOf(Event("ORDER_CREATED", o)) # {}
  /\ \A o : KeyOf(Event("ORDER_REJECTED", o)) # {}
  /\ \A o : KeyOf(Event("ORDER_CANCELED", o)) # {}
  /\ \A t : KeyOf(TradeEvent(t)) # {}
BY DEF KeyOf, Event, TradeEvent

LEMMA IntentInHandStep ==
  ASSUME LifeInv, Next PROVE IntentInHand'
<1> DEFINE created == Event("ORDER_CREATED", Current("intents", intents))
           rejected == Event("ORDER_REJECTED", Current("intents", intents))
<1>1. SUFFICES ASSUME intentPc' # "idle"
               PROVE  /\ intentPc' = "publish" => ThenToPublish(created)
                      /\ intentPc' = "publishReject" => ThenToPublish(rejected)
  <2>1. intentPc' # "idle" => Current("intents", intents)' = Current("intents", intents)
    BY BusyStep, SameMessage DEF LifeInv
  <2> QED
    BY <2>1 DEF IntentInHand, ToPublish, ThenToPublish, Event
<1>0. TypeOK /\ Positions /\ IntentInHand
  BY DEF LifeInv
<1>2. created.type = "ORDER_CREATED" /\ rejected.type = "ORDER_REJECTED" /\ created \in StoredEvent /\ rejected \in StoredEvent
  BY <1>0, <1>1, BusyStep, MessagesTyped, EventsTyped DEF Event, EventType
<1>3. CASE CheckRisk
  BY <1>3 DEF CheckRisk
<1>4. CASE AppendCreated
  BY <1>4, Keyed, NewToPublish DEF AppendCreated
<1>5. CASE PublishCreated
  <2>1. intentPc = "publish" /\ (intentPc' = "reject" \/ (intentPc' = intentPc /\ LandUnanswered(created)))
    BY <1>1, <1>5 DEF PublishCreated
  <2> QED
    BY <1>0, <1>2, <2>1, StillToPublish DEF IntentInHand
<1>6. CASE AppendRejected
  BY <1>1, <1>6, Keyed, NewToPublish DEF AppendRejected
<1>7. CASE PublishRejected
  <2>1. intentPc = "publishReject" /\ intentPc' = intentPc /\ LandUnanswered(rejected)
    BY <1>1, <1>7 DEF PublishRejected
  <2> QED
    BY <1>0, <1>2, <2>1, StillToPublish DEF IntentInHand
<1>8. CASE ~ProcessIntent
  <2>1. intentPc' = intentPc
    BY <1>1, <1>8, Moves DEF Dies, Reboot
  <2>2. Unpublished \/ \E e \in StoredEvent : Lands(e) /\ e.type \notin {"ORDER_CREATED", "ORDER_REJECTED"}
    BY <1>8, Publishers DEF ProcessIntent
  <2>3. /\ ToPublish(created) => ThenToPublish(created)
        /\ ToPublish(rejected) => ThenToPublish(rejected)
    BY <1>2, <2>2, StillToPublish
  <2> QED
    BY <1>0, <2>1, <2>3 DEF IntentInHand
<1> QED
  BY <1>3, <1>4, <1>5, <1>6, <1>7, <1>8 DEF ProcessIntent

LEMMA CancelInHandStep ==
  ASSUME LifeInv, Next PROVE CancelInHand'
<1> DEFINE canceled == Event("ORDER_CANCELED", Current("cancels", cancels))
<1>1. SUFFICES ASSUME cancelPc' = "publish" PROVE ThenToPublish(canceled)
  <2>1. cancelPc' # "idle" => Current("cancels", cancels)' = Current("cancels", cancels)
    BY BusyStep, SameMessage DEF LifeInv
  <2> QED
    BY <2>1 DEF CancelInHand, ToPublish, ThenToPublish, Event
<1>0. TypeOK /\ Positions /\ CancelInHand
  BY DEF LifeInv
<1>2. canceled.type = "ORDER_CANCELED" /\ canceled \in StoredEvent
  BY <1>0, <1>1, BusyStep, MessagesTyped, EventsTyped DEF Event, EventType
<1>3. CASE AppendCanceled
  BY <1>1, <1>3, Keyed, NewToPublish DEF AppendCanceled
<1>4. CASE PublishCanceled
  <2>1. cancelPc = "publish" /\ LandUnanswered(canceled)
    BY <1>1, <1>4 DEF PublishCanceled
  <2> QED
    BY <1>0, <1>2, <2>1, StillToPublish DEF CancelInHand
<1>5. CASE ~ProcessCancel
  <2>1. cancelPc = "publish"
    BY <1>1, <1>5, Moves DEF Dies, Reboot
  <2>2. Unpublished \/ \E e \in StoredEvent : Lands(e) /\ e.type # "ORDER_CANCELED"
    BY <1>5, Publishers DEF ProcessCancel
  <2> QED
    BY <1>0, <1>2, <2>1, <2>2, StillToPublish DEF CancelInHand
<1> QED
  BY <1>3, <1>4, <1>5 DEF ProcessCancel

LEMMA ToActivateStep ==
  ASSUME LifeInv, Next PROVE ToActivate'
<1> DEFINE Again(o) == \E i \in 1..Len(stream') : stream'[i].type = "ORDER_CREATED" /\ stream'[i].order = o /\ i \in unanswered'
<1>0. /\ TypeOK /\ Positions /\ ToActivate /\ read["projection"] \in Nat /\ Len(stream) \in Nat
      /\ store \subseteq store'
  BY MessagesTyped, StoreStep DEF LifeInv, Subscriber, Stores
<1>1. projectPc' = "publish" => Event("ORDER_ACTIVATED", Projected'.order) \in store'
  <2> SUFFICES ASSUME projectPc' = "publish" PROVE Event("ORDER_ACTIVATED", Projected.order) \in store'
    BY <1>0, BusyStep, SameMessage
  <2>1. CASE projectPc = "publish"
    BY <1>0, <2>1 DEF ToActivate
  <2>2. CASE projectPc # "publish"
    <3>1. AppendActivated
      BY <2>2, Moves DEF Dies, Reboot, ProjectEvent, ProjectCreated, PublishActivated, ProjectStatus, ProjectNothing
    <3> QED
      BY <3>1 DEF AppendActivated
  <2> QED
    BY <2>1, <2>2
<1>2. SUFFICES ASSUME NEW i \in 1..Len(stream'), NEW j \in 1..Len(stream'),
                      i > read'["projection"], stream'[i].type = "ORDER_CREATED",
                      stream'[j].type = "ORDER_ACTIVATED", stream'[j].order = stream'[i].order
               PROVE  j \in unanswered' \/ Again(stream'[i].order)
  BY <1>1 DEF ToActivate, Event, IsAt, SentAgain
<1>3. /\ read["projection"] <= read'["projection"] /\ read'["projection"] \in Nat
      /\ \A k \in 1..Len(stream) : k \in 1..Len(stream') /\ stream'[k] = stream[k]
      /\ unanswered \subseteq unanswered'
  <2>1. Len(stream') \in Nat
    BY <1>0, TypeStep, LenProperties DEF TypeOK
  <2>2. read'["projection"] \in Nat
    BY <1>0, TypeStep DEF TypeOK, Subscriber
  <2>3. /\ Len(stream) <= Len(stream') /\ \A k \in 1..Len(stream) : stream'[k] = stream[k]
        /\ unanswered \subseteq unanswered'
    BY TopicsGrow
  <2>4. read["projection"] <= read'["projection"]
    BY PositionsStep
  <2> QED
    BY ONLY <1>0, <2>1, <2>2, <2>3, <2>4
<1>4. ASSUME i \in 1..Len(stream), j \in 1..Len(stream) PROVE j \in unanswered' \/ Again(stream'[i].order)
  <2>1. stream'[i] = stream[i] /\ stream'[j] = stream[j] /\ i > read["projection"]
    BY <1>0, <1>2, <1>3, <1>4
  <2>2. j \in unanswered \/ SentAgain(stream[i].order)
    BY <1>0, <1>2, <1>4, <2>1 DEF ToActivate, IsAt
  <2> QED
    BY <1>3, <2>1, <2>2 DEF SentAgain, IsAt
<1>5. ASSUME NEW e \in StoredEvent, Publishes(e) PROVE j \in unanswered' \/ Again(stream'[i].order)
  <2> DEFINE n == Len(stream)
  <2>1. /\ n \in Nat /\ Len(stream') = n + 1 /\ stream'[n + 1] = e
        /\ \A k \in 1..n : stream'[k] = stream[k]
    BY <1>5, PublishEffect
  <2>2. i # j
    BY <1>2
  <2>3. CASE i = n + 1
    <3>1. j \in 1..n /\ stream'[j] = stream[j]
      BY <2>1, <2>2, <2>3
    <3>2. PICK k \in 1..n : stream[k].type = "ORDER_CREATED" /\ stream[k].order = stream[j].order
      BY <1>2, <3>1 DEF LifeInv, CausalOrder, At
    <3>3. stream[k] = e /\ e.type = "ORDER_CREATED"
      BY <1>2, <2>1, <2>3, <3>1, <3>2, MessagesTyped DEF StoredEvent, EventType, LifeInv
    <3>4. k \in unanswered
      BY <1>5, <3>3 DEF Publishes
    <3> QED
      BY <1>2, <1>3, <3>1, <3>2, <3>4
  <2>4. CASE j = n + 1
    <3>1. i \in 1..n /\ stream'[i] = stream[i]
      BY <2>1, <2>2, <2>4
    <3>2. e.type = "ORDER_ACTIVATED" /\ e.order = stream[i].order
      BY <1>2, <2>1, <2>4, <3>1
    <3>3. PublishActivated /\ e.order = Projected.order /\ (Land(e) \/ LandUnanswered(e))
      <4>1. ~Unpublished
        BY <2>1 DEF Unpublished
      <4>2. PICK f \in StoredEvent :
              /\ Lands(f)
              /\ \/ PublishCreated /\ f.type = "ORDER_CREATED"
                 \/ PublishRejected /\ f.type = "ORDER_REJECTED"
                 \/ PublishCanceled /\ f.type = "ORDER_CANCELED"
                 \/ PublishActivated /\ f.type = "ORDER_ACTIVATED" /\ f.order = Projected.order /\ (Land(f) \/ LandUnanswered(f))
                 \/ \E t \in trades : PublishTrade(t) /\ f = TradeEvent(t) /\ f.type = "TRADE_EXECUTED"
        BY <4>1, Publishers
      <4>3. stream \in Seq(StoredEvent) /\ stream' = Append(stream, f)
        BY <1>0, <4>2 DEF TypeOK, Lands
      <4>4. stream'[n + 1] = f
        BY ONLY <4>2, <4>3, Extended
      <4>5. f = e
        BY <2>1, <4>4
      <4> QED
        BY <3>2, <4>2, <4>5
    <3>4. CASE LandUnanswered(e)
      BY <2>4, <3>4 DEF LandUnanswered
    <3>5. CASE ~LandUnanswered(e)
      <4> DEFINE p == read["projection"] + 1
      <4>1. p \in 1..n /\ Projected = stream[p] /\ Projected.type = "ORDER_CREATED" /\ Projected \in StoredEvent
        BY <1>0, <2>1, <3>3, AtWork, MessagesTyped DEF PublishActivated, Projected, Current, Positions, Subscriber
      <4>2. stream[i].type = "ORDER_CREATED" /\ stream[i] \in StoredEvent /\ stream[i].order = Projected.order
        BY <1>0, <1>2, <3>1, <3>2, <3>3, MessagesTyped
      <4>3. stream[p] = stream[i]
        BY <4>1, <4>2 DEF StoredEvent, EventType
      <4>4. read'["projection"] = p
        <5>1. Finish("projection")
          <6>1. stream' # stream
            BY <2>1
          <6>2. e = Event("ORDER_ACTIVATED", Projected.order)
            BY <3>2, <3>3 DEF StoredEvent, EventType, Event
          <6> QED
            BY <3>3, <3>5, <6>1, <6>2 DEF PublishActivated
        <5> QED
          BY <1>0, <5>1, FinishTyped DEF Subscriber
      <4>5. p < i
        BY <1>2, <4>4
      <4>6. p \in unanswered
        BY <3>1, <4>1, <4>3, <4>5 DEF LifeInv, PublishedOnce
      <4> QED
        BY <1>3, <3>1, <4>1, <4>3, <4>6
    <3> QED
      BY <3>4, <3>5
  <2> QED
    BY <1>4, <2>1, <2>3, <2>4
<1> QED
  BY <1>3, <1>4, <1>5, PublishStep DEF Unpublished

\* FedTwice after a step.
ThenFedTwice(o) ==
    \E i, j \in 1..read'["matching"] :
        /\ i < j
        /\ stream'[i].type = "ORDER_ACTIVATED" /\ stream'[i].order = o
        /\ stream'[j].type = "ORDER_ACTIVATED" /\ stream'[j].order = o
ThenFedOnce(t) == ~ThenFedTwice(t.taker.order) /\ ~ThenFedTwice(t.maker.order)

LEMMA FedTwiceThen ==
  ASSUME LifeInv, Next
  PROVE  /\ \A o : FedTwice(o)' <=> ThenFedTwice(o)
         /\ \A o : FedTwice(o) => ThenFedTwice(o)
<1>0. /\ TypeOK /\ Positions /\ TypeOK' /\ read["matching"] \in Nat /\ Len(stream) \in Nat /\ read["matching"] <= Len(stream)
  BY TypeStep, MessagesTyped DEF LifeInv, Positions, Subscriber
<1>1. Len(stream') \in Nat /\ read'["matching"] \in Nat
  BY <1>0, LenProperties DEF TypeOK, Subscriber
<1>2. Len(stream) <= Len(stream') /\ \A i \in 1..Len(stream) : stream'[i] = stream[i]
  BY TopicsGrow
<1>3. read["matching"] <= read'["matching"] /\ read'["matching"] <= Len(stream)
  BY PositionsStep
<1>4. \A i : i \in 1..read'["matching"] <=> i \in 1..Len(stream') /\ i <= read'["matching"]
  BY ONLY <1>0, <1>1, <1>2, <1>3
<1>5. ASSUME NEW o PROVE FedTwice(o)' <=> ThenFedTwice(o)
  <2>1. FedTwice(o)' <=> \E i, j \in 1..Len(stream') :
          /\ stream'[i].type = "ORDER_ACTIVATED" /\ stream'[i].order = o
          /\ stream'[j].type = "ORDER_ACTIVATED" /\ stream'[j].order = o
          /\ i < j /\ j <= read'["matching"]
    BY DEF FedTwice, At
  <2> QED
    BY <1>1, <1>4, <2>1 DEF ThenFedTwice
<1>6. ASSUME NEW o, FedTwice(o) PROVE ThenFedTwice(o)
  <2>1. PICK i \in 1..Len(stream), j \in 1..Len(stream) :
          /\ stream[i].type = "ORDER_ACTIVATED" /\ stream[i].order = o
          /\ stream[j].type = "ORDER_ACTIVATED" /\ stream[j].order = o
          /\ i < j /\ j <= read["matching"]
    BY <1>6 DEF FedTwice, At
  <2>2. i \in 1..read'["matching"] /\ j \in 1..read'["matching"] /\ stream'[i] = stream[i] /\ stream'[j] = stream[j]
    BY <1>0, <1>1, <1>2, <1>3, <2>1
  <2> QED
    BY <2>1, <2>2 DEF ThenFedTwice
<1> QED
  BY <1>5, <1>6

LEMMA TradesInHandStep ==
  ASSUME LifeInv, Next PROVE TradesInHand'
<1>0. TypeOK /\ Positions /\ TradesInHand /\ TypeOK'
  BY TypeStep DEF LifeInv
<1> DEFINE Goal ==
             /\ \A t \in trades' : ThenFed(t.taker) /\ ThenFed(t.maker)
             /\ \A t \in trades' : t.stored => ThenToPublish(TradeEvent(t))
             /\ \A t \in trades' : ~t.stored /\ ThenFedOnce(t) => TradeEvent(t) \notin store'
             /\ \A t, u \in trades' :
                  TradeEvent(t) = TradeEvent(u) /\ ((t.stored /\ u.stored) \/ ThenFedOnce(t)) => t = u
             /\ \A e \in store' : e.type = "TRADE_EXECUTED" => ThenActivated(e.order)
<1>1. Goal => TradesInHand'
  <2>1. \A t : TradeEvent(t)' = TradeEvent(t)
    BY DEF TradeEvent
  <2>2. \A n : ThenFed(n) => NodeFed(n)'
    BY DEF ThenFed, NodeFed, IsAt
  <2>3. \A e : ThenToPublish(e) => ToPublish(e)'
    BY DEF ThenToPublish, ToPublish
  <2>4. \A t : FedOnce(t)' => ThenFedOnce(t)
    BY FedTwiceThen DEF FedOnce, ThenFedOnce
  <2>5. \A o : ThenActivated(o) => Activated(o)'
    BY DEF ThenActivated, Activated, IsAt
  <2> QED
    BY <2>1, <2>2, <2>3, <2>4, <2>5 DEF TradesInHand
<1>2. \A t : ThenFedOnce(t) => FedOnce(t)
  BY FedTwiceThen DEF FedOnce, ThenFedOnce
<1>3. \A e \in store' : e.type = "TRADE_EXECUTED" => ThenActivated(e.order)
  BY <1>0, Kept, StoreStep DEF Stores, TradesInHand
<1>4. /\ \A t \in trades : t \in [taker : Node, maker : Node, stored : BOOLEAN] /\ TradeEvent(t) \in StoredEvent
      /\ \A t : TradeEvent(t).type = "TRADE_EXECUTED"
  BY <1>0, EventsTyped DEF TypeOK, TradeEvent
<1>5. \A t, u \in trades : TradeEvent(t) = TradeEvent(u) /\ ((t.stored /\ u.stored) \/ FedOnce(t)) => t = u
  BY <1>0 DEF TradesInHand
<1>6. \A t \in trades : ThenFed(t.taker) /\ ThenFed(t.maker)
  BY <1>0, Kept DEF TradesInHand
<1>7. /\ \A t \in trades : t.stored => ToPublish(TradeEvent(t)) /\ TradeEvent(t) \in store
      /\ \A t \in trades : ~t.stored /\ FedOnce(t) => TradeEvent(t) \notin store
  BY <1>0 DEF TradesInHand, ToPublish
<1> HIDE DEF ThenFedOnce, FedOnce
<1>8. CASE trades' = {}
  BY <1>1, <1>3, <1>8
<1>9. ASSUME NEW x \in trades, AppendTrade(x) PROVE TradesInHand'
  <2> DEFINE y == [x EXCEPT !.stored = TRUE]
  <2>1. /\ y.taker = x.taker /\ y.maker = x.maker /\ y.stored = TRUE /\ TradeEvent(y) = TradeEvent(x)
        /\ ThenFedOnce(y) => FedOnce(x)
    BY <1>2, <1>4 DEF TradeEvent, ThenFedOnce, FedOnce
  <2>2. ~x.stored /\ stream' = stream /\ unanswered' = unanswered /\ store \subseteq store'
    BY <1>9 DEF AppendTrade
  <2>3. \A t \in trades : t.stored => ThenToPublish(TradeEvent(t))
    BY <1>7, <2>2 DEF ToPublish, ThenToPublish
  <2>4. CASE trades' = trades \ {x} /\ store' = store
    BY <1>1, <1>2, <1>3, <1>5, <1>6, <1>7, <2>3, <2>4
  <2>5. CASE ~IsDuplicate(TradeEvent(x)) /\ store' = store \cup {TradeEvent(x)} /\ trades' = (trades \ {x}) \cup {y}
    <3>1. ThenToPublish(TradeEvent(y))
      BY <2>1, <2>2, <2>5, Keyed, NewToPublish
    <3>2. TradeEvent(x) \notin store
      BY <2>5, Keyed DEF IsDuplicate
    <3> HIDE DEF y
    <3>3. \A t \in trades' : (t \in trades /\ t # x) \/ t = y
      BY <2>5
    <3>4. \A t \in trades' : ThenFed(t.taker) /\ ThenFed(t.maker)
      BY <1>6, <2>1, <3>3
    <3>5. \A t \in trades' : t.stored => ThenToPublish(TradeEvent(t))
      BY <2>3, <3>1, <3>3
    <3>6. ASSUME NEW t \in trades', ~t.stored, ThenFedOnce(t) PROVE TradeEvent(t) \notin store'
      <4>1. t \in trades /\ t # x /\ FedOnce(t)
        BY <1>2, <2>1, <3>3, <3>6
      <4>2. TradeEvent(t) # TradeEvent(x) /\ TradeEvent(t) \notin store
        BY <1>5, <1>7, <3>6, <4>1
      <4> QED
        BY <2>5, <4>2
    <3>7. ASSUME NEW t \in trades', NEW u \in trades', TradeEvent(t) = TradeEvent(u), (t.stored /\ u.stored) \/ ThenFedOnce(t)
          PROVE  t = u
      <4>1. CASE t = y /\ u # y
        <5>1. u \in trades /\ u # x /\ TradeEvent(u) = TradeEvent(x)
          BY <2>1, <3>3, <3>7, <4>1
        <5>2. ~u.stored
          BY <1>7, <3>2, <5>1
        <5>3. FedOnce(x)
          BY <2>1, <3>7, <4>1, <5>2
        <5> QED
          BY <1>5, <5>1, <5>3
      <4>2. CASE u = y /\ t # y
        <5>1. t \in trades /\ t # x /\ TradeEvent(t) = TradeEvent(x)
          BY <2>1, <3>3, <3>7, <4>2
        <5>2. ~t.stored
          BY <1>7, <3>2, <5>1
        <5>3. FedOnce(t)
          BY <1>2, <3>7, <5>2
        <5> QED
          BY <1>5, <5>1, <5>3
      <4>3. CASE t # y /\ u # y
        BY <1>2, <1>5, <3>3, <3>7, <4>3
      <4> QED
        BY <4>1, <4>2, <4>3
    <3> QED
      BY <1>1, <1>3, <3>4, <3>5, <3>6, <3>7
  <2> QED
    BY <1>9, <2>4, <2>5 DEF AppendTrade
<1>10. ASSUME NEW x \in trades, PublishTrade(x) PROVE TradesInHand'
  <2>1. /\ x.stored /\ store' = store /\ trades' \subseteq trades
        /\ LandUnanswered(TradeEvent(x)) \/ (Land(TradeEvent(x)) /\ trades' = trades \ {x})
    BY <1>10 DEF PublishTrade
  <2>2. ASSUME NEW t \in trades', t.stored PROVE ThenToPublish(TradeEvent(t))
    <3>1. t \in trades /\ ToPublish(TradeEvent(t)) /\ TradeEvent(t) \in StoredEvent /\ TradeEvent(x) \in StoredEvent
      BY <1>4, <1>7, <2>1, <2>2
    <3>2. CASE t = x
      BY <2>1, <2>2, <3>1, <3>2, StillToPublish
    <3>3. CASE t # x
      <4>1. TradeEvent(t) # TradeEvent(x)
        BY <1>5, <2>1, <2>2, <3>1, <3>3
      <4>2. Lands(TradeEvent(x))
        BY <2>1, LandLands
      <4> QED
        BY <3>1, <4>1, <4>2, StillToPublish
    <3> QED
      BY <3>2, <3>3
  <2> QED
    BY <1>1, <1>2, <1>3, <1>5, <1>6, <1>7, <2>1, <2>2
<1>11. CASE FeedActivated
  <2> DEFINE p == read["matching"] + 1
             o == Fed.order
             new(m) == [taker |-> FedNode, maker |-> m, stored |-> FALSE]
  <2>1. PICK makers, kept : \E rests \in BOOLEAN : Fills(makers, kept, rests)
    BY <1>11, FeedEffect
  <2>2. makers \subseteq book /\ trades' = trades \cup {new(m) : m \in makers}
    BY <2>1 DEF Fills, Opposing
  <2>3. /\ stream' = stream /\ unanswered' = unanswered /\ store' = store /\ Fed.type = "ORDER_ACTIVATED"
        /\ p \in 1..Len(stream) /\ Fed = stream[p]
        /\ read'["matching"] = p /\ read["matching"] \in Nat /\ Len(stream) \in Nat
    BY <1>0, <1>11, FinishTyped, MessagesTyped DEF FeedActivated, Pending, Fed, Current, Subscriber
  <2>4. ThenFed(FedNode) /\ FedNode.order = o
    <3>1. FedNode.at = p /\ FedNode.order = o
      BY DEF FedNode
    <3> QED
      BY <2>3, <3>1 DEF ThenFed
  <2>5. ASSUME ~ThenFedTwice(o), NEW i \in 1..read["matching"], IsAt("ORDER_ACTIVATED", o, i) PROVE FALSE
    <3>1. i \in 1..p /\ p \in 1..p /\ i < p
      BY <2>3
    <3> QED
      BY <2>3, <2>5, <3>1 DEF ThenFedTwice, IsAt
  <2>6. /\ ~ThenFedTwice(o) => ~Activated(o)
        /\ ~ThenFedTwice(o) => \A n : NodeFed(n) => n.order # o
    BY <2>5 DEF Activated, NodeFed
  <2>7. \A m \in makers : m \in Node /\ NodeFed(m) /\ ThenFed(m)
    BY <1>0, <2>2, Kept DEF LifeInv, Known, TypeOK
  <2>8. ASSUME NEW m \in makers, NEW n \in makers, m.order = n.order, ~ThenFedTwice(m.order) PROVE m = n
    <3>1. ThenFed(m) /\ ThenFed(n) /\ m \in Node /\ n \in Node /\ m.at \in Nat /\ n.at \in Nat
      BY <2>7 DEF Node
    <3>2. ~(m.at < n.at) /\ ~(n.at < m.at)
      BY <2>8, <3>1 DEF ThenFed, ThenFedTwice
    <3>3. m.at = n.at
      BY <3>1, <3>2
    <3> QED
      BY <2>8, <3>1, <3>3 DEF Node
  <2>9. /\ \A m : new(m).taker = FedNode /\ new(m).maker = m /\ new(m).stored = FALSE
        /\ \A m : TradeEvent(new(m)).order = o /\ TradeEvent(new(m)).maker = m.order
        /\ \A t : TradeEvent(t).order = t.taker.order /\ TradeEvent(t).maker = t.maker.order
    BY <2>4 DEF TradeEvent
  <2>10. \A t \in trades' : t \in trades \/ \E m \in makers : t = new(m)
    BY ONLY <2>2
  <2>11. \A m \in makers : ThenFedOnce(new(m)) => ~ThenFedTwice(o) /\ ~ThenFedTwice(m.order)
    BY <2>4, <2>9 DEF ThenFedOnce
  <2>12. \A t : ThenFedOnce(t) => ~ThenFedTwice(t.taker.order)
    BY DEF ThenFedOnce
  <2>13. \A t \in trades : NodeFed(t.taker)
    BY <1>0 DEF TradesInHand
  <2> HIDE DEF new, o, p
  <2>14. \A t \in trades' : ThenFed(t.taker) /\ ThenFed(t.maker)
    BY <1>6, <2>4, <2>7, <2>9, <2>10
  <2>15. ASSUME NEW t \in trades', t.stored PROVE ThenToPublish(TradeEvent(t))
    <3>1. t \in trades
      BY <2>9, <2>10, <2>15
    <3> QED
      BY <1>7, <2>3, <2>15, <3>1 DEF ToPublish, ThenToPublish
  <2>16. ASSUME NEW t \in trades', ~t.stored, ThenFedOnce(t) PROVE TradeEvent(t) \notin store'
    <3>1. CASE t \in trades
      BY <1>2, <1>7, <2>3, <2>16, <3>1
    <3>2. ASSUME NEW m \in makers, t = new(m) PROVE TradeEvent(t) \notin store'
      <4>1. ~Activated(o) /\ TradeEvent(t).order = o /\ TradeEvent(t).type = "TRADE_EXECUTED"
        BY <1>4, <2>6, <2>9, <2>11, <2>16, <3>2
      <4> QED
        BY <1>0, <2>3, <4>1 DEF TradesInHand
    <3> QED
      BY <2>10, <3>1, <3>2
  <2>17. ASSUME NEW t \in trades', NEW u \in trades', TradeEvent(t) = TradeEvent(u), (t.stored /\ u.stored) \/ ThenFedOnce(t)
         PROVE  t = u
    <3>1. CASE t \in trades /\ u \in trades
      BY <1>2, <1>5, <2>17, <3>1
    <3>2. ASSUME NEW m \in makers, t = new(m), u \in trades PROVE FALSE
      <4>1. ~ThenFedTwice(o)
        BY <2>9, <2>11, <2>17, <3>2
      <4>2. u.taker.order = o
        <5>1. TradeEvent(new(m)).order = o /\ TradeEvent(u).order = u.taker.order
          BY <2>9
        <5> QED
          BY ONLY <2>17, <3>2, <5>1
      <4> QED
        BY <2>6, <2>13, <3>2, <4>1, <4>2
    <3>3. ASSUME NEW m \in makers, u = new(m), t \in trades PROVE FALSE
      <4>1. t.taker.order = o
        <5>1. TradeEvent(new(m)).order = o /\ TradeEvent(t).order = t.taker.order
          BY <2>9
        <5> QED
          BY ONLY <2>17, <3>3, <5>1
      <4>2. ~ThenFedTwice(o)
        BY <2>9, <2>12, <2>17, <3>3, <4>1
      <4> QED
        BY <2>6, <2>13, <3>3, <4>1, <4>2
    <3>4. ASSUME NEW m \in makers, NEW n \in makers, t = new(m), u = new(n) PROVE t = u
      <4>1. m.order = n.order /\ ~ThenFedTwice(m.order)
        BY <2>9, <2>11, <2>17, <3>4
      <4> QED
        BY <2>8, <3>4, <4>1
    <3> QED
      BY <2>10, <3>1, <3>2, <3>3, <3>4
  <2> QED
    BY <1>1, <1>3, <2>14, <2>15, <2>16, <2>17
<1>12. CASE trades' = trades /\ ~\E t \in trades : AppendTrade(t) \/ PublishTrade(t)
  <2>1. Unpublished \/ \E f \in StoredEvent : f.type # "TRADE_EXECUTED" /\ Lands(f)
    BY <1>12, Publishers
  <2>2. store' = store \/ \E f : f.type # "TRADE_EXECUTED" /\ store' = store \cup {f}
    <3>1. \A type, q : Event(type, q).type = type
      BY DEF Event
    <3>2. CASE store' = store
      BY <3>2
    <3>3. CASE AppendCreated \/ AppendRejected \/ AppendCanceled \/ AppendActivated
      BY <3>1, <3>3 DEF AppendCreated, AppendRejected, AppendCanceled, AppendActivated
    <3> QED
      BY <1>12, <3>2, <3>3 DEF Next, Skip, PlaceOrder, RequestCancel, ResendCancel, ProcessIntent, ProcessCancel, ProjectEvent, Feed,
         HandleTrade, Restart, FailTrade, CheckRisk, PublishCreated, PublishRejected, PublishCanceled,
         ProjectCreated, PublishActivated, ProjectStatus, ProjectNothing, FeedActivated, FeedCanceled, FeedNothing
  <2>3. \A t \in trades : t.stored => ThenToPublish(TradeEvent(t))
    BY <1>4, <1>7, <2>1, StillToPublish
  <2>4. \A t \in trades : ~t.stored /\ ThenFedOnce(t) => TradeEvent(t) \notin store'
    BY <1>2, <1>4, <1>7, <2>2
  <2> QED
    BY <1>1, <1>2, <1>3, <1>5, <1>6, <1>12, <2>3, <2>4
<1> QED
  BY <1>8, <1>9, <1>10, <1>11, <1>12, Moves DEF Dies, Reboot

LEMMA LifeStep == LifeInv /\ [Next]_vars => LifeInv'
<1>1. ASSUME LifeInv, Next PROVE LifeInv'
  <2>1. TypeOK' /\ Positions' /\ KeysApart'
    BY <1>1, TypeStep, PositionsStep, KeysStep DEF LifeInv
  <2>2. PublishedOnce' /\ CausalOrder' /\ CanceledLeavesBook'
    BY <1>1, PublishedOnceStep, CausalStep, LeavesBookStep
  <2>3. IntentInHand' /\ CancelInHand' /\ ToActivate' /\ TradesInHand' /\ Mapped' /\ Known'
    BY <1>1, IntentInHandStep, CancelInHandStep, ToActivateStep, TradesInHandStep, MappedStep, KnownStep
  <2> QED
    BY <2>1, <2>2, <2>3 DEF LifeInv
<1>2. ASSUME LifeInv, UNCHANGED vars PROVE LifeInv'
  <2>1. TypeOK' /\ Positions' /\ KeysApart'
    BY <1>2 DEF LifeInv, vars, TypeOK, Positions, KeysApart, Projected, Current
  <2>2. PublishedOnce' /\ CausalOrder' /\ CanceledLeavesBook'
    BY <1>2 DEF LifeInv, vars, PublishedOnce, CausalOrder, CanceledLeavesBook, At
  <2>3. IntentInHand' /\ CancelInHand'
    BY <1>2 DEF LifeInv, vars, IntentInHand, CancelInHand, Current, ToPublish
  <2>4. ToActivate' /\ Mapped' /\ Known'
    BY <1>2 DEF LifeInv, vars, ToActivate, Mapped, Known, Projected, Current, IsAt, Created, NodeFed, SentAgain
  <2>5. TradesInHand'
    BY <1>2 DEF LifeInv, vars, TradesInHand, IsAt, Activated, NodeFed, ToPublish, FedOnce, FedTwice, At
  <2> QED
    BY <2>1, <2>2, <2>3, <2>4, <2>5 DEF LifeInv
<1> QED
  BY <1>1, <1>2

\* The inductive invariant of an order's life.
THEOREM LifecycleInvariant == Spec => []LifeInv
BY LifeStarts, LifeStep, PTL DEF Spec

\* Type correctness, and one outcome of each intent: creation and rejection have one key
\* (processIntent and its catch block in omsEngine.ts, UNIQUE in event_store).
THEOREM LifecycleStoreSound == Spec => []StoreSound
<1>1. LifeInv => StoreSound
  <2> SUFFICES ASSUME LifeInv PROVE StoreSound
    OBVIOUS
  <2>1. ASSUME NEW o \in Order, Event("ORDER_CREATED", o) \in store, Event("ORDER_REJECTED", o) \in store
        PROVE  FALSE
    <3>1. /\ KeyOf(Event("ORDER_CREATED", o)) = {<<o>>} /\ KeyOf(Event("ORDER_REJECTED", o)) = {<<o>>}
          /\ Event("ORDER_CREATED", o) # Event("ORDER_REJECTED", o)
      BY DEF KeyOf, Event
    <3> QED
      BY <2>1, <3>1 DEF LifeInv, KeysApart
  <2> QED
    BY <2>1 DEF LifeInv, StoreSound, CreatedXorRejected
<1> QED
  BY <1>1, LifecycleInvariant, PTL

\* However often a client repeats an intent or a cancellation and whatever fails, each event
\* on order.events is stored, and is there a second time only if ioredis sent its XADD again
\* or, an activation, if the creation of its order was sent again.
THEOREM LifecyclePublishedOnce == Spec => []PublishedOnce
<1>1. LifeInv => PublishedOnce
  BY DEF LifeInv
<1> QED
  BY <1>1, LifecycleInvariant, PTL

\* An order is created before it is activated or cancelled, and activated before it trades.
THEOREM LifecycleCausal == Spec => []CausalOrder
<1>1. LifeInv => CausalOrder
  BY DEF LifeInv
<1> QED
  BY <1>1, LifecycleInvariant, PTL

\* A cancellation that follows the activation takes the node out of the book for good, unless
\* the order was activated once more before it (the map keeps one node per id).
THEOREM LifecycleCancelLeaves == Spec => []CanceledLeavesBook
<1>1. LifeInv => CanceledLeavesBook
  BY DEF LifeInv
<1> QED
  BY <1>1, LifecycleInvariant, PTL

\* The key taker-maker is new to the store when a trade is appended (matchingEngine.ts):
\* a pair of orders that were fed once each trades once.
THEOREM LifecycleNoTradeDropped == Spec => []NoTradeDropped
<1>1. LifeInv => NoTradeDropped
  <2> SUFFICES ASSUME LifeInv, NEW t \in trades, ~t.stored, FedOnce(t), NEW f \in store,
                      KeyOf(TradeEvent(t)) \cap KeyOf(f) # {}
               PROVE  FALSE
    BY DEF NoTradeDropped, IsDuplicate, FedOnce
  <2>1. t \in [taker : Node, maker : Node, stored : BOOLEAN] /\ f \in StoredEvent
    BY DEF LifeInv, TypeOK
  <2>2. <<t.taker.order, t.maker.order>> \in KeyOf(f) /\ t.taker.order \in Order /\ t.maker.order \in Order
    BY <2>1 DEF KeyOf, TradeEvent, Node
  <2>3. CASE f.type = "TRADE_EXECUTED"
    <3>1. f.order = t.taker.order /\ f.maker = t.maker.order
      BY <2>2, <2>3 DEF KeyOf
    <3>2. f = TradeEvent(t)
      BY <2>1, <2>3, <3>1 DEF StoredEvent, EventType, TradeEvent
    <3> QED
      BY <3>2 DEF LifeInv, TradesInHand
  <2>4. CASE f.type = "ORDER_CANCELED"
    BY <2>2, <2>4, LifecycleAssumption DEF KeyOf
  <2>5. CASE f.type \notin {"TRADE_EXECUTED", "ORDER_CANCELED"}
    <3>1. Len(<<t.taker.order, t.maker.order>>) = 2 /\ Len(<<f.order>>) = 1
      OBVIOUS
    <3> QED
      BY <2>2, <2>5, <3>1 DEF KeyOf
  <2> QED
    BY <2>3, <2>4, <2>5
<1> QED
  BY <1>1, LifecycleInvariant, PTL

-----------------------------------------------------------------------------
\* The activations and cancellations of o that the table repeats, the indexes after a up to
\* p, whether its creation is among them, and the status e tells.
Told(s, o, a, p) == {i \in a + 1..p : s[i].order = o /\ s[i].type \in {"ORDER_ACTIVATED", "ORDER_CANCELED"}}
Inserted(s, o, a, p) == \E i \in a + 1..p : s[i].order = o /\ s[i].type = "ORDER_CREATED"
StatusOf(e) == IF e.type = "ORDER_ACTIVATED" THEN FirstStatus(e.order) ELSE "CANCELED"

\* A status that repeats the newest of those events.
Repeats(status, s, o, a, p) ==
    /\ status = "NONE" <=> ~Inserted(s, o, a, p)
    /\ status # "NONE" =>
         \/ Told(s, o, a, p) = {} /\ status = "PENDING"
         \/ \E i \in Told(s, o, a, p) : (\A j \in Told(s, o, a, p) : j <= i) /\ status = StatusOf(s[i])

\* How far the table has come: the row is inserted before the creation is finished.
Reached == read["projection"] + (IF projectPc = "idle" THEN 0 ELSE 1)

RowInv ==
    faults = 0 /\ crashes = 0 =>
      /\ \A o \in Order : Repeats(row[o], stream, o, since["projection"], Reached)
      /\ \A i \in 1..Len(stream) :
           stream[i].type \in {"ORDER_ACTIVATED", "ORDER_CANCELED"} => i > since["projection"]

\* Nothing has failed in a step after which nothing has.
LEMMA FailuresCounted ==
  ASSUME TypeOK, Next, faults' = 0, crashes' = 0
  PROVE  faults = 0 /\ crashes = 0 /\ ~Fault /\ ~Dies
<1>1. faults \in Nat /\ crashes \in Nat
  BY DEF TypeOK
<1>2. faults' = faults \/ faults' = faults + 1
  BY DEF Next, Skip, PlaceOrder, RequestCancel, ResendCancel, ProcessIntent, ProcessCancel, ProjectEvent, Feed, HandleTrade,
         Restart, FailTrade, CheckRisk, AppendCreated, PublishCreated, AppendRejected, PublishRejected, AppendCanceled,
         PublishCanceled, ProjectCreated, AppendActivated, PublishActivated, ProjectStatus, ProjectNothing,
         FeedActivated, FeedCanceled, FeedNothing, AppendTrade, PublishTrade, Fault, NoFault
<1>3. crashes' = crashes \/ crashes' = crashes + 1
  BY DEF Next, Skip, PlaceOrder, RequestCancel, ResendCancel, ProcessIntent, ProcessCancel, ProjectEvent, Feed, HandleTrade,
         Restart, FailTrade, CheckRisk, AppendCreated, PublishCreated, AppendRejected, PublishRejected, AppendCanceled,
         PublishCanceled, ProjectCreated, AppendActivated, PublishActivated, ProjectStatus, ProjectNothing,
         FeedActivated, FeedCanceled, FeedNothing, AppendTrade, PublishTrade
<1>4. ~Fault
  BY <1>1 DEF Fault
<1>5. ~Dies
  BY <1>1, <1>4 DEF Dies, Restart, FailTrade
<1> QED
  BY <1>1, <1>2, <1>3, <1>4, <1>5

\* Only the projection moves the table, and it moves by one event, or loses what is there
\* before it has handled any.
LEMMA RowMoves ==
  ASSUME LifeInv, Next, ~Dies, ~Fault
  PROVE  \/ row' = row /\ Reached' = Reached /\ since'["projection"] = since["projection"]
         \/ /\ (ProjectCreated \/ ProjectStatus \/ ProjectNothing) /\ Reached' = Reached + 1
            /\ since'["projection"] = since["projection"]
         \/ Skip("projection")
<1>0. /\ TypeOK /\ Subscriber = {"intents", "cancels", "projection", "matching"}
      /\ read["projection"] \in Nat
  BY MessagesTyped DEF LifeInv, Subscriber
<1>1. CASE ProjectCreated \/ ProjectStatus \/ ProjectNothing
  <2>1. \/ projectPc' = "append" /\ read' = read /\ since' = since
        \/ projectPc' = "idle" /\ Finish("projection")
    BY <1>1 DEF ProjectCreated, ProjectStatus, ProjectNothing
  <2>2. projectPc = "idle"
    BY <1>1 DEF ProjectCreated, ProjectStatus, ProjectNothing
  <2> QED
    BY <1>0, <1>1, <2>1, <2>2, FinishTyped DEF Reached
<1>2. CASE AppendActivated
  BY <1>2 DEF AppendActivated, Reached
<1>3. CASE PublishActivated
  <2>1. \/ projectPc' = projectPc /\ read' = read /\ since' = since
        \/ projectPc' = "idle" /\ Finish("projection")
    BY <1>3 DEF PublishActivated
  <2> QED
    BY <1>0, <1>3, <2>1, FinishTyped DEF Reached, PublishActivated
<1>4. CASE ~ProjectEvent
  <2>1. row' = row /\ projectPc' = projectPc
    BY <1>4, Moves DEF ProjectEvent
  <2>2. \/ read' = read /\ since' = since
        \/ \E s \in Subscriber \ {"projection"} : Finish(s) \/ Skip(s)
        \/ Skip("projection")
    BY <1>0, <1>4, Moves
  <2>3. ASSUME NEW s \in Subscriber \ {"projection"}, Finish(s) \/ Skip(s)
        PROVE  read'["projection"] = read["projection"] /\ since'["projection"] = since["projection"]
    BY <1>0, <2>3, FinishTyped DEF Skip, TypeOK
  <2> QED
    BY <2>1, <2>2, <2>3 DEF Reached
<1> QED
  BY <1>1, <1>2, <1>3, <1>4 DEF ProjectEvent

\* A row that is not there has nothing told of it.
LEMMA ToldOfRows ==
  ASSUME LifeInv, NEW i \in 1..Len(stream), stream[i].type \in {"ORDER_ACTIVATED", "ORDER_CANCELED"}
  PROVE  row[stream[i].order] # "NONE"
BY DEF LifeInv, Known

LEMMA RowStep ==
  ASSUME LifeInv, RowInv, Next PROVE RowInv'
<1> DEFINE a == since["projection"]
           Later == \A i \in 1..Len(stream') :
             stream'[i].type \in {"ORDER_ACTIVATED", "ORDER_CANCELED"} => i > since'["projection"]
<1> SUFFICES ASSUME faults' = 0, crashes' = 0
             PROVE  Later /\ \A o \in Order : Repeats(row'[o], stream', o, since'["projection"], Reached')
  BY DEF RowInv
<1>0. /\ TypeOK /\ Positions /\ read["projection"] \in Nat /\ Len(stream) \in Nat /\ a \in Nat /\ a <= read["projection"]
      /\ read["projection"] <= Len(stream)
  BY MessagesTyped DEF LifeInv, Subscriber, Positions
<1>1. faults = 0 /\ crashes = 0 /\ ~Dies /\ ~Fault
  BY <1>0, FailuresCounted
<1>2. PICK p \in Nat : p = Reached
  BY <1>0 DEF Reached
<1>3. a <= p /\ p <= Len(stream)
  BY <1>0, <1>2 DEF Reached, Positions
<1>4. /\ \A o \in Order : Repeats(row[o], stream, o, a, p)
      /\ \A i \in 1..Len(stream) : stream[i].type \in {"ORDER_ACTIVATED", "ORDER_CANCELED"} => i > a
  BY <1>1, <1>2 DEF RowInv
<1>5. ASSUME since'["projection"] = a PROVE Later
  <2>1. CASE Unpublished
    BY <1>4, <1>5, <2>1 DEF Unpublished
  <2>2. ASSUME NEW e \in StoredEvent, Publishes(e), NEW i \in 1..Len(stream'),
               stream'[i].type \in {"ORDER_ACTIVATED", "ORDER_CANCELED"}
        PROVE  i > a
    <3>1. CASE i \in 1..Len(stream)
      BY <1>4, <2>2, <3>1, PublishEffect
    <3>2. CASE i \notin 1..Len(stream)
      BY <1>0, <2>2, <3>2, PublishEffect
    <3> QED
      BY <3>1, <3>2
  <2> QED
    BY <1>5, <2>1, <2>2, PublishStep
<1>6. CASE row' = row /\ Reached' = p /\ since'["projection"] = a
  <2> SUFFICES ASSUME NEW o \in Order PROVE Repeats(row'[o], stream', o, a, p)
    BY <1>5, <1>6
  <2>1. \A i \in a + 1..p : stream'[i] = stream[i]
    BY <1>0, <1>3, TopicsGrow
  <2>2. Told(stream', o, a, p) = Told(stream, o, a, p) /\ (Inserted(stream', o, a, p) <=> Inserted(stream, o, a, p))
    BY <2>1 DEF Told, Inserted
  <2> QED
    BY <1>4, <1>6, <2>1, <2>2 DEF Repeats, Told
<1>7. CASE (ProjectCreated \/ ProjectStatus \/ ProjectNothing) /\ Reached' = p + 1 /\ since'["projection"] = a
  <2> SUFFICES ASSUME NEW o \in Order PROVE Repeats(row'[o], stream', o, a, p + 1)
    BY <1>5, <1>7
  <2> DEFINE e == stream[p + 1]
  <2>1. /\ projectPc = "idle" /\ p = read["projection"] /\ Pending("projection", stream) /\ stream' = stream
        /\ e = Projected
    <3>1. projectPc = "idle" /\ Pending("projection", stream) /\ stream' = stream
      BY <1>7 DEF ProjectCreated, ProjectStatus, ProjectNothing
    <3>2. p = read["projection"]
      BY <1>0, <1>2, <3>1 DEF Reached
    <3> QED
      BY <3>1, <3>2 DEF Projected, Current
  <2>2. p + 1 \in 1..Len(stream) /\ e \in StoredEvent /\ e.order \in Order
    BY <1>0, <2>1, MessagesTyped, EventsTyped DEF Pending
  <2>3. \A i : i \in a + 1..(p + 1) <=> i \in a + 1..p \/ i = p + 1
    BY <1>0, <1>3
  <2>4. Repeats(row[o], stream, o, a, p)
    BY <1>4
  <2> HIDE DEF e, a
  <2>5. CASE e.order # o \/ e.type \notin {"ORDER_CREATED", "ORDER_ACTIVATED", "ORDER_CANCELED"}
    <3>1. Told(stream, o, a, p + 1) = Told(stream, o, a, p) /\ (Inserted(stream, o, a, p + 1) <=> Inserted(stream, o, a, p))
      BY <2>3, <2>5 DEF Told, Inserted, e
    <3>2. row'[o] = row[o]
      BY <1>0, <1>7, <2>1, <2>5 DEF ProjectCreated, ProjectStatus, ProjectNothing, TypeOK
    <3> QED
      BY <2>1, <2>4, <3>1, <3>2 DEF Repeats
  <2>6. CASE e.order = o /\ e.type = "ORDER_CREATED"
    <3>1. Told(stream, o, a, p + 1) = Told(stream, o, a, p) /\ Inserted(stream, o, a, p + 1)
      BY <2>3, <2>6 DEF Told, Inserted, e
    <3>2. row'[o] = IF row[o] = "NONE" THEN "PENDING" ELSE row[o]
      BY <1>0, <1>1, <1>7, <2>1, <2>6 DEF ProjectCreated, ProjectStatus, ProjectNothing, TypeOK
    <3>3. row[o] = "NONE" => Told(stream, o, a, p) = {}
      <4>1. \A i \in Told(stream, o, a, p) : i \in 1..Len(stream) /\ stream[i].order = o /\ stream[i].type \in {"ORDER_ACTIVATED", "ORDER_CANCELED"}
        BY <1>0, <1>3 DEF Told, a
      <4> QED
        BY <4>1, ToldOfRows
    <3> QED
      BY <2>1, <2>4, <3>1, <3>2, <3>3 DEF Repeats
  <2>7. CASE e.order = o /\ e.type \in {"ORDER_ACTIVATED", "ORDER_CANCELED"}
    <3>1. row[o] # "NONE"
      BY <2>2, <2>7, ToldOfRows DEF e
    <3>2. Inserted(stream, o, a, p + 1)
      BY <2>3, <2>4, <3>1 DEF Repeats, Inserted
    <3>3. p + 1 \in Told(stream, o, a, p + 1) /\ \A j \in Told(stream, o, a, p + 1) : j <= p + 1
      BY <2>3, <2>7 DEF Told, e
    <3>4. row'[o] = StatusOf(e)
      BY <1>0, <1>1, <1>7, <2>1, <2>7, <3>1 DEF ProjectCreated, ProjectStatus, ProjectNothing, TypeOK, StatusOf
    <3>5. StatusOf(e) # "NONE"
      BY DEF StatusOf, FirstStatus
    <3> QED
      BY <2>1, <3>2, <3>3, <3>4, <3>5 DEF Repeats, e
  <2> QED
    BY <2>5, <2>6, <2>7
<1>8. CASE Skip("projection")
  <2>1. /\ read["projection"] = a /\ projectPc = "idle" /\ projectPc' = "idle" /\ row' = row /\ stream' = stream
        /\ read' = [read EXCEPT !["projection"] = Len(stream)] /\ since' = [since EXCEPT !["projection"] = Len(stream)]
    BY <1>8 DEF Skip, Topic
  <2>2. since'["projection"] = Len(stream) /\ Reached' = Len(stream) /\ Reached = a
    BY <1>0, <2>1 DEF TypeOK, Reached, Subscriber
  <2>3. ASSUME NEW o \in Order PROVE row[o] = "NONE"
    <3>1. ~Inserted(stream, o, a, p)
      BY <1>0, <1>2, <2>2 DEF Inserted
    <3> QED
      BY <1>4, <3>1 DEF Repeats
  <2>4. \A i \in 1..Len(stream) : stream[i].type \notin {"ORDER_ACTIVATED", "ORDER_CANCELED"}
    BY <1>0, <2>3, ToldOfRows, MessagesTyped, EventsTyped
  <2>5. \A o \in Order : ~Inserted(stream', o, since'["projection"], Reached')
    BY <1>0, <2>1, <2>2 DEF Inserted
  <2> QED
    BY <2>1, <2>3, <2>4, <2>5 DEF Repeats
<1> QED
  BY <1>1, <1>2, <1>6, <1>7, <1>8, RowMoves

\* The rows follow the stream, one event at a time.
LEMMA RowsFollow == Spec => []RowInv
<1>1. Init => RowInv
  BY DEF Init, RowInv, Repeats, Told, Inserted, Reached, Subscriber
<1>2. LifeInv /\ RowInv /\ [Next]_vars => RowInv'
  BY RowStep DEF vars, RowInv, Repeats, Told, Inserted, Reached
<1> QED
  BY <1>1, <1>2, LifeStarts, LifeStep, PTL DEF Spec

\* The orders table is a projection of the events (omsEngine.ts:155): unless a call failed
\* or the process was restarted, a row is there if the projection has handled its creation,
\* and has the status of the newest activation or cancellation it has handled.
THEOREM LifecycleRows == Spec => []RowIsProjection
<1>1. LifeInv /\ RowInv => RowIsProjection
  <2> SUFFICES ASSUME LifeInv, RowInv, faults = 0, crashes = 0, projectPc = "idle", NEW o \in Order
               PROVE  LET handled == since["projection"] + 1..read["projection"]
                          told == (At("ORDER_ACTIVATED", o) \cup At("ORDER_CANCELED", o)) \cap handled
                          newest == CHOOSE i \in told : \A j \in told : j <= i
                      IN  row[o] = IF At("ORDER_CREATED", o) \cap handled = {} THEN "NONE"
                                   ELSE IF told = {} THEN "PENDING"
                                   ELSE IF stream[newest].type = "ORDER_ACTIVATED" THEN FirstStatus(o)
                                   ELSE "CANCELED"
    BY DEF RowIsProjection
  <2> DEFINE a == since["projection"]
             p == read["projection"]
             handled == a + 1..p
             told == (At("ORDER_ACTIVATED", o) \cup At("ORDER_CANCELED", o)) \cap handled
             newest == CHOOSE i \in told : \A j \in told : j <= i
  <2>1. Reached = p /\ p \in Nat /\ a \in Nat /\ p <= Len(stream) /\ Len(stream) \in Nat
    BY MessagesTyped DEF LifeInv, Positions, Reached, Subscriber
  <2>2. \A i \in handled : i \in 1..Len(stream)
    BY <2>1
  <2>3. told = Told(stream, o, a, p)
    BY <2>2 DEF Told, At
  <2>4. At("ORDER_CREATED", o) \cap handled # {} <=> Inserted(stream, o, a, p)
    BY <2>2 DEF Inserted, At
  <2>5. Repeats(row[o], stream, o, a, p)
    BY <2>1 DEF RowInv
  <2>6. \A i \in told : i \in Nat /\ stream[i].order = o
    BY <2>1, <2>3 DEF Told
  <2> HIDE DEF told, handled, a, p
  <2>7. ASSUME told # {}, row[o] # "NONE" PROVE row[o] = IF stream[newest].type = "ORDER_ACTIVATED" THEN FirstStatus(o) ELSE "CANCELED"
    <3>1. PICK i \in told : (\A j \in told : j <= i) /\ row[o] = StatusOf(stream[i])
      BY <2>3, <2>5, <2>7 DEF Repeats
    <3>2. newest = i
      <4>1. newest \in told /\ \A j \in told : j <= newest
        BY <3>1
      <4> QED
        BY <2>6, <3>1, <4>1
    <3> HIDE DEF newest
    <3> QED
      BY <2>6, <3>1, <3>2 DEF StatusOf
  <2>8. row[o] = IF At("ORDER_CREATED", o) \cap handled = {} THEN "NONE"
                 ELSE IF told = {} THEN "PENDING"
                 ELSE IF stream[newest].type = "ORDER_ACTIVATED" THEN FirstStatus(o)
                 ELSE "CANCELED"
    <3>1. row[o] = "NONE" <=> At("ORDER_CREATED", o) \cap handled = {}
      BY <2>4, <2>5 DEF Repeats
    <3>2. row[o] # "NONE" /\ told = {} => row[o] = "PENDING"
      BY <2>3, <2>5 DEF Repeats
    <3> HIDE DEF newest
    <3> QED
      BY <2>7, <3>1, <3>2
  <2> QED
    BY <2>8 DEF told, handled, newest, a, p
<1> QED
  BY <1>1, RowsFollow, LifecycleInvariant, PTL

-----------------------------------------------------------------------------
\* Where an order is between its intent and its activation: an intent that was handled has
\* an outcome in the store; a stored creation is published, unless its intent is in hand; and
\* a creation the projection has handled is activated.
Stored(type, o) == Event(type, o) \in store

Answered ==
    \A i \in since["intents"] + 1..read["intents"] :
        Stored("ORDER_REJECTED", intents[i]) \/ Stored("ORDER_CREATED", intents[i])
Announced ==
    \A o \in Order : Stored("ORDER_CREATED", o) =>
        \/ Created(o)
        \/ intentPc = "publish" /\ Current("intents", intents) = o
Passed ==
    \A i \in since["projection"] + 1..read["projection"] : stream[i].type = "ORDER_CREATED" =>
        \E j \in 1..Len(stream) : IsAt("ORDER_ACTIVATED", stream[i].order, j)

DoneInv == faults = 0 /\ crashes = 0 => Answered /\ Announced /\ Passed

\* A step in which no call fails and the process goes on.
Goes == LifeInv /\ Next /\ ~Dies /\ ~Fault

Started(s) == read'[s] = since'[s]

\* The indexes of the OMS move when a handler is done with a message.
LEMMA IntentIndex ==
  ASSUME Goes
  PROVE  \/ Stays("intents")
         \/ /\ read'["intents"] = read["intents"] + 1 /\ since'["intents"] = since["intents"]
            /\ PublishCreated \/ PublishRejected
                 \/ (AppendRejected /\ IsDuplicate(Event("ORDER_REJECTED", Current("intents", intents))))
         \/ Started("intents")
<1>0. /\ TypeOK /\ Next /\ ~Dies /\ ~Fault
      /\ Subscriber = {"intents", "cancels", "projection", "matching"}
  BY DEF Goes, LifeInv, Subscriber
<1>1. CASE ProcessIntent
  <2>1. \/ read' = read /\ since' = since
        \/ /\ Finish("intents")
           /\ PublishCreated \/ PublishRejected
                \/ (AppendRejected /\ IsDuplicate(Event("ORDER_REJECTED", Current("intents", intents))))
    BY <1>0, <1>1 DEF ProcessIntent, CheckRisk, AppendCreated, PublishCreated, AppendRejected, PublishRejected
  <2> QED
    BY <1>0, <2>1, FinishTyped DEF Stays
<1>2. CASE ~ProcessIntent
  <2>1. \/ read' = read /\ since' = since
        \/ \E s \in Subscriber \ {"intents"} : Finish(s) \/ Skip(s)
        \/ Skip("intents")
    BY <1>0, <1>2, Moves
  <2>2. ASSUME NEW s \in Subscriber \ {"intents"}, Finish(s) \/ Skip(s) PROVE Stays("intents")
    BY <1>0, <2>2, FinishTyped DEF Skip, TypeOK, Stays
  <2>3. ASSUME Skip("intents") PROVE Started("intents")
    BY <1>0, <2>3 DEF Skip, TypeOK, Started
  <2> QED
    BY <2>1, <2>2, <2>3 DEF Stays
<1> QED
  BY <1>1, <1>2

LEMMA ProjectionIndex ==
  ASSUME Goes
  PROVE  \/ Stays("projection")
         \/ /\ read'["projection"] = read["projection"] + 1 /\ since'["projection"] = since["projection"]
            /\ Pending("projection", stream)
            /\ Land(Event("ORDER_ACTIVATED", Projected.order)) \/ Projected.type # "ORDER_CREATED"
         \/ Started("projection")
<1>0. /\ TypeOK /\ Positions /\ Next /\ ~Dies /\ ~Fault
      /\ Subscriber = {"intents", "cancels", "projection", "matching"}
  BY DEF Goes, LifeInv, Subscriber
<1>1. CASE ProjectCreated \/ AppendActivated
  BY <1>0, <1>1 DEF ProjectCreated, AppendActivated, Stays
<1>2. CASE PublishActivated
  <2>1. \/ read' = read /\ since' = since
        \/ Finish("projection") /\ Land(Event("ORDER_ACTIVATED", Projected.order))
    BY <1>0, <1>2 DEF PublishActivated
  <2>2. Pending("projection", stream)
    BY <1>0, <1>2, AtWork DEF PublishActivated
  <2> QED
    BY <1>0, <2>1, <2>2, FinishTyped DEF Stays
<1>3. CASE ProjectStatus \/ ProjectNothing
  <2>1. Finish("projection") /\ Pending("projection", stream) /\ Projected.type # "ORDER_CREATED"
    BY <1>3 DEF ProjectStatus, ProjectNothing
  <2> QED
    BY <1>0, <2>1, FinishTyped
<1>4. CASE ~ProjectEvent
  <2>1. \/ read' = read /\ since' = since
        \/ \E s \in Subscriber \ {"projection"} : Finish(s) \/ Skip(s)
        \/ Skip("projection")
    BY <1>0, <1>4, Moves
  <2>2. ASSUME NEW s \in Subscriber \ {"projection"}, Finish(s) \/ Skip(s) PROVE Stays("projection")
    BY <1>0, <2>2, FinishTyped DEF Skip, TypeOK, Stays
  <2>3. ASSUME Skip("projection") PROVE Started("projection")
    BY <1>0, <2>3 DEF Skip, TypeOK, Started
  <2> QED
    BY <2>1, <2>2, <2>3 DEF Stays
<1> QED
  BY <1>1, <1>2, <1>3, <1>4 DEF ProjectEvent

\* Only processIntent stores a creation.
LEMMA CreationStored ==
  ASSUME Goes, NEW o \in Order, Event("ORDER_CREATED", o) \in store', ~Stored("ORDER_CREATED", o)
  PROVE  /\ AppendCreated /\ intentPc' = "publish"
         /\ o = Current("intents", intents) /\ Current("intents", intents)' = o
<1> DEFINE c == Event("ORDER_CREATED", o)
<1>0. /\ LifeInv /\ TypeOK /\ Positions /\ Next /\ ~Fault /\ c.type = "ORDER_CREATED" /\ c.order = o
      /\ c \notin store /\ c \in store'
  BY DEF Goes, LifeInv, Event, Stored
<1>1. CASE AppendCreated
  <2>1. c = Event("ORDER_CREATED", Current("intents", intents)) /\ intentPc' = "publish"
    BY <1>0, <1>1 DEF AppendCreated
  <2>2. o = Current("intents", intents)
    BY <1>0, <2>1 DEF Event
  <2>3. Current("intents", intents)' = Current("intents", intents)
    BY <1>0, <2>1, BusyStep, SameMessage
  <2> QED
    BY <1>1, <2>1, <2>2, <2>3
<1>2. CASE AppendRejected \/ AppendCanceled \/ AppendActivated
  BY <1>0, <1>2 DEF AppendRejected, AppendCanceled, AppendActivated, Event
<1>3. ASSUME NEW t \in trades, AppendTrade(t) PROVE FALSE
  BY <1>0, <1>3 DEF AppendTrade, TradeEvent
<1>4. CASE ~(AppendCreated \/ AppendRejected \/ AppendCanceled \/ AppendActivated) /\ ~\E t \in trades : AppendTrade(t)
  <2>1. store' = store
    BY <1>0, <1>4 DEF Next, Skip, PlaceOrder, RequestCancel, ResendCancel, ProcessIntent, ProcessCancel, ProjectEvent, Feed,
         HandleTrade, Restart, FailTrade, CheckRisk, PublishCreated, PublishRejected, PublishCanceled,
         ProjectCreated, PublishActivated, ProjectStatus, ProjectNothing,
         FeedActivated, FeedCanceled, FeedNothing, PublishTrade
  <2> QED
    BY <1>0, <2>1
<1> QED
  BY <1>1, <1>2, <1>3, <1>4

LEMMA AnsweredStep ==
  ASSUME Goes, Answered PROVE Answered'
<1>0. /\ LifeInv /\ Next /\ TypeOK /\ Positions /\ TypeOK'
      /\ read["intents"] \in Nat /\ since["intents"] \in Nat
      /\ Len(intents) \in Nat /\ read["intents"] <= Len(intents)
      /\ store \subseteq store' /\ \A i \in 1..Len(intents) : intents'[i] = intents[i]
  BY MessagesTyped, StoreStep, TopicsGrow, TypeStep DEF Goes, LifeInv, Positions, Subscriber, Stores
<1> SUFFICES ASSUME NEW i \in since'["intents"] + 1..read'["intents"]
             PROVE  Event("ORDER_REJECTED", intents'[i]) \in store' \/ Event("ORDER_CREATED", intents'[i]) \in store'
  BY DEF Answered, Stored, Event
<1>1. ASSUME i \in since["intents"] + 1..read["intents"]
      PROVE  Event("ORDER_REJECTED", intents'[i]) \in store' \/ Event("ORDER_CREATED", intents'[i]) \in store'
  <2>1. i \in 1..Len(intents)
    BY <1>0, <1>1
  <2> QED
    BY <1>0, <1>1, <2>1 DEF Answered, Stored
<1>2. CASE Stays("intents")
  BY <1>1, <1>2 DEF Stays
<1>3. CASE Started("intents")
  <2>1. read'["intents"] \in Nat
    BY <1>0 DEF TypeOK, Subscriber
  <2> QED
    BY <1>3, <2>1 DEF Started
<1>4. ASSUME read'["intents"] = read["intents"] + 1, since'["intents"] = since["intents"],
             PublishCreated \/ PublishRejected
               \/ (AppendRejected /\ IsDuplicate(Event("ORDER_REJECTED", Current("intents", intents)))),
             i \notin since["intents"] + 1..read["intents"]
      PROVE  Event("ORDER_REJECTED", intents'[i]) \in store' \/ Event("ORDER_CREATED", intents'[i]) \in store'
  <2>1. i = read["intents"] + 1
    BY <1>0, <1>4
  <2>2. read["intents"] < Len(intents)
    BY <1>0, <1>4 DEF Positions, PublishCreated, PublishRejected, AppendRejected
  <2>3. PICK o \in Order : o = Current("intents", intents) /\ intents'[i] = o
    BY <1>0, <2>1, <2>2, MessagesTyped DEF Current, Pending
  <2>4. CASE PublishCreated \/ PublishRejected
    BY <1>0, <2>3, <2>4 DEF PublishCreated, PublishRejected, LifeInv, IntentInHand, ToPublish
  <2>5. CASE IsDuplicate(Event("ORDER_REJECTED", o))
    <3>1. PICK f \in store : KeyOf(Event("ORDER_REJECTED", o)) \cap KeyOf(f) # {}
      BY <2>5 DEF IsDuplicate
    <3>2. <<o>> \in KeyOf(f)
      BY <3>1 DEF KeyOf, Event
    <3>3. f \in StoredEvent
      BY <1>0 DEF TypeOK
    <3>4. f.type \in {"ORDER_CREATED", "ORDER_REJECTED"} /\ f.order = o
      <4>1. \A x, y : <<o>> # <<x, y>>
        <5> SUFFICES ASSUME NEW x, NEW y PROVE Len(<<o>>) # Len(<<x, y>>)
          OBVIOUS
        <5> QED
          OBVIOUS
      <4> QED
        BY <3>2, <4>1 DEF KeyOf
    <3>5. f = Event("ORDER_CREATED", o) \/ f = Event("ORDER_REJECTED", o)
      BY <3>3, <3>4 DEF StoredEvent, EventType, Event
    <3> QED
      BY <1>0, <2>3, <3>5
  <2> QED
    BY <1>4, <2>3, <2>4, <2>5
<1> QED
  BY <1>1, <1>2, <1>3, <1>4, IntentIndex

LEMMA AnnouncedStep ==
  ASSUME Goes, Announced PROVE Announced'
<1>0. /\ LifeInv /\ Next /\ TypeOK /\ Positions /\ ~Dies /\ ~Fault /\ Len(stream) \in Nat
  BY MessagesTyped DEF Goes, LifeInv
<1> SUFFICES ASSUME NEW o \in Order, Event("ORDER_CREATED", o) \in store'
             PROVE  ThenCreated(o) \/ (intentPc' = "publish" /\ Current("intents", intents)' = o)
  BY DEF Announced, Stored, Created, IsAt, Event, ThenCreated
<1>1. CASE ~Stored("ORDER_CREATED", o)
  BY <1>1, CreationStored
<1>2. CASE Created(o)
  BY <1>0, <1>2, Kept
<1>3. CASE intentPc = "publish" /\ Current("intents", intents) = o
  <2>1. CASE PublishCreated
    <3>1. stream' = Append(stream, Event("ORDER_CREATED", o))
      BY <1>0, <1>3, <2>1 DEF PublishCreated, Land, LandUnanswered
    <3>2. Len(stream') = Len(stream) + 1 /\ stream'[Len(stream) + 1] = Event("ORDER_CREATED", o)
      <4>1. stream \in Seq(StoredEvent) /\ Event("ORDER_CREATED", o) \in StoredEvent
        BY <1>0, EventsTyped DEF TypeOK, EventType
      <4> QED
        BY ONLY <3>1, <4>1, Extended
    <3> QED
      BY <1>0, <3>2 DEF Event, ThenCreated
  <2>2. CASE ~PublishCreated
    <3>1. ~ProcessIntent
      BY <1>3, <2>2 DEF ProcessIntent, CheckRisk, AppendCreated, AppendRejected, PublishRejected
    <3>2. intentPc' = intentPc
      BY <1>0, <3>1, Moves
    <3>3. Current("intents", intents)' = Current("intents", intents)
      BY <1>0, <1>3, <3>2, BusyStep, SameMessage
    <3> QED
      BY <1>3, <3>2, <3>3
  <2> QED
    BY <2>1, <2>2
<1> QED
  BY <1>1, <1>2, <1>3 DEF Announced

LEMMA PassedStep ==
  ASSUME Goes, Passed PROVE Passed'
<1>0. /\ LifeInv /\ Next /\ TypeOK /\ Positions /\ TypeOK'
      /\ Len(stream) \in Nat /\ Len(stream') >= Len(stream) /\ Len(stream') \in Nat
      /\ read["projection"] \in Nat /\ since["projection"] \in Nat /\ read["projection"] <= Len(stream)
      /\ \A i \in 1..Len(stream) : stream'[i] = stream[i]
  <2>1. LifeInv /\ Next /\ TypeOK /\ Positions /\ TypeOK'
    BY TypeStep DEF Goes, LifeInv
  <2>2. Len(stream') \in Nat
    BY <2>1, LenProperties DEF TypeOK
  <2> QED
    BY <2>1, <2>2, MessagesTyped, TopicsGrow DEF Subscriber, Positions
<1> DEFINE Goal(o) == \E j \in 1..Len(stream') : stream'[j].type = "ORDER_ACTIVATED" /\ stream'[j].order = o
<1> SUFFICES ASSUME NEW i \in since'["projection"] + 1..read'["projection"], stream'[i].type = "ORDER_CREATED"
             PROVE  Goal(stream'[i].order)
  BY DEF Passed, IsAt
<1>1. ASSUME i \in since["projection"] + 1..read["projection"] PROVE Goal(stream'[i].order)
  <2>1. i \in 1..Len(stream) /\ stream'[i] = stream[i]
    BY <1>0, <1>1
  <2>2. PICK j \in 1..Len(stream) : IsAt("ORDER_ACTIVATED", stream[i].order, j)
    BY <1>1, <2>1 DEF Passed
  <2>3. j \in 1..Len(stream') /\ stream'[j] = stream[j]
    BY <1>0
  <2> QED
    BY <2>1, <2>2, <2>3 DEF IsAt
<1>2. CASE Stays("projection")
  BY <1>1, <1>2 DEF Stays
<1>3. CASE Started("projection")
  <2>1. read'["projection"] \in Nat
    BY <1>0 DEF TypeOK, Subscriber
  <2> QED
    BY <1>3, <2>1 DEF Started
<1>4. ASSUME read'["projection"] = read["projection"] + 1, since'["projection"] = since["projection"],
             Pending("projection", stream),
             Land(Event("ORDER_ACTIVATED", Projected.order)) \/ Projected.type # "ORDER_CREATED",
             i \notin since["projection"] + 1..read["projection"]
      PROVE  Goal(stream'[i].order)
  <2>1. i = read["projection"] + 1 /\ read["projection"] < Len(stream)
    BY <1>0, <1>4 DEF Pending
  <2>2. i \in 1..Len(stream) /\ stream'[i] = stream[i] /\ stream[i] = Projected
    BY <1>0, <2>1 DEF Projected, Current
  <2>3. Land(Event("ORDER_ACTIVATED", Projected.order)) /\ Projected \in StoredEvent /\ Projected.order \in Order
    BY <1>0, <1>4, <2>2, MessagesTyped, EventsTyped
  <2>4. stream' = Append(stream, Event("ORDER_ACTIVATED", Projected.order))
    BY <2>3 DEF Land
  <2>5. Len(stream') = Len(stream) + 1 /\ stream'[Len(stream) + 1] = Event("ORDER_ACTIVATED", Projected.order)
    <3>1. stream \in Seq(StoredEvent) /\ Event("ORDER_ACTIVATED", Projected.order) \in StoredEvent
      BY <1>0, <2>3, EventsTyped DEF TypeOK, EventType
    <3> QED
      BY ONLY <2>4, <3>1, Extended
  <2> QED
    BY <1>0, <2>2, <2>5 DEF Event
<1> QED
  BY <1>1, <1>2, <1>3, <1>4, ProjectionIndex

\* Every intent is answered (omsEngine.ts, processIntent and projectEvent): once all is
\* handled, and unless a call failed or the process was restarted, an intent that came after
\* the OMS had handled its first is rejected, or its order is created and has left PENDING,
\* however often the intent and its creation were sent; only the messages that a loop loses
\* before it has handled any remain without an answer.
THEOREM LifecycleAnswered == Spec => [](faults = 0 /\ crashes = 0 /\ AllHandled => IntentsAnswered)
<1>1. Init => DoneInv
  BY DEF Init, DoneInv, Answered, Announced, Passed, Stored, Subscriber
<1>2. LifeInv /\ DoneInv /\ [Next]_vars => DoneInv'
  <2>1. ASSUME LifeInv, DoneInv, Next PROVE DoneInv'
    <3> SUFFICES ASSUME faults' = 0, crashes' = 0 PROVE Answered' /\ Announced' /\ Passed'
      BY DEF DoneInv
    <3>1. faults = 0 /\ crashes = 0 /\ ~Dies /\ ~Fault
      BY <2>1, FailuresCounted DEF LifeInv
    <3>2. Goes /\ Answered /\ Announced /\ Passed
      BY <2>1, <3>1 DEF Goes, DoneInv
    <3> QED
      BY <3>2, AnsweredStep, AnnouncedStep, PassedStep
  <2>2. ASSUME DoneInv, UNCHANGED vars PROVE DoneInv'
    BY <2>2 DEF vars, clientvars, logvars, loopvars, handlervars, DoneInv, Answered, Announced, Passed, Stored, Created, IsAt, Current
  <2> QED
    BY <2>1, <2>2
<1>3. LifeInv /\ RowInv /\ DoneInv => (faults = 0 /\ crashes = 0 /\ AllHandled => IntentsAnswered)
  <2> SUFFICES ASSUME LifeInv, RowInv, DoneInv, faults = 0, crashes = 0, AllHandled,
                      NEW i \in since["intents"] + 1..Len(intents),
                      Event("ORDER_REJECTED", intents[i]) \notin store
               PROVE  /\ Event("ORDER_CREATED", intents[i]) \in store /\ At("ORDER_CREATED", intents[i]) # {}
                      /\ \/ row[intents[i]] \notin {"NONE", "PENDING"}
                         \/ \A j \in At("ORDER_CREATED", intents[i]) : j <= since["projection"]
    BY DEF IntentsAnswered
  <2> DEFINE o == intents[i]
             a == since["projection"]
  <2>0. /\ read["intents"] = Len(intents) /\ read["projection"] = Len(stream) /\ Reached = Len(stream)
        /\ Len(stream) \in Nat /\ Len(intents) \in Nat /\ since["intents"] \in Nat /\ a \in Nat
    BY MessagesTyped DEF AllHandled, Subscriber, Topic, Reached, LifeInv
  <2>1. o \in Order
    BY <2>0, ElementOfSeq DEF LifeInv, TypeOK
  <2>2. Event("ORDER_CREATED", o) \in store
    BY <2>0 DEF DoneInv, Answered, Stored
  <2>3. PICK k \in 1..Len(stream) : IsAt("ORDER_CREATED", o, k)
    BY <2>1, <2>2 DEF DoneInv, Announced, Stored, AllHandled, Created
  <2>4. At("ORDER_CREATED", o) # {}
    BY <2>3 DEF At, IsAt
  <2>5. ASSUME NEW j \in At("ORDER_CREATED", o), ~(j <= a) PROVE row[o] \notin {"NONE", "PENDING"}
    <3>1. j \in a + 1..Len(stream) /\ stream[j].type = "ORDER_CREATED" /\ stream[j].order = o
      BY <2>0, <2>5 DEF At
    <3>2. PICK m \in 1..Len(stream) : IsAt("ORDER_ACTIVATED", o, m)
      BY <2>0, <3>1 DEF DoneInv, Passed
    <3>3. m \in Told(stream, o, a, Len(stream))
      BY <2>0, <3>2 DEF Told, IsAt, RowInv
    <3>4. Inserted(stream, o, a, Len(stream))
      BY <3>1 DEF Inserted
    <3>5. PICK p \in Told(stream, o, a, Len(stream)) : row[o] = StatusOf(stream[p])
      BY <2>0, <2>1, <3>3, <3>4 DEF RowInv, Repeats
    <3>6. stream[p].order = o /\ stream[p].type \in {"ORDER_ACTIVATED", "ORDER_CANCELED"}
      BY DEF Told
    <3> QED
      BY <3>5, <3>6 DEF StatusOf, FirstStatus
  <2> QED
    BY <2>2, <2>4, <2>5
<1> QED
  BY <1>1, <1>2, <1>3, LifecycleInvariant, LifeStarts, LifeStep, RowsFollow, PTL DEF Spec
====
