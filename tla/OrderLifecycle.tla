---------------------------- MODULE OrderLifecycle ----------------------------
(***************************************************************************)
(* An order on its way through the backend: the REST controller publishes  *)
(* an intent, the OMS turns it into stored events, the projection keeps    *)
(* the orders table, and the matching engine feeds the worker and stores   *)
(* the trades (controllers/order.ts, omsEngine.ts, eventStore.ts,          *)
(* matchingEngine.ts).  They run in one process; every await is a place    *)
(* where the others run, so a handler is one step per await.               *)
(*                                                                         *)
(* A topic is the sequence of its messages and each subscriber has a read  *)
(* index.  A loop that has handled a message misses none after it          *)
(* (EventBus.tla; MarketDataProofs proves it).  Until then every XREAD     *)
(* asks for what comes after the end of the topic, and what came between   *)
(* two of them is lost (Skip); a restart puts every loop back there.       *)
(*                                                                         *)
(* ioredis sends an XADD again when the connection breaks before its       *)
(* reply, so a message may be in its topic twice.  Unanswered marks the    *)
(* copies that were sent again; it records history, no step reads it.      *)
(*                                                                         *)
(* postMessage to the worker keeps the order of the feed, so the worker    *)
(* handles a message in the feed's own step.  What matching does is        *)
(* reduced to who trades with whom and who stays (OrderBook.tla has the    *)
(* rest), but an order that is fed twice is in the book twice, and the map *)
(* from ids to nodes knows its last copy only.  The event store is a set:  *)
(* nothing reads it back, and its idempotency keys are all that matters.   *)
(*                                                                         *)
(* Left out, because in this code they have no effect on the state kept    *)
(* here: linked take-profit and stop-loss children (their ids are no UUIDs *)
(* and no child row is ever inserted), ORDER_TRIGGERED and ORDER_FILLED    *)
(* (no one publishes market.ticks or ORDER_FILLED), and TAKE_PROFIT orders *)
(* (the type does not fit orders.type, so the insert fails: an accepted    *)
(* order whose insert fails is Fault in ProjectCreated).                   *)
(***************************************************************************)
EXTENDS Integers, Sequences, FiniteSets, SequencesExt

CONSTANTS Order,       \* orders, named by their idempotency key
          BuyOrder,    \* those that buy; the others sell
          StopOrder,   \* those of type STOP or STOP_LIMIT
          Priced,      \* those with a price above zero
          MaxIntents,  \* bound: placements, retries of the same key included
          MaxCancels,  \* bound: cancellations, those sent again included
          MaxUpsets    \* bound: events sent again, losses before the first message handled,
                       \* failed database or Redis calls and crashes, together

ASSUME LifecycleAssumption ==
    /\ BuyOrder \subseteq Order /\ StopOrder \subseteq Order /\ Priced \subseteq Order
    /\ MaxIntents \in Nat /\ MaxCancels \in Nat /\ MaxUpsets \in Nat
    /\ "cancel" \notin Order   \* keys are UUIDs: orders.id takes no other

VARIABLES intents,    \* topic order.intents
          cancels,    \* topic order.cancel_intents
          store,      \* event_store
          stream,     \* topic order.events
          unanswered, \* indexes of the events that were sent again
          read,       \* messages each subscriber has finished or missed
          since,      \* messages it had missed when it had handled none
          intentPc,   \* where processIntent is
          cancelPc,   \* where processCancel is
          projectPc,  \* where projectEvent is
          row,        \* orders.status, "NONE" when there is no row
          book,       \* nodes in the worker's queues: the order, and its place in the feed
          orderMap,   \* the node the worker finds by an order's id, by its place; 0: none
          trades,     \* TRADE_EXECUTED messages the main thread is still handling
          skips, faults, crashes

clientvars == <<intents, cancels>>
logvars == <<store, stream, unanswered>>
loopvars == <<read, since>>
handlervars == <<intentPc, cancelPc, projectPc>>
bookvars == <<book, orderMap>>
workervars == <<book, orderMap, trades>>

vars == <<clientvars, logvars, loopvars, handlervars, row, workervars, skips, faults, crashes>>

Subscriber == {"intents", "cancels", "projection", "matching"}

Event(type, o) == [type |-> type, order |-> o]
TradeEvent(t) == [type |-> "TRADE_EXECUTED", order |-> t.taker.order, maker |-> t.maker.order]

\* Slip: the rejection has a key of its own.
KeyOfOwnRejection(e) ==
    CASE e.type \in {"ORDER_CREATED", "ORDER_REJECTED"} -> {<<e.order, e.type>>}
      [] e.type = "ORDER_CANCELED" -> {<<e.order, "cancel">>}
      [] e.type = "TRADE_EXECUTED" -> {<<e.order, e.maker>>}
      [] OTHER -> {}

\* Slip: the key of a trade is its taker's id.
KeyOfTaker(e) ==
    CASE e.type \in {"ORDER_CREATED", "ORDER_REJECTED", "TRADE_EXECUTED"} -> {<<e.order>>}
      [] e.type = "ORDER_CANCELED" -> {<<e.order, "cancel">>}
      [] OTHER -> {}

\* The idempotency key of an event, as a set: ORDER_ACTIVATED has none.  A rejection has
\* the key of the creation it replaces.
KeyOf(e) ==
    CASE e.type \in {"ORDER_CREATED", "ORDER_REJECTED"} -> {<<e.order>>}
      [] e.type = "ORDER_CANCELED" -> {<<e.order, "cancel">>}
      [] e.type = "TRADE_EXECUTED" -> {<<e.order, e.maker>>}
      [] OTHER -> {}

\* Slip: the column is not UNIQUE.
NeverDuplicate(e) == FALSE

\* ON CONFLICT (idempotency_key) DO NOTHING returns no row.
IsDuplicate(e) == \E f \in store : KeyOf(e) \cap KeyOf(f) # {}

\* The status of ORDER_ACTIVATED: a stop waits for its trigger.
FirstStatus(o) == IF o \in StopOrder THEN "TRIGGER_WAITING" ELSE "ACTIVE"

Opposing(o) == {m \in book : (m.order \in BuyOrder) # (o \in BuyOrder)}

Topic(s) == CASE s = "intents" -> intents [] s = "cancels" -> cancels [] OTHER -> stream

\* The message a subscriber works on.
Pending(s, topic) == read[s] < Len(topic)
Current(s, topic) == topic[read[s] + 1]
Finish(s) == read' = [read EXCEPT ![s] = @ + 1] /\ UNCHANGED since

\* A database or Redis call fails.
MayUpset == skips + Cardinality(unanswered) + faults + crashes < MaxUpsets
Fault == MayUpset /\ faults' = faults + 1
NoFault == UNCHANGED faults

\* publish: XADD lands, and its reply comes or the connection breaks before it and ioredis
\* sends the command again, so that the caller goes on waiting.
Land(e) == stream' = Append(stream, e) /\ UNCHANGED unanswered
LandUnanswered(e) ==
    /\ MayUpset
    /\ stream' = Append(stream, e)
    /\ unanswered' = unanswered \cup {Len(stream) + 1}

-----------------------------------------------------------------------------
Init ==
    /\ intents = <<>> /\ cancels = <<>> /\ stream = <<>>
    /\ store = {} /\ unanswered = {}
    /\ read = [s \in Subscriber |-> 0] /\ since = [s \in Subscriber |-> 0]
    /\ intentPc = "idle" /\ cancelPc = "idle" /\ projectPc = "idle"
    /\ row = [o \in Order |-> "NONE"]
    /\ book = {} /\ orderMap = [o \in Order |-> 0]
    /\ trades = {}
    /\ skips = 0 /\ faults = 0 /\ crashes = 0

\* placeOrder: the client may send the same idempotency key again, and so may ioredis.
PlaceOrder(o) ==
    /\ Len(intents) < MaxIntents
    /\ intents' = Append(intents, o)
    /\ UNCHANGED <<cancels, logvars, loopvars, handlervars, row, workervars, skips, faults, crashes>>

\* cancelOrder: the status is read from the table, and may change before the OMS acts on it.
RequestCancel(o) ==
    /\ Len(cancels) < MaxCancels
    /\ row[o] \in {"PENDING", "TRIGGER_WAITING", "ACTIVE"}
    /\ cancels' = Append(cancels, o)
    /\ UNCHANGED <<intents, logvars, loopvars, handlervars, row, workervars, skips, faults, crashes>>

\* Its publication is sent again, whatever the status is by now.
ResendCancel(o) ==
    /\ Len(cancels) < MaxCancels
    /\ o \in ToSet(cancels)
    /\ cancels' = Append(cancels, o)
    /\ UNCHANGED <<intents, logvars, loopvars, handlervars, row, workervars, skips, faults, crashes>>

\* The next XREAD of a loop that has handled no message starts at the end of the topic.
Skip(s) ==
    /\ MayUpset
    /\ skips' = skips + 1
    /\ read[s] = since[s] /\ Pending(s, Topic(s))
    /\ CASE s = "intents" -> intentPc = "idle"
         [] s = "cancels" -> cancelPc = "idle"
         [] s = "projection" -> projectPc = "idle"
         [] s = "matching" -> TRUE
    /\ read' = [read EXCEPT ![s] = Len(Topic(s))]
    /\ since' = [since EXCEPT ![s] = Len(Topic(s))]
    /\ UNCHANGED <<clientvars, logvars, handlervars, row, workervars, faults, crashes>>

\* ---- processIntent ----

\* validateOrder accepts or throws.
CheckRisk ==
    /\ intentPc = "idle"
    /\ Pending("intents", intents)
    /\ intentPc' \in {"append", "reject"}
    /\ UNCHANGED <<clientvars, logvars, loopvars, cancelPc, projectPc, row, workervars, skips, faults, crashes>>

\* appendBatch: all or nothing; a duplicate key throws, and so does a failing database.
AppendCreated ==
    LET e == Event("ORDER_CREATED", Current("intents", intents))
    IN  /\ intentPc = "append"
        /\ \/ ~IsDuplicate(e) /\ store' = store \cup {e} /\ intentPc' = "publish" /\ NoFault
           \/ IsDuplicate(e) /\ intentPc' = "reject" /\ UNCHANGED store /\ NoFault
           \/ Fault /\ intentPc' = "reject" /\ UNCHANGED store
        /\ UNCHANGED <<clientvars, stream, unanswered, loopvars, cancelPc, projectPc, row, workervars, skips, crashes>>

\* The stored event goes to the bus; if Redis fails, the catch block tries to reject the
\* intent although its creation is stored.
PublishCreated ==
    LET e == Event("ORDER_CREATED", Current("intents", intents))
    IN  /\ intentPc = "publish"
        /\ \/ Land(e) /\ intentPc' = "idle" /\ Finish("intents") /\ NoFault
           \/ LandUnanswered(e) /\ UNCHANGED <<intentPc, loopvars>> /\ NoFault
           \/ Fault /\ intentPc' = "reject" /\ UNCHANGED <<stream, unanswered, loopvars>>
        /\ UNCHANGED <<clientvars, store, cancelPc, projectPc, row, workervars, skips, crashes>>

\* The catch block: ORDER_REJECTED is stored under the key of the intent, which is a
\* duplicate when the creation was stored; then nothing is published.
AppendRejected ==
    LET e == Event("ORDER_REJECTED", Current("intents", intents))
    IN  /\ intentPc = "reject"
        /\ \/ ~IsDuplicate(e) /\ store' = store \cup {e} /\ intentPc' = "publishReject" /\ NoFault
              /\ UNCHANGED loopvars
           \/ IsDuplicate(e) /\ intentPc' = "idle" /\ Finish("intents") /\ UNCHANGED store /\ NoFault
           \/ Fault /\ intentPc' = "idle" /\ Finish("intents") /\ UNCHANGED store
        /\ UNCHANGED <<clientvars, stream, unanswered, cancelPc, projectPc, row, workervars, skips, crashes>>

PublishRejected ==
    LET e == Event("ORDER_REJECTED", Current("intents", intents))
    IN  /\ intentPc = "publishReject"
        /\ \/ Land(e) /\ intentPc' = "idle" /\ Finish("intents") /\ NoFault
           \/ LandUnanswered(e) /\ UNCHANGED <<intentPc, loopvars>> /\ NoFault
           \/ Fault /\ intentPc' = "idle" /\ Finish("intents") /\ UNCHANGED <<stream, unanswered>>
        /\ UNCHANGED <<clientvars, store, cancelPc, projectPc, row, workervars, skips, crashes>>

\* ---- processCancel ----

AppendCanceled ==
    LET e == Event("ORDER_CANCELED", Current("cancels", cancels))
    IN  /\ cancelPc = "idle"
        /\ Pending("cancels", cancels)
        /\ \/ ~IsDuplicate(e) /\ store' = store \cup {e} /\ cancelPc' = "publish" /\ NoFault
              /\ UNCHANGED loopvars
           \/ IsDuplicate(e) /\ Finish("cancels") /\ UNCHANGED <<store, cancelPc>> /\ NoFault
           \/ Fault /\ Finish("cancels") /\ UNCHANGED <<store, cancelPc>>
        /\ UNCHANGED <<clientvars, stream, unanswered, intentPc, projectPc, row, workervars, skips, crashes>>

PublishCanceled ==
    LET e == Event("ORDER_CANCELED", Current("cancels", cancels))
    IN  /\ cancelPc = "publish"
        /\ \/ Land(e) /\ cancelPc' = "idle" /\ Finish("cancels") /\ NoFault
           \/ LandUnanswered(e) /\ UNCHANGED <<cancelPc, loopvars>> /\ NoFault
           \/ Fault /\ cancelPc' = "idle" /\ Finish("cancels") /\ UNCHANGED <<stream, unanswered>>
        /\ UNCHANGED <<clientvars, store, intentPc, projectPc, row, workervars, skips, crashes>>

\* ---- projectEvent ----

Projected == Current("projection", stream)

\* ORDER_CREATED: INSERT ... ON CONFLICT DO NOTHING, then the activation.
ProjectCreated ==
    LET o == Projected.order
    IN  /\ projectPc = "idle"
        /\ Pending("projection", stream)
        /\ Projected.type = "ORDER_CREATED"
        /\ \/ /\ row' = [row EXCEPT ![o] = IF @ = "NONE" THEN "PENDING" ELSE @]
              /\ projectPc' = "append" /\ UNCHANGED loopvars /\ NoFault
           \/ Fault /\ Finish("projection") /\ UNCHANGED <<row, projectPc>>
        /\ UNCHANGED <<clientvars, logvars, intentPc, cancelPc, workervars, skips, crashes>>

\* Slip: only market and limit orders are activated.
AppendActivatedNoStops ==
    /\ projectPc = "append"
    /\ \/ /\ Projected.order \notin StopOrder
          /\ store' = store \cup {Event("ORDER_ACTIVATED", Projected.order)}
          /\ projectPc' = "publish" /\ UNCHANGED loopvars /\ NoFault
       \/ /\ Projected.order \in StopOrder
          /\ projectPc' = "idle" /\ Finish("projection") /\ UNCHANGED store /\ NoFault
    /\ UNCHANGED <<clientvars, stream, unanswered, intentPc, cancelPc, row, workervars, skips, crashes>>

\* It has no key: a creation that comes twice is activated twice.
AppendActivated ==
    /\ projectPc = "append"
    /\ \/ /\ store' = store \cup {Event("ORDER_ACTIVATED", Projected.order)}
          /\ projectPc' = "publish" /\ UNCHANGED loopvars /\ NoFault
       \/ Fault /\ projectPc' = "idle" /\ Finish("projection") /\ UNCHANGED store
    /\ UNCHANGED <<clientvars, stream, unanswered, intentPc, cancelPc, row, workervars, skips, crashes>>

PublishActivated ==
    LET e == Event("ORDER_ACTIVATED", Projected.order)
    IN  /\ projectPc = "publish"
        /\ \/ Land(e) /\ projectPc' = "idle" /\ Finish("projection") /\ NoFault
           \/ LandUnanswered(e) /\ UNCHANGED <<projectPc, loopvars>> /\ NoFault
           \/ Fault /\ projectPc' = "idle" /\ Finish("projection") /\ UNCHANGED <<stream, unanswered>>
        /\ UNCHANGED <<clientvars, store, intentPc, cancelPc, row, workervars, skips, crashes>>

\* Slip: the UPDATE has WHERE status = 'PENDING'.
ProjectStatusOfPending ==
    LET o == Projected.order
        status == IF Projected.type = "ORDER_CANCELED" THEN "CANCELED" ELSE FirstStatus(o)
    IN  /\ projectPc = "idle"
        /\ Pending("projection", stream)
        /\ Projected.type \in {"ORDER_ACTIVATED", "ORDER_CANCELED"}
        /\ row' = [row EXCEPT ![o] = IF @ = "PENDING" THEN status ELSE @]
        /\ Finish("projection")
        /\ UNCHANGED <<clientvars, logvars, handlervars, workervars, skips, faults, crashes>>

\* ORDER_ACTIVATED and ORDER_CANCELED: UPDATE orders, whatever the status was.
ProjectStatus ==
    LET o == Projected.order
        status == IF Projected.type = "ORDER_CANCELED" THEN "CANCELED" ELSE FirstStatus(o)
    IN  /\ projectPc = "idle"
        /\ Pending("projection", stream)
        /\ Projected.type \in {"ORDER_ACTIVATED", "ORDER_CANCELED"}
        /\ \/ row' = [row EXCEPT ![o] = IF @ = "NONE" THEN @ ELSE status] /\ NoFault
           \/ Fault /\ UNCHANGED row
        /\ Finish("projection")
        /\ UNCHANGED <<clientvars, logvars, handlervars, workervars, skips, crashes>>

\* The projection has no case for rejections and trades.
ProjectNothing ==
    /\ projectPc = "idle"
    /\ Pending("projection", stream)
    /\ Projected.type \in {"ORDER_REJECTED", "TRADE_EXECUTED"}
    /\ Finish("projection")
    /\ UNCHANGED <<clientvars, logvars, handlervars, row, workervars, skips, faults, crashes>>

\* ---- matchingEngine ----

Fed == Current("matching", stream)
FedNode == [order |-> Fed.order, at |-> read["matching"] + 1]

\* matchOrder and insertResting: the node trades with the makers, of which at most the last
\* keeps something; what it keeps itself rests if it has a price.  Copies of an order queue at
\* one price, the earlier first.  A filled maker takes its id out of the map, whatever copy
\* the map knew.
Match(node, makers, kept, rests) ==
    /\ Cardinality(kept) <= 1
    /\ \A m \in makers, n \in book : n.order = m.order /\ n.at < m.at => n \in makers \ kept
    /\ rests => node.order \in Priced /\ kept = {}
    /\ node.order \in Priced /\ makers = {} => rests
    /\ book' = (book \ (makers \ kept)) \cup (IF rests THEN {node} ELSE {})
    /\ orderMap' = [o \in Order |->
                      IF rests /\ o = node.order THEN node.at
                      ELSE IF \E m \in makers \ kept : m.order = o THEN 0 ELSE orderMap[o]]
    /\ trades' = trades \cup {[taker |-> node, maker |-> m, stored |-> FALSE] : m \in makers}

AddOrder(node) ==
    \E makers \in SUBSET Opposing(node.order) : \E kept \in SUBSET makers, rests \in BOOLEAN :
        Match(node, makers, kept, rests)

\* Slip: the feed adds an order when it is created.
FeedCreated ==
    /\ Pending("matching", stream)
    /\ Fed.type = "ORDER_CREATED"
    /\ AddOrder(FedNode)
    /\ Finish("matching")
    /\ UNCHANGED <<clientvars, logvars, handlervars, row, skips, faults, crashes>>

\* ADD_ORDER
FeedActivated ==
    /\ Pending("matching", stream)
    /\ Fed.type = "ORDER_ACTIVATED"
    /\ AddOrder(FedNode)
    /\ Finish("matching")
    /\ UNCHANGED <<clientvars, logvars, handlervars, row, skips, faults, crashes>>

\* Slip: the message lacks the symbol, so the worker finds no book.
FeedCanceledNoSymbol ==
    /\ Pending("matching", stream)
    /\ Fed.type = "ORDER_CANCELED"
    /\ Finish("matching")
    /\ UNCHANGED <<clientvars, logvars, handlervars, row, workervars, skips, faults, crashes>>

\* CANCEL_ORDER: the node the map knows leaves; an order it does not know is no error.
FeedCanceled ==
    LET o == Fed.order
    IN  /\ Pending("matching", stream)
        /\ Fed.type = "ORDER_CANCELED"
        /\ book' = book \ {[order |-> o, at |-> orderMap[o]]}
        /\ orderMap' = [orderMap EXCEPT ![o] = 0]
        /\ Finish("matching")
        /\ UNCHANGED <<clientvars, logvars, handlervars, row, trades, skips, faults, crashes>>

FeedNothing ==
    /\ Pending("matching", stream)
    /\ Fed.type \in {"ORDER_CREATED", "ORDER_REJECTED", "TRADE_EXECUTED"}
    /\ Finish("matching")
    /\ UNCHANGED <<clientvars, logvars, handlervars, row, workervars, skips, faults, crashes>>

\* The process starts anew: the tables and the topics survive, the book does not, and every
\* subscriber starts at the end of its topic.
Reboot ==
    /\ read' = [s \in Subscriber |-> Len(Topic(s))] /\ since' = read'
    /\ intentPc' = "idle" /\ cancelPc' = "idle" /\ projectPc' = "idle"
    /\ book' = {} /\ orderMap' = [o \in Order |-> 0]
    /\ trades' = {}

\* The worker's message handler is async: several trades are appended and published at the
\* same time, in any order.  A duplicate key ends the handling of the trade.
AppendTrade(t) ==
    /\ ~t.stored
    /\ \/ /\ ~IsDuplicate(TradeEvent(t))
          /\ store' = store \cup {TradeEvent(t)}
          /\ trades' = (trades \ {t}) \cup {[t EXCEPT !.stored = TRUE]}
       \/ IsDuplicate(TradeEvent(t)) /\ trades' = trades \ {t} /\ UNCHANGED store
    /\ UNCHANGED <<clientvars, stream, unanswered, loopvars, handlervars, row, bookvars, skips, faults, crashes>>

PublishTrade(t) ==
    /\ t.stored
    /\ \/ Land(TradeEvent(t)) /\ trades' = trades \ {t}
       \/ LandUnanswered(TradeEvent(t)) /\ UNCHANGED trades
    /\ UNCHANGED <<clientvars, store, loopvars, handlervars, row, bookvars, skips, faults, crashes>>

\* A failing call of either rejects a promise that no one handles, which ends the process.
FailTrade ==
    /\ trades # {}
    /\ Fault
    /\ Reboot
    /\ UNCHANGED <<clientvars, logvars, row, skips, crashes>>

\* The process dies at any other moment and is started again.
Restart ==
    /\ MayUpset
    /\ crashes' = crashes + 1
    /\ Reboot
    /\ UNCHANGED <<clientvars, logvars, row, skips, faults>>

ProcessIntent == CheckRisk \/ AppendCreated \/ PublishCreated \/ AppendRejected \/ PublishRejected
ProcessCancel == AppendCanceled \/ PublishCanceled
ProjectEvent ==
    ProjectCreated \/ AppendActivated \/ PublishActivated \/ ProjectStatus \/ ProjectNothing
Feed == FeedActivated \/ FeedCanceled \/ FeedNothing
HandleTrade == FailTrade \/ \E t \in trades : AppendTrade(t) \/ PublishTrade(t)

Next ==
    \/ \E o \in Order : PlaceOrder(o) \/ RequestCancel(o) \/ ResendCancel(o)
    \/ \E s \in Subscriber : Skip(s)
    \/ ProcessIntent
    \/ ProcessCancel
    \/ ProjectEvent
    \/ Feed
    \/ HandleTrade
    \/ Restart

\* Awaited calls return and the event loop serves every handler; nobody has to place or
\* cancel an order, and a message need not be lost.
Spec ==
    /\ Init /\ [][Next]_vars
    /\ WF_vars(ProcessIntent) /\ WF_vars(ProcessCancel) /\ WF_vars(ProjectEvent)
    /\ WF_vars(Feed) /\ WF_vars(HandleTrade)

-----------------------------------------------------------------------------
EventType == {"ORDER_CREATED", "ORDER_REJECTED", "ORDER_ACTIVATED", "ORDER_CANCELED"}
StoredEvent ==
    [type : EventType, order : Order] \cup [type : {"TRADE_EXECUTED"}, order : Order, maker : Order]

Node == [order : Order, at : Nat]

TypeOK ==
    /\ intents \in Seq(Order) /\ cancels \in Seq(Order)
    /\ store \subseteq StoredEvent
    /\ stream \in Seq(StoredEvent) /\ unanswered \subseteq 1..Len(stream)
    /\ read \in [Subscriber -> Nat] /\ since \in [Subscriber -> Nat]
    /\ intentPc \in {"idle", "append", "publish", "reject", "publishReject"}
    /\ cancelPc \in {"idle", "publish"}
    /\ projectPc \in {"idle", "append", "publish"}
    /\ row \in [Order -> {"NONE", "PENDING", "TRIGGER_WAITING", "ACTIVE", "CANCELED"}]
    /\ book \subseteq Node /\ orderMap \in [Order -> Nat]
    /\ trades \subseteq [taker : Node, maker : Node, stored : BOOLEAN]
    /\ skips \in Nat /\ faults \in Nat /\ crashes \in Nat

\* Indexes at which an event of a type about an order was published.
At(type, o) == {i \in 1..Len(stream) : stream[i].type = type /\ stream[i].order = o}

\* An intent has one outcome: the rejection in processIntent's catch block never joins a
\* creation that was stored before its publication failed, nor one of an earlier try.
CreatedXorRejected ==
    \A o \in Order : Event("ORDER_CREATED", o) \notin store \/ Event("ORDER_REJECTED", o) \notin store

\* The event store is well-typed and holds one outcome of each intent.
StoreSound == TypeOK /\ CreatedXorRejected

\* Only stored events are published, and each one once, however often a client repeats an
\* intent or a cancellation and whatever fails.  The exceptions are the copies that ioredis
\* sends again, and an activation, which has no key, of an order whose creation was sent again.
PublishedOnce ==
    /\ ToSet(stream) \subseteq store
    /\ \A i, j \in 1..Len(stream) : i < j /\ stream[i] = stream[j] =>
         \/ i \in unanswered
         \/ /\ stream[i].type = "ORDER_ACTIVATED"
            /\ At("ORDER_CREATED", stream[i].order) \cap unanswered # {}

\* The stream tells the life of an order in a possible order: created, then activated or
\* cancelled; and nothing trades before it is activated.
CausalOrder ==
    \A i \in 1..Len(stream) :
        /\ stream[i].type \in {"ORDER_ACTIVATED", "ORDER_CANCELED"} =>
             \E j \in At("ORDER_CREATED", stream[i].order) : j < i
        /\ stream[i].type = "TRADE_EXECUTED" =>
             \A o \in {stream[i].order, stream[i].maker} :
                \E j \in At("ORDER_ACTIVATED", o) : j < i

\* A cancellation published after the activation takes the node out of the book for good,
\* unless another activation of the order was published before the cancellation: the map
\* knows one copy of an order only.
CanceledLeavesBook ==
    \A n \in book : \A j \in At("ORDER_CANCELED", n.order) :
        n.at < j /\ j <= read["matching"] => \E i \in At("ORDER_ACTIVATED", n.order) : i # n.at /\ i < j

\* The order has been fed to the book twice.
FedTwice(o) == \E i, j \in At("ORDER_ACTIVATED", o) : i < j /\ j <= read["matching"]

\* The key taker-maker never makes the event store drop a trade as a duplicate, unless one
\* of the two was fed twice and the same two orders met again.
NoTradeDropped ==
    \A t \in trades : ~t.stored /\ IsDuplicate(TradeEvent(t)) => FedTwice(t.taker.order) \/ FedTwice(t.maker.order)

\* omsEngine.ts:155: the orders table is a projection of the events.  When no call has failed
\* and nothing was restarted, a row is there if the projection has handled the creation, and it
\* has the status of the newest activation or cancellation it has handled.
RowIsProjection ==
    (faults = 0 /\ crashes = 0 /\ projectPc = "idle") =>
      \A o \in Order :
        LET handled == since["projection"] + 1..read["projection"]
            told == (At("ORDER_ACTIVATED", o) \cup At("ORDER_CANCELED", o)) \cap handled
            newest == CHOOSE i \in told : \A j \in told : j <= i
        IN  row[o] = IF At("ORDER_CREATED", o) \cap handled = {} THEN "NONE"
                     ELSE IF told = {} THEN "PENDING"
                     ELSE IF stream[newest].type = "ORDER_ACTIVATED" THEN FirstStatus(o)
                     ELSE "CANCELED"

\* Every handler has done all its work.
AllHandled ==
    /\ intentPc = "idle" /\ cancelPc = "idle" /\ projectPc = "idle" /\ trades = {}
    /\ \A s \in Subscriber : read[s] = Len(Topic(s))

\* Every intent the OMS did not miss has been rejected or accepted, repetitions of it
\* notwithstanding, and every accepted order has left PENDING, unless the projection missed
\* its creation.
IntentsAnswered ==
    \A i \in since["intents"] + 1..Len(intents) :
        LET o == intents[i]
            created == At("ORDER_CREATED", o)
        IN  \/ Event("ORDER_REJECTED", o) \in store
            \/ /\ Event("ORDER_CREATED", o) \in store /\ created # {}
               /\ row[o] \notin {"NONE", "PENDING"} \/ \A j \in created : j <= since["projection"]

\* Nothing gets stuck halfway: when no handler can take a step and no call has failed,
\* everything is handled and every intent is answered.
QuietMeansDone ==
    (faults = 0 /\ crashes = 0 /\ ~ENABLED (ProcessIntent \/ ProcessCancel \/ ProjectEvent \/ Feed \/ HandleTrade))
    => AllHandled /\ IntentsAnswered

\* controllers/order.ts:78 says that cancelOrder cancels a pending order: an order whose
\* cancellation the book has handled is not in the book.
CanceledStaysOut ==
    \A n \in book, j \in 1..Len(stream) :
        stream[j] = Event("ORDER_CANCELED", n.order) => j > read["matching"]

\* 003_advanced_orders.sql:35 says that a stop order enters the book on its trigger.
WaitingStaysOut == \A n \in book : row[n.order] # "TRIGGER_WAITING"

\* README.md:125 says that matching workers reconstruct their state by replaying the event
\* stream: when every handler is done, a priced order that was activated, and neither
\* cancelled nor traded with, is in the book.
BookIsReplayed ==
    AllHandled =>
       \A o \in Priced :
         (/\ At("ORDER_ACTIVATED", o) # {} /\ At("ORDER_CANCELED", o) = {}
          /\ \A i \in 1..Len(stream) :
               stream[i].type = "TRADE_EXECUTED" => o \notin {stream[i].order, stream[i].maker})
         => \E n \in book : n.order = o
=============================================================================
