---------------------------- MODULE TerminalProofs ----------------------------
(***************************************************************************)
(* The rooms of a terminal's sockets and the data of its chart, for any    *)
(* number of symbols, selections, lost connections and messages under way. *)
(*                                                                         *)
(* Rooms: the socket in use has only subscriptions of its symbol under     *)
(* way, and an earlier socket ends with the message that ends its          *)
(* connection.  Chart: only the socket in use has messages for the         *)
(* terminal, and they pass only with its symbol; the data of an answered   *)
(* selection can change its symbol only in the two ways that are blamed.   *)
(***************************************************************************)
EXTENDS Terminal, SequenceTheorems, TLAPS

Message == [kind : {"subscribe", "unsubscribe"}, symbol : Symbol] \cup [kind : {"bye"}]

SocketsTyped ==
    /\ view \in 1..MaxViews /\ sock \in 1..view
    /\ symbol \in Symbol /\ symOf \in [Socket -> Symbol] /\ symOf[sock] = symbol
    /\ link \in [Socket -> {"closed", "connecting", "up"}]
    /\ rooms \in [Socket -> SUBSET Symbol]
    /\ up \in [Socket -> Seq(Message)]

\* The socket in use.
InUse(k) ==
    /\ link[k] \in {"connecting", "up"}
    /\ link[k] = "connecting" => up[k] = <<>> /\ rooms[k] = {}
    /\ link[k] = "up" =>
         /\ \A i \in 1..Len(up[k]) : up[k][i].kind = "subscribe" /\ up[k][i].symbol = symbol
         /\ rooms[k] \subseteq {symbol}
         /\ up[k] = <<>> => rooms[k] = {symbol}

\* A socket that was given up.
GivenUp(k) ==
    /\ link[k] = "closed"
    /\ up[k] = <<>> => rooms[k] = {}
    /\ up[k] # <<>> => up[k][Len(up[k])].kind = "bye"

\* A socket not made yet.
Unused(k) == link[k] = "closed" /\ up[k] = <<>> /\ rooms[k] = {}

Sockets ==
    \A k \in Socket : /\ k = sock => InUse(k)
                      /\ k < sock => GivenUp(k)
                      /\ k > sock => Unused(k)

RoomInv == SocketsTyped /\ Sockets

-----------------------------------------------------------------------------
LEMMA RoomsStart == Init => RoomInv
<1> SUFFICES ASSUME Init PROVE RoomInv
  OBVIOUS
<1>1. SocketsTyped
  <2>1. up \in [Socket -> Seq(Message)]
    BY EmptySeq DEF Init
  <2> QED
    BY <2>1, TerminalAssumption DEF Init, SocketsTyped, Socket
<1>2. Sockets
  BY TerminalAssumption DEF Init, Sockets, InUse, GivenUp, Unused, Socket
<1> QED
  BY <1>1, <1>2 DEF RoomInv

\* What the rooms depend on.
membership == <<view, sock, symbol, symOf, link, rooms, up>>

LEMMA RoomsStepElsewhere ==
  ASSUME RoomInv, UNCHANGED membership
  PROVE  RoomInv'
BY DEF RoomInv, membership, SocketsTyped, Sockets, InUse, GivenUp, Unused

\* The gateway takes a message of a socket.
LEMMA RoomsStepServe ==
  ASSUME RoomInv, NEW k \in Socket, Serve(k)
  PROVE  RoomInv'
<1> DEFINE m == Head(up[k])
<1>1. /\ up[k] # <<>> /\ up' = [up EXCEPT ![k] = Tail(@)]
      /\ UNCHANGED <<view, sock, symbol, symOf, link>>
      /\ \/ m.kind = "subscribe" /\ rooms' = [rooms EXCEPT ![k] = @ \cup {m.symbol}]
         \/ m.kind = "unsubscribe" /\ rooms' = [rooms EXCEPT ![k] = @ \ {m.symbol}]
         \/ m.kind = "bye" /\ rooms' = [rooms EXCEPT ![k] = {}]
  BY DEF Serve, hook, chart
<1>2. /\ up[k] \in Seq(Message) /\ rooms \in [Socket -> SUBSET Symbol] /\ link \in [Socket -> {"closed", "connecting", "up"}]
      /\ up \in [Socket -> Seq(Message)] /\ sock \in Nat /\ Socket \subseteq Nat
  BY TerminalAssumption DEF RoomInv, SocketsTyped, Socket
<1>3. /\ Tail(up[k]) \in Seq(Message) /\ m \in Message /\ m = up[k][1]
      /\ Len(up[k]) \in Nat \ {0} /\ Len(Tail(up[k])) = Len(up[k]) - 1
      /\ \A i \in 1..Len(up[k]) - 1 : Tail(up[k])[i] = up[k][i + 1]
      /\ (Tail(up[k]) = <<>> <=> Len(up[k]) = 1)
  <2> DEFINE s == up[k]
  <2>1. s \in Seq(Message) /\ s # <<>>
    BY <1>1, <1>2
  <2> HIDE DEF s
  <2>2. Len(s) \in Nat \ {0} /\ Head(s) = s[1] /\ s[1] \in Message
    BY <2>1
  <2>3. Tail(s) \in Seq(Message) /\ Len(Tail(s)) = Len(s) - 1
    BY <2>1, <2>2
  <2>4. \A i \in 1..Len(s) - 1 : Tail(s)[i] = s[i + 1]
    BY <2>1, <2>2
  <2>5. Tail(s) = <<>> <=> Len(s) = 1
    <3>1. \A t \in Seq(Message) : t = <<>> <=> Len(t) = 0
      BY EmptySeq
    <3>2. Tail(s) = <<>> <=> Len(Tail(s)) = 0
      BY <2>3, <3>1
    <3> QED
      BY <2>2, <2>3, <3>2
  <2> QED
    BY <2>2, <2>3, <2>4, <2>5 DEF s
<1>4. SocketsTyped'
  <2>1. m.kind = "subscribe" => m.symbol \in Symbol
    BY <1>3 DEF Message
  <2>2. rooms' \in [Socket -> SUBSET Symbol] /\ up' \in [Socket -> Seq(Message)]
    BY <1>1, <1>2, <1>3, <2>1
  <2> QED
    BY <1>1, <2>2 DEF RoomInv, SocketsTyped
<1>5. ASSUME NEW j \in Socket
      PROVE  /\ j = sock => InUse(j)'
             /\ j < sock => GivenUp(j)'
             /\ j > sock => Unused(j)'
  <2>1. (j = sock => InUse(j)) /\ (j < sock => GivenUp(j)) /\ (j > sock => Unused(j))
    BY DEF RoomInv, Sockets
  <2>2. CASE j # k
    <3>1. up'[j] = up[j] /\ rooms'[j] = rooms[j] /\ link'[j] = link[j]
      BY <1>1, <1>2, <2>2
    <3> QED
      BY <1>1, <2>1, <3>1 DEF InUse, GivenUp, Unused
  <2>3. CASE j = k
    <3>1. up'[k] = Tail(up[k]) /\ link'[k] = link[k] /\ symbol' = symbol
      BY <1>1, <1>2
    <3>2. CASE k = sock
      <4>1. /\ link[k] = "up" /\ rooms[k] \subseteq {symbol}
            /\ \A i \in 1..Len(up[k]) : up[k][i].kind = "subscribe" /\ up[k][i].symbol = symbol
        BY <1>1, <2>1, <2>3, <3>2 DEF InUse
      <4>2. m.kind = "subscribe" /\ m.symbol = symbol
        BY <1>3, <4>1
      <4>3. rooms'[k] = {symbol}
        BY <1>1, <1>2, <4>1, <4>2
      <4>4. \A i \in 1..Len(Tail(up[k])) : Tail(up[k])[i].kind = "subscribe" /\ Tail(up[k])[i].symbol = symbol
        BY <1>3, <4>1
      <4>5. InUse(k)'
        BY <3>1, <4>1, <4>3, <4>4 DEF InUse
      <4> QED
        BY <1>2, <2>3, <3>2, <4>5
    <3>3. CASE k < sock
      <4>1. link[k] = "closed" /\ up[k][Len(up[k])].kind = "bye"
        BY <1>1, <2>1, <2>3, <3>3 DEF GivenUp
      <4>2. Tail(up[k]) = <<>> => rooms'[k] = {}
        BY <1>1, <1>2, <1>3, <4>1
      <4>3. Tail(up[k]) # <<>> => Tail(up[k])[Len(Tail(up[k]))].kind = "bye"
        BY <1>3, <4>1
      <4>4. GivenUp(k)'
        BY <3>1, <4>1, <4>2, <4>3 DEF GivenUp
      <4> QED
        BY <1>2, <2>3, <3>3, <4>4
    <3>4. CASE k > sock
      BY <1>1, <2>1, <2>3, <3>4 DEF Unused
    <3> QED
      BY <1>2, <3>2, <3>3, <3>4
  <2> QED
    BY <2>2, <2>3
<1> QED
  BY <1>1, <1>4, <1>5 DEF RoomInv, Sockets

\* A connection attempt succeeds and the hook sends its subscriptions.
LEMMA RoomsStepConnect ==
  ASSUME RoomInv, Connect
  PROVE  RoomInv'
<1> DEFINE sent == Subscriptions(IF buffered THEN 3 ELSE 2, symbol)
<1>1. /\ link[sock] = "connecting" /\ link' = [link EXCEPT ![sock] = "up"]
      /\ up' = [up EXCEPT ![sock] = sent] /\ UNCHANGED <<view, sock, symbol, symOf, rooms>>
  BY DEF Connect, chart
<1>2. /\ sock \in Socket /\ Socket \subseteq Nat /\ symbol \in Symbol
      /\ link \in [Socket -> {"closed", "connecting", "up"}] /\ up \in [Socket -> Seq(Message)]
  BY TerminalAssumption DEF RoomInv, SocketsTyped, Socket
<1>3. /\ sent \in Seq(Message) /\ sent # <<>>
      /\ \A i \in 1..Len(sent) : sent[i].kind = "subscribe" /\ sent[i].symbol = symbol
  <2> DEFINE n == IF buffered THEN 3 ELSE 2
  <2>1. n \in Nat \ {0}
    OBVIOUS
  <2>2. sent = [i \in 1..n |-> [kind |-> "subscribe", symbol |-> symbol]]
    BY DEF Subscriptions
  <2>3. [kind |-> "subscribe", symbol |-> symbol] \in Message
    BY <1>2 DEF Message
  <2> HIDE DEF n, sent
  <2>4. sent \in Seq(Message) /\ Len(sent) = n
    BY <2>1, <2>2, <2>3
  <2> QED
    BY <2>1, <2>2, <2>4
<1> HIDE DEF sent
<1>4. SocketsTyped'
  BY <1>1, <1>2, <1>3 DEF RoomInv, SocketsTyped
<1>5. ASSUME NEW j \in Socket
      PROVE  /\ j = sock => InUse(j)'
             /\ j < sock => GivenUp(j)'
             /\ j > sock => Unused(j)'
  <2>1. (j = sock => InUse(j)) /\ (j < sock => GivenUp(j)) /\ (j > sock => Unused(j))
    BY DEF RoomInv, Sockets
  <2>2. CASE j # sock
    BY <1>1, <1>2, <2>1, <2>2 DEF GivenUp, Unused
  <2>3. CASE j = sock
    <3>1. link'[j] = "up" /\ up'[j] = sent /\ rooms'[j] = {} /\ symbol' = symbol
      BY <1>1, <1>2, <2>1, <2>3 DEF InUse
    <3> QED
      BY <1>2, <1>3, <2>3, <3>1 DEF InUse
  <2> QED
    BY <2>2, <2>3
<1> QED
  BY <1>1, <1>4, <1>5 DEF RoomInv, Sockets

\* A lost connection leaves its rooms.
LEMMA RoomsStepDrop ==
  ASSUME RoomInv, Drop
  PROVE  RoomInv'
<1>1. /\ link' = [link EXCEPT ![sock] = "connecting"] /\ rooms' = [rooms EXCEPT ![sock] = {}]
      /\ up' = [up EXCEPT ![sock] = <<>>] /\ UNCHANGED <<view, sock, symbol, symOf>>
  BY DEF Drop, hook, chart
<1>2. /\ sock \in Socket /\ Socket \subseteq Nat /\ rooms \in [Socket -> SUBSET Symbol]
      /\ link \in [Socket -> {"closed", "connecting", "up"}] /\ up \in [Socket -> Seq(Message)]
  BY TerminalAssumption DEF RoomInv, SocketsTyped, Socket
<1>3. SocketsTyped'
  BY <1>1, <1>2, EmptySeq DEF RoomInv, SocketsTyped
<1>4. Sockets'
  BY <1>1, <1>2 DEF RoomInv, Sockets, InUse, GivenUp, Unused
<1> QED
  BY <1>3, <1>4 DEF RoomInv

\* A new symbol: the old socket is given up, the next one is in use.
LEMMA RoomsStepSelect ==
  ASSUME RoomInv, NEW s \in Symbol, SelectSymbol(s)
  PROVE  RoomInv'
<1> DEFINE farewell == <<[kind |-> "unsubscribe", symbol |-> symOf[sock]], [kind |-> "bye"]>>
<1>1. /\ view < MaxViews /\ view' = view + 1 /\ symbol' = s /\ sock' = sock + 1
      /\ symOf' = [symOf EXCEPT ![sock + 1] = s] /\ rooms' = rooms
      /\ up' = [up EXCEPT ![sock] = IF link[sock] = "up" THEN @ \o farewell ELSE <<>>]
      /\ link' = [link EXCEPT ![sock] = "closed", ![sock + 1] = "connecting"]
  BY DEF SelectSymbol, NewChart, Cleanup
<1>2. /\ sock \in Socket /\ sock + 1 \in Socket /\ Socket \subseteq Nat
      /\ view \in Nat /\ MaxViews \in Nat /\ view + 1 \in 1..MaxViews /\ sock + 1 \in 1..(view + 1)
      /\ symOf \in [Socket -> Symbol] /\ rooms \in [Socket -> SUBSET Symbol]
      /\ link \in [Socket -> {"closed", "connecting", "up"}] /\ up \in [Socket -> Seq(Message)]
  BY <1>1, TerminalAssumption DEF RoomInv, SocketsTyped, Socket
<1>3. farewell \in Seq(Message) /\ Len(farewell) = 2 /\ farewell[2].kind = "bye"
  BY <1>2 DEF Message
<1> HIDE DEF farewell
<1>4. /\ up[sock] \o farewell \in Seq(Message) /\ Len(up[sock] \o farewell) = Len(up[sock]) + 2
      /\ (up[sock] \o farewell)[Len(up[sock]) + 2].kind = "bye" /\ Len(up[sock]) \in Nat
  <2>1. up[sock] \in Seq(Message) /\ Len(up[sock]) \in Nat
    BY <1>2, LenProperties
  <2> DEFINE q == up[sock]
  <2> HIDE DEF q
  <2>2. q \in Seq(Message) /\ Len(q) \in Nat
    BY <2>1 DEF q
  <2>3. /\ q \o farewell \in Seq(Message) /\ Len(q \o farewell) = Len(q) + Len(farewell)
        /\ \A i \in 1..Len(q) + Len(farewell) :
               (q \o farewell)[i] = IF i <= Len(q) THEN q[i] ELSE farewell[i - Len(q)]
    BY <1>3, <2>2, ConcatProperties, Zenon
  <2>4. (q \o farewell)[Len(q) + 2] = farewell[2]
    <3> DEFINE n == Len(q)
    <3>1. n \in Nat /\ n + 2 \in 1..n + Len(farewell) /\ ~ (n + 2 <= n) /\ (n + 2) - n = 2
      BY <1>3, <2>2
    <3> QED
      BY <2>3, <3>1
  <2> QED
    BY <1>3, <2>2, <2>3, <2>4 DEF q
<1>5. up' \in [Socket -> Seq(Message)] /\ link' \in [Socket -> {"closed", "connecting", "up"}]
  BY <1>1, <1>2, <1>4, EmptySeq
<1>6. SocketsTyped'
  BY <1>1, <1>2, <1>5 DEF RoomInv, SocketsTyped
<1>7. ASSUME NEW j \in Socket
      PROVE  /\ j = sock + 1 => InUse(j)'
             /\ j < sock + 1 => GivenUp(j)'
             /\ j > sock + 1 => Unused(j)'
  <2>1. (j = sock => InUse(j)) /\ (j < sock => GivenUp(j)) /\ (j > sock => Unused(j))
    BY DEF RoomInv, Sockets
  <2>2. CASE j = sock
    <3>1. GivenUp(j)'
      <4>1. CASE link[sock] = "up"
        <5>1. link'[j] = "closed" /\ up'[j] = up[sock] \o farewell /\ up'[j] # <<>>
          BY <1>1, <1>2, <1>4, <2>2, <4>1
        <5>2. up'[j][Len(up'[j])].kind = "bye"
          BY <1>4, <5>1
        <5> QED
          BY <5>1, <5>2 DEF GivenUp
      <4>2. CASE link[sock] # "up"
        <5>1. link'[j] = "closed" /\ up'[j] = <<>> /\ rooms'[j] = {}
          BY <1>1, <1>2, <2>1, <2>2, <4>2 DEF InUse
        <5> QED
          BY <5>1 DEF GivenUp
      <4> QED
        BY <4>1, <4>2
    <3> QED
      BY <1>2, <2>2, <3>1
  <2>3. CASE j = sock + 1
    <3>1. link'[j] = "connecting" /\ up'[j] = <<>> /\ rooms'[j] = {}
      BY <1>1, <1>2, <2>1, <2>3 DEF Unused
    <3>2. InUse(j)'
      BY <3>1 DEF InUse
    <3> QED
      BY <1>2, <2>3, <3>2
  <2>4. CASE j # sock /\ j # sock + 1
    <3>1. link'[j] = link[j] /\ up'[j] = up[j] /\ rooms'[j] = rooms[j]
      BY <1>1, <1>2, <2>4
    <3> QED
      BY <1>2, <2>1, <2>4, <3>1 DEF GivenUp, Unused
  <2> QED
    BY <2>2, <2>3, <2>4
<1> QED
  BY <1>1, <1>6, <1>7 DEF RoomInv, Sockets

\* A new chart of the same symbol only counts the selection.
LEMMA RoomsStepTimeframe ==
  ASSUME RoomInv, ChangeTimeframe
  PROVE  RoomInv'
<1>1. view < MaxViews /\ view' = view + 1 /\ UNCHANGED <<sock, symbol, symOf, link, rooms, up>>
  BY DEF ChangeTimeframe, NewChart, hook, wire
<1>2. view' \in 1..MaxViews /\ sock \in 1..view'
  BY <1>1, TerminalAssumption DEF RoomInv, SocketsTyped
<1>3. SocketsTyped'
  BY <1>1, <1>2 DEF RoomInv, SocketsTyped
<1>4. Sockets'
  BY <1>1 DEF RoomInv, Sockets, InUse, GivenUp, Unused
<1> QED
  BY <1>3, <1>4 DEF RoomInv

LEMMA RoomsStep ==
  ASSUME RoomInv, [Next]_vars
  PROVE  RoomInv'
<1>1. CASE \/ \E k \in Socket : Deliver(k)
           \/ \E s \in Symbol : BroadcastTick(s) \/ BroadcastIndicators(s)
           \/ \E l \in loads : Respond(l)
           \/ BridgeOrderEvent \/ PingTimeout \/ TimePasses \/ ToggleReplay \/ UNCHANGED vars
  <2>1. UNCHANGED membership
    BY <1>1 DEF Deliver, BroadcastTick, BroadcastIndicators, Broadcast, Respond, BridgeOrderEvent, PingTimeout, TimePasses,
                ToggleReplay, vars, membership, hook, wire, chart
  <2> QED
    BY <2>1, RoomsStepElsewhere
<1>2. ASSUME NEW k \in Socket, Serve(k)
      PROVE  RoomInv'
  BY <1>2, RoomsStepServe
<1>3. ASSUME NEW s \in Symbol, SelectSymbol(s)
      PROVE  RoomInv'
  BY <1>3, RoomsStepSelect
<1>4. CASE ChangeTimeframe
  BY <1>4, RoomsStepTimeframe
<1>5. CASE Connect
  BY <1>5, RoomsStepConnect
<1>6. CASE Drop
  BY <1>6, RoomsStepDrop
<1> QED
  BY <1>1, <1>2, <1>3, <1>4, <1>5, <1>6 DEF Next

\* The invariant of the sockets' rooms, in every state of hook and gateway.
THEOREM RoomInvariant == Spec => []RoomInv
<1>1. Init => RoomInv
  BY RoomsStart
<1>2. RoomInv /\ [Next]_vars => RoomInv'
  BY RoomsStep
<1> QED
  BY <1>1, <1>2, PTL DEF Spec

\* Once its messages are handled, the socket in use is in the room of the selected
\* symbol and every other socket in none.
THEOREM TerminalRooms == Spec => []RoomsWhenSettled
<1>1. RoomInv => RoomsWhenSettled
  <2> SUFFICES ASSUME RoomInv, NEW k \in Socket, up[k] = <<>>
               PROVE  rooms[k] = IF k = sock /\ link[k] = "up" THEN {symbol} ELSE {}
    BY DEF RoomsWhenSettled
  <2>1. k \in Nat /\ sock \in Nat
    BY TerminalAssumption DEF RoomInv, SocketsTyped, Socket
  <2>2. (k = sock => InUse(k)) /\ (k < sock => GivenUp(k)) /\ (k > sock => Unused(k))
    BY DEF RoomInv, Sockets
  <2>3. CASE k = sock
    BY <2>2, <2>3 DEF InUse
  <2>4. CASE k < sock
    BY <2>1, <2>2, <2>4 DEF GivenUp
  <2>5. CASE k > sock
    BY <2>1, <2>2, <2>5 DEF Unused
  <2> QED
    BY <2>1, <2>3, <2>4, <2>5
<1> QED
  BY <1>1, RoomInvariant, PTL

-----------------------------------------------------------------------------
\* Only a connected socket, hence only the one in use, has messages for the terminal.
MessagesInv ==
    /\ down = [k \in Socket |-> down[k]]
    /\ \A k \in Socket : link[k] # "up" => down[k] = <<>>

\* A request of the present selection is for the symbol selected.
LoadsInv ==
    /\ loads \subseteq [view : Nat, symbol : Symbol]
    /\ \A l \in loads : l.view <= view /\ (l.view = view => l.symbol = symbol)

Shows(s) == history = s /\ active.prices = {s} /\ active.close = s

CandleInv ==
    /\ active = [prices |-> active.prices, close |-> active.close, time |-> active.time]
    /\ Loading(view, symbol) \notin loads /\ blame = {} => Shows(symbol)

ChartInv == RoomInv /\ MessagesInv /\ LoadsInv /\ CandleInv

LEMMA ChartStart == Init => ChartInv
<1> SUFFICES ASSUME Init PROVE ChartInv
  OBVIOUS
<1>1. MessagesInv
  BY DEF Init, MessagesInv
<1>2. LoadsInv
  BY TerminalAssumption DEF Init, LoadsInv, Loading
<1>3. CandleInv
  BY DEF Init, CandleInv, Loading, NoCandle
<1> QED
  BY <1>1, <1>2, <1>3, RoomsStart DEF ChartInv

LEMMA MessagesStep ==
  ASSUME RoomInv, MessagesInv, [Next]_vars
  PROVE  MessagesInv'
<1> USE DEF MessagesInv
<1>0. sock \in Socket /\ link \in [Socket -> {"closed", "connecting", "up"}]
  BY TerminalAssumption DEF RoomInv, SocketsTyped, Socket
<1>1. ASSUME NEW k \in Socket, Serve(k)
      PROVE  MessagesInv'
  <2>1. link' = link /\ (down' = down \/ \E x : down' = Send(k, x))
    BY <1>1 DEF Serve
  <2> QED
    BY <2>1 DEF Send
<1>2. ASSUME NEW k \in Socket, Deliver(k)
      PROVE  MessagesInv'
  BY <1>2 DEF Deliver
<1>3. ASSUME NEW s \in Symbol, BroadcastTick(s) \/ BroadcastIndicators(s)
      PROVE  MessagesInv'
  <2>1. PICK kind, time : Broadcast(kind, s, time)
    BY <1>3 DEF BroadcastTick, BroadcastIndicators
  <2> DEFINE x == [kind |-> kind, symbol |-> s, time |-> time]
  <2>2. link' = link /\ down' = [k \in Socket |-> IF s \in rooms[k] THEN Send(k, x)[k] ELSE down[k]]
    BY <2>1 DEF Broadcast
  <2>3. \A k \in Socket : link[k] # "up" => Send(k, x)[k] = down[k]
    BY DEF Send
  <2> QED
    BY <2>2, <2>3
<1>4. ASSUME NEW s \in Symbol, SelectSymbol(s)
      PROVE  MessagesInv'
  <2>1. /\ link' = [link EXCEPT ![sock] = "closed", ![sock + 1] = "connecting"]
        /\ down' = [down EXCEPT ![sock] = <<>>]
    BY <1>4 DEF SelectSymbol, Cleanup
  <2>2. link[sock + 1] # "up" \/ sock + 1 \notin Socket
    BY <1>0, TerminalAssumption DEF RoomInv, Sockets, Unused, Socket
  <2> QED
    BY <1>0, <2>1, <2>2
<1>5. CASE Connect
  BY <1>0, <1>5 DEF Connect
<1>6. CASE Drop
  BY <1>0, <1>6 DEF Drop
<1>7. CASE \/ \E l \in loads : Respond(l)
           \/ BridgeOrderEvent \/ PingTimeout \/ TimePasses \/ ChangeTimeframe \/ ToggleReplay \/ UNCHANGED vars
  BY <1>7 DEF Respond, BridgeOrderEvent, PingTimeout, TimePasses, ChangeTimeframe, ToggleReplay, vars, wire
<1> QED
  BY <1>1, <1>2, <1>3, <1>4, <1>5, <1>6, <1>7 DEF Next

LEMMA LoadsStep ==
  ASSUME RoomInv, LoadsInv, [Next]_vars
  PROVE  LoadsInv'
<1> USE DEF LoadsInv
<1>0. view \in Nat /\ symbol \in Symbol
  BY DEF RoomInv, SocketsTyped
<1>1. ASSUME NEW s \in Symbol, NewChart(s), symbol' = s
      PROVE  LoadsInv'
  BY <1>0, <1>1 DEF NewChart, Loading
<1>2. CASE ChangeTimeframe \/ \E s \in Symbol : SelectSymbol(s)
  BY <1>0, <1>1, <1>2 DEF ChangeTimeframe, SelectSymbol, hook
<1>3. ASSUME NEW l \in loads, Respond(l)
      PROVE  LoadsInv'
  BY <1>3 DEF Respond, hook
<1>4. CASE UNCHANGED <<loads, view, symbol>>
  BY <1>4
<1>5. CASE \/ \E k \in Socket : Serve(k) \/ Deliver(k)
           \/ \E s \in Symbol : BroadcastTick(s) \/ BroadcastIndicators(s)
           \/ BridgeOrderEvent \/ PingTimeout \/ TimePasses \/ ToggleReplay \/ Connect \/ Drop \/ UNCHANGED vars
  BY <1>4, <1>5 DEF Serve, Deliver, BroadcastTick, BroadcastIndicators, Broadcast, BridgeOrderEvent, PingTimeout, TimePasses,
                    ToggleReplay, Connect, Drop, vars, hook, chart
<1> QED
  BY <1>2, <1>3, <1>5 DEF Next

\* A tick of the symbol shown leaves a candle of that symbol.
LEMMA TickedCandle ==
  ASSUME NEW s, NEW t, t.symbol = s,
         active = [prices |-> active.prices, close |-> active.close, time |-> active.time]
  PROVE  LET c == Ticked(active, t) IN
         /\ c = [prices |-> c.prices, close |-> c.close, time |-> c.time]
         /\ active.prices = {s} /\ active.close = s => c.prices = {s} /\ c.close = s
BY DEF Ticked, NoCandle

LEMMA CandleStep ==
  ASSUME ChartInv, [Next]_vars
  PROVE  CandleInv'
<1> USE DEF CandleInv, Shows
<1>0. /\ active = [prices |-> active.prices, close |-> active.close, time |-> active.time]
      /\ Loading(view, symbol) \notin loads /\ blame = {} => Shows(symbol)
      /\ view \in Nat /\ symOf[sock] = symbol
  BY DEF ChartInv, RoomInv, SocketsTyped
<1>1. ASSUME NEW k \in Socket, Deliver(k)
      PROVE  CandleInv'
  <2>1. symOf[k] = symbol
    <3>1. link[k] = "up"
      BY <1>1 DEF Deliver, ChartInv, MessagesInv
    <3>2. k = sock
      <4>1. (k < sock => GivenUp(k)) /\ (k > sock => Unused(k))
        BY DEF ChartInv, RoomInv, Sockets
      <4>2. ~ (k < sock) /\ ~ (k > sock)
        BY <3>1, <4>1 DEF GivenUp, Unused
      <4>3. k \in Nat /\ sock \in Nat
        BY TerminalAssumption DEF ChartInv, RoomInv, SocketsTyped, Socket
      <4> QED
        BY <4>2, <4>3
    <3> QED
      BY <1>0, <3>2
  <2>2. UNCHANGED <<loads, view, history, blame, symbol>>
    BY <1>1 DEF Deliver, hook
  <2>3. UNCHANGED active \/ \E t : t.symbol = symbol /\ active' = Ticked(active, t)
    BY <1>1, <2>1 DEF Deliver, ApplyTick
  <2> QED
    BY <1>0, <2>2, <2>3, TickedCandle
<1>2. ASSUME NEW l \in loads, Respond(l)
      PROVE  CandleInv'
  <2>1. UNCHANGED <<view, symbol>> /\ history' = l.symbol
    BY <1>2 DEF Respond, hook
  <2>2. CASE l.view = view
    <3>1. \E time : active' = [prices |-> {l.symbol}, close |-> l.symbol, time |-> time]
      BY <1>2, <2>2 DEF Respond, Bound
    <3>2. l.symbol = symbol
      BY <2>2 DEF ChartInv, LoadsInv
    <3> QED
      BY <2>1, <3>1, <3>2
  <2>3. CASE l.view # view
    <3>1. blame' # {}
      BY <1>2, <2>3 DEF Respond
    <3>2. UNCHANGED active \/ \E time : active' = [prices |-> {l.symbol}, close |-> l.symbol, time |-> time]
      BY <1>2 DEF Respond, Bound
    <3> QED
      BY <1>0, <3>1, <3>2
  <2> QED
    BY <2>2, <2>3
<1>3. ASSUME ReapplyTick
      PROVE  /\ active' = [prices |-> active'.prices, close |-> active'.close, time |-> active'.time]
             /\ blame' = {} => blame = {}
             /\ blame' = {} /\ active.prices = {symbol} /\ active.close = symbol
                  => active'.prices = {symbol} /\ active'.close = symbol
  <2>1. CASE Drawn(tick)
    <3>1. /\ active' = Ticked(active, tick)
          /\ blame' = IF tick.symbol # symbol THEN blame \cup {"stale tick"} ELSE blame
      BY <1>3, <2>1 DEF ReapplyTick
    <3> QED
      BY <1>0, <3>1, TickedCandle
  <2>2. CASE ~ Drawn(tick)
    BY <1>0, <1>3, <2>2 DEF ReapplyTick
  <2> QED
    BY <2>1, <2>2
<1>4. CASE ToggleReplay
  <2>1. /\ UNCHANGED <<loads, view, history, symbol>>
        /\ ReapplyTick \/ UNCHANGED <<active, blame>>
    BY <1>4 DEF ToggleReplay, hook
  <2> QED
    BY <1>0, <1>3, <2>1
<1>5. CASE ChangeTimeframe
  <2>1. symbol' = symbol /\ view' = view + 1 /\ Loading(view + 1, symbol) \in loads' /\ ReapplyTick
    BY <1>5 DEF ChangeTimeframe, NewChart, hook
  <2> QED
    BY <1>3, <2>1
<1>6. ASSUME NEW s \in Symbol, SelectSymbol(s)
      PROVE  CandleInv'
  <2>1. symbol' = s /\ view' = view + 1 /\ Loading(view + 1, s) \in loads' /\ UNCHANGED active
    BY <1>6 DEF SelectSymbol, NewChart
  <2> QED
    BY <1>0, <2>1
<1>7. CASE UNCHANGED <<loads, view, history, active, blame, symbol>>
  BY <1>0, <1>7
<1>8. CASE \/ \E k \in Socket : Serve(k)
           \/ \E s \in Symbol : BroadcastTick(s) \/ BroadcastIndicators(s)
           \/ BridgeOrderEvent \/ PingTimeout \/ TimePasses \/ Connect \/ Drop \/ UNCHANGED vars
  BY <1>7, <1>8 DEF Serve, BroadcastTick, BroadcastIndicators, Broadcast, BridgeOrderEvent, PingTimeout, TimePasses,
                    Connect, Drop, vars, hook, chart
<1> QED
  BY <1>1, <1>2, <1>4, <1>5, <1>6, <1>8 DEF Next

\* Once every request of a terminal is answered, history and active candle are of the
\* selected symbol, except in the two ways that are blamed.
THEOREM TerminalChart == Spec => []ChartOfSymbol
<1>1. Init => ChartInv
  BY ChartStart
<1>2. ChartInv /\ [Next]_vars => ChartInv'
  BY RoomsStep, MessagesStep, LoadsStep, CandleStep DEF ChartInv
<1>3. ChartInv => ChartOfSymbol
  BY DEF ChartInv, CandleInv, Shows, ChartOfSymbol
<1> QED
  BY <1>1, <1>2, <1>3, PTL DEF Spec
===============================================================================
