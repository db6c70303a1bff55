-------------------------------- MODULE Terminal --------------------------------
(***************************************************************************)
(* What one terminal shows of the symbol it has selected: the rooms of the *)
(* gateway (index.ts), the hook that keeps a socket per selected symbol    *)
(* (useWebSockets.ts) and the chart that loads a history and folds ticks   *)
(* into it (TVChart.tsx).  Two runs of an effect of React are atomic;      *)
(* messages and responses travel, and a response may overtake another.     *)
(*                                                                         *)
(* Prices are known by the symbol they belong to, times by the number of   *)
(* their candle interval, an order book by its version.                    *)
(***************************************************************************)
EXTENDS Integers, Sequences, FiniteSets, SequencesExt

CONSTANTS Symbol, Home,    \* the symbols, and the one selected at first
          MaxViews,        \* bound: selections of a symbol or a timeframe, the first included
          MaxDrops,        \* bound: connections lost
          MaxChanges,      \* bound: candle intervals and versions of an order book, together
          MaxInFlight      \* bound: messages under way to the terminal

ASSUME TerminalAssumption ==
    /\ Home \in Symbol
    /\ {MaxViews, MaxDrops, MaxChanges, MaxInFlight} \subseteq Nat /\ MaxViews > 0

VARIABLES
    now, depth,                     \* the server's time and the version of its books
    rooms,                          \* rooms of each socket, at the server
    ghosts,                         \* rooms of lost connections the server takes for alive
    symbol, sock, symOf,            \* the selected symbol, the socket in use, each socket's symbol
    link,                \* each socket's connection; the hook's state
    buffered,                       \* whether the socket in use holds a message until it connects
    up, down,                       \* messages to the server and to the terminal
    tick, book,                     \* the hook's last tick and the version of the book it shows
    loads,                          \* histories requested and not yet answered, by selection
    view,                           \* number of the selection the chart was made for
    history, active, maxTime,       \* the chart: its history, active candle and latest time
    replay,                         \* isReplayMode
    blame,                          \* why the chart may show another symbol
    drops

server == <<now, depth, ghosts>>
hook == <<symbol, sock, symOf, buffered>>
wire == <<rooms, link, up, down>>
shown == <<tick, book>>
chart == <<loads, view, history, active, maxTime, replay, blame>>
vars == <<server, hook, wire, shown, chart, drops>>

Socket == 1..MaxViews
None == [symbol |-> "none", time |-> -1]
NoCandle == [prices |-> {}, close |-> "none", time |-> -1]
Loading(v, s) == [view |-> v, symbol |-> s]

Init ==
    /\ now = 0 /\ depth = 0
    /\ rooms = [k \in Socket |-> {}] /\ ghosts = {}
    /\ symbol = Home /\ sock = 1 /\ symOf = [k \in Socket |-> Home] /\ buffered = FALSE
    /\ link = [k \in Socket |-> IF k = 1 THEN "connecting" ELSE "closed"]
    /\ up = [k \in Socket |-> <<>>] /\ down = [k \in Socket |-> <<>>]
    /\ tick = None /\ book = 0
    /\ view = 1 /\ loads = {Loading(1, Home)}
    /\ history = "none" /\ active = NoCandle /\ maxTime = -1
    /\ replay = FALSE /\ blame = {} /\ drops = 0

-----------------------------------------------------------------------------
\* The gateway.

Send(k, message) == [down EXCEPT ![k] = IF link[k] = "up" THEN Append(@, message) ELSE @]

\* "subscribe" joins the room and answers with the book; "bye" is the end of the connection.
Serve(k) ==
    /\ up[k] # <<>>
    /\ up' = [up EXCEPT ![k] = Tail(@)]
    /\ LET m == Head(up[k]) IN
        \/ /\ m.kind = "subscribe"
           /\ rooms' = [rooms EXCEPT ![k] = @ \cup {m.symbol}]
           /\ down' = Send(k, [kind |-> "initial", symbol |-> m.symbol, version |-> depth])
        \/ /\ m.kind = "unsubscribe"
           /\ rooms' = [rooms EXCEPT ![k] = @ \ {m.symbol}]
           /\ UNCHANGED down
        \/ /\ m.kind = "bye"
           /\ rooms' = [rooms EXCEPT ![k] = {}]
           /\ UNCHANGED down
    /\ UNCHANGED <<server, hook, link, shown, chart, drops>>

\* A tick or the indicators of a symbol go to its room.
Broadcast(kind, s, time) ==
    /\ \A k \in Socket : s \in rooms[k] => Len(down[k]) < MaxInFlight
    /\ down' = [k \in Socket |->
                  IF s \in rooms[k] THEN Send(k, [kind |-> kind, symbol |-> s, time |-> time])[k]
                  ELSE down[k]]
    /\ UNCHANGED <<server, hook, rooms, link, up, shown, chart, drops>>

BroadcastTick(s) == Broadcast("tick", s, now)
BroadcastIndicators(s) == \E time \in {now - 1, now} : Broadcast("indicators", s, time)

\* order.events: what the bridge looks for, evt.type, is no field of these events
\* (eventType is), so that a change of a book is told to nobody.
BridgeOrderEvent ==
    /\ now + depth < MaxChanges
    /\ depth' = depth + 1
    /\ UNCHANGED <<now, ghosts, hook, wire, shown, chart, drops>>

TimePasses ==
    /\ now + depth < MaxChanges
    /\ now' = now + 1
    /\ UNCHANGED <<depth, ghosts, hook, wire, shown, chart, drops>>

-----------------------------------------------------------------------------
\* The chart.

\* The candle after a tick: it is folded in, or opens one at the close of the last.
Ticked(candle, t) ==
    IF candle.time = t.time
    THEN [candle EXCEPT !.prices = @ \cup {t.symbol}, !.close = t.symbol]
    ELSE [prices |-> {t.symbol} \cup (IF candle = NoCandle THEN {} ELSE {candle.close}),
          close |-> t.symbol, time |-> t.time]

Drawn(t) == ~replay' /\ t # None /\ t.time >= maxTime

ApplyTick(t) ==
    IF Drawn(t) THEN maxTime' = t.time /\ active' = Ticked(active, t) ELSE UNCHANGED <<maxTime, active>>

\* The effects run again with the tick and the indicators they had, when replay mode
\* ends or the timeframe changes.  The time of the last indicators is not kept: it is
\* any up to now, or none.
ReapplyTick ==
    /\ \E signal \in -1..now : maxTime' = Max({maxTime, signal, IF Drawn(tick) THEN tick.time ELSE -1})
    /\ active' = IF Drawn(tick) THEN Ticked(active, tick) ELSE active
    /\ blame' = IF Drawn(tick) /\ tick.symbol # symbol THEN blame \cup {"stale tick"} ELSE blame

\* A selection makes a new chart and asks for its history.
NewChart(s) ==
    /\ view < MaxViews
    /\ view' = view + 1
    /\ loads' = loads \cup {Loading(view + 1, s)}

\* loadChartData, once its history is there (fetched, or made up when that failed).
Bound(s, time) ==
    /\ maxTime' = time
    /\ active' = [prices |-> {s}, close |-> s, time |-> time]

\* For an earlier selection it binds the data to a chart that was removed, which
\* may throw after the history was replaced.
Respond(l) ==
    /\ loads' = loads \ {l}
    /\ history' = l.symbol
    /\ \/ \E time \in {now - 1, now} : Bound(l.symbol, time)
       \/ l.view # view /\ UNCHANGED <<maxTime, active>>
    /\ blame' = IF l.view = view THEN {} ELSE blame \cup {"overtaken"}
    /\ UNCHANGED <<server, hook, wire, shown, view, replay, drops>>

ChangeTimeframe ==
    /\ ~replay
    /\ UNCHANGED replay
    /\ NewChart(symbol)
    /\ ReapplyTick
    /\ UNCHANGED <<server, hook, wire, shown, history, drops>>

ToggleReplay ==
    /\ replay' = ~replay
    /\ IF replay THEN ReapplyTick ELSE UNCHANGED <<maxTime, active, blame>>
    /\ UNCHANGED <<server, hook, wire, shown, loads, view, history, drops>>

-----------------------------------------------------------------------------
\* The hook.

Subscriptions(n, s) == [i \in 1..n |-> [kind |-> "subscribe", symbol |-> s]]

\* Slip: only the message the hook held back is sent.
ConnectWithoutSubscribing ==
    /\ link[sock] = "connecting"
    /\ link' = [link EXCEPT ![sock] = "up"]
    /\ up' = [up EXCEPT ![sock] = Subscriptions(IF buffered THEN 1 ELSE 0, symbol)]
    /\ buffered' = FALSE
    /\ UNCHANGED <<server, symbol, sock, symOf, rooms, down, shown, chart, drops>>

\* On "connect" the hook subscribes, and once more in the effect of connected.
Connect ==
    /\ link[sock] = "connecting"
    /\ link' = [link EXCEPT ![sock] = "up"]
    /\ up' = [up EXCEPT ![sock] = Subscriptions(IF buffered THEN 3 ELSE 2, symbol)]
    /\ buffered' = FALSE
    /\ UNCHANGED <<server, symbol, sock, symOf, rooms, down, shown, chart, drops>>

\* The connection is lost, with what was under way; the socket will connect anew, under
\* another id.  The gateway keeps the lost one in its rooms and sends there to nobody.
Drop ==
    /\ drops < MaxDrops
    /\ link[sock] = "up"
    /\ drops' = drops + 1
    /\ link' = [link EXCEPT ![sock] = "connecting"]
    /\ ghosts' = ghosts \cup {[id |-> drops', rooms |-> rooms[sock]]}
    /\ rooms' = [rooms EXCEPT ![sock] = {}]
    /\ up' = [up EXCEPT ![sock] = <<>>] /\ down' = [down EXCEPT ![sock] = <<>>]
    /\ UNCHANGED <<now, depth, hook, shown, chart>>

\* No pong came within pingTimeout: the lost connection leaves its rooms.
PingTimeout ==
    /\ \E g \in ghosts : ghosts' = ghosts \ {g}
    /\ UNCHANGED <<now, depth, hook, wire, shown, chart, drops>>

\* Slip: the cleanup leaves the room but not the connection.
CleanupOpen(k) ==
    /\ up' = [up EXCEPT ![k] = IF link[k] = "up" THEN @ ELSE <<>>]
    /\ link' = [link EXCEPT ![k] = IF link[k] = "up" THEN "up" ELSE "closed", ![k + 1] = "connecting"]
    /\ UNCHANGED down

\* The cleanup of the old socket: unsubscribe and disconnect.
Cleanup(k) ==
    /\ up' = [up EXCEPT ![k] = IF link[k] = "up"
                THEN @ \o <<[kind |-> "unsubscribe", symbol |-> symOf[k]], [kind |-> "bye"]>> ELSE <<>>]
    /\ link' = [link EXCEPT ![k] = "closed", ![k + 1] = "connecting"]
    /\ down' = [down EXCEPT ![k] = <<>>]

\* A new symbol gets a new socket and a new chart; last tick and book stay on
\* screen.  A hook that was connected subscribes on the new socket ahead of time.
SelectSymbol(s) ==
    /\ ~replay /\ s # symbol
    /\ NewChart(s)
    /\ symbol' = s /\ sock' = sock + 1 /\ symOf' = [symOf EXCEPT ![sock + 1] = s]
    /\ buffered' = (link[sock] = "up")
    /\ Cleanup(sock)
    /\ UNCHANGED <<server, rooms, shown, history, active, maxTime, replay, blame, drops>>

\* A message that is not of the socket's symbol is ignored.
Deliver(k) ==
    /\ down[k] # <<>>
    /\ down' = [down EXCEPT ![k] = Tail(@)]
    /\ UNCHANGED replay
    /\ LET m == Head(down[k]) IN
        \/ /\ m.symbol # symOf[k]
           /\ UNCHANGED <<shown, active, maxTime>>
        \/ /\ m.symbol = symOf[k] /\ m.kind = "initial"
           /\ book' = m.version
           /\ UNCHANGED <<tick, active, maxTime>>
        \/ /\ m.symbol = symOf[k] /\ m.kind = "tick"
           /\ tick' = [symbol |-> m.symbol, time |-> m.time]
           /\ ApplyTick(tick')
           /\ UNCHANGED book
        \/ /\ m.symbol = symOf[k] /\ m.kind = "indicators"
           /\ maxTime' = IF ~replay /\ m.time > maxTime THEN m.time ELSE maxTime
           /\ UNCHANGED <<shown, active>>
    /\ UNCHANGED <<server, hook, rooms, link, up, loads, view, history, blame, drops>>

Next ==
    \/ \E k \in Socket : Serve(k) \/ Deliver(k)
    \/ \E s \in Symbol : BroadcastTick(s) \/ BroadcastIndicators(s) \/ SelectSymbol(s)
    \/ \E l \in loads : Respond(l)
    \/ BridgeOrderEvent \/ TimePasses \/ ChangeTimeframe \/ ToggleReplay \/ Connect \/ Drop \/ PingTimeout

\* Messages arrive, requests are answered, connection attempts succeed and the gateway's
\* pings go on.
Fairness ==
    /\ \A k \in Socket : WF_vars(Serve(k)) /\ WF_vars(Deliver(k))
    /\ WF_vars(Connect) /\ WF_vars(PingTimeout) /\ WF_vars(\E l \in loads : Respond(l))

Spec == Init /\ [][Next]_vars /\ Fairness

-----------------------------------------------------------------------------
\* Once every request is answered, history and active candle are of the selected
\* symbol, in replay mode too.  The two ways this fails are excluded: a response
\* of an earlier selection came last, or the effect of a tick ran again with a tick
\* of the symbol selected before.
ChartOfSymbol ==
    loads = {} /\ blame = {} => history = symbol /\ active.prices \subseteq {symbol}

\* When all messages are handled, the socket in use is in the room of the selected
\* symbol and no other socket is in any, however selections, connections and losses
\* of the connection follow each other.
RoomsWhenSettled ==
    \A k \in Socket : up[k] = <<>> =>
        rooms[k] = IF k = sock /\ link[k] = "up" THEN {symbol} ELSE {}

\* A terminal ends up in the room of the symbol it selected last, and the gateway sends to no
\* connection that was lost.
EventuallyInRoom == <>[](rooms[sock] = {symbol} /\ ghosts = {})

\* The bridge's promise (index.ts:149): depth changes are told to all subscribers.
DepthReachesTerminal == \A v \in 1..MaxChanges : [](depth = v => <>(book >= v))
================================================================================
