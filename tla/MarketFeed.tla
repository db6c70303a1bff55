------------------------------ MODULE MarketFeed ------------------------------
(***************************************************************************)
(* The market feed (marketIngestion.ts): live ticks over one WebSocket     *)
(* that reconnects through a timer, and synthetic ticks from intervals     *)
(* that stand in for it.  Timers are flags; they fire at some later time.  *)
(* A price is known by where it came from, a tick by its time stamp: the   *)
(* exchange's for a live one, the server's for a synthetic one.            *)
(***************************************************************************)
EXTENDS Integers, FiniteSets

CONSTANTS Symbol

ASSUME FeedAssumption == IsFiniteSet(Symbol) /\ Symbol # {}

VARIABLES supported,    \* whether the runtime has a global WebSocket
          toFetch,      \* symbols whose spot price start() has still to fetch
          started,      \* whether start() has connected
          ws,           \* "none", "connecting", "open" or "failing" (error seen, close to come)
          timers,       \* reconnection timers pending
          overdue,      \* intervals that fire before those timers do
          heartbeat,    \* whether the heartbeat interval is set
          stale,        \* whether lastMessageTime is more than five seconds ago
          isSynthetic,
          intervals,    \* symbols with a synthetic interval
          currentPrices,
          lastTick,     \* the last tick of the topic of each symbol
          beat,         \* flips with every tick
          wasSilent     \* whether the heartbeat found this socket silent

feedvars == <<supported, toFetch, started, ws, timers, overdue, heartbeat, stale, isSynthetic,
          intervals, currentPrices, lastTick, beat, wasSilent>>
boot == <<supported, toFetch, started>>
clock == <<timers, overdue>>
topic == <<currentPrices, lastTick, beat>>
synthetic == <<isSynthetic, intervals>>

Origin == {"default", "spot", "live", "synthetic"}

FeedTypeOK ==
    /\ {supported, started, heartbeat, stale, isSynthetic, beat, wasSilent} \subseteq BOOLEAN
    /\ toFetch \subseteq Symbol /\ intervals \subseteq Symbol
    /\ ws \in {"none", "connecting", "open", "failing"}
    /\ timers \in Nat /\ overdue \subseteq Symbol
    /\ currentPrices \in [Symbol -> Origin]
    /\ lastTick \in [Symbol -> {"none", "exchange", "server"}]

FeedInit ==
    /\ supported \in BOOLEAN
    /\ toFetch = Symbol /\ started = FALSE
    /\ ws = "none" /\ timers = 0 /\ overdue = {} /\ heartbeat = FALSE /\ stale = FALSE
    /\ isSynthetic = FALSE /\ intervals = {}
    /\ currentPrices = [s \in Symbol |-> "default"]
    /\ lastTick = [s \in Symbol |-> "none"]
    /\ beat = FALSE /\ wasSilent = FALSE

-----------------------------------------------------------------------------
\* startSyntheticFeeds replaces the interval of every symbol, unless it has done so already.
StartSyntheticFeeds == isSynthetic' = TRUE /\ intervals' = IF isSynthetic THEN intervals ELSE Symbol

StopSyntheticFeeds == isSynthetic' = FALSE /\ intervals' = {}

\* connectBinance: the constructor of the socket throws where there is none.
ConnectBinance ==
    IF supported
    THEN ws' = "connecting" /\ stale' = FALSE /\ wasSilent' = FALSE /\ UNCHANGED <<heartbeat, synthetic>>
    ELSE ws' = "none" /\ heartbeat' = FALSE /\ StartSyntheticFeeds /\ UNCHANGED <<stale, wasSilent>>

\* fetchInitialSpotPrices: one symbol after the other; a failure keeps the default.
FetchSpotPrice(s) ==
    /\ s \in toFetch
    /\ toFetch' = toFetch \ {s}
    /\ \E answer \in {"default", "spot"} : currentPrices' = [currentPrices EXCEPT ![s] = answer]
    /\ UNCHANGED <<supported, started, ws, clock, heartbeat, stale, synthetic, lastTick, beat, wasSilent>>

Start ==
    /\ toFetch = {} /\ ~started
    /\ started' = TRUE
    /\ ConnectBinance
    /\ UNCHANGED <<supported, toFetch, clock, topic>>

\* Slip: the synthetic feeds go on.
OnOpenMixed ==
    /\ ws = "connecting"
    /\ ws' = "open" /\ heartbeat' = TRUE /\ stale' = FALSE
    /\ UNCHANGED <<boot, clock, synthetic, topic, wasSilent>>

\* Slip: no heartbeat watches the socket.
OnOpenUnwatched ==
    /\ ws = "connecting"
    /\ ws' = "open" /\ stale' = FALSE
    /\ StopSyntheticFeeds
    /\ UNCHANGED <<boot, clock, heartbeat, topic, wasSilent>>

OnOpen ==
    /\ ws = "connecting"
    /\ ws' = "open" /\ heartbeat' = TRUE /\ stale' = FALSE
    /\ StopSyntheticFeeds
    /\ UNCHANGED <<boot, clock, topic, wasSilent>>

PublishTick(s, origin, stamp) ==
    /\ currentPrices' = [currentPrices EXCEPT ![s] = origin]
    /\ lastTick' = [lastTick EXCEPT ![s] = stamp]
    /\ beat' = ~beat

\* onmessage: a trade of a symbol, published beside whatever the intervals publish.
OnTrade(s) ==
    /\ ws = "open"
    /\ stale' = FALSE
    /\ PublishTick(s, "live", "exchange")
    /\ UNCHANGED <<boot, ws, clock, heartbeat, synthetic, wasSilent>>

\* onmessage: anything else is a sign of life and is dropped.
OnOtherMessage ==
    /\ ws = "open" /\ stale
    /\ stale' = FALSE
    /\ UNCHANGED <<boot, ws, clock, heartbeat, synthetic, topic, wasSilent>>

\* Slip: the error, too, schedules a reconnection.
OnErrorRetry ==
    /\ ws \in {"connecting", "open"}
    /\ ws' = "failing" /\ heartbeat' = FALSE /\ timers' = timers + 1 /\ overdue' = Symbol
    /\ StartSyntheticFeeds
    /\ UNCHANGED <<boot, stale, topic, wasSilent>>

OnError ==
    /\ ws \in {"connecting", "open"}
    /\ ws' = "failing" /\ heartbeat' = FALSE
    /\ StartSyntheticFeeds
    /\ UNCHANGED <<boot, clock, stale, topic, wasSilent>>

\* Slip: only an error starts the synthetic feeds.
OnCloseSilently ==
    /\ ws \in {"open", "failing"}
    /\ ws' = "none" /\ heartbeat' = FALSE /\ timers' = timers + 1 /\ overdue' = Symbol
    /\ UNCHANGED <<boot, stale, synthetic, topic, wasSilent>>

OnClose ==
    /\ ws \in {"open", "failing"}
    /\ ws' = "none" /\ heartbeat' = FALSE /\ timers' = timers + 1 /\ overdue' = Symbol
    /\ StartSyntheticFeeds
    /\ UNCHANGED <<boot, stale, topic, wasSilent>>

\* The timer of onclose reconnects if the feed is still synthetic.  Its fifteen
\* seconds outlast the tenth of a second of every interval.
Reconnect ==
    /\ timers > 0 /\ overdue = {}
    /\ timers' = timers - 1 /\ overdue' = {}
    /\ IF isSynthetic THEN ConnectBinance ELSE UNCHANGED <<ws, heartbeat, stale, synthetic, wasSilent>>
    /\ UNCHANGED <<boot, topic>>

\* Five seconds without a message.
SilenceElapses ==
    /\ ws = "open" /\ ~stale
    /\ stale' = TRUE
    /\ UNCHANGED <<boot, ws, clock, heartbeat, synthetic, topic, wasSilent>>

Heartbeat ==
    /\ heartbeat /\ stale /\ ~isSynthetic
    /\ StartSyntheticFeeds
    /\ wasSilent' = TRUE
    /\ UNCHANGED <<boot, ws, clock, heartbeat, stale, topic>>

\* A synthetic interval walks on from the current price, whatever it came from.
SyntheticTick(s) ==
    /\ s \in intervals
    /\ PublishTick(s, "synthetic", "server")
    /\ overdue' = overdue \ {s}
    /\ UNCHANGED <<boot, ws, timers, heartbeat, stale, synthetic, wasSilent>>

FeedNext ==
    \/ \E s \in Symbol : FetchSpotPrice(s) \/ OnTrade(s) \/ SyntheticTick(s)
    \/ Start \/ OnOpen \/ OnOtherMessage \/ OnError \/ OnClose
    \/ Reconnect \/ SilenceElapses \/ Heartbeat

\* Fetches and connection attempts end, timers and intervals fire, an error is
\* followed by a close and time passes; no trade and no message has to come.
Fairness ==
    /\ \A s \in Symbol : WF_feedvars(FetchSpotPrice(s)) /\ WF_feedvars(SyntheticTick(s))
    /\ WF_feedvars(Start) /\ WF_feedvars(Reconnect) /\ WF_feedvars(SilenceElapses) /\ WF_feedvars(Heartbeat)
    /\ WF_feedvars(ws = "connecting" /\ (OnOpen \/ OnError))
    /\ WF_feedvars(ws = "failing" /\ OnClose)

FeedSpec == FeedInit /\ [][FeedNext]_feedvars /\ Fairness

-----------------------------------------------------------------------------
\* Once started there is exactly one connection: a socket, or a timer that will
\* make the next one (none of either where the runtime has no WebSocket).  Errors,
\* closes and reconnections in any order neither lose it nor start a second one.
OneConnection ==
    (IF ws = "none" THEN 0 ELSE 1) + timers = IF started /\ supported THEN 1 ELSE 0

\* Whenever no socket is open or being opened for the first time, every symbol has
\* a running interval, so that closing a socket leaves no symbol without a source;
\* and no interval outlives isSynthetic.
SourceForAll ==
    /\ (started /\ ws \in {"none", "failing"}) \/ timers > 0 => intervals = Symbol
    /\ isSynthetic <=> intervals # {}

\* Live and synthetic ticks are mixed in one topic only on a socket that the
\* heartbeat once found silent (and then until that socket closes).
MixedOnlyAfterSilence == ws = "open" /\ intervals # {} => wasSilent

\* Ticks never dry up, whatever the socket does: another one follows, live or
\* synthetic, unless messages that are no trades keep pretending the stream is alive.
TicksKeepComing == []<><<beat' # beat>>_feedvars \/ []<><<OnOtherMessage>>_feedvars
================================================================================
