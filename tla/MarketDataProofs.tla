---------------------------- MODULE MarketDataProofs ----------------------------
(***************************************************************************)
(* Market data, from the feed that publishes ticks to the subscribers that *)
(* handle them, and the candles that one of these subscribers makes of     *)
(* them: components that share nothing but the messages.                   *)
(*                                                                         *)
(* The bus delivers at most once, in stream order and without gaps after a *)
(* loop's first message, for any number of subscribers, messages, faults   *)
(* and crashes.  The argument is about one subscriber.  What it has        *)
(* handled is below what it has been sent and not handled (the batch),     *)
(* which is below what it will ask for; and once it has a cursor, the      *)
(* cursor is the message it handled last and its batch starts right after. *)
(*                                                                         *)
(* The feed keeps exactly one connection, leaves no symbol without a       *)
(* source while no socket is open, and mixes sources only after silence,   *)
(* for any set of symbols and any order of errors, closes, timers and      *)
(* messages.  The three support each other: a reconnection finds the feed  *)
(* synthetic because a pending timer means that every interval runs        *)
(* (SourceForAll), and an opened socket may stop the intervals because no  *)
(* timer is pending beside it (OneConnection).  What has to be added is    *)
(* that the intervals are all there or none is.                            *)
(*                                                                         *)
(* The candles of a symbol are closed and published in the order of their  *)
(* intervals, each once, whatever the order of the time stamps.            *)
(*                                                                         *)
(* The indicator's results and the chart's lines stay in range, the two    *)
(* agree on the RSI, and buy arrows do not repeat.  What the instance      *)
(* keeps is in range after any candle, the handler's or a dry run's        *)
(* (SharedInRange, OwnInRange), because every average lies between what it *)
(* averages.  While a result is being published, a dry run gives the       *)
(* instance the closed candle once more: its close has not moved, so both  *)
(* averages of the RSI shrink by the same factor and their ratio, in       *)
(* lowest terms the same fraction, stays (RsiSteady); and the close and    *)
(* the stop that the next arrow is compared with are as the result says    *)
(* (Follows).  After an arrow the close is above the stop, and the next    *)
(* one asks for a close that was not.                                      *)
(***************************************************************************)
EXTENDS EventBus, MarketFeed, CandleService, SequenceTheorems, Arithmetic

\* What subscriber s holds of a reply: the messages between the two ends of its batch.
HasBatch(s) == pc[s] \in {"replied", "handling"}

\* The types, with those of the history variables in a form that says what is in them.
Typed ==
    /\ last \in Nat /\ last <= MaxMessages
    /\ pc \in [Subscriber -> Location]
    /\ active \in [Subscriber -> BOOLEAN]
    /\ cursor \in [Subscriber -> Nat]
    /\ batch \in [Subscriber -> Nat \X Nat]
    /\ seen \in [Subscriber -> Seq(Nat)]
    /\ runStart \in [Subscriber -> Nat]
    /\ since \in [Subscriber -> {NotYet} \cup Nat]
    /\ faults \in 0..MaxFaults
    /\ crashes \in 0..MaxCrashes

\* A history h is strictly increasing.
Increasing(h) == \A j, k \in 1..Len(h) : j < k => h[j] < h[k]

\* A history h has no gap after position r.
NoGap(h, r) == \A k \in r + 1 .. Len(h) - 1 : h[k + 1] = h[k] + 1

\* Every message of h is between 1 and m.
UpTo(h, m) == \A k \in 1..Len(h) : 1 <= h[k] /\ h[k] <= m

\* The part of the invariant that speaks of subscriber s.
Sound(s) ==
    /\ Increasing(seen[s])
    /\ NoGap(seen[s], runStart[s])
    /\ UpTo(seen[s], last)
    /\ cursor[s] <= last
    /\ since[s] = NotYet \/ since[s] <= last
    /\ runStart[s] <= Len(seen[s])
    /\ pc[s] # "stopped" =>
         IF cursor[s] = Dollar
         THEN Len(seen[s]) = runStart[s]
         ELSE Len(seen[s]) > runStart[s] /\ cursor[s] = seen[s][Len(seen[s])]
    /\ pc[s] = "blocked" => cursor[s] \in {Dollar, last}
    /\ HasBatch(s) =>
         /\ 1 <= batch[s][1] /\ batch[s][1] <= batch[s][2] /\ batch[s][2] <= last
         /\ UpTo(seen[s], batch[s][1] - 1)
         /\ cursor[s] # Dollar => batch[s][1] = cursor[s] + 1

BusInv == Typed /\ \A s \in Subscriber : Sound(s)

-----------------------------------------------------------------------------
\* What Handle does to a history: the new message is the largest and, when it comes right
\* after the last one, leaves no gap.
LEMMA HandledHistory ==
  ASSUME NEW h \in Seq(Nat), NEW m \in Nat, NEW r \in Nat, NEW n \in Nat,
         Increasing(h), NoGap(h, r), UpTo(h, m - 1), 1 <= m, m <= n, r <= Len(h),
         Len(h) > r => m = h[Len(h)] + 1
  PROVE  /\ Append(h, m) \in Seq(Nat) /\ Len(Append(h, m)) = Len(h) + 1
         /\ Append(h, m)[Len(h) + 1] = m
         /\ Increasing(Append(h, m)) /\ NoGap(Append(h, m), r)
         /\ UpTo(Append(h, m), m) /\ UpTo(Append(h, m), n)
<1> DEFINE g == Append(h, m)
<1>1. /\ g \in Seq(Nat) /\ Len(g) = Len(h) + 1 /\ Len(h) \in Nat
      /\ g[Len(h) + 1] = m /\ \A k \in 1..Len(h) : g[k] = h[k] /\ h[k] \in Nat
  BY AppendProperties
<1> HIDE DEF g
<1>2. \A k \in 1..Len(h) : 1 <= g[k] /\ g[k] <= m - 1
  BY <1>1 DEF UpTo
<1>3. Increasing(g)
  <2> SUFFICES ASSUME NEW j \in 1..Len(g), NEW k \in 1..Len(g), j < k
               PROVE  g[j] < g[k]
    BY DEF Increasing
  <2>1. j \in 1..Len(h)
    BY <1>1
  <2>2. CASE k \in 1..Len(h)
    BY <1>1, <2>1, <2>2 DEF Increasing
  <2>3. CASE k = Len(h) + 1
    <3>1. g[j] \in Nat /\ g[j] <= m - 1
      BY <1>1, <1>2, <2>1
    <3>2. g[k] = m
      BY <1>1, <2>3
    <3> QED BY <3>1, <3>2
  <2>4. k \in 1..Len(h) \/ k = Len(h) + 1
    <3>1. k \in 1 .. Len(h) + 1 /\ Len(h) \in Nat
      BY <1>1
    <3> QED BY ONLY <3>1
  <2> QED BY <2>2, <2>3, <2>4
<1>4. NoGap(g, r)
  <2> SUFFICES ASSUME NEW k \in r + 1 .. Len(g) - 1
               PROVE  g[k + 1] = g[k] + 1
    BY DEF NoGap
  <2>1. k \in 1..Len(h) /\ r + 1 <= k
    BY <1>1
  <2>2. CASE k = Len(h)
    BY <1>1, <2>1, <2>2
  <2>3. CASE k # Len(h)
    <3>1. k \in r + 1 .. Len(h) - 1 /\ k + 1 \in 1..Len(h)
      BY <1>1, <2>1, <2>3
    <3> QED BY <1>1, <2>1, <3>1 DEF NoGap
  <2> QED BY <2>2, <2>3
<1>5. UpTo(g, m) /\ UpTo(g, n)
  <2> SUFFICES ASSUME NEW k \in 1..Len(g)
               PROVE  1 <= g[k] /\ g[k] <= m /\ g[k] <= n
    BY DEF UpTo
  <2>1. CASE k \in 1..Len(h)
    BY <1>1, <1>2, <2>1, SMTT(60)
  <2>2. CASE k = Len(h) + 1
    BY <1>1, <2>2
  <2> QED BY <1>1, <2>1, <2>2
<1> QED BY <1>1, <1>3, <1>4, <1>5 DEF g

\* A bound on a history may be raised.
LEMMA RaiseBound ==
  ASSUME NEW h \in Seq(Nat), NEW m \in Int, NEW n \in Int, UpTo(h, m), m <= n
  PROVE  UpTo(h, n)
<1>1. \A k \in 1..Len(h) : h[k] \in Nat
  OBVIOUS
<1> QED BY <1>1 DEF UpTo

\* A step that touches nothing of a subscriber leaves its part of the invariant alone.
LEMMA Undisturbed ==
  ASSUME NEW s, Sound(s), last' = last,
         pc'[s] = pc[s], cursor'[s] = cursor[s], batch'[s] = batch[s],
         seen'[s] = seen[s], runStart'[s] = runStart[s], since'[s] = since[s]
  PROVE  Sound(s)'
BY DEF Sound, HasBatch

LEMMA InitBusInv == Init => BusInv
<1> SUFFICES ASSUME Init PROVE BusInv
  OBVIOUS
<1>1. Typed
  BY BusAssumption DEF Init, Typed, Location, Dollar, NoBatch, NotYet
<1>2. ASSUME NEW s \in Subscriber PROVE Sound(s)
  BY <1>2 DEF Init, Sound, HasBatch, Increasing, NoGap, UpTo, Dollar, NotYet
<1> QED BY <1>1, <1>2 DEF BusInv

\* Every action keeps the types.
LEMMA NextTyped == BusInv /\ [Next]_vars => Typed'
<1> SUFFICES ASSUME BusInv, [Next]_vars PROVE Typed'
  OBVIOUS
<1> USE DEF Typed, Location
<1>0. Typed
  BY DEF BusInv
<1>1. CASE Publish
  BY <1>0, <1>1, BusAssumption DEF Publish
<1>2. CASE Crash
  BY <1>0, <1>2, BusAssumption DEF Crash, NoBatch
<1>3. ASSUME NEW s \in Subscriber, Subscribe(s) PROVE Typed'
  BY <1>0, <1>3 DEF Subscribe, Dollar, NotYet
<1>4. ASSUME NEW s \in Subscriber, Block(s) PROVE Typed'
  BY <1>0, <1>4 DEF Block, SinceOf
<1>5. ASSUME NEW s \in Subscriber, ReadBacklog(s) PROVE Typed'
  BY <1>0, <1>5, SMTT(60) DEF ReadBacklog
<1>6. ASSUME NEW s \in Subscriber, Timeout(s) PROVE Typed'
  BY <1>0, <1>6 DEF Timeout
<1>7. ASSUME NEW s \in Subscriber, Receive(s) PROVE Typed'
  BY <1>0, <1>7 DEF Receive
<1>8. ASSUME NEW s \in Subscriber, Handle(s) PROVE Typed'
  <2>1. batch[s] \in Nat \X Nat /\ batch[s][1] \in Nat /\ batch[s][2] \in Nat
    BY <1>0
  <2>2. Append(seen[s], batch[s][1]) \in Seq(Nat)
    BY <1>0, <2>1, AppendProperties
  <2>3. seen' \in [Subscriber -> Seq(Nat)] /\ cursor' \in [Subscriber -> Nat]
    BY <1>0, <1>8, <2>1, <2>2 DEF Handle
  <2>4. batch' \in [Subscriber -> Nat \X Nat]
    BY <1>0, <1>8, <2>1 DEF Handle, NoBatch
  <2>5. pc' \in [Subscriber -> Location]
    BY <1>0, <1>8 DEF Handle
  <2> QED BY <1>0, <1>8, <2>3, <2>4, <2>5 DEF Handle
<1>9. ASSUME NEW s \in Subscriber, ConnectionLost(s) PROVE Typed'
  BY <1>0, <1>9, BusAssumption DEF ConnectionLost, NoBatch
<1>10. ASSUME NEW s \in Subscriber, Retry(s) PROVE Typed'
  BY <1>0, <1>10 DEF Retry
<1>11. ASSUME NEW s \in Subscriber, Unsubscribe(s) PROVE Typed'
  BY <1>0, <1>11 DEF Unsubscribe, NoBatch
<1>12. CASE UNCHANGED vars
  BY <1>0, <1>12 DEF vars
<1> QED BY <1>1, <1>2, <1>3, <1>4, <1>5, <1>6, <1>7, <1>8, <1>9, <1>10, <1>11, <1>12
        DEF Next, Loop

\* XADD: a waiting subscriber is sent the new message, which follows all it has handled.
LEMMA PublishSound ==
  ASSUME BusInv, Publish, NEW s \in Subscriber
  PROVE  Sound(s)'
<1>1. Typed /\ Sound(s)
  BY DEF BusInv
<1>2. /\ last \in Nat /\ cursor[s] \in Nat /\ batch[s] \in Nat \X Nat /\ seen[s] \in Seq(Nat)
      /\ since[s] \in {NotYet} \cup Nat
  BY <1>1 DEF Typed
<1>3. /\ last' = last + 1
      /\ pc'[s] = IF pc[s] = "blocked" THEN "replied" ELSE pc[s]
      /\ batch'[s] = IF pc[s] = "blocked" THEN <<last + 1, last + 1>> ELSE batch[s]
      /\ UNCHANGED <<cursor, seen, runStart, since>>
  BY <1>1 DEF Publish, Typed
<1>4. UpTo(seen[s], last + 1)
  BY <1>1, <1>2, RaiseBound DEF Sound
<1>5. UpTo(seen[s], (last + 1) - 1)
  BY <1>1, <1>2, RaiseBound DEF Sound
<1>6. CASE pc[s] = "blocked"
  BY <1>1, <1>2, <1>3, <1>4, <1>5, <1>6 DEF Sound, HasBatch
<1>7. CASE pc[s] # "blocked"
  <2>1. batch[s][1] \in Nat /\ batch[s][2] \in Nat
    BY <1>2
  <2> QED BY <1>1, <1>2, <1>3, <1>4, <1>7, <2>1 DEF Sound, HasBatch
<1> QED BY <1>6, <1>7

\* A crash loses what was sent and not handled; histories and cursors are left as they are.
LEMMA CrashSound ==
  ASSUME BusInv, Crash, NEW s \in Subscriber
  PROVE  Sound(s)'
<1>1. Sound(s) /\ last' = last /\ pc'[s] = "stopped" /\ UNCHANGED <<cursor, seen, runStart, since>>
  BY DEF BusInv, Crash
<1> QED BY <1>1 DEF Sound, HasBatch

\* A fresh loop has no cursor and has handled nothing.
LEMMA SubscribeSound ==
  ASSUME BusInv, NEW s \in Subscriber, Subscribe(s)
  PROVE  Sound(s)'
<1>1. Typed /\ Sound(s)
  BY DEF BusInv
<1>2. /\ last' = last /\ pc'[s] = "poll" /\ cursor'[s] = Dollar /\ since'[s] = NotYet
      /\ runStart'[s] = Len(seen[s]) /\ seen' = seen
  BY <1>1 DEF Subscribe, Typed
<1>3. last \in Nat /\ Len(seen[s]) \in Nat
  BY <1>1 DEF Typed
<1>4. NoGap(seen[s], Len(seen[s]))
  BY <1>3 DEF NoGap
<1> QED BY <1>1, <1>2, <1>3, <1>4 DEF Sound, HasBatch, Dollar

LEMMA BlockSound ==
  ASSUME BusInv, NEW s \in Subscriber, Block(s)
  PROVE  Sound(s)'
<1>1. Typed /\ Sound(s)
  BY DEF BusInv
<1>2. /\ pc[s] = "poll" /\ cursor[s] \in {Dollar, last} /\ last' = last /\ pc'[s] = "blocked"
      /\ since'[s] \in {since[s], last}
      /\ UNCHANGED <<cursor, seen, runStart>>
  BY <1>1 DEF Block, SinceOf, Typed
<1>3. last \in Nat
  BY <1>1 DEF Typed
<1> QED BY <1>1, <1>2, <1>3 DEF Sound, HasBatch

\* A backlog starts right after the message handled last.
LEMMA ReadBacklogSound ==
  ASSUME BusInv, NEW s \in Subscriber, ReadBacklog(s)
  PROVE  Sound(s)'
<1>1. Typed /\ Sound(s)
  BY DEF BusInv
<1>2. /\ pc[s] = "poll" /\ cursor[s] # Dollar /\ cursor[s] < last /\ last' = last
      /\ pc'[s] = "replied" /\ batch'[s] = <<cursor[s] + 1, last>>
      /\ UNCHANGED <<cursor, seen, runStart, since>>
  BY <1>1 DEF ReadBacklog, Typed
<1>3. last \in Nat /\ cursor[s] \in Nat /\ seen[s] \in Seq(Nat) /\ Len(seen[s]) \in Nat
  BY <1>1 DEF Typed
<1>4. UpTo(seen[s], cursor[s])
  <2>1. Len(seen[s]) > runStart[s] /\ cursor[s] = seen[s][Len(seen[s])] /\ runStart[s] \in Nat
    BY <1>1, <1>2 DEF Sound, Typed
  <2> SUFFICES ASSUME NEW k \in 1..Len(seen[s])
               PROVE  1 <= seen[s][k] /\ seen[s][k] <= cursor[s]
    BY DEF UpTo
  <2>2. 1 <= seen[s][k] /\ seen[s][k] \in Nat
    BY <1>1, <1>3 DEF Sound, UpTo
  <2>3. CASE k = Len(seen[s])
    BY <1>3, <2>1, <2>2, <2>3
  <2>4. CASE k # Len(seen[s])
    <3>1. k < Len(seen[s]) /\ Len(seen[s]) \in 1..Len(seen[s])
      BY <1>3, <2>4
    <3>2. seen[s][k] < seen[s][Len(seen[s])]
      BY <1>1, <3>1 DEF Sound, Increasing
    <3> QED BY <1>3, <2>1, <2>2, <3>2
  <2> QED BY <2>3, <2>4
<1>5. UpTo(seen[s], (cursor[s] + 1) - 1)
  BY <1>3, <1>4, RaiseBound
<1> QED BY <1>1, <1>2, <1>3, <1>5 DEF Sound, HasBatch

\* The next message of the batch is larger than all the subscriber has handled.
LEMMA HandleSound ==
  ASSUME BusInv, NEW s \in Subscriber, Handle(s)
  PROVE  Sound(s)'
<1> DEFINE m == batch[s][1]
<1>1. Typed /\ Sound(s) /\ pc[s] = "handling"
  BY DEF BusInv, Handle
<1>2. /\ last \in Nat /\ cursor[s] \in Nat /\ batch[s] \in Nat \X Nat /\ seen[s] \in Seq(Nat)
      /\ runStart[s] \in Nat /\ Len(seen[s]) \in Nat /\ m \in Nat /\ batch[s][2] \in Nat
      /\ since[s] \in {NotYet} \cup Nat
  BY <1>1 DEF Typed
<1>3. /\ last' = last /\ runStart' = runStart /\ since' = since
      /\ seen'[s] = Append(seen[s], m) /\ cursor'[s] = m
      /\ batch'[s] = IF m = batch[s][2] THEN NoBatch ELSE <<m + 1, batch[s][2]>>
      /\ pc'[s] = IF m # batch[s][2] THEN "handling" ELSE IF active[s] THEN "poll" ELSE "stopped"
  BY <1>1 DEF Handle, Typed
<1>4. /\ 1 <= m /\ m <= batch[s][2] /\ batch[s][2] <= last
      /\ UpTo(seen[s], m - 1)
      /\ cursor[s] # Dollar => m = cursor[s] + 1
      /\ runStart[s] <= Len(seen[s])
      /\ IF cursor[s] = Dollar
         THEN Len(seen[s]) = runStart[s]
         ELSE Len(seen[s]) > runStart[s] /\ cursor[s] = seen[s][Len(seen[s])]
  BY <1>1 DEF Sound, HasBatch
<1> HIDE DEF m
<1>5. /\ Append(seen[s], m) \in Seq(Nat) /\ Len(Append(seen[s], m)) = Len(seen[s]) + 1
      /\ Append(seen[s], m)[Len(seen[s]) + 1] = m
      /\ Increasing(Append(seen[s], m)) /\ NoGap(Append(seen[s], m), runStart[s])
      /\ UpTo(Append(seen[s], m), m) /\ UpTo(Append(seen[s], m), last)
  <2>1. Increasing(seen[s]) /\ NoGap(seen[s], runStart[s]) /\ m <= last
    BY <1>1, <1>2, <1>4 DEF Sound
  <2>2. Len(seen[s]) > runStart[s] => m = seen[s][Len(seen[s])] + 1
    BY <1>2, <1>4
  <2> QED BY <1>2, <1>4, <2>1, <2>2, HandledHistory
<1>6. m # batch[s][2] =>
        /\ 1 <= m + 1 /\ m + 1 <= batch[s][2]
        /\ UpTo(Append(seen[s], m), (m + 1) - 1)
  BY <1>2, <1>4, <1>5, RaiseBound
<1>7. m # Dollar
  BY <1>4 DEF Dollar
<1>8. since[s] = NotYet \/ since[s] <= last
  BY <1>1 DEF Sound
<1>9. CASE m = batch[s][2]
  <2>1. pc'[s] \in {"poll", "stopped"}
    BY <1>3, <1>9
  <2> QED BY <1>2, <1>3, <1>4, <1>5, <1>7, <1>8, <2>1 DEF Sound, HasBatch
<1>10. CASE m # batch[s][2]
  <2>1. pc'[s] = "handling" /\ batch'[s] = <<m + 1, batch[s][2]>>
    BY <1>3, <1>10
  <2> QED BY <1>2, <1>3, <1>4, <1>5, <1>6, <1>7, <1>8, <1>10, <2>1, SMTT(60) DEF Sound, HasBatch
<1> QED BY <1>9, <1>10

\* The remaining steps move the loop without touching what was handled.
LEMMA MoveSound ==
  ASSUME BusInv, NEW s \in Subscriber,
         Timeout(s) \/ Receive(s) \/ ConnectionLost(s) \/ Retry(s) \/ Unsubscribe(s)
  PROVE  Sound(s)'
<1>1. Typed /\ Sound(s)
  BY DEF BusInv
<1>2. last' = last /\ UNCHANGED <<cursor, seen, runStart, since>>
  BY DEF Timeout, Receive, ConnectionLost, Retry, Unsubscribe
<1>3. CASE Timeout(s)
  BY <1>1, <1>2, <1>3 DEF Timeout, Typed, Sound, HasBatch
<1>4. CASE Receive(s)
  BY <1>1, <1>2, <1>4 DEF Receive, Typed, Sound, HasBatch
<1>5. CASE ConnectionLost(s)
  BY <1>1, <1>2, <1>5 DEF ConnectionLost, Typed, Sound, HasBatch
<1>6. CASE Retry(s)
  BY <1>1, <1>2, <1>6 DEF Retry, Typed, Sound, HasBatch
<1>7. CASE Unsubscribe(s)
  <2>1. CASE pc[s] \in {"poll", "blocked", "replied"}
    BY <1>1, <1>2, <1>7, <2>1 DEF Unsubscribe, Typed, Sound, HasBatch
  <2>2. CASE pc[s] \notin {"poll", "blocked", "replied"}
    BY <1>1, <1>2, <1>7, <2>2 DEF Unsubscribe, Typed, Sound, HasBatch
  <2> QED BY <2>1, <2>2
<1> QED BY <1>3, <1>4, <1>5, <1>6, <1>7

\* A step of one subscriber leaves the others alone.
LEMMA OthersSound ==
  ASSUME BusInv, NEW s \in Subscriber, NEW t \in Subscriber, s # t,
         Subscribe(t) \/ Loop(t) \/ Timeout(t) \/ ConnectionLost(t) \/ Unsubscribe(t)
  PROVE  Sound(s)'
<1>1. Typed /\ Sound(s)
  BY DEF BusInv
<1>2. /\ last' = last /\ pc'[s] = pc[s] /\ cursor'[s] = cursor[s] /\ batch'[s] = batch[s]
      /\ seen'[s] = seen[s] /\ runStart'[s] = runStart[s] /\ since'[s] = since[s]
  BY <1>1 DEF Typed, Loop, Subscribe, Block, ReadBacklog, Timeout, Receive, Handle,
              ConnectionLost, Retry, Unsubscribe
<1> QED BY <1>1, <1>2, Undisturbed

LEMMA NextBusInv == BusInv /\ [Next]_vars => BusInv'
<1> SUFFICES ASSUME BusInv, [Next]_vars, NEW s \in Subscriber PROVE Sound(s)'
  BY NextTyped DEF BusInv
<1>1. CASE Publish
  BY <1>1, PublishSound
<1>2. CASE Crash
  BY <1>2, CrashSound
<1>3. ASSUME NEW t \in Subscriber,
             Subscribe(t) \/ Loop(t) \/ Timeout(t) \/ ConnectionLost(t) \/ Unsubscribe(t)
      PROVE  Sound(s)'
  <2>1. CASE s # t
    BY <1>3, <2>1, OthersSound
  <2>2. CASE s = t
    BY <1>3, <2>2, SubscribeSound, BlockSound, ReadBacklogSound, HandleSound, MoveSound DEF Loop
  <2> QED BY <2>1, <2>2
<1>4. CASE UNCHANGED vars
  BY <1>4, Undisturbed DEF vars, BusInv
<1> QED BY <1>1, <1>2, <1>3, <1>4 DEF Next

\* The inductive invariant holds of every behaviour of the bus.
THEOREM BusInvariant == Spec => []BusInv
BY InitBusInv, NextBusInv, PTL DEF Spec

\* Every cursor, batch, history and counter keeps its type; a subscriber never holds a
\* message that is not in the stream.
THEOREM BusTyped == Spec => []TypeOK
<1>1. BusInv => TypeOK
  <2> SUFFICES ASSUME BusInv PROVE TypeOK
    OBVIOUS
  <2>1. ASSUME NEW s \in Subscriber
        PROVE  /\ cursor[s] \in 0..last /\ since[s] \in {NotYet} \cup 0..last
               /\ seen[s] \in Seq(1..last)
    <3>1. Typed /\ Sound(s)
      BY DEF BusInv
    <3>2. cursor[s] \in Nat /\ since[s] \in {NotYet} \cup Nat /\ seen[s] \in Seq(Nat) /\ last \in Nat
      BY <3>1 DEF Typed
    <3>3. \A k \in 1..Len(seen[s]) : seen[s][k] \in 1..last
      BY <3>1, <3>2 DEF Sound, UpTo
    <3>4. seen[s] \in Seq(1..last)
      <4>1. seen[s] \in [1..Len(seen[s]) -> Nat] /\ Len(seen[s]) \in Nat
        BY <3>2
      <4>2. seen[s] \in [1..Len(seen[s]) -> 1..last]
        BY <3>3, <4>1
      <4> QED BY <4>1, <4>2, SeqDef, Zenon
    <3> QED BY <3>1, <3>2, <3>4 DEF Sound
  <2> QED BY <2>1, BusAssumption DEF BusInv, Typed, TypeOK
<1> QED BY <1>1, BusInvariant, PTL

\* eventBus.ts:75-93 never hands a callback a message twice, or after a newer one,
\* whatever the timeouts, faults, crashes and restarts.
THEOREM BusDeliversAtMostOnceInOrder == Spec => []AtMostOnceInOrder
<1>1. BusInv => AtMostOnceInOrder
  BY DEF BusInv, Sound, Increasing, AtMostOnceInOrder
<1> QED BY <1>1, BusInvariant, PTL

\* From the first message a loop handles on, it handles every message of the stream.
THEOREM BusLeavesNoGap == Spec => []GapFreeAfterFirst
<1>1. BusInv => GapFreeAfterFirst
  BY DEF BusInv, Sound, NoGap, GapFreeAfterFirst
<1> QED BY <1>1, BusInvariant, PTL

-----------------------------------------------------------------------------
\* The market feed.

AllOrNone == intervals \in {{}, Symbol}

FeedInv == FeedTypeOK /\ AllOrNone /\ OneConnection /\ SourceForAll /\ MixedOnlyAfterSilence

-----------------------------------------------------------------------------
LEMMA FeedStarts == FeedInit => FeedInv
<1> SUFFICES ASSUME FeedInit PROVE FeedInv
  OBVIOUS
<1> USE DEF FeedInit
<1>1. FeedTypeOK
  BY DEF FeedTypeOK, Origin
<1>2. AllOrNone /\ OneConnection
  BY DEF AllOrNone, OneConnection
<1>3. SourceForAll /\ MixedOnlyAfterSilence
  BY DEF SourceForAll, MixedOnlyAfterSilence
<1> QED
  BY <1>1, <1>2, <1>3 DEF FeedInv

\* A step keeps the types.
LEMMA FeedStepTyped ==
  ASSUME FeedTypeOK, [FeedNext]_feedvars
  PROVE  FeedTypeOK'
<1> USE DEF FeedTypeOK, boot, clock, topic, synthetic
<1>1. ASSUME NEW s \in Symbol, FetchSpotPrice(s)
      PROVE  FeedTypeOK'
  BY <1>1 DEF FetchSpotPrice, Origin
<1>2. ASSUME NEW s \in Symbol, OnTrade(s)
      PROVE  FeedTypeOK'
  BY <1>2 DEF OnTrade, PublishTick, Origin
<1>3. ASSUME NEW s \in Symbol, SyntheticTick(s)
      PROVE  FeedTypeOK'
  BY <1>3 DEF SyntheticTick, PublishTick, Origin
<1>4. CASE Start
  BY <1>4 DEF Start, ConnectBinance, StartSyntheticFeeds
<1>5. CASE OnOpen
  BY <1>5 DEF OnOpen, StopSyntheticFeeds
<1>6. CASE OnOtherMessage
  BY <1>6 DEF OnOtherMessage
<1>7. CASE OnError
  BY <1>7 DEF OnError, StartSyntheticFeeds
<1>8. CASE OnClose
  <2>1. timers \in Nat /\ timers' = timers + 1
    BY <1>8 DEF OnClose
  <2>2. timers' \in Nat
    BY <2>1
  <2> QED
    BY <1>8, <2>2, Zenon DEF OnClose, StartSyntheticFeeds
<1>9. CASE Reconnect
  <2>1. timers \in Nat /\ timers > 0 /\ timers' = timers - 1
    BY <1>9 DEF Reconnect
  <2>2. timers' \in Nat
    BY <2>1
  <2>3. CASE isSynthetic /\ supported
    BY <1>9, <2>2, <2>3, Zenon DEF Reconnect, ConnectBinance
  <2>4. CASE isSynthetic /\ ~supported
    BY <1>9, <2>2, <2>4, Zenon DEF Reconnect, ConnectBinance, StartSyntheticFeeds
  <2>5. CASE ~isSynthetic
    BY <1>9, <2>2, <2>5, Zenon DEF Reconnect
  <2> QED
    BY <2>3, <2>4, <2>5
<1>10. CASE SilenceElapses
  BY <1>10 DEF SilenceElapses
<1>11. CASE Heartbeat
  BY <1>11 DEF Heartbeat, StartSyntheticFeeds
<1>12. CASE UNCHANGED feedvars
  BY <1>12 DEF feedvars
<1> QED
  BY <1>1, <1>2, <1>3, <1>4, <1>5, <1>6, <1>7, <1>8, <1>9, <1>10, <1>11, <1>12 DEF FeedNext

\* What the four state predicates below read.
sources == <<supported, started, ws, timers, isSynthetic, intervals, wasSilent>>

Sourced == AllOrNone /\ OneConnection /\ SourceForAll /\ MixedOnlyAfterSilence

\* A step that leaves the connection and the intervals alone keeps the rest.
LEMMA FeedStepElsewhere ==
  ASSUME Sourced, UNCHANGED sources
  PROVE  Sourced'
BY DEF Sourced, sources, AllOrNone, OneConnection, SourceForAll, MixedOnlyAfterSilence

\* A step keeps what the intervals, the socket and the timers promise each other.
LEMMA FeedStepSourced ==
  ASSUME FeedTypeOK, Sourced, [FeedNext]_feedvars
  PROVE  Sourced'
<1> USE DEF Sourced, AllOrNone, OneConnection, SourceForAll, MixedOnlyAfterSilence
<1>s. Symbol # {}
  BY FeedAssumption
<1>t. timers \in Nat /\ ws \in {"none", "connecting", "open", "failing"}
  BY DEF FeedTypeOK
<1>1. ASSUME NEW s \in Symbol, FetchSpotPrice(s) \/ OnTrade(s) \/ SyntheticTick(s)
      PROVE  Sourced'
  <2>1. UNCHANGED sources
    BY <1>1 DEF FetchSpotPrice, OnTrade, SyntheticTick, PublishTick, sources, boot, clock, topic, synthetic
  <2> QED
    BY <2>1, FeedStepElsewhere
<1>2. CASE OnOtherMessage \/ SilenceElapses \/ UNCHANGED feedvars
  <2>1. UNCHANGED sources
    BY <1>2 DEF OnOtherMessage, SilenceElapses, feedvars, sources, boot, clock, topic, synthetic
  <2> QED
    BY <2>1, FeedStepElsewhere
<1>3. CASE Start
  <2>1. ~started /\ ws = "none" /\ timers = 0 /\ started'
        /\ timers' = timers /\ supported' = supported
    BY <1>3, <1>t DEF Start, boot, clock
  <2>2. CASE supported
    <3>1. ws' = "connecting" /\ intervals' = intervals /\ isSynthetic' = isSynthetic
      BY <1>3, <2>2 DEF Start, ConnectBinance, synthetic
    <3> QED
      BY <2>1, <2>2, <3>1
  <2>3. CASE ~supported
    <3>1. ws' = "none" /\ isSynthetic' = TRUE /\ intervals' = IF isSynthetic THEN intervals ELSE Symbol
      BY <1>3, <2>3 DEF Start, ConnectBinance, StartSyntheticFeeds
    <3>2. intervals' = Symbol
      BY <3>1
    <3> QED
      BY <2>1, <2>3, <3>1, <3>2, <1>s
  <2> QED
    BY <2>2, <2>3
<1>4. CASE OnOpen
  <2>1. /\ ws = "connecting" /\ ws' = "open" /\ isSynthetic' = FALSE /\ intervals' = {}
        /\ supported' = supported /\ started' = started /\ timers' = timers
    BY <1>4 DEF OnOpen, StopSyntheticFeeds, boot, clock
  <2>2. timers = 0
    BY <2>1, <1>t
  <2> QED
    BY <2>1, <2>2
<1>5. CASE OnError
  <2>1. /\ ws \in {"connecting", "open"} /\ ws' = "failing" /\ isSynthetic' = TRUE
        /\ intervals' = IF isSynthetic THEN intervals ELSE Symbol
        /\ supported' = supported /\ started' = started /\ timers' = timers
    BY <1>5 DEF OnError, StartSyntheticFeeds, boot, clock
  <2>2. intervals' = Symbol
    BY <2>1
  <2> QED
    BY <2>1, <2>2, <1>s
<1>6. CASE OnClose
  <2>1. /\ ws \in {"open", "failing"} /\ ws' = "none" /\ isSynthetic' = TRUE
        /\ intervals' = IF isSynthetic THEN intervals ELSE Symbol
        /\ supported' = supported /\ started' = started /\ timers' = timers + 1
    BY <1>6 DEF OnClose, StartSyntheticFeeds, boot
  <2>2. intervals' = Symbol
    BY <2>1
  <2> QED
    BY <2>1, <2>2, <1>s, <1>t
<1>7. CASE Reconnect
  <2>1. timers > 0 /\ timers' = timers - 1 /\ supported' = supported /\ started' = started
    BY <1>7 DEF Reconnect, boot
  <2>2. supported /\ started /\ timers = 1 /\ ws = "none" /\ isSynthetic
    BY <2>1, <1>s, <1>t
  <2>3. ws' = "connecting" /\ isSynthetic' = isSynthetic /\ intervals' = intervals
    BY <1>7, <2>2 DEF Reconnect, ConnectBinance, synthetic
  <2> QED
    BY <2>1, <2>2, <2>3
<1>8. CASE Heartbeat
  <2>1. /\ ~isSynthetic /\ isSynthetic' = TRUE /\ intervals' = Symbol /\ wasSilent' = TRUE
        /\ supported' = supported /\ started' = started /\ timers' = timers /\ ws' = ws
    BY <1>8 DEF Heartbeat, StartSyntheticFeeds, boot, clock
  <2> QED
    BY <2>1, <1>s
<1> QED
  BY <1>1, <1>2, <1>3, <1>4, <1>5, <1>6, <1>7, <1>8 DEF FeedNext

\* The feed's inductive invariant holds throughout: start, fetches, reconnections,
\* heartbeats and ticks in any order.
THEOREM FeedInvariant == FeedSpec => []FeedInv
<1>1. FeedInv /\ [FeedNext]_feedvars => FeedInv'
  BY FeedStepTyped, FeedStepSourced DEF FeedInv, Sourced
<1> QED
  BY FeedStarts, <1>1, PTL DEF FeedSpec

\* Every variable of marketIngestion keeps its type.
THEOREM FeedTyped == FeedSpec => []FeedTypeOK
<1>1. FeedInv => FeedTypeOK
  BY DEF FeedInv
<1> QED
  BY FeedInvariant, <1>1, PTL

\* Once started there is exactly one socket or reconnection timer (none without WebSocket).
THEOREM FeedHasOneConnection == FeedSpec => []OneConnection
<1>1. FeedInv => OneConnection
  BY DEF FeedInv
<1> QED
  BY FeedInvariant, <1>1, PTL

\* While no socket is open, or a timer is pending, every symbol has its interval.
THEOREM FeedLeavesNoSymbolSilent == FeedSpec => []SourceForAll
<1>1. FeedInv => SourceForAll
  BY DEF FeedInv
<1> QED
  BY FeedInvariant, <1>1, PTL

\* Live and synthetic ticks share a topic only on a socket the heartbeat found silent.
THEOREM FeedMixesOnlyAfterSilence == FeedSpec => []MixedOnlyAfterSilence
<1>1. FeedInv => MixedOnlyAfterSilence
  BY DEF FeedInv
<1> QED
  BY FeedInvariant, <1>1, PTL

-----------------------------------------------------------------------------
\* A candle: its prices are prices of ticks, the close between the low and the high.
Candle == {c \in [time : Int, open : Price, high : Price, low : Price, close : Price, volume : Nat] :
              c.low <= c.close /\ c.close <= c.high}

LEMMA Extremes ==
  ASSUME NEW a \in Int, NEW b \in Int
  PROVE  /\ Max({a, b}) \in {a, b} /\ Max({a, b}) >= a /\ Max({a, b}) >= b
         /\ Min({a, b}) \in {a, b} /\ Min({a, b}) <= a /\ Min({a, b}) <= b
<1>1. \E x \in {a, b} : \A y \in {a, b} : x >= y
  BY a >= b \/ b >= a
<1>2. \E x \in {a, b} : \A y \in {a, b} : x <= y
  BY a >= b \/ b >= a
<1>3. Max({a, b}) \in {a, b} /\ \A y \in {a, b} : Max({a, b}) >= y
  BY <1>1 DEF Max
<1>4. Min({a, b}) \in {a, b} /\ \A y \in {a, b} : Min({a, b}) <= y
  BY <1>2 DEF Min
<1> QED
  BY <1>3, <1>4

LEMMA CandlesTyped ==
  ASSUME NEW t, t.slot \in Int, t.price \in Price
  PROVE  /\ CandleOf(t) \in Candle /\ CandleOf(t).time = t.slot
         /\ \A c \in Candle : Fold(c, t) \in Candle /\ Fold(c, t).time = c.time
<1>1. Price \subseteq Nat
  BY CandleAssumption
<1>2. CandleOf(t) \in Candle /\ CandleOf(t).time = t.slot
  <2>1. PICK p \in Price, n \in Int : p = t.price /\ n = t.slot
    OBVIOUS
  <2>2. CandleOf(t) = [time |-> n, open |-> p, high |-> p, low |-> p, close |-> p, volume |-> 1]
    BY <2>1 DEF CandleOf
  <2>3. p \in Nat
    BY <1>1
  <2> QED
    BY <2>1, <2>2, <2>3 DEF Candle
<1>3. ASSUME NEW c \in Candle PROVE Fold(c, t) \in Candle /\ Fold(c, t).time = c.time
  <2>0. PICK p \in Price : p = t.price
    OBVIOUS
  <2>1. PICK n \in Int, o \in Price, x \in Price, y \in Price, z \in Price, v \in Nat :
          c = [time |-> n, open |-> o, high |-> x, low |-> y, close |-> z, volume |-> v]
    BY DEF Candle
  <2>2. PICK h \in Price, l \in Price : h = Max({c.high, p}) /\ l = Min({c.low, p}) /\ h >= p /\ l <= p
    <3>0. c.high = x /\ c.low = y
      BY <2>1
    <3>1. p \in Int /\ x \in Int /\ y \in Int
      BY <1>1, <2>1
    <3>2. /\ Max({x, p}) \in {x, p} /\ Max({x, p}) >= p
          /\ Min({y, p}) \in {y, p} /\ Min({y, p}) <= p
      BY <3>1, Extremes
    <3> QED
      BY <3>0, <3>2
  <2>3. Fold(c, t) = [time |-> n, open |-> o, high |-> h, low |-> l, close |-> p, volume |-> v + 1]
    <3>1. Fold(c, t) = [c EXCEPT !.high = h, !.low = l, !.close = p, !.volume = c.volume + 1]
      BY <2>0, <2>2 DEF Fold
    <3> QED
      BY <2>1, <3>1
  <2>4. h >= p /\ l <= p /\ p \in Nat /\ h \in Nat /\ l \in Nat /\ v + 1 \in Nat
    BY <1>1, <2>1, <2>2
  <2> QED
    BY <2>1, <2>3, <2>4 DEF Candle
<1> QED
  BY <1>2, <1>3

LEMMA ExtremesOfThree ==
  ASSUME NEW a \in Int, NEW b \in Int, NEW c \in Int
  PROVE  /\ Max({a, b, c}) \in {a, b, c} /\ Max({a, b, c}) >= b
         /\ Min({a, b, c}) \in {a, b, c} /\ Min({a, b, c}) <= b
<1>1. \E x \in {a, b, c} : \A y \in {a, b, c} : x >= y
  BY (a >= b /\ a >= c) \/ (b >= a /\ b >= c) \/ (c >= a /\ c >= b)
<1>2. \E x \in {a, b, c} : \A y \in {a, b, c} : x <= y
  BY (a <= b /\ a <= c) \/ (b <= a /\ b <= c) \/ (c <= a /\ c <= b)
<1>3. Max({a, b, c}) \in {a, b, c} /\ \A y \in {a, b, c} : Max({a, b, c}) >= y
  BY <1>1 DEF Max
<1>4. Min({a, b, c}) \in {a, b, c} /\ \A y \in {a, b, c} : Min({a, b, c}) <= y
  BY <1>2 DEF Min
<1> QED
  BY <1>3, <1>4

LEMMA SeedTyped ==
  ASSUME NEW i \in 1..Seeds, NEW o \in Price, NEW step \in Step
  PROVE  SeedCandle(i, o, step) \in Candle /\ SeedCandle(i, o, step).time < 0
<1>1. Price \subseteq Nat /\ Seeds \in Nat
  BY CandleAssumption
<1>2. PICK c \in Price, a \in Price, b \in Price : step.close = c /\ step.high = a /\ step.low = b
  BY DEF Step
<1>3. PICK h, l : h = Max({o, c, a}) /\ l = Min({o, c, b})
  OBVIOUS
<1>4. h \in Price /\ l \in Price /\ h >= c /\ l <= c
  <2>1. o \in Int /\ a \in Int /\ b \in Int /\ c \in Int
    BY <1>1
  <2>2. h \in {o, c, a} /\ h >= c
    BY <1>3, <2>1, ExtremesOfThree
  <2>3. l \in {o, c, b} /\ l <= c
    BY <1>3, <2>1, ExtremesOfThree
  <2> QED
    BY <2>2, <2>3
<1>5. SeedCandle(i, o, step) = [time |-> i - Seeds - 1, open |-> o, high |-> h, low |-> l, close |-> c, volume |-> 1]
  BY <1>2, <1>3 DEF SeedCandle
<1> QED
  BY <1>1, <1>4, <1>5 DEF Candle

\* What a candle does to the series: r is s with c at its end, and without its first if there is no room.
PushedTo(s, c, r) ==
  /\ r \in Seq(Candle) /\ r[Len(r)] = c
  /\ \E k \in {0, 1} :
       /\ Len(r) = Len(s) + 1 - k /\ (k = 1 => Len(s) > 2)
       /\ \A i \in 1..Len(r) - 1 : r[i] = s[i + k]

LEMMA Pushed ==
  ASSUME NEW s \in Seq(Candle), NEW c \in Candle, NEW r, r = PushCandle(s, c)
  PROVE  PushedTo(s, c, r)
<1>0. Len(s) \in Nat /\ MaxLen \in Nat /\ MaxLen > 2
  BY AruAlgoAssumption
<1>1. CASE Len(s) = MaxLen
  <2>1. s # <<>>
    BY <1>0, <1>1
  <2>2. PICK u \in Seq(Candle) : /\ u = Tail(s) /\ Len(u) = Len(s) - 1 /\ \A i \in 1..Len(u) : u[i] = s[i + 1]
    BY <2>1, HeadTailProperties
  <2>3. r = Append(u, c)
    BY <1>1, <2>2 DEF PushCandle
  <2>4. r \in Seq(Candle) /\ Len(r) = Len(s) /\ r[Len(r)] = c /\ \A i \in 1..Len(r) - 1 : r[i] = s[i + 1]
    BY <1>0, <2>2, <2>3, AppendProperties
  <2>5. Len(r) = Len(s) + 1 - 1 /\ Len(s) > 2
    BY <1>0, <1>1, <2>4
  <2> QED
    BY <2>4, <2>5 DEF PushedTo
<1>2. CASE Len(s) # MaxLen
  <2>1. r = Append(s, c)
    BY <1>2 DEF PushCandle
  <2>2. r \in Seq(Candle) /\ Len(r) = Len(s) + 1 /\ r[Len(r)] = c /\ \A i \in 1..Len(r) - 1 : r[i] = s[i]
    BY <1>0, <2>1, AppendProperties
  <2>3. Len(r) = Len(s) + 1 - 0 /\ \A i \in 1..Len(r) - 1 : r[i] = s[i + 0]
    BY <1>0, <2>2
  <2> QED
    BY <2>2, <2>3 DEF PushedTo
<1> QED
  BY <1>1, <1>2

\* A record of what the indicator shares, whatever is in its fields but the candles.
IsShared(sh) ==
  /\ sh = [candles |-> sh.candles, trendEma |-> sh.trendEma, stopEma |-> sh.stopEma,
           avgGain |-> sh.avgGain, avgLoss |-> sh.avgLoss]
  /\ sh.candles \in Seq(Candle)

\* What the indicator does with a candle, as far as the order of candles goes.
LEMMA Processed ==
  ASSUME NEW sh, IsShared(sh), NEW ow, NEW c \in Candle, NEW done, done = ProcessCandle(sh, ow, c)
  PROVE  /\ IsShared(done.shared) /\ done.shared.candles = PushCandle(sh.candles, c)
         /\ done.result.ready \in BOOLEAN
         /\ done.result.ready => done.result.time = c.time
<1>0. PICK s \in Seq(Candle) : s = sh.candles
  BY DEF IsShared
<1>1. PICK r : r = PushCandle(s, c)
  OBVIOUS
<1>2. r \in Seq(Candle) /\ r[Len(r)] = c
  BY <1>0, <1>1, Pushed DEF PushedTo
<1>3. CASE Len(r) < 2
  <2>1. done = [shared |-> [sh EXCEPT !.candles = r], own |-> ow, result |-> [ready |-> FALSE]]
    BY <1>0, <1>1, <1>3 DEF ProcessCandle, NotReady
  <2>2. [sh EXCEPT !.candles = r] = [candles |-> r, trendEma |-> sh.trendEma, stopEma |-> sh.stopEma,
                                     avgGain |-> sh.avgGain, avgLoss |-> sh.avgLoss]
    BY DEF IsShared
  <2>3. IsShared(done.shared) /\ done.shared.candles = r /\ done.result.ready = FALSE
    BY <1>2, <2>1, <2>2 DEF IsShared
  <2> QED
    BY <1>0, <1>1, <2>3
<1>4. CASE ~(Len(r) < 2)
  <2>1. done = Evaluate(sh, ow, r)
    BY <1>0, <1>1, <1>4 DEF ProcessCandle
  <2>2. PICK a, smoothed, rsi : done = Signals(sh, ow, r, r[Len(r) - 1], r[Len(r)], a, smoothed, rsi)
    BY <2>1 DEF Evaluate, Smoothing
  <2>3. done.shared = [candles |-> r, trendEma |-> <<a.trendEma>>, stopEma |-> <<smoothed>>,
                       avgGain |-> a.avgGain, avgLoss |-> a.avgLoss]
    BY <2>2 DEF Signals
  <2>4. done.result.ready = TRUE /\ done.result.time = c.time
    BY <1>2, <2>2 DEF Signals
  <2>5. IsShared(done.shared) /\ done.shared.candles = r
    BY <1>2, <2>3 DEF IsShared
  <2> QED
    BY <1>0, <1>1, <2>4, <2>5
<1> QED
  BY <1>3, <1>4

\* ---- running averages of a series ----
Smooths(f, values, n, period, weight) ==
  f = [i \in 1..n |-> IF i = 1 THEN values[1] ELSE Mix(period, weight, f[i - 1], values[i])]

LEMMA SmoothsExist ==
  ASSUME NEW values, NEW period, NEW weight, NEW n \in Nat
  PROVE  \E f : Smooths(f, values, n, period, weight)
<1> DEFINE Bad == {m \in Nat : ~\E f : Smooths(f, values, m, period, weight)}
<1>1. CASE Bad = {}
  BY <1>1
<1>2. CASE Bad # {}
  <2>1. PICK m \in Bad : \A k \in Bad : m <= k
    <3> HIDE DEF Bad
    <3>1. Bad \in SUBSET Nat
      BY DEF Bad
    <3> QED BY <1>2, <3>1, LeastNumber
  <2>2. CASE m = 0
    <3> DEFINE f == [i \in 1..0 |-> 0]
    <3>1. f = [i \in 1..0 |-> IF i = 1 THEN values[1] ELSE Mix(period, weight, f[i - 1], values[i])]
      OBVIOUS
    <3> HIDE DEF f
    <3>2. Smooths(f, values, m, period, weight)
      BY <2>2, <3>1 DEF Smooths
    <3> QED BY <2>1, <3>2
  <2>3. CASE m # 0
    <3>1. PICK k \in Nat : m = k + 1 /\ k \notin Bad
      BY <2>1, <2>3
    <3>2. PICK g : Smooths(g, values, k, period, weight)
      BY <3>1
    <3> DEFINE step(f, i) == IF i = 1 THEN values[1] ELSE Mix(period, weight, f[i - 1], values[i])
               f == [i \in 1..k + 1 |-> IF i = k + 1 THEN step(g, i) ELSE g[i]]
    <3>3. ASSUME NEW i \in 1..k + 1 PROVE f[i] = step(f, i)
      <4>1. \A j \in 1..k : f[j] = g[j]
        OBVIOUS
      <4>2. i = 1 \/ i - 1 \in 1..k
        OBVIOUS
      <4>3. step(f, i) = step(g, i)
        <5>1. i = 1 \/ f[i - 1] = g[i - 1]
          BY <4>1, <4>2
        <5> HIDE DEF f
        <5> QED BY <5>1
      <4>4. CASE i = k + 1
        <5>1. f[i] = step(g, i)
          BY <4>4
        <5> HIDE DEF f, step
        <5> QED BY <4>3, <5>1
      <4>5. CASE i # k + 1
        <5>1. i \in 1..k /\ f[i] = g[i]
          BY <4>5
        <5>2. g[i] = step(g, i)
          BY <3>2, <5>1 DEF Smooths
        <5> HIDE DEF f, step
        <5> QED BY <4>3, <5>1, <5>2
      <4> QED BY <4>4, <4>5
    <3>4. f = [i \in 1..k + 1 |-> f[i]]
      OBVIOUS
    <3> HIDE DEF f
    <3>5. Smooths(f, values, k + 1, period, weight)
      BY <3>3, <3>4 DEF Smooths
    <3> QED BY <2>1, <3>1, <3>5
  <2> QED BY <2>2, <2>3
<1> QED BY <1>1, <1>2

\* Smoothed gives a series as long as the values, and what the recursion says at each place.
LEMMA SmoothedUnfolds ==
  ASSUME NEW values, NEW n \in Nat, DOMAIN values = 1..n, NEW period, NEW weight,
         NEW s, s = Smoothed(values, period, weight)
  PROVE  /\ s = [i \in 1..n |-> s[i]]
         /\ \A i \in 1..n : s[i] = IF i = 1 THEN values[1] ELSE Mix(period, weight, s[i - 1], values[i])
<1>1. s = CHOOSE f : Smooths(f, values, n, period, weight)
  BY DEF Smoothed, Smooths
<1>2. Smooths(s, values, n, period, weight)
  BY <1>1, SmoothsExist
<1>3. PICK T : T = 1..n
  OBVIOUS
<1>4. s = [i \in T |-> IF i = 1 THEN values[1] ELSE Mix(period, weight, s[i - 1], values[i])]
  BY <1>2, <1>3 DEF Smooths
<1>5. \A i \in T : s[i] = IF i = 1 THEN values[1] ELSE Mix(period, weight, s[i - 1], values[i])
  BY <1>4
<1>6. s = [i \in T |-> s[i]]
  BY <1>4
<1> QED BY <1>3, <1>5, <1>6

\* What comes later in a series does not change its averages.
LEMMA SmoothedPrefix ==
  ASSUME NEW values, NEW n \in Nat, DOMAIN values = 1..n, NEW others, NEW k \in Nat, DOMAIN others = 1..k,
         NEW period, NEW weight, NEW m \in Nat, m <= n, m <= k, \A i \in 1..m : values[i] = others[i]
  PROVE  \A i \in 1..m : Smoothed(values, period, weight)[i] = Smoothed(others, period, weight)[i]
<1>1. PICK s, t : s = Smoothed(values, period, weight) /\ t = Smoothed(others, period, weight)
  OBVIOUS
<1>2. /\ \A i \in 1..n : s[i] = IF i = 1 THEN values[1] ELSE Mix(period, weight, s[i - 1], values[i])
      /\ \A i \in 1..k : t[i] = IF i = 1 THEN others[1] ELSE Mix(period, weight, t[i - 1], others[i])
  BY <1>1, SmoothedUnfolds
<1> DEFINE Bad == {i \in 1..m : s[i] # t[i]}
<1>3. CASE Bad = {}
  BY <1>1, <1>3
<1>4. CASE Bad # {}
  <2>1. PICK i \in Bad : \A j \in Bad : i <= j
    <3> HIDE DEF Bad
    <3>1. Bad \in SUBSET Nat
      BY DEF Bad
    <3> QED BY <1>4, <3>1, LeastNumber
  <2>2. i \in 1..m /\ i \in 1..n /\ i \in 1..k /\ s[i] # t[i]
    OBVIOUS
  <2>3. CASE i = 1
    BY <1>2, <2>2, <2>3
  <2>4. CASE i # 1
    <3>1. i - 1 \in 1..m /\ ~(i <= i - 1)
      BY <2>2, <2>4
    <3>2. s[i - 1] = t[i - 1]
      BY <2>1, <3>1
    <3>3. s[i] = Mix(period, weight, s[i - 1], values[i]) /\ t[i] = Mix(period, weight, t[i - 1], others[i])
      BY <1>2, <2>2, <2>4
    <3>4. values[i] = others[i]
      BY <2>2
    <3> QED BY <2>2, <3>2, <3>3, <3>4
  <2> QED BY <2>3, <2>4
<1> QED BY <1>3, <1>4

\* An average of two fractions in a range.
LEMMA MixWithin ==
  ASSUME NEW lo \in Int, NEW hi \in Int, NEW period \in Nat \ {0}, NEW weight \in Nat \ {0},
         NEW a, Within(lo, a, hi), NEW v, Within(lo, v, hi)
  PROVE  Within(lo, Mix(period, weight, a, v), hi)
<1>1. PICK D \in Nat \ {0}, x \in Int, y \in Int : Means(a, x, D) /\ Means(v, y, D)
  BY CommonOfTwo DEF Within
<1>2. PICK p \in Nat, q \in Nat \ {0} : p = period - 1 /\ q = period - 1 + weight /\ q = p + weight
  OBVIOUS
<1>3. Means(Scale(p, a), p * x, D) /\ Means(Scale(weight, v), weight * y, D)
  <2>1. p \in Int /\ weight \in Int
    OBVIOUS
  <2> QED BY <1>1, <2>1, ScaleMeans
<1>4. Means(Plus(Scale(p, a), Scale(weight, v)), p * x + weight * y, D)
  BY <1>3, PlusMeans
<1>5. PICK z \in Int : z = p * x + weight * y
  OBVIOUS
<1>6. Means(Plus(Scale(p, a), Scale(weight, v)), q * z, q * D)
  BY <1>4, <1>5, MeansTimes
<1>7. Means(Over(Plus(Scale(p, a), Scale(weight, v)), q), z, q * D)
  <2>1. q * z = z * q
    OBVIOUS
  <2> QED BY <1>6, <2>1, OverMeans
<1>8. lo * D <= x /\ x <= hi * D /\ lo * D <= y /\ y <= hi * D
  BY <1>1, MeansWithin DEF Within
<1>9. Within(lo, Over(Plus(Scale(p, a), Scale(weight, v)), q), hi)
  BY <1>2, <1>5, <1>7, <1>8, AverageWithin
<1> QED BY <1>2, <1>9 DEF Mix

\* Averages of values in a range are in that range.
LEMMA SmoothedWithin ==
  ASSUME NEW values, NEW n \in Nat, DOMAIN values = 1..n, NEW lo \in Int, NEW hi \in Int,
         \A i \in 1..n : Within(lo, values[i], hi), NEW period \in Nat \ {0}, NEW weight \in Nat \ {0}
  PROVE  \A i \in 1..n : Within(lo, Smoothed(values, period, weight)[i], hi)
<1>1. PICK s : s = Smoothed(values, period, weight)
  OBVIOUS
<1>2. \A i \in 1..n : s[i] = IF i = 1 THEN values[1] ELSE Mix(period, weight, s[i - 1], values[i])
  BY <1>1, SmoothedUnfolds
<1> DEFINE Bad == {i \in 1..n : ~Within(lo, s[i], hi)}
<1>3. CASE Bad = {}
  BY <1>1, <1>3
<1>4. CASE Bad # {}
  <2>1. PICK i \in Bad : \A j \in Bad : i <= j
    <3> HIDE DEF Bad
    <3>1. Bad \in SUBSET Nat
      BY DEF Bad
    <3> QED BY <1>4, <3>1, LeastNumber
  <2>2. i \in 1..n /\ ~Within(lo, s[i], hi) /\ Within(lo, values[i], hi)
    OBVIOUS
  <2>3. CASE i = 1
    BY <1>2, <2>2, <2>3
  <2>4. CASE i # 1
    <3>1. i - 1 \in 1..n /\ ~(i <= i - 1)
      BY <2>2, <2>4
    <3>2. Within(lo, s[i - 1], hi)
      BY <2>1, <3>1
    <3>3. s[i] = Mix(period, weight, s[i - 1], values[i])
      BY <1>2, <2>2, <2>4
    <3> QED BY <2>2, <3>2, <3>3, MixWithin
  <2> QED BY <2>3, <2>4
<1> QED BY <1>3, <1>4

\* ---- the indicator's averages ----
\* A field of the indicator: empty, or a fraction in a range.
Kept(x, lo, hi) == x = <<>> \/ \E v : x = <<v>> /\ Within(lo, v, hi)

LEMMA RmaMeans ==
  ASSUME NEW period \in Nat \ {0}, NEW a, NEW v, NEW x, NEW y, NEW D, Means(a, x, D), Means(v, y, D)
  PROVE  Means(Rma(period, <<a>>, v), (period - 1) * x + y, period * D)
<1>1. PICK p \in Nat : p = period - 1
  OBVIOUS
<1>2. Means(Scale(p, a), p * x, D)
  BY ScaleMeans
<1>3. Means(Plus(Scale(p, a), v), p * x + y, D)
  BY <1>2, PlusMeans
<1>4. PICK z \in Int : z = p * x + y
  BY DEF Means
<1>5. Means(Plus(Scale(p, a), v), period * z, period * D)
  BY <1>3, <1>4, MeansTimes
<1>6. Means(Over(Plus(Scale(p, a), v), period), z, period * D)
  <2>1. period * z = z * period
    OBVIOUS
  <2> QED BY <1>5, <2>1, OverMeans
<1>7. Rma(period, <<a>>, v) = Over(Plus(Scale(period - 1, a), v), period)
  BY DEF Rma
<1> QED BY <1>1, <1>4, <1>6, <1>7

LEMMA RmaWithin ==
  ASSUME NEW period \in Nat \ {0}, NEW lo \in Int, NEW hi \in Int,
         NEW prev, Kept(prev, lo, hi), NEW v, Within(lo, v, hi)
  PROVE  Within(lo, Rma(period, prev, v), hi)
<1>1. CASE prev = <<>>
  BY <1>1 DEF Rma
<1>2. CASE prev # <<>>
  <2>1. PICK a : prev = <<a>> /\ Within(lo, a, hi)
    BY <1>2 DEF Kept
  <2>2. PICK D \in Nat \ {0}, x \in Int, y \in Int : Means(a, x, D) /\ Means(v, y, D)
    BY <2>1, CommonOfTwo DEF Within
  <2>3. PICK p \in Nat, q \in Nat \ {0} : p = period - 1 /\ q = 1 /\ period = p + q
    OBVIOUS
  <2>4. Means(Rma(period, prev, v), p * x + y, period * D)
    BY <2>1, <2>2, <2>3, RmaMeans
  <2>5. p * x + y = p * x + q * y
    BY <2>3
  <2>6. lo * D <= x /\ x <= hi * D /\ lo * D <= y /\ y <= hi * D
    BY <2>1, <2>2, MeansWithin DEF Within
  <2> QED BY <2>2, <2>3, <2>4, <2>5, <2>6, AverageWithin
<1> QED BY <1>1, <1>2

LEMMA EmaMeans ==
  ASSUME NEW period \in Nat \ {0}, NEW a, NEW v, NEW x, NEW y, NEW D, Means(a, x, D), Means(v, y, D)
  PROVE  Means(Ema(period, <<a>>, v), (period - 1) * x + 2 * y, (period + 1) * D)
<1>1. PICK n \in Nat \ {0} : n = period + 1
  OBVIOUS
<1>2. PICK z \in Int : z = 2 * (y - x)
  BY DEF Means
<1>3. Means(Minus(v, a), y - x, D)
  BY MinusMeans
<1>4. Means(Scale(2, Minus(v, a)), z, D)
  BY <1>2, <1>3, ScaleMeans
<1>5. Means(Scale(2, Minus(v, a)), n * z, n * D)
  BY <1>4, MeansTimes
<1>6. Means(Over(Scale(2, Minus(v, a)), n), z, n * D)
  <2>1. n * z = z * n
    OBVIOUS
  <2> QED BY <1>5, <2>1, OverMeans
<1>7. Means(a, n * x, n * D)
  BY MeansTimes
<1>8. Means(Plus(a, Over(Scale(2, Minus(v, a)), n)), n * x + z, n * D)
  BY <1>6, <1>7, PlusMeans
<1>9. n * x + z = (period - 1) * x + 2 * y
  <2>1. x \in Int /\ y \in Int
    BY DEF Means
  <2>2. (period + 1) * x + 2 * (y - x) = (period - 1) * x + 2 * y
    BY <2>1
  <2> QED BY <1>1, <1>2, <2>2
<1>10. Ema(period, <<a>>, v) = Plus(a, Over(Scale(2, Minus(v, a)), n))
  BY <1>1 DEF Ema
<1> QED BY <1>1, <1>8, <1>9, <1>10

LEMMA EmaWithin ==
  ASSUME NEW period \in Nat \ {0}, NEW lo \in Int, NEW hi \in Int,
         NEW prev, Kept(prev, lo, hi), NEW v, Within(lo, v, hi)
  PROVE  Within(lo, Ema(period, prev, v), hi)
<1>1. CASE prev = <<>>
  BY <1>1 DEF Ema
<1>2. CASE prev # <<>>
  <2>1. PICK a : prev = <<a>> /\ Within(lo, a, hi)
    BY <1>2 DEF Kept
  <2>2. PICK D \in Nat \ {0}, x \in Int, y \in Int : Means(a, x, D) /\ Means(v, y, D)
    BY <2>1, CommonOfTwo DEF Within
  <2>3. PICK p \in Nat, n \in Nat \ {0} : p = period - 1 /\ n = period + 1 /\ n = p + 2
    OBVIOUS
  <2>4. Means(Ema(period, prev, v), p * x + 2 * y, n * D)
    BY <2>1, <2>2, <2>3, EmaMeans
  <2>5. lo * D <= x /\ x <= hi * D /\ lo * D <= y /\ y <= hi * D
    BY <2>1, <2>2, MeansWithin DEF Within
  <2> QED BY <2>2, <2>3, <2>4, <2>5, AverageWithin
<1> QED BY <1>1, <1>2

LEMMA EmaRational ==
  ASSUME NEW period \in Nat \ {0}, NEW prev, prev = <<>> \/ \E a \in Rational : prev = <<a>>,
         NEW v \in Rational
  PROVE  Ema(period, prev, v) \in Rational
<1>1. CASE prev = <<>>
  BY <1>1 DEF Ema
<1>2. CASE prev # <<>>
  <2>1. PICK a \in Rational : prev = <<a>>
    BY <1>2
  <2>2. PICK D \in Nat \ {0}, x \in Int, y \in Int : Means(a, x, D) /\ Means(v, y, D)
    BY CommonOfTwo
  <2>3. Means(Ema(period, <<a>>, v), (period - 1) * x + 2 * y, (period + 1) * D)
    BY <2>2, EmaMeans
  <2> QED BY <2>1, <2>3 DEF Means
<1> QED BY <1>1, <1>2

\* An RSI over two averages depends on their proportion only.
Relative(u, v) == IF v = 0 THEN Ratio(10000, 101) ELSE Ratio(100 * u, u + v)

LEMMA RsiRelative ==
  ASSUME NEW g, NEW l, NEW u \in Nat, NEW v \in Nat, NEW D, Means(g, u, D), Means(l, v, D)
  PROVE  Rsi(<<g>>, <<l>>) = <<Relative(u, v)>> /\ Strength(g, l) = Relative(u, v)
<1>1. l.num = 0 <=> v = 0
  <2>1. PICK n \in Int, d \in Nat \ {0} : n = l.num /\ d = l.den
    BY DEF Means, Rational
  <2>2. n * D = v * d /\ D \in Nat \ {0}
    BY <2>1 DEF Means
  <2>3. ASSUME n = 0 PROVE v = 0
    <3>1. v * d = 0
      BY <2>2, <2>3
    <3> QED BY <3>1
  <2>4. ASSUME v = 0 PROVE n = 0
    <3>1. n * D = 0
      BY <2>2, <2>4
    <3> QED BY <2>2, <3>1
  <2> QED BY <2>1, <2>3, <2>4
<1>2. CASE v = 0
  BY <1>1, <1>2 DEF Rsi, Strength, Relative
<1>3. CASE v # 0
  <2>1. PICK w \in Nat \ {0} : w = u + v
    BY <1>3
  <2>2. Means(Plus(g, l), w, D)
    BY <2>1, PlusMeans
  <2>3. Means(Divide(g, Plus(g, l)), u, w)
    BY <2>2, DivideMeans
  <2>4. PICK q : q = Divide(g, Plus(g, l))
    OBVIOUS
  <2>5. PICK n \in Int, d \in Nat \ {0} : n = q.num /\ d = q.den /\ n * w = u * d
    BY <2>3, <2>4 DEF Means, Rational
  <2>6. Scale(100, q) = Ratio(100 * n, d)
    BY <2>5 DEF Scale
  <2>7. (100 * n) * w = (100 * u) * d
    BY <2>5
  <2>8. Ratio(100 * n, d) = Ratio(100 * u, w)
    <3>1. 100 * n \in Int /\ 100 * u \in Int
      OBVIOUS
    <3> QED BY <2>7, <3>1, RatioOnly
  <2>9. Relative(u, v) = Scale(100, Divide(g, Plus(g, l)))
    BY <1>3, <2>1, <2>4, <2>6, <2>8 DEF Relative
  <2>10. Strength(g, l) = Relative(u, v)
    BY <1>1, <1>3, <2>9 DEF Strength
  <2>11. Rsi(<<g>>, <<l>>) = <<Scale(100, Divide(g, Plus(g, l)))>>
    BY <1>1, <1>3 DEF Rsi
  <2> QED BY <2>9, <2>10, <2>11
<1> QED BY <1>2, <1>3

LEMMA RelativeScales ==
  ASSUME NEW u \in Nat, NEW v \in Nat, NEW k \in Nat \ {0}
  PROVE  Relative(k * u, k * v) = Relative(u, v)
<1>1. CASE v = 0
  <2>1. k * v = 0
    BY <1>1
  <2> QED BY <1>1, <2>1 DEF Relative
<1>2. CASE v # 0
  <2>1. PICK w \in Nat \ {0}, m \in Int : w = u + v /\ m = 100 * u
    BY <1>2
  <2>2. k * v # 0
    BY <1>2
  <2>3. Relative(k * u, k * v) = Ratio(100 * (k * u), k * u + k * v)
    BY <2>2 DEF Relative
  <2>4. 100 * (k * u) = k * m /\ k * u + k * v = k * w
    BY <2>1
  <2>5. Ratio(k * m, k * w) = Ratio(m, w)
    BY RatioScales
  <2>6. Relative(u, v) = Ratio(m, w)
    BY <1>2, <2>1 DEF Relative
  <2> QED BY <2>3, <2>4, <2>5, <2>6
<1> QED BY <1>1, <1>2

LEMMA RelativePercent ==
  ASSUME NEW u \in Nat, NEW v \in Nat
  PROVE  Within(0, Relative(u, v), 100)
<1>1. CASE v = 0
  <2>1. Means(Ratio(10000, 101), 10000, 101)
    <3>1. 10000 \in Int /\ 101 \in Nat \ {0} /\ 10000 * 101 = 10000 * 101
      OBVIOUS
    <3> QED BY ONLY <3>1, RatioMeans
  <2>2. 0 * 101 <= 10000 /\ 10000 <= 100 * 101 /\ 0 \in Int /\ 100 \in Int
    OBVIOUS
  <2> QED BY <1>1, <2>1, <2>2, MeansWithin DEF Relative, Within, Means
<1>2. CASE v # 0
  <2>1. PICK w \in Nat \ {0}, m \in Int : w = u + v /\ m = 100 * u
    BY <1>2
  <2>2. Means(Ratio(m, w), m, w)
    BY RatioMeans
  <2>3. 0 * w <= m /\ m <= 100 * w /\ 0 \in Int /\ 100 \in Int
    BY <2>1
  <2>4. Relative(u, v) = Ratio(m, w)
    BY <1>2, <2>1 DEF Relative
  <2> QED BY <2>2, <2>3, <2>4, MeansWithin DEF Within, Means
<1> QED BY <1>1, <1>2

\* ---- prices, moves and ranges ----
LEMMA FiniteHasMax ==
  ASSUME NEW S, IsFiniteSet(S), S # {}, S \subseteq Nat
  PROVE  \E m \in S : \A x \in S : x <= m
<1> DEFINE Tops(T) == {m \in T : \A x \in T : x <= m}
           Bad == {T \in SUBSET S : T # {} /\ Tops(T) = {}}
<1>1. CASE Bad # {}
  <2>1. PICK A \in Bad : \A B \in SUBSET A : B # A => B \notin Bad
    <3> HIDE DEF Bad
    <3>1. Bad \in SUBSET (SUBSET S)
      BY DEF Bad
    <3> QED BY <1>1, <3>1, Minimal
  <2>2. A \in SUBSET S /\ A # {} /\ Tops(A) = {}
    OBVIOUS
  <2>3. PICK a \in A : TRUE
    BY <2>2
  <2>4. A \ {a} \in SUBSET A /\ A \ {a} # A /\ A \ {a} \notin Bad
    <3> HIDE DEF Bad
    <3> QED BY <2>1, <2>3
  <2>5. CASE A \ {a} = {}
    <3>1. A = {a} /\ a \in Nat
      BY <2>2, <2>3, <2>5
    <3>2. a \in Tops(A)
      BY <3>1
    <3> QED BY <2>2, <3>2
  <2>6. CASE A \ {a} # {}
    <3>1. PICK m \in A \ {a} : \A x \in A \ {a} : x <= m
      BY <2>2, <2>4, <2>6
    <3>2. a \in Nat /\ m \in Nat /\ m \in A /\ \A x \in A : x \in Nat
      BY <2>2, <2>3, <3>1
    <3>3. CASE a <= m
      <4>1. m \in Tops(A)
        BY <3>1, <3>2, <3>3
      <4> QED BY <2>2, <4>1
    <3>4. CASE m <= a
      <4>1. \A x \in A : x <= a
        BY <3>1, <3>2, <3>4
      <4>2. a \in Tops(A)
        BY <2>3, <4>1
      <4> QED BY <2>2, <4>2
    <3> QED BY <3>2, <3>3, <3>4
  <2> QED BY <2>5, <2>6
<1>2. CASE Bad = {}
  BY <1>2
<1> QED BY <1>1, <1>2

LEMMA PricesBetween ==
  /\ Min(Price) \in Nat \ {0} /\ Max(Price) \in Nat \ {0} /\ Min(Price) <= Max(Price)
  /\ \A p \in Price : p \in Nat \ {0} /\ Min(Price) <= p /\ p <= Max(Price)
<1>1. Price \subseteq Nat /\ Price # {} /\ IsFiniteSet(Price) /\ Price \subseteq Nat \ {0}
  BY CandleAssumption
<1>2. \E m \in Price : \A x \in Price : x <= m
  BY <1>1, FiniteHasMax
<1>3. \E m \in Price : \A x \in Price : m <= x
  BY <1>1, LeastNumber
<1>4. Max(Price) \in Price /\ \A x \in Price : x <= Max(Price)
  <2>1. \E m \in Price : \A x \in Price : m >= x
    BY <1>1, <1>2
  <2>2. Max(Price) \in Price /\ \A x \in Price : Max(Price) >= x
    BY <2>1 DEF Max
  <2> QED BY <1>1, <2>2
<1>5. Min(Price) \in Price /\ \A x \in Price : Min(Price) <= x
  BY <1>3 DEF Min
<1> QED BY <1>1, <1>4, <1>5

Span == Max(Price) - Min(Price)

LEMMA SpanIsNumber == Span \in Nat /\ \A p, q \in Price : p - q <= Span /\ Abs(p - q) \in 0..Span
<1>1. PICK lo \in Nat, hi \in Nat : lo = Min(Price) /\ hi = Max(Price) /\ lo <= hi
  BY PricesBetween
<1>2. ASSUME NEW p \in Price, NEW q \in Price PROVE p - q <= Span /\ Abs(p - q) \in 0..Span
  <2>1. p \in Nat /\ q \in Nat /\ lo <= p /\ p <= hi /\ lo <= q /\ q <= hi
    BY <1>1, PricesBetween
  <2> QED BY <1>1, <2>1 DEF Span, Abs
<1> QED BY <1>1, <1>2 DEF Span

LEMMA LargestOfThree ==
  ASSUME NEW a \in Int, NEW b \in Int, NEW c \in Int
  PROVE  Max({a, b, c}) \in {a, b, c} /\ Max({a, b, c}) >= a /\ Max({a, b, c}) >= b /\ Max({a, b, c}) >= c
<1>1. \E x \in {a, b, c} : \A y \in {a, b, c} : x >= y
  <2>1. (a >= b /\ a >= c) \/ (b >= a /\ b >= c) \/ (c >= a /\ c >= b)
    OBVIOUS
  <2> QED BY <2>1
<1>2. Max({a, b, c}) \in {a, b, c} /\ \A y \in {a, b, c} : Max({a, b, c}) >= y
  BY <1>1 DEF Max
<1> QED BY <1>2

LEMMA CandlePrices ==
  ASSUME NEW c \in Candle
  PROVE  /\ c.high \in Price /\ c.low \in Price /\ c.close \in Price
         /\ c.high \in Nat /\ c.low \in Nat /\ c.close \in Nat
         /\ c.time \in Int /\ c.volume \in Nat /\ c.low <= c.high
<1>1. Price \subseteq Nat
  BY CandleAssumption
<1>2. PICK n \in Int, o \in Price, x \in Price, y \in Price, z \in Price, v \in Nat :
        c = [time |-> n, open |-> o, high |-> x, low |-> y, close |-> z, volume |-> v] /\ y <= z /\ z <= x
  BY DEF Candle
<1> QED BY <1>1, <1>2

LEMMA RangeInSpan ==
  ASSUME NEW c \in Candle, NEW d \in Candle
  PROVE  /\ TrueRange(c, d) \in 0..Span /\ d.high - d.low \in 0..Span
         /\ \A way \in {1, -1} : Moved(way, c, d) \in 0..Span
<1>1. PICK h \in Price, l \in Price, x \in Price, y \in Price :
        h = d.high /\ l = d.low /\ x = d.close /\ y = c.close /\ l <= h
  BY CandlePrices
<1>2. h \in Nat /\ l \in Nat /\ x \in Nat /\ y \in Nat /\ Span \in Nat
  BY <1>1, PricesBetween, SpanIsNumber
<1>3. h - l \in 0..Span /\ Abs(h - y) \in 0..Span /\ Abs(l - y) \in 0..Span /\ x - y <= Span /\ y - x <= Span
  BY <1>1, <1>2, SpanIsNumber
<1>4. TrueRange(c, d) \in 0..Span
  <2>1. PICK a \in Int, b \in Int, e \in Int : a = h - l /\ b = Abs(h - y) /\ e = Abs(l - y)
    BY <1>3
  <2>2. Max({a, b, e}) \in {a, b, e}
    BY LargestOfThree
  <2>3. TrueRange(c, d) = Max({a, b, e})
    BY <1>1, <2>1 DEF TrueRange
  <2> QED BY <1>3, <2>1, <2>2, <2>3
<1>5. ASSUME NEW way \in {1, -1} PROVE Moved(way, c, d) \in 0..Span
  <2>1. PICK a \in Int : a = way * (x - y) /\ a <= Span
    <3>1. 1 * (x - y) = x - y /\ -1 * (x - y) = y - x
      BY <1>2
    <3> QED BY <1>2, <1>3, <3>1
  <2>2. Max({a, 0}) \in {a, 0} /\ Max({a, 0}) >= 0
    BY Extremes
  <2>3. Moved(way, c, d) = Max({a, 0})
    BY <1>1, <2>1 DEF Moved
  <2> QED BY <1>2, <2>1, <2>2, <2>3
<1> QED BY <1>1, <1>3, <1>4, <1>5

LEMMA WholeWithin ==
  ASSUME NEW lo \in Int, NEW hi \in Int, NEW n \in Int, lo <= n, n <= hi
  PROVE  Within(lo, Whole(n), hi)
<1>1. Means(Whole(n), n * 1, 1)
  BY WholeMeans
<1>2. n * 1 = n /\ lo * 1 <= n /\ n <= hi * 1
  OBVIOUS
<1> QED BY <1>1, <1>2, MeansWithin DEF Within, Means

\* ---- the averages of gains and losses ----
\* The changes that the chart averages: the first average, then a change each.
Change(way, s, i) == Moved(way, s[i - 1], s[i])
FirstChanges(way, s) == Ratio(SumFunction([i \in 2..RsiPeriod + 1 |-> Change(way, s, i)]), RsiPeriod)
Changes(way, s) ==
  [j \in 1..Len(s) - RsiPeriod |-> IF j = 1 THEN FirstChanges(way, s) ELSE Whole(Change(way, s, j + RsiPeriod))]

LEMMA ChartMovesAre ==
  ASSUME NEW s, NEW way
  PROVE  ChartMoves(s, RsiPeriod, way) = Smoothed(Changes(way, s), RsiPeriod, 1)
BY DEF ChartMoves, Wilder, Changes, FirstChanges, Change, Moved

LEMMA Periods == RsiPeriod \in Nat /\ RsiPeriod > 1 /\ MaxLen \in Nat /\ MaxLen > RsiPeriod /\ Seeds \in Nat
                 /\ Seeds >= RsiPeriod
BY CandleAssumption, AruAlgoAssumption

\* What a candle does to a series that keeps its bound.
Pushes(s, c, r) ==
  /\ r \in Seq(Candle) /\ Len(r) <= MaxLen /\ Len(r) >= 1 /\ r[Len(r)] = c
  /\ Len(s) >= 1 => Len(r) >= 2 /\ r[Len(r) - 1] = s[Len(s)]
  /\ Len(s) = MaxLen => Len(r) = MaxLen
  /\ Len(s) # MaxLen => Len(r) = Len(s) + 1 /\ \A i \in 1..Len(s) : r[i] = s[i]

LEMMA PushedWithin ==
  ASSUME NEW s \in Seq(Candle), Len(s) <= MaxLen, NEW c \in Candle, NEW r, r = PushCandle(s, c)
  PROVE  Pushes(s, c, r)
<1>0. Len(s) \in Nat /\ MaxLen \in Nat /\ MaxLen > 2
  BY AruAlgoAssumption
<1>1. CASE Len(s) = MaxLen
  <2>1. s # <<>>
    BY <1>0, <1>1
  <2>2. PICK u \in Seq(Candle) : /\ u = Tail(s) /\ Len(u) = Len(s) - 1 /\ \A i \in 1..Len(u) : u[i] = s[i + 1]
    BY <2>1, HeadTailProperties
  <2>3. r = Append(u, c)
    BY <1>1, <2>2 DEF PushCandle
  <2>4. r \in Seq(Candle) /\ Len(r) = Len(s) /\ r[Len(r)] = c /\ \A i \in 1..Len(r) - 1 : r[i] = s[i + 1]
    BY <1>0, <2>2, <2>3, AppendProperties
  <2>5. Len(r) - 1 \in 1..Len(r) - 1 /\ (Len(r) - 1) + 1 = Len(s)
    BY <1>0, <1>1, <2>4
  <2>6. r[Len(r) - 1] = s[Len(s)]
    BY <2>4, <2>5
  <2> QED
    BY <1>0, <1>1, <2>4, <2>6 DEF Pushes
<1>2. CASE Len(s) # MaxLen
  <2>1. r = Append(s, c)
    BY <1>2 DEF PushCandle
  <2>2. r \in Seq(Candle) /\ Len(r) = Len(s) + 1 /\ r[Len(r)] = c /\ \A i \in 1..Len(s) : r[i] = s[i]
    BY <1>0, <2>1, AppendProperties
  <2>3. Len(s) >= 1 => Len(s) \in 1..Len(s) /\ Len(r) - 1 = Len(s)
    BY <1>0, <2>2
  <2> QED
    BY <1>0, <1>2, <2>2, <2>3 DEF Pushes
<1> QED BY <1>1, <1>2

\* The average of as many changes as the period has is between zero and the span.
LEMMA FirstWithin ==
  ASSUME NEW a \in Int, NEW f, f = [i \in a + 1 .. a + RsiPeriod |-> f[i]],
         \A i \in a + 1 .. a + RsiPeriod : f[i] \in 0..Span
  PROVE  Within(0, Ratio(SumFunction(f), RsiPeriod), Span)
<1> DEFINE T == a + 1 .. a + RsiPeriod
           one == [i \in T |-> 1]
<1>1. RsiPeriod \in Nat \ {0} /\ Span \in Nat
  BY Periods, SpanIsNumber
<1>2. IsFiniteSet(T) /\ DOMAIN f = T /\ \A i \in T : one[i] = 1
  <2>1. a + 1 \in Int /\ a + RsiPeriod \in Int
    BY <1>1
  <2> QED BY <2>1, FS_Interval
<1>3. SumFunctionOnSet(one, T) = RsiPeriod
  <2> HIDE DEF one
  <2> QED BY <1>1, <1>2, SumOnes
<1>4. \A i \in T : f[i] \in Int /\ one[i] \in Int /\ 0 * one[i] <= f[i] /\ f[i] <= Span * one[i]
  <2> SUFFICES ASSUME NEW i \in T PROVE f[i] \in Int /\ one[i] \in Int /\ 0 * one[i] <= f[i] /\ f[i] <= Span * one[i]
    OBVIOUS
  <2>1. f[i] \in 0..Span /\ one[i] = 1
    OBVIOUS
  <2> QED BY <1>1, <2>1
<1>5. PICK n \in Int : n = SumFunctionOnSet(f, T)
  <2> HIDE DEF one, T
  <2> QED BY <1>2, <1>4, SumType
<1>6. 0 * RsiPeriod <= n /\ n <= Span * RsiPeriod
  <2> HIDE DEF one, T
  <2>1. 0 \in Int /\ Span \in Int
    BY <1>1
  <2>2. 0 * SumFunctionOnSet(one, T) <= SumFunctionOnSet(f, T)
        /\ SumFunctionOnSet(f, T) <= Span * SumFunctionOnSet(one, T)
    BY ONLY <1>2, <1>4, <2>1, SumBounds
  <2> QED BY <1>3, <1>5, <2>2
<1>7. Means(Ratio(n, RsiPeriod), n, RsiPeriod)
  BY <1>1, RatioMeans
<1>8. SumFunction(f) = n
  BY <1>2, <1>5 DEF SumFunction
<1>9. 0 \in Int /\ Span \in Int
  BY <1>1
<1> QED BY <1>6, <1>7, <1>8, <1>9, MeansWithin DEF Within, Means

LEMMA OnceTheWhole == ASSUME NEW n \in Int PROVE Scale(1, Whole(n)) = Whole(n)
<1>1. Scale(1, Whole(n)) = Ratio(n, 1)
  BY DEF Scale, Whole
<1>2. PICK g \in Nat \ {0}, k \in Int, l \in Nat \ {0} :
        n = g * k /\ 1 = g * l /\ Ratio(n, 1) = [num |-> k, den |-> l]
  <2>1. 1 \in Nat \ {0}
    OBVIOUS
  <2> QED BY ONLY <2>1, n \in Int, RatioParts
<1>3. g = 1 /\ l = 1
  <2>1. g <= g * l /\ l <= g * l
    OBVIOUS
  <2> QED BY <1>2, <2>1
<1>4. n = k
  BY <1>2, <1>3
<1> QED BY <1>1, <1>2, <1>3, <1>4 DEF Whole

\* The server's running average is the chart's.
LEMMA RmaIsMix ==
  ASSUME NEW period \in Nat \ {0}, NEW a, NEW n \in Int
  PROVE  Rma(period, <<a>>, Whole(n)) = Mix(period, 1, a, Whole(n))
<1>1. period - 1 + 1 = period
  OBVIOUS
<1>2. Rma(period, <<a>>, Whole(n)) = Over(Plus(Scale(period - 1, a), Whole(n)), period)
  BY DEF Rma
<1> QED BY <1>1, <1>2, OnceTheWhole DEF Mix

\* What the indicator keeps of a kind of change: nothing until there are enough, then an average,
\* which is the chart's over the same series as long as no candle was dropped from it.
AverageOf(avg, way, s) ==
  /\ Len(s) <= RsiPeriod => avg = <<>>
  /\ Len(s) > RsiPeriod => \E v : /\ avg = <<v>> /\ Within(0, v, Span)
                                  /\ Len(s) < MaxLen => v = ChartMoves(s, RsiPeriod, way)[Len(s) - RsiPeriod]

LEMMA AveragedIs ==
  ASSUME NEW s \in Seq(Candle), Len(s) <= MaxLen, NEW c \in Candle, NEW r, r = PushCandle(s, c), Len(r) >= 2,
         NEW way \in {1, -1}, NEW avg, AverageOf(avg, way, s)
  PROVE  AverageOf(Averaged(avg, way, r, r[Len(r) - 1], r[Len(r)]), way, r)
<1>0. /\ r \in Seq(Candle) /\ Len(r) \in Nat /\ Len(s) \in Nat /\ Len(r) <= MaxLen /\ r[Len(r)] = c
      /\ Len(s) = MaxLen => Len(r) = MaxLen
      /\ Len(s) # MaxLen => Len(r) = Len(s) + 1 /\ \A i \in 1..Len(s) : r[i] = s[i]
  <2>1. /\ r \in Seq(Candle) /\ Len(r) <= MaxLen /\ r[Len(r)] = c
        /\ Len(s) = MaxLen => Len(r) = MaxLen
        /\ Len(s) # MaxLen => Len(r) = Len(s) + 1 /\ \A i \in 1..Len(s) : r[i] = s[i]
    <3>1. Pushes(s, c, r)
      BY PushedWithin
    <3> QED BY <3>1 DEF Pushes
  <2>2. Len(r) \in Nat /\ Len(s) \in Nat
    BY <2>1
  <2> QED BY <2>1, <2>2
<1>1. PICK p \in Nat, n \in Nat : p = RsiPeriod /\ n = Len(r) /\ p > 1 /\ MaxLen > p /\ MaxLen \in Nat
  BY <1>0, Periods
<1>2. PICK after : after = Averaged(avg, way, r, r[n - 1], r[n])
  OBVIOUS
<1>3. \A i \in 2..n : Change(way, r, i) \in 0..Span
  <2> SUFFICES ASSUME NEW i \in 2..n PROVE Change(way, r, i) \in 0..Span
    OBVIOUS
  <2>1. r[i] \in Candle /\ r[i - 1] \in Candle
    BY <1>0, <1>1
  <2> QED BY <2>1, RangeInSpan DEF Change
<1>4. CASE n <= p
  <2>1. Len(s) <= p
    BY <1>0, <1>1, <1>4
  <2>2. avg = <<>>
    BY <1>1, <2>1 DEF AverageOf
  <2>3. after = <<>>
    BY <1>1, <1>2, <1>4, <2>2 DEF Averaged, FirstAverage
  <2> QED BY <1>1, <1>2, <1>4, <2>3 DEF AverageOf
<1>5. CASE n > p /\ Len(s) <= p
  <2>1. n = p + 1 /\ avg = <<>>
    BY <1>0, <1>1, <1>5 DEF AverageOf
  <2> DEFINE f == [i \in 2..p + 1 |-> Change(way, r, i)]
  <2>2. after = <<FirstChanges(way, r)>>
    <3>1. n - RsiPeriod + 1 = 2 /\ ~(n < RsiPeriod + 1) /\ n = p + 1
      BY <1>1, <2>1
    <3>2. after = <<Ratio(SumFunction([i \in n - RsiPeriod + 1 .. n |-> Moved(way, r[i - 1], r[i])]), RsiPeriod)>>
      BY <1>1, <1>2, <2>1, <3>1 DEF Averaged, FirstAverage
    <3> QED BY <1>1, <3>1, <3>2 DEF FirstChanges, Change
  <2>3. FirstChanges(way, r) = Ratio(SumFunction(f), RsiPeriod)
    BY <1>1 DEF FirstChanges
  <2>4. Within(0, Ratio(SumFunction(f), RsiPeriod), Span)
    <3>1. f = [i \in 1 + 1 .. 1 + RsiPeriod |-> f[i]] /\ \A i \in 1 + 1 .. 1 + RsiPeriod : f[i] \in 0..Span
      <4>1. 1 + 1 = 2 /\ 1 + RsiPeriod = p + 1
        BY <1>1
      <4>2. \A i \in 2..p + 1 : f[i] = Change(way, r, i)
        OBVIOUS
      <4>3. \A i \in 2..p + 1 : f[i] \in 0..Span
        BY <1>3, <2>1, <4>2
      <4> QED BY <4>1, <4>3
    <3> HIDE DEF f
    <3>2. 1 \in Int
      OBVIOUS
    <3> QED BY ONLY <3>1, <3>2, FirstWithin
  <2>5. ChartMoves(r, RsiPeriod, way)[1] = FirstChanges(way, r)
    <3>1. DOMAIN Changes(way, r) = 1..1 /\ Changes(way, r)[1] = FirstChanges(way, r)
      BY <1>1, <2>1 DEF Changes
    <3>2. PICK m \in Nat : m = 1
      OBVIOUS
    <3>3. Smoothed(Changes(way, r), RsiPeriod, 1)[1] = Changes(way, r)[1]
      <4>1. 1 \in 1..m /\ DOMAIN Changes(way, r) = 1..m
        BY <3>1, <3>2
      <4> QED BY <4>1, SmoothedUnfolds
    <3> QED BY <3>1, <3>3, ChartMovesAre
  <2>6. n - RsiPeriod = 1
    BY <1>1, <2>1
  <2> QED BY <1>1, <1>2, <1>5, <2>2, <2>3, <2>4, <2>5, <2>6 DEF AverageOf
<1>6. CASE n > p /\ Len(s) > p
  <2>1. PICK v : /\ avg = <<v>> /\ Within(0, v, Span)
                 /\ Len(s) < MaxLen => v = ChartMoves(s, RsiPeriod, way)[Len(s) - RsiPeriod]
    BY <1>1, <1>6 DEF AverageOf
  <2>2. PICK e \in Int : e = Change(way, r, n) /\ e \in 0..Span
    <3>1. n \in 2..n
      BY <1>1
    <3>2. Change(way, r, n) \in 0..Span
      BY <1>3, <3>1
    <3> QED BY <3>2
  <2>3. after = <<Rma(p, <<v>>, Whole(e))>>
    BY <1>1, <1>2, <2>1, <2>2 DEF Averaged, Change
  <2>4. Within(0, Rma(p, <<v>>, Whole(e)), Span)
    <3>1. 0 \in Int /\ Span \in Int /\ 0 <= e /\ e <= Span
      BY <2>2, SpanIsNumber
    <3>2. Within(0, Whole(e), Span)
      BY <3>1, WholeWithin
    <3>3. Kept(<<v>>, 0, Span) /\ p \in Nat \ {0}
      BY <1>1, <2>1 DEF Kept
    <3> QED BY <3>1, <3>2, <3>3, RmaWithin
  <2>5. ASSUME n < MaxLen PROVE Rma(p, <<v>>, Whole(e)) = ChartMoves(r, RsiPeriod, way)[n - RsiPeriod]
    <3>1. Len(s) # MaxLen /\ n = Len(s) + 1 /\ Len(s) < MaxLen /\ \A i \in 1..Len(s) : r[i] = s[i]
      BY <1>0, <1>1, <2>5
    <3>2. PICK k \in Nat : k = Len(s) - p /\ k >= 1 /\ n - p = k + 1
      <4>1. PICK m \in Nat : m = Len(s)
        BY <1>0
      <4>2. m > p /\ n = m + 1
        BY <1>6, <3>1, <4>1
      <4>3. m - p \in Nat /\ m - p >= 1 /\ n - p = (m - p) + 1
        BY <1>1, <4>2
      <4> QED BY <4>1, <4>3
    <3>3. DOMAIN Changes(way, s) = 1..k /\ DOMAIN Changes(way, r) = 1..k + 1
      BY <1>1, <3>2 DEF Changes
    <3>4. FirstChanges(way, r) = FirstChanges(way, s)
      <4>1. \A i \in 2..RsiPeriod + 1 : Change(way, r, i) = Change(way, s, i)
        <5> SUFFICES ASSUME NEW i \in 2..RsiPeriod + 1 PROVE Change(way, r, i) = Change(way, s, i)
          OBVIOUS
        <5>1. i \in 1..Len(s) /\ i - 1 \in 1..Len(s)
          BY <1>0, <1>1, <1>6
        <5> QED BY <3>1, <5>1 DEF Change
      <4>2. [i \in 2..RsiPeriod + 1 |-> Change(way, r, i)] = [i \in 2..RsiPeriod + 1 |-> Change(way, s, i)]
        BY <4>1
      <4> QED BY <4>2 DEF FirstChanges
    <3>5. \A j \in 1..k : Changes(way, r)[j] = Changes(way, s)[j]
      <4> SUFFICES ASSUME NEW j \in 1..k PROVE Changes(way, r)[j] = Changes(way, s)[j]
        OBVIOUS
      <4>1. j \in 1..Len(s) - RsiPeriod /\ j \in 1..Len(r) - RsiPeriod
        BY <1>1, <3>2
      <4>2. j + RsiPeriod \in 1..Len(s) /\ j + RsiPeriod - 1 \in 1..Len(s)
        BY <1>0, <1>1, <3>2
      <4>3. Change(way, r, j + RsiPeriod) = Change(way, s, j + RsiPeriod)
        <5>1. PICK i \in Int : i = j + RsiPeriod /\ i \in 1..Len(s) /\ i - 1 \in 1..Len(s)
          BY <1>1, <4>2
        <5> QED BY <3>1, <5>1 DEF Change
      <4>4. Changes(way, r)[j] = IF j = 1 THEN FirstChanges(way, r) ELSE Whole(Change(way, r, j + RsiPeriod))
        BY <4>1 DEF Changes
      <4>5. Changes(way, s)[j] = IF j = 1 THEN FirstChanges(way, s) ELSE Whole(Change(way, s, j + RsiPeriod))
        BY <4>1 DEF Changes
      <4> QED BY <3>4, <4>3, <4>4, <4>5
    <3>6. PICK t, u : t = Smoothed(Changes(way, s), RsiPeriod, 1) /\ u = Smoothed(Changes(way, r), RsiPeriod, 1)
      OBVIOUS
    <3>7. u[k] = t[k]
      <4>1. PICK a, b : a = Changes(way, r) /\ b = Changes(way, s)
        OBVIOUS
      <4>2. DOMAIN a = 1..k + 1 /\ DOMAIN b = 1..k /\ \A i \in 1..k : a[i] = b[i]
        BY <3>3, <3>5, <4>1
      <4>3. k \in Nat /\ k <= k /\ k <= k + 1 /\ k + 1 \in Nat /\ k \in 1..k
        BY <3>2
      <4>4. \A i \in 1..k : Smoothed(a, RsiPeriod, 1)[i] = Smoothed(b, RsiPeriod, 1)[i]
        BY ONLY <4>2, <4>3, SmoothedPrefix
      <4>5. u = Smoothed(a, RsiPeriod, 1) /\ t = Smoothed(b, RsiPeriod, 1)
        BY <3>6, <4>1
      <4> QED BY <4>3, <4>4, <4>5
    <3>8. u[k + 1] = Mix(RsiPeriod, 1, u[k], Changes(way, r)[k + 1])
      <4>1. k + 1 \in 1..k + 1 /\ k + 1 # 1 /\ (k + 1) - 1 = k /\ k + 1 \in Nat
        BY <3>2
      <4>2. u[k + 1] = Mix(RsiPeriod, 1, u[(k + 1) - 1], Changes(way, r)[k + 1])
        BY <3>3, <3>6, <4>1, SmoothedUnfolds
      <4> QED BY <4>1, <4>2
    <3>9. Changes(way, r)[k + 1] = Whole(e)
      <4>1. k + 1 \in 1..Len(r) - RsiPeriod /\ k + 1 # 1 /\ k + 1 + RsiPeriod = n
        BY <1>1, <3>2
      <4> QED BY <2>2, <4>1 DEF Changes
    <3>10. v = t[k]
      BY <1>1, <2>1, <3>1, <3>2, <3>6, ChartMovesAre
    <3>11. Rma(p, <<v>>, Whole(e)) = Mix(RsiPeriod, 1, v, Whole(e))
      BY <1>1, RmaIsMix
    <3> QED BY <1>1, <3>2, <3>6, <3>7, <3>8, <3>9, <3>10, <3>11, ChartMovesAre
  <2> QED BY <1>1, <1>2, <1>6, <2>3, <2>4, <2>5 DEF AverageOf
<1> QED BY <1>0, <1>1, <1>4, <1>5, <1>6

\* ---- the directional index and the stop ----
LEMMA DirectionalPercent ==
  ASSUME NEW hi \in Int, NEW p, Within(0, p, hi), NEW m, Within(0, m, hi), Plus(p, m).num # 0
  PROVE  Within(0, Scale(100, Divide(Magnitude(Minus(p, m)), Plus(p, m))), 100)
<1>0. 0 \in Int /\ 100 \in Int
  OBVIOUS
<1>1. PICK D \in Nat \ {0}, u \in Int, v \in Int : Means(p, u, D) /\ Means(m, v, D)
  BY CommonOfTwo DEF Within
<1>2. u >= 0 /\ v >= 0
  <2>1. 0 * D <= u /\ 0 * D <= v
    BY <1>0, <1>1, MeansWithin DEF Within
  <2> QED BY <2>1
<1>3. PICK w \in Nat : w = u + v
  BY <1>2
<1>4. Means(Plus(p, m), w, D)
  BY <1>1, <1>3, PlusMeans
<1>5. w > 0
  <2> SUFFICES ASSUME w = 0 PROVE FALSE
    OBVIOUS
  <2>1. PICK n \in Int, d \in Nat \ {0} : n = Plus(p, m).num /\ n * D = w * d
    BY <1>4 DEF Means, Rational
  <2>2. n * D = 0
    BY <2>1
  <2>3. n = 0
    BY <2>2
  <2> QED BY <2>1, <2>3
<1>6. PICK a \in Nat : a = Abs(u - v) /\ a <= w
  <2>1. PICK t \in Int : t = u - v
    BY <1>1
  <2>2. CASE t < 0
    <3>1. Abs(t) = -t /\ -t \in Nat /\ -t <= w
      BY <1>2, <1>3, <2>1, <2>2 DEF Abs
    <3> QED BY <2>1, <3>1
  <2>3. CASE ~(t < 0)
    <3>1. Abs(t) = t /\ t \in Nat /\ t <= w
      BY <1>2, <1>3, <2>1, <2>3 DEF Abs
    <3> QED BY <2>1, <3>1
  <2> QED BY <2>2, <2>3
<1>7. Means(Magnitude(Minus(p, m)), a, D)
  <2>1. Means(Minus(p, m), u - v, D)
    BY <1>1, MinusMeans
  <2> QED BY <1>6, <2>1, MagnitudeMeans
<1>8. Means(Divide(Magnitude(Minus(p, m)), Plus(p, m)), a, w)
  BY <1>4, <1>5, <1>7, DivideMeans
<1>9. PICK x : x = Scale(100, Divide(Magnitude(Minus(p, m)), Plus(p, m)))
  OBVIOUS
<1>10. Means(x, 100 * a, w)
  BY <1>0, <1>8, <1>9, ScaleMeans
<1>11. 0 * w <= 100 * a /\ 100 * a <= 100 * w
  BY <1>6
<1>12. AtMost(Whole(0), x) /\ AtMost(x, Whole(100))
  BY <1>0, <1>10, <1>11, MeansWithin
<1>13. x \in Rational
  BY <1>10 DEF Means
<1> QED BY <1>9, <1>12, <1>13 DEF Within

LEMMA ZeroWithin ==
  ASSUME NEW x \in Rational, x.num = 0, NEW hi \in Nat
  PROVE  Within(0, x, hi)
<1>1. PICK d \in Nat \ {0} : d = x.den
  BY DEF Rational
<1>2. 0 * d <= 0 * 1 /\ 0 * 1 <= hi * d
  OBVIOUS
<1> QED BY <1>1, <1>2 DEF Within, AtMost, Whole

LEMMA SumRational ==
  ASSUME NEW x \in Rational, NEW y \in Rational
  PROVE  Plus(x, y) \in Rational
<1>1. PICK D \in Nat \ {0}, u \in Int, v \in Int : Means(x, u, D) /\ Means(y, v, D)
  BY CommonOfTwo
<1>2. Means(Plus(x, y), u + v, D)
  BY <1>1, PlusMeans
<1> QED BY <1>2 DEF Means

LEMMA AdxWithin ==
  ASSUME NEW ow, Kept(ow.plusDM, 0, Span), Kept(ow.minusDM, 0, Span), Kept(ow.dx, 0, 100),
         NEW atr, Within(0, atr, Span), NEW c \in Candle, NEW d \in Candle, NEW dm, dm = Adx(ow, atr, c, d)
  PROVE  /\ Kept(dm.plusDM, 0, Span) /\ Kept(dm.minusDM, 0, Span) /\ Kept(dm.tr, 0, Span)
         /\ Kept(dm.dx, 0, 100) /\ Within(0, dm.adx, 100)
<1>0. 0 \in Int /\ 100 \in Int /\ 100 \in Nat /\ Span \in Nat /\ Span \in Int /\ AdxPeriod \in Nat \ {0}
  BY SpanIsNumber, AruAlgoAssumption
<1>1. PICK up \in Int, down \in Int : up = d.high - c.high /\ down = c.low - d.low /\ up <= Span /\ down <= Span
  BY CandlePrices, SpanIsNumber
<1>2. PICK x \in Int, y \in Int : /\ x = (IF up > down /\ up > 0 THEN up ELSE 0) /\ 0 <= x /\ x <= Span
                                  /\ y = (IF down > up /\ down > 0 THEN down ELSE 0) /\ 0 <= y /\ y <= Span
  BY <1>0, <1>1
<1>3. PICK p : p = Rma(AdxPeriod, ow.plusDM, Whole(x)) /\ Within(0, p, Span)
  <2>1. Within(0, Whole(x), Span)
    BY <1>0, <1>2, WholeWithin
  <2> QED BY <1>0, <2>1, RmaWithin
<1>4. PICK m : m = Rma(AdxPeriod, ow.minusDM, Whole(y)) /\ Within(0, m, Span)
  <2>1. Within(0, Whole(y), Span)
    BY <1>0, <1>2, WholeWithin
  <2> QED BY <1>0, <2>1, RmaWithin
<1>5. PICK tr : tr = Rma(AdxPeriod, <<atr>>, Whole(TrueRange(c, d))) /\ Within(0, tr, Span)
  <2>1. PICK t \in Int : t = TrueRange(c, d) /\ 0 <= t /\ t <= Span
    BY <1>0, RangeInSpan
  <2>2. Within(0, Whole(t), Span)
    BY <1>0, <2>1, WholeWithin
  <2>3. Kept(<<atr>>, 0, Span)
    BY DEF Kept
  <2> QED BY <1>0, <2>1, <2>2, <2>3, RmaWithin
<1>6. PICK both \in Rational : both = Plus(p, m)
  BY <1>3, <1>4, SumRational DEF Within
<1>7. PICK i : i = Dx(p, m, both) /\ Within(0, i, 100)
  <2>1. CASE both.num = 0
    <3>1. Dx(p, m, both) = both
      BY <2>1 DEF Dx
    <3> QED BY <1>0, <2>1, <3>1, ZeroWithin
  <2>2. CASE both.num # 0
    <3>1. Within(0, Scale(100, Divide(Magnitude(Minus(p, m)), Plus(p, m))), 100)
      BY <1>0, <1>3, <1>4, <1>6, <2>2, DirectionalPercent
    <3> QED BY <1>6, <2>2, <3>1 DEF Dx
  <2> QED BY <2>1, <2>2
<1>8. PICK adx : adx = Rma(AdxPeriod, ow.dx, i) /\ Within(0, adx, 100)
  BY <1>0, <1>7, RmaWithin
<1>9. dm = Directional(ow, p, m, tr, adx)
  BY <1>1, <1>2, <1>3, <1>4, <1>5, <1>6, <1>7, <1>8 DEF Adx
<1>10. /\ dm.plusDM = <<p>> /\ dm.minusDM = <<m>> /\ dm.tr = <<tr>>
       /\ dm.dx = (IF tr.num = 0 THEN ow.dx ELSE <<adx>>) /\ dm.adx = (IF tr.num = 0 THEN tr ELSE adx)
  BY <1>9 DEF Directional
<1>11. tr.num = 0 => Within(0, tr, 100)
  BY <1>0, <1>5, ZeroWithin DEF Within
<1> QED BY <1>3, <1>4, <1>5, <1>8, <1>10, <1>11 DEF Kept

\* The stop is never farther from the close than the loss the sensitivity allows.
LEMMA StopNear ==
  ASSUME NEW stop \in Rational, NEW prevSrc, NEW src \in Int, NEW loss \in Rational, AtMost(Whole(0), loss),
         NEW st, st = Stop(stop, prevSrc, Whole(src), loss)
  PROVE  st \in Rational /\ AtMost(Magnitude(Minus(Whole(src), st)), loss)
<1>1. PICK D \in Nat \ {0}, x \in Int, y \in Int : Means(stop, x, D) /\ Means(loss, y, D)
  BY CommonOfTwo
<1>2. PICK z \in Int : z = src * D /\ Means(Whole(src), z, D)
  BY WholeMeans
<1>3. y >= 0
  <2>1. 0 * D <= y
    <3>1. 0 \in Int
      OBVIOUS
    <3> QED BY <1>1, <3>1, MeansWithin
  <2> QED BY <2>1
<1>4. PICK s : s = Whole(src)
  OBVIOUS
<1>5. Means(Minus(s, loss), z - y, D) /\ Means(Plus(s, loss), z + y, D) /\ Means(s, z, D)
  BY <1>1, <1>2, <1>4, MinusMeans, PlusMeans
<1>6. (Less(stop, s) <=> x < z) /\ (Less(s, stop) <=> z < x)
  BY <1>1, <1>5, MeansLess
<1>7. PICK w \in Int : Means(st, w, D) /\ z - w <= y /\ w - z <= y
  <2>1. CASE st = Minus(s, loss)
    <3>1. z - y \in Int /\ z - (z - y) <= y /\ (z - y) - z <= y
      BY <1>3
    <3> QED BY <1>5, <2>1, <3>1
  <2>2. CASE st = Plus(s, loss)
    <3>1. z + y \in Int /\ z - (z + y) <= y /\ (z + y) - z <= y
      BY <1>3
    <3> QED BY <1>5, <2>2, <3>1
  <2>3. CASE Less(stop, s) /\ st = Largest(stop, Minus(s, loss))
    <3>1. AtMost(stop, Minus(s, loss)) <=> x <= z - y
      BY <1>1, <1>5, MeansAtMost
    <3>2. CASE x <= z - y
      <4>1. st = Minus(s, loss)
        BY <2>3, <3>1, <3>2 DEF Largest
      <4> QED BY <2>1, <4>1
    <3>3. CASE ~(x <= z - y)
      <4>1. st = stop
        BY <2>3, <3>1, <3>3 DEF Largest
      <4>2. z - x <= y /\ x - z <= y
        BY <1>3, <1>6, <2>3, <3>3
      <4> QED BY <1>1, <4>1, <4>2
    <3> QED BY <3>2, <3>3
  <2>4. CASE Less(s, stop) /\ st = Smallest(stop, Plus(s, loss))
    <3>1. AtMost(stop, Plus(s, loss)) <=> x <= z + y
      BY <1>1, <1>5, MeansAtMost
    <3>2. CASE x <= z + y
      <4>1. st = stop
        BY <2>4, <3>1, <3>2 DEF Smallest
      <4>2. z - x <= y /\ x - z <= y
        BY <1>3, <1>6, <2>4, <3>2
      <4> QED BY <1>1, <4>1, <4>2
    <3>3. CASE ~(x <= z + y)
      <4>1. st = Plus(s, loss)
        BY <2>4, <3>1, <3>3 DEF Smallest
      <4> QED BY <2>2, <4>1
    <3> QED BY <3>2, <3>3
  <2>5. \/ st = Minus(s, loss) \/ st = Plus(s, loss)
        \/ Less(stop, s) /\ st = Largest(stop, Minus(s, loss))
        \/ Less(s, stop) /\ st = Smallest(stop, Plus(s, loss))
    BY <1>4 DEF Stop
  <2> QED BY <2>1, <2>2, <2>3, <2>4, <2>5
<1>8. Means(Minus(s, st), z - w, D)
  BY <1>5, <1>7, MinusMeans
<1>9. Means(Magnitude(Minus(s, st)), Abs(z - w), D) /\ Abs(z - w) <= y
  BY <1>7, <1>8, MagnitudeMeans DEF Abs
<1>10. AtMost(Magnitude(Minus(s, st)), loss)
  BY <1>1, <1>9, MeansAtMost
<1> QED BY <1>4, <1>7, <1>10 DEF Means

\* Once there are averages, the RSI is a percentage.
LEMMA RsiPercent ==
  ASSUME NEW s \in Seq(Candle), Len(s) > RsiPeriod, NEW gain, AverageOf(gain, 1, s), NEW loss, AverageOf(loss, -1, s)
  PROVE  \E x : Rsi(gain, loss) = <<x>> /\ Within(0, x, 100)
<1>1. PICK g, l : gain = <<g>> /\ Within(0, g, Span) /\ loss = <<l>> /\ Within(0, l, Span)
  BY DEF AverageOf
<1>2. PICK D \in Nat \ {0}, u \in Int, v \in Int : Means(g, u, D) /\ Means(l, v, D)
  BY <1>1, CommonOfTwo DEF Within
<1>3. u \in Nat /\ v \in Nat
  <2>0. 0 \in Int
    OBVIOUS
  <2>1. 0 * D <= u /\ 0 * D <= v
    BY <1>1, <1>2, <2>0, MeansWithin DEF Within
  <2> QED BY <2>1
<1>4. Rsi(gain, loss) = <<Relative(u, v)>>
  BY <1>1, <1>2, <1>3, RsiRelative
<1> QED BY <1>3, <1>4, RelativePercent

\* ---- one candle ----
Number(x) == x = <<>> \/ \E v \in Rational : x = <<v>>

OwnFields == {"atrStopPrev", "lastSL", "lastTP", "lastSmoothedAtrStop", "plusDM", "minusDM", "tr", "dx"}
IsOwn(ow) == ow = [f \in OwnFields |-> ow[f]]

\* What holds of the instance whatever candles it was given, by the handler or by dry runs.
SharedInRange(sh) ==
  /\ IsShared(sh) /\ Len(sh.candles) <= MaxLen
  /\ Kept(sh.trendEma, Min(Price), Max(Price)) /\ Number(sh.stopEma)
  /\ AverageOf(sh.avgGain, 1, sh.candles) /\ AverageOf(sh.avgLoss, -1, sh.candles)

OwnInRange(ow) ==
  /\ IsOwn(ow) /\ Number(ow.atrStopPrev) /\ Number(ow.lastSmoothedAtrStop)
  /\ Kept(ow.tr, 0, Span) /\ Kept(ow.plusDM, 0, Span) /\ Kept(ow.minusDM, 0, Span) /\ Kept(ow.dx, 0, 100)

\* A result is in range, the RSI aside, which may be missing.
ResultInRange(x) ==
  /\ Within(0, x.atr, Span) /\ Within(Min(Price), x.trendEma, Max(Price)) /\ Within(0, x.adx, 100)
  /\ AtMost(Magnitude(Minus(Whole(x.close), x.stop)), Scale(Sensitivity, x.atr))

\* What a result says of the instance after the candle c.
Reports(x, sh, ow, c, done) ==
  /\ ResultInRange(x) /\ x.time = c.time /\ x.close = c.close
  /\ x.rsi = Rsi(done.shared.avgGain, done.shared.avgLoss)
  /\ x.smoothedAtrStop \in Rational /\ done.own.lastSmoothedAtrStop = <<x.smoothedAtrStop>>
  /\ x.simpleBuyCond = WasCrossOver(Whole(c.close), x.smoothedAtrStop,
                                    Whole(sh.candles[Len(sh.candles)].close), ow.lastSmoothedAtrStop)

Keeps(done, a, smoothed) ==
  /\ IsOwn(done.own) /\ done.own.atrStopPrev = <<a.atrStop>> /\ done.own.lastSmoothedAtrStop = <<smoothed>>
  /\ done.own.plusDM = a.dm.plusDM /\ done.own.minusDM = a.dm.minusDM
  /\ done.own.tr = a.dm.tr /\ done.own.dx = a.dm.dx

LEMMA SignalsKeep ==
  ASSUME NEW sh, NEW ow, IsOwn(ow), NEW r, NEW prev, NEW curr, NEW a, NEW smoothed, NEW rsi,
         NEW done, done = Signals(sh, ow, r, prev, curr, a, smoothed, rsi)
  PROVE  Keeps(done, a, smoothed)
<1>1. PICK kept : kept = [ow EXCEPT !.atrStopPrev = <<a.atrStop>>, !.lastSmoothedAtrStop = <<smoothed>>,
                                    !.plusDM = a.dm.plusDM, !.minusDM = a.dm.minusDM,
                                    !.tr = a.dm.tr, !.dx = a.dm.dx]
  OBVIOUS
<1>2. DOMAIN ow = OwnFields
  BY DEF IsOwn
<1>3. kept = [f \in OwnFields |-> kept[f]]
  BY <1>1, <1>2
<1>4. /\ kept.atrStopPrev = <<a.atrStop>> /\ kept.lastSmoothedAtrStop = <<smoothed>>
      /\ kept.plusDM = a.dm.plusDM /\ kept.minusDM = a.dm.minusDM /\ kept.tr = a.dm.tr /\ kept.dx = a.dm.dx
  BY <1>1, <1>2 DEF OwnFields
<1>5. CASE done.own = kept
  BY <1>3, <1>4, <1>5 DEF Keeps, IsOwn
<1>6. ASSUME NEW sl, NEW tp, done.own = [kept EXCEPT !.lastSL = sl, !.lastTP = tp]
      PROVE  /\ done.own = [f \in OwnFields |-> done.own[f]]
             /\ \A f \in OwnFields \ {"lastSL", "lastTP"} : done.own[f] = kept[f]
  BY <1>3, <1>6
<1>7. \/ done.own = kept
      \/ \E way : done.own = Levels(kept, way, Whole(curr.close), a.atr)
  BY <1>1 DEF Signals
<1>8. CASE done.own # kept
  <2>1. PICK sl, tp : done.own = [kept EXCEPT !.lastSL = sl, !.lastTP = tp]
    BY <1>7, <1>8 DEF Levels
  <2>2. /\ done.own = [f \in OwnFields |-> done.own[f]]
        /\ \A f \in OwnFields \ {"lastSL", "lastTP"} : done.own[f] = kept[f]
    BY <1>6, <2>1
  <2> QED BY <1>4, <2>2 DEF Keeps, IsOwn, OwnFields
<1> QED BY <1>5, <1>8

Shows(done, ow, r, prev, curr, a, smoothed, rsi) ==
  /\ done.shared = [candles |-> r, trendEma |-> <<a.trendEma>>, stopEma |-> <<smoothed>>,
                    avgGain |-> a.avgGain, avgLoss |-> a.avgLoss]
  /\ done.result.ready = TRUE /\ done.result.time = curr.time /\ done.result.close = curr.close
  /\ done.result.atr = a.atr /\ done.result.stop = a.atrStop /\ done.result.smoothedAtrStop = smoothed
  /\ done.result.trendEma = a.trendEma /\ done.result.rsi = rsi /\ done.result.adx = a.dm.adx
  /\ done.result.simpleBuyCond = WasCrossOver(Whole(curr.close), smoothed, Whole(prev.close),
                                              ow.lastSmoothedAtrStop)

LEMMA SignalsShow ==
  ASSUME NEW sh, NEW ow, NEW r, NEW prev, NEW curr, NEW a, NEW smoothed, NEW rsi,
         NEW done, done = Signals(sh, ow, r, prev, curr, a, smoothed, rsi)
  PROVE  Shows(done, ow, r, prev, curr, a, smoothed, rsi)
BY DEF Shows, Signals

\* What the indicator does with the candles r, the last of which is c.
Evaluates(sh, ow, r, c, done) ==
  /\ SharedInRange(done.shared) /\ OwnInRange(done.own) /\ done.shared.candles = r
  /\ done.result.ready = TRUE /\ Reports(done.result, sh, ow, c, done)

LEMMA Evaluated ==
  ASSUME NEW sh, SharedInRange(sh), NEW ow, OwnInRange(ow), NEW c \in Candle,
         NEW r, r = PushCandle(sh.candles, c), Len(r) >= 2, Len(sh.candles) >= 1,
         NEW done, done = Evaluate(sh, ow, r)
  PROVE  Evaluates(sh, ow, r, c, done)
<1>0. /\ AtrPeriod \in Nat \ {0} /\ TrendEmaPeriod \in Nat \ {0} /\ SmoothPeriod \in Nat \ {0} /\ Sensitivity \in Nat
      /\ 0 \in Int /\ Span \in Int /\ 0 <= Span /\ Min(Price) \in Int /\ Max(Price) \in Int
  BY AruAlgoAssumption, SpanIsNumber, PricesBetween
<1>1. PICK s \in Seq(Candle) : s = sh.candles /\ Len(s) <= MaxLen /\ Len(s) >= 1 /\ Len(s) \in Nat
  BY DEF SharedInRange, IsShared
<1>2. /\ r \in Seq(Candle) /\ Len(r) <= MaxLen /\ r[Len(r)] = c /\ r[Len(r) - 1] = s[Len(s)]
      /\ s[Len(s)] \in Candle /\ Len(r) \in Nat
  <2>1. Pushes(s, c, r)
    BY <1>1, PushedWithin
  <2> QED BY <1>1, <2>1 DEF Pushes
<1>3. PICK prev \in Candle : prev = s[Len(s)]
  BY <1>2
<1>4. PICK atr : atr = Atr(ow.tr, r, prev, c) /\ Within(0, atr, Span)
  <2>1. PICK t \in Int : t = TrueRange(prev, c) /\ 0 <= t /\ t <= Span
    <3>1. TrueRange(prev, c) \in 0..Span
      BY RangeInSpan
    <3> QED BY <1>0, <3>1
  <2>2. Within(0, Whole(t), Span)
    BY <1>0, <2>1, WholeWithin
  <2>3. PICK tr : tr = (IF Len(r) = 2 THEN <<>> ELSE ow.tr) /\ Kept(tr, 0, Span)
    BY DEF OwnInRange, Kept
  <2>4. Atr(ow.tr, r, prev, c) = Rma(AtrPeriod, tr, Whole(t))
    BY <2>1, <2>3 DEF Atr
  <2> QED BY <1>0, <2>2, <2>3, <2>4, RmaWithin
<1>5. PICK a : a = Averages(sh, ow, r, prev, c, atr)
  OBVIOUS
<1>6. /\ a.atr = atr /\ a.trendEma = Ema(TrendEmaPeriod, sh.trendEma, Whole(c.close))
      /\ a.avgGain = Averaged(sh.avgGain, 1, r, prev, c) /\ a.avgLoss = Averaged(sh.avgLoss, -1, r, prev, c)
      /\ a.dm = Adx(ow, atr, prev, c)
      /\ a.atrStop = Stop(IF ow.atrStopPrev = <<>> THEN Whole(prev.close) ELSE ow.atrStopPrev[1],
                          Whole(prev.close), Whole(c.close), Scale(Sensitivity, atr))
  BY <1>5 DEF Averages
<1>7. Within(Min(Price), a.trendEma, Max(Price))
  <2>1. c.close \in Int /\ Min(Price) <= c.close /\ c.close <= Max(Price)
    BY CandlePrices, PricesBetween
  <2>2. Within(Min(Price), Whole(c.close), Max(Price))
    BY <1>0, <2>1, WholeWithin
  <2>3. Kept(sh.trendEma, Min(Price), Max(Price))
    BY DEF SharedInRange
  <2> QED BY <1>0, <1>6, <2>2, <2>3, EmaWithin
<1>8. AverageOf(a.avgGain, 1, r) /\ AverageOf(a.avgLoss, -1, r)
  <2>1. AverageOf(sh.avgGain, 1, s) /\ AverageOf(sh.avgLoss, -1, s)
    BY <1>1 DEF SharedInRange
  <2>2. 1 \in {1, -1} /\ -1 \in {1, -1}
    OBVIOUS
  <2> QED BY <1>1, <1>2, <1>3, <1>6, <2>1, <2>2, AveragedIs
<1>9. /\ Kept(a.dm.plusDM, 0, Span) /\ Kept(a.dm.minusDM, 0, Span) /\ Kept(a.dm.tr, 0, Span)
      /\ Kept(a.dm.dx, 0, 100) /\ Within(0, a.dm.adx, 100)
  BY <1>4, <1>6, AdxWithin DEF OwnInRange
<1>10. a.atrStop \in Rational /\ AtMost(Magnitude(Minus(Whole(c.close), a.atrStop)), Scale(Sensitivity, atr))
  <2>1. PICK stop \in Rational : stop = IF ow.atrStopPrev = <<>> THEN Whole(prev.close) ELSE ow.atrStopPrev[1]
    <3>1. Whole(prev.close) \in Rational
      BY CandlePrices DEF Whole, Rational
    <3> QED BY <3>1 DEF OwnInRange, Number
  <2>2. PICK loss \in Rational : loss = Scale(Sensitivity, atr) /\ AtMost(Whole(0), loss)
    <3>1. PICK D \in Nat \ {0}, u \in Int : Means(atr, u, D)
      BY <1>4, CommonOfTwo DEF Within
    <3>2. Means(Scale(Sensitivity, atr), Sensitivity * u, D)
      <4>1. Sensitivity \in Int
        BY <1>0
      <4> QED BY <3>1, <4>1, ScaleMeans
    <3>3. 0 * D <= u
      BY <1>0, <1>4, <3>1, MeansWithin DEF Within
    <3>4. 0 * D <= Sensitivity * u
      BY <1>0, <3>3
    <3>5. AtMost(Whole(0), Scale(Sensitivity, atr))
      BY <1>0, <3>2, <3>4, MeansWithin
    <3> QED BY <3>2, <3>5 DEF Means
  <2>3. c.close \in Int
    BY CandlePrices
  <2> QED BY <1>6, <2>1, <2>2, <2>3, StopNear
<1>11. PICK smoothed \in Rational : smoothed = Ema(SmoothPeriod, sh.stopEma, a.atrStop)
  BY <1>0, <1>10, EmaRational DEF SharedInRange, Number
<1>12. PICK rsi : rsi = Rsi(a.avgGain, a.avgLoss)
  OBVIOUS
<1>13. done = Signals(sh, ow, r, prev, c, a, smoothed, rsi)
  <2>1. done = Smoothing(sh, ow, r, prev, c, a)
    BY <1>2, <1>3, <1>4, <1>5 DEF Evaluate
  <2> QED BY <1>11, <1>12, <2>1 DEF Smoothing
<1>14. /\ IsOwn(done.own) /\ done.own.atrStopPrev = <<a.atrStop>> /\ done.own.lastSmoothedAtrStop = <<smoothed>>
       /\ done.own.plusDM = a.dm.plusDM /\ done.own.minusDM = a.dm.minusDM
       /\ done.own.tr = a.dm.tr /\ done.own.dx = a.dm.dx
  <2>1. Keeps(done, a, smoothed)
    <3>1. IsOwn(ow)
      BY DEF OwnInRange
    <3> QED BY <1>13, <3>1, SignalsKeep
  <2> QED BY <2>1 DEF Keeps
<1>15. /\ done.shared = [candles |-> r, trendEma |-> <<a.trendEma>>, stopEma |-> <<smoothed>>,
                         avgGain |-> a.avgGain, avgLoss |-> a.avgLoss]
       /\ done.result.ready = TRUE /\ done.result.time = c.time /\ done.result.close = c.close
       /\ done.result.atr = a.atr /\ done.result.stop = a.atrStop /\ done.result.smoothedAtrStop = smoothed
       /\ done.result.trendEma = a.trendEma /\ done.result.rsi = rsi /\ done.result.adx = a.dm.adx
       /\ done.result.simpleBuyCond = WasCrossOver(Whole(c.close), smoothed, Whole(prev.close),
                                                   ow.lastSmoothedAtrStop)
  <2>1. Shows(done, ow, r, prev, c, a, smoothed, rsi)
    BY <1>13, SignalsShow
  <2> QED BY <2>1 DEF Shows
<1>16. OwnInRange(done.own)
  BY <1>9, <1>10, <1>11, <1>14 DEF OwnInRange, Number
<1>17. SharedInRange(done.shared)
  <2>1. PICK tr, st, g, l : tr = <<a.trendEma>> /\ st = <<smoothed>> /\ g = a.avgGain /\ l = a.avgLoss
    OBVIOUS
  <2>2. done.shared = [candles |-> r, trendEma |-> tr, stopEma |-> st, avgGain |-> g, avgLoss |-> l]
    BY <1>15, <2>1
  <2>3. IsShared(done.shared)
    BY <1>2, <2>2 DEF IsShared
  <2>4. Kept(tr, Min(Price), Max(Price)) /\ Number(st)
    BY <1>7, <1>11, <2>1 DEF Kept, Number
  <2>5. done.shared.candles = r /\ done.shared.trendEma = tr /\ done.shared.stopEma = st
        /\ done.shared.avgGain = g /\ done.shared.avgLoss = l
    BY <2>2
  <2> QED BY <1>2, <1>8, <2>1, <2>3, <2>4, <2>5 DEF SharedInRange
<1>18. /\ done.shared.candles = r /\ done.shared.avgGain = a.avgGain /\ done.shared.avgLoss = a.avgLoss
  BY <1>15
<1>19. ResultInRange(done.result)
  BY <1>4, <1>6, <1>7, <1>9, <1>10, <1>15 DEF ResultInRange
<1>20. Reports(done.result, sh, ow, c, done)
  BY <1>1, <1>3, <1>11, <1>12, <1>14, <1>15, <1>18, <1>19 DEF Reports
<1> QED BY <1>15, <1>16, <1>17, <1>18, <1>20 DEF Evaluates

\* What a candle does to the instance, and when it has a result.
Processes(sh, ow, c, done) ==
  /\ SharedInRange(done.shared) /\ OwnInRange(done.own)
  /\ done.shared.candles = PushCandle(sh.candles, c)
  /\ done.result.ready <=> Len(sh.candles) >= 1
  /\ done.result.ready => Reports(done.result, sh, ow, c, done)

LEMMA ProcessedInRange ==
  ASSUME NEW sh, SharedInRange(sh), NEW ow, OwnInRange(ow), NEW c \in Candle,
         NEW done, done = ProcessCandle(sh, ow, c)
  PROVE  Processes(sh, ow, c, done)
<1>1. PICK s \in Seq(Candle) : s = sh.candles /\ Len(s) <= MaxLen /\ Len(s) \in Nat
  BY DEF SharedInRange, IsShared
<1>2. PICK r : r = PushCandle(s, c)
  OBVIOUS
<1>3. /\ r \in Seq(Candle) /\ Len(r) <= MaxLen /\ Len(r) >= 1 /\ Len(r) \in Nat
      /\ Len(s) >= 1 => Len(r) >= 2
      /\ Len(s) = 0 => Len(r) = 1
  <2>1. Pushes(s, c, r)
    BY <1>1, <1>2, PushedWithin
  <2>2. MaxLen > 2 /\ MaxLen \in Nat
    BY AruAlgoAssumption
  <2>3. /\ r \in Seq(Candle) /\ Len(r) <= MaxLen /\ Len(r) >= 1 /\ (Len(s) >= 1 => Len(r) >= 2)
        /\ (Len(s) # MaxLen => Len(r) = Len(s) + 1)
    BY <2>1 DEF Pushes
  <2>4. Len(r) \in Nat
    BY <2>3
  <2>5. Len(s) = 0 => Len(r) = 1
    BY <2>2, <2>3
  <2> QED BY <2>3, <2>4, <2>5
<1>4. CASE Len(s) = 0
  <2>1. PICK after : after = [sh EXCEPT !.candles = r]
    OBVIOUS
  <2>2. done = [shared |-> after, own |-> ow, result |-> [ready |-> FALSE]]
    <3>1. r = PushCandle(sh.candles, c) /\ Len(r) < 2
      <4>1. Len(r) = 1
        BY <1>3, <1>4
      <4>2. r = PushCandle(sh.candles, c)
        BY <1>1, <1>2
      <4> QED BY <4>1, <4>2
    <3> QED BY <2>1, <3>1 DEF ProcessCandle, NotReady
  <2>3. after = [candles |-> r, trendEma |-> sh.trendEma, stopEma |-> sh.stopEma,
                 avgGain |-> sh.avgGain, avgLoss |-> sh.avgLoss]
    BY <2>1 DEF SharedInRange, IsShared
  <2>4. IsShared(after) /\ after.candles = r /\ after.trendEma = sh.trendEma /\ after.stopEma = sh.stopEma
        /\ after.avgGain = sh.avgGain /\ after.avgLoss = sh.avgLoss
    BY <1>3, <2>3 DEF IsShared
  <2>5. sh.avgGain = <<>> /\ sh.avgLoss = <<>> /\ Len(r) <= RsiPeriod /\ ~(Len(r) > RsiPeriod)
    <3>1. Len(sh.candles) <= RsiPeriod /\ Len(r) <= RsiPeriod /\ ~(Len(r) > RsiPeriod)
      <4>1. Len(sh.candles) = 0 /\ Len(r) = 1
        BY <1>1, <1>3, <1>4
      <4>2. RsiPeriod \in Nat /\ RsiPeriod > 1
        BY Periods
      <4> QED BY ONLY <4>1, <4>2
    <3> QED BY <3>1 DEF SharedInRange, AverageOf
  <2>6. AverageOf(sh.avgGain, 1, r) /\ AverageOf(sh.avgLoss, -1, r)
    BY <2>5 DEF AverageOf
  <2>7. SharedInRange(after)
    BY <1>3, <2>4, <2>6 DEF SharedInRange
  <2> QED BY <1>1, <1>2, <1>4, <2>2, <2>4, <2>7 DEF Processes
<1>5. CASE Len(s) >= 1
  <2>1. done = Evaluate(sh, ow, r)
    BY <1>1, <1>2, <1>3, <1>5 DEF ProcessCandle
  <2>2. Evaluates(sh, ow, r, c, done)
    BY <1>1, <1>2, <1>3, <1>5, <2>1, Evaluated
  <2> QED BY <1>1, <1>2, <1>5, <2>2 DEF Evaluates, Processes
<1> QED BY <1>1, <1>4, <1>5

\* ---- the seeds ----
\* Sets of the seeds are folded from the first to the last: h gives the instance after each set of them.
SeedOrder == [i \in 1..Seeds |-> i]
SeedStep(walk, a, i) == ProcessCandle(a.shared, a.own, SeedCandle(i, walk[i].close, walk[i + 1]))
Seeding(walk, S, h) ==
  h = [T \in SUBSET S |-> IF T = {} THEN NotReady(NewShared, NewOwn)
                          ELSE SeedStep(walk, h[T \ {Max(T)}], SeedOrder[Max(T)])]

LEMMA SeededIs ==
  ASSUME NEW walk
  PROVE  Seeded(walk) = (CHOOSE h : Seeding(walk, DOMAIN SeedOrder, h))[DOMAIN SeedOrder]
BY DEF Seeded, FoldLeft, MapThenFoldSet, Seeding, SeedStep, SeedOrder

\* The instance after m seeds: in range, with candles of the past only, and enough of them.
Warm(a, m) ==
  /\ SharedInRange(a.shared) /\ OwnInRange(a.own)
  /\ \A i \in 1..Len(a.shared.candles) : a.shared.candles[i].time < 0
  /\ Len(a.shared.candles) >= m \/ Len(a.shared.candles) > RsiPeriod

LEMMA SeedsWarm ==
  ASSUME NEW walk \in [1..Seeds + 1 -> Step], NEW a, NEW m \in Nat, Warm(a, m), NEW i \in 1..Seeds
  PROVE  Warm(SeedStep(walk, a, i), m + 1)
<1>0. Seeds \in Nat
  BY CandleAssumption
<1>1. PICK c \in Candle : c = SeedCandle(i, walk[i].close, walk[i + 1]) /\ c.time < 0
  <2>1. walk[i].close \in Price /\ walk[i + 1] \in Step
    BY <1>0 DEF Step
  <2> QED
    BY <2>1, SeedTyped
<1>2. PICK s \in Seq(Candle) : s = a.shared.candles /\ Len(s) <= MaxLen
  BY DEF Warm, SharedInRange, IsShared
<1>3. PICK done : done = SeedStep(walk, a, i)
  OBVIOUS
<1>4. Processes(a.shared, a.own, c, done)
  BY <1>1, <1>3, ProcessedInRange DEF SeedStep, Warm
<1>5. PICK r : r = PushCandle(s, c) /\ r = done.shared.candles
  BY <1>2, <1>4 DEF Processes
<1>6. PushedTo(s, c, r) /\ Pushes(s, c, r)
  BY <1>2, <1>5, Pushed, PushedWithin
<1>7. \A j \in 1..Len(s) : s[j].time < 0
  BY <1>2 DEF Warm
<1>8. ASSUME NEW j \in 1..Len(r) PROVE r[j].time < 0
  <2>1. Len(r) \in Nat /\ Len(s) \in Nat /\ r[Len(r)] = c
    BY <1>2, <1>6 DEF PushedTo
  <2>2. PICK k \in {0, 1} : Len(r) = Len(s) + 1 - k /\ \A n \in 1..Len(r) - 1 : r[n] = s[n + k]
    BY <1>6 DEF PushedTo
  <2>3. CASE j = Len(r)
    BY <1>1, <2>1, <2>3
  <2>4. CASE j # Len(r)
    <3>1. j \in 1..Len(r) - 1 /\ j + k \in 1..Len(s)
      BY <2>1, <2>2, <2>4
    <3> QED
      BY <1>7, <2>2, <3>1
  <2> QED
    BY <2>3, <2>4
<1>9. Len(r) >= m + 1 \/ Len(r) > RsiPeriod
  <2>1. Len(s) >= m \/ Len(s) > RsiPeriod
    BY <1>2 DEF Warm
  <2>2. Len(s) = MaxLen => Len(r) = MaxLen
    BY <1>6 DEF Pushes
  <2>3. Len(s) # MaxLen => Len(r) = Len(s) + 1
    BY <1>6 DEF Pushes
  <2>4. Len(s) \in Nat
    BY <1>2
  <2> QED
    BY ONLY <2>1, <2>2, <2>3, <2>4, Periods, m \in Nat
<1>10. SharedInRange(done.shared) /\ OwnInRange(done.own)
  BY <1>4 DEF Processes
<1> QED
  BY <1>3, <1>5, <1>8, <1>9, <1>10 DEF Warm

LEMMA NewIsWarm == Warm(NotReady(NewShared, NewOwn), 0)
<1>1. <<>> \in Seq(Candle) /\ Len(<<>>) = 0 /\ 0 <= MaxLen /\ 0 <= RsiPeriod /\ ~(0 > RsiPeriod)
  BY Periods
<1>2. PICK sh : sh = NewShared
  OBVIOUS
<1>3. sh.candles = <<>> /\ sh = [candles |-> <<>>, trendEma |-> sh.trendEma, stopEma |-> sh.stopEma,
                               avgGain |-> sh.avgGain, avgLoss |-> sh.avgLoss]
  BY <1>2 DEF NewShared
<1>4. IsShared(sh)
  BY <1>1, <1>3 DEF IsShared
<1>5. sh.trendEma = <<>> /\ sh.stopEma = <<>> /\ sh.avgGain = <<>> /\ sh.avgLoss = <<>>
  BY <1>2 DEF NewShared
<1>6. AverageOf(sh.avgGain, 1, sh.candles) /\ AverageOf(sh.avgLoss, -1, sh.candles)
  BY <1>1, <1>3, <1>5 DEF AverageOf
<1>7. SharedInRange(sh)
  BY <1>1, <1>3, <1>4, <1>5, <1>6 DEF SharedInRange, Kept, Number
<1>8. PICK ow : ow = NewOwn
  OBVIOUS
<1>9. IsOwn(ow)
  BY <1>8 DEF IsOwn, OwnFields, NewOwn
<1>10. /\ ow.atrStopPrev = <<>> /\ ow.lastSmoothedAtrStop = <<>>
       /\ ow.tr = <<>> /\ ow.plusDM = <<>> /\ ow.minusDM = <<>> /\ ow.dx = <<>>
  BY <1>8 DEF NewOwn
<1>11. OwnInRange(ow)
  BY <1>9, <1>10 DEF OwnInRange, Kept, Number
<1>12. NotReady(NewShared, NewOwn).shared = sh /\ NotReady(NewShared, NewOwn).own = ow
  BY <1>2, <1>8 DEF NotReady
<1> QED
  BY <1>1, <1>3, <1>7, <1>11, <1>12 DEF Warm

LEMMA LastOfInterval ==
  ASSUME NEW n \in Nat, NEW T \in SUBSET (1..n + 1), n + 1 \in T
  PROVE  Max(T) = n + 1 /\ T \ {n + 1} \in SUBSET (1..n)
<1>1. \A x \in T : x \in Nat /\ x <= n + 1 /\ (x # n + 1 => x \in 1..n)
  OBVIOUS
<1>2. \A x \in T : (\A y \in T : x >= y) <=> x = n + 1
  BY <1>1
<1>3. Max(T) = n + 1
  BY <1>2 DEF Max
<1> QED
  BY <1>1, <1>3

LEMMA SeedingExists ==
  ASSUME NEW walk, NEW n \in Nat
  PROVE  \E h : Seeding(walk, 1..n, h)
<1> DEFINE Bad == {m \in Nat : ~\E h : Seeding(walk, 1..m, h)}
<1>1. CASE Bad = {}
  BY <1>1
<1>2. CASE Bad # {}
  <2>1. PICK m \in Bad : \A k \in Bad : m <= k
    <3> HIDE DEF Bad
    <3>1. Bad \in SUBSET Nat
      BY DEF Bad
    <3> QED BY <1>2, <3>1, LeastNumber
  <2>2. CASE m = 0
    <3>1. SUBSET (1..0) = {{}}
      OBVIOUS
    <3> DEFINE h == [T \in SUBSET (1..0) |-> NotReady(NewShared, NewOwn)]
    <3>2. h = [T \in SUBSET (1..0) |-> IF T = {} THEN NotReady(NewShared, NewOwn)
                          ELSE SeedStep(walk, h[T \ {Max(T)}], SeedOrder[Max(T)])]
      BY <3>1
    <3> HIDE DEF h
    <3>3. Seeding(walk, 1..m, h)
      BY <2>2, <3>2 DEF Seeding
    <3> QED BY <2>1, <3>3
  <2>3. CASE m # 0
    <3>1. PICK k \in Nat : m = k + 1 /\ k \notin Bad
      BY <2>1, <2>3
    <3>2. PICK g : Seeding(walk, 1..k, g)
      BY <3>1
    <3> DEFINE h == [T \in SUBSET (1..k + 1) |->
                       IF k + 1 \in T THEN SeedStep(walk, g[T \ {k + 1}], SeedOrder[k + 1]) ELSE g[T]]
               step(f, T) == IF T = {} THEN NotReady(NewShared, NewOwn)
                             ELSE SeedStep(walk, f[T \ {Max(T)}], SeedOrder[Max(T)])
    <3>3. ASSUME NEW T \in SUBSET (1..k + 1) PROVE h[T] = step(h, T)
      <4>1. CASE k + 1 \in T
        <5>1. Max(T) = k + 1 /\ T \ {k + 1} \in SUBSET (1..k) /\ T # {}
          BY <3>1, <4>1, LastOfInterval
        <5>2. h[T] = SeedStep(walk, g[T \ {k + 1}], SeedOrder[k + 1])
          BY <4>1
        <5>3. T \ {k + 1} \in SUBSET (1..k + 1) /\ k + 1 \notin T \ {k + 1}
          OBVIOUS
        <5>4. h[T \ {k + 1}] = g[T \ {k + 1}]
          BY <5>3
        <5> HIDE DEF h
        <5> QED BY <5>1, <5>2, <5>4
      <4>2. CASE k + 1 \notin T
        <5>1. T \in SUBSET (1..k) /\ h[T] = g[T]
          BY <3>1, <4>2
        <5>2. g[T] = step(g, T)
          BY <3>2, <5>1 DEF Seeding
        <5>3. T \ {Max(T)} \in SUBSET (1..k + 1) /\ k + 1 \notin T \ {Max(T)}
          BY <4>2
        <5>4. h[T \ {Max(T)}] = g[T \ {Max(T)}]
          BY <5>3
        <5> HIDE DEF h
        <5> QED BY <5>1, <5>2, <5>4
      <4> QED BY <4>1, <4>2
    <3>4. h = [T \in SUBSET (1..k + 1) |-> h[T]]
      OBVIOUS
    <3> HIDE DEF h
    <3>5. Seeding(walk, 1..k + 1, h)
      BY <3>3, <3>4 DEF Seeding
    <3> QED BY <2>1, <3>1, <3>5
  <2> QED BY <2>2, <2>3
<1> QED BY <1>1, <1>2

LEMMA SeedingWarms ==
  ASSUME NEW walk \in [1..Seeds + 1 -> Step], NEW h, Seeding(walk, 1..Seeds, h)
  PROVE  Warm(h[1..Seeds], Seeds)
<1>0. Seeds \in Nat
  BY CandleAssumption
<1> DEFINE Bad == {m \in 0..Seeds : ~Warm(h[1..m], m)}
<1>1. CASE Bad = {}
  BY <1>0, <1>1
<1>2. CASE Bad # {}
  <2>1. PICK m \in Bad : \A k \in Bad : m <= k
    <3> HIDE DEF Bad
    <3>1. Bad \in SUBSET Nat
      BY <1>0 DEF Bad
    <3> QED BY <1>2, <3>1, LeastNumber
  <2>2. \A T \in SUBSET (1..Seeds) :
           h[T] = IF T = {} THEN NotReady(NewShared, NewOwn)
                  ELSE SeedStep(walk, h[T \ {Max(T)}], SeedOrder[Max(T)])
    BY DEF Seeding
  <2>3. CASE m = 0
    <3>1. 1..0 = {} /\ {} \in SUBSET (1..Seeds)
      OBVIOUS
    <3>2. h[{}] = NotReady(NewShared, NewOwn)
      BY <2>2, <3>1
    <3> QED BY <2>1, <2>3, <3>1, <3>2, NewIsWarm
  <2>4. CASE m # 0
    <3>1. PICK k \in Nat : m = k + 1 /\ k + 1 \in 1..Seeds /\ k \in 0..Seeds /\ k \notin Bad
      BY <1>0, <2>1, <2>4
    <3>2. /\ 1..k + 1 \in SUBSET (1..Seeds) /\ k + 1 \in 1..k + 1
          /\ (1..k + 1) \ {k + 1} = 1..k
      BY <1>0, <3>1
    <3>3. Max(1..k + 1) = k + 1
      BY <3>1, <3>2, LastOfInterval
    <3>4. SeedOrder[k + 1] = k + 1
      BY <3>1 DEF SeedOrder
    <3>5. h[1..k + 1] = SeedStep(walk, h[1..k], k + 1)
      BY <2>2, <3>2, <3>3, <3>4
    <3>6. Warm(h[1..k], k)
      BY <3>1
    <3>7. Warm(h[1..k + 1], k + 1)
      BY <3>1, <3>5, <3>6, SeedsWarm
    <3> QED BY <2>1, <3>1, <3>7
  <2> QED BY <2>3, <2>4
<1> QED BY <1>1, <1>2

\* However the walk went, the indicator starts with candles of the past.
LEMMA SeededWarm ==
  ASSUME NEW walk \in [1..Seeds + 1 -> Step]
  PROVE  Warm(Seeded(walk), Seeds)
<1>1. DOMAIN SeedOrder = 1..Seeds /\ Seeds \in Nat
  BY CandleAssumption DEF SeedOrder
<1>2. PICK h : h = CHOOSE g : Seeding(walk, 1..Seeds, g)
  OBVIOUS
<1>3. Seeding(walk, 1..Seeds, h)
  BY <1>1, <1>2, SeedingExists
<1> QED
  BY <1>1, <1>2, <1>3, SeededIs, SeedingWarms

\* ---- the handler of ticks ----
\* A series of candles is in the order of their intervals, from the first one after the seeds.
Ordered(s) == \A i \in 2..Len(s) : s[i].time >= 0 => s[i - 1].time < s[i].time

\* The newest candle of the series is a seed, or earlier than the open one, or the open one
\* itself while its publication is awaited.
Newest(s) == \A i \in 1..Len(s) : i = Len(s) => \/ s[i].time < 0
                                                \/ current # <<>> /\ s[i].time < current[1].time
                                                \/ tick # <<>> /\ s[i].time = current[1].time

CandleTyped ==
  /\ now \in Int /\ reads \in Nat /\ IsShared(shared)
  /\ current # <<>> => \E c \in Candle : current = <<c>>
  /\ tick # <<>> => \E n \in Int, p \in Price : tick = <<[slot |-> n, price |-> p]>>

\* What the handler that awaits a publication knows, and what has been published.
Awaited ==
  /\ tick # <<>> => /\ current # <<>> /\ current[1].time < tick[1].slot
                    /\ pending.ready /\ pending.time = current[1].time
  /\ published.ready => current # <<>> /\ published.time \in Int /\ published.time < current[1].time

CandleInv == CandleTyped /\ Awaited /\ (reads = 0 => Ordered(shared.candles) /\ Newest(shared.candles))

LEMMA CandlesStart == CandleInit => CandleInv
<1> SUFFICES ASSUME CandleInit PROVE CandleInv
  OBVIOUS
<1>1. PICK walk \in [1..Seeds + 1 -> Step] : shared = Seeded(walk).shared
  BY DEF CandleInit
<1>2. Warm(Seeded(walk), Seeds)
  BY SeededWarm
<1>3. IsShared(shared) /\ \A i \in 1..Len(shared.candles) : shared.candles[i].time < 0
  BY <1>1, <1>2 DEF Warm, SharedInRange
<1>4. PICK s \in Seq(Candle) : s = shared.candles
  BY <1>3 DEF IsShared
<1>5. \A i \in 1..Len(s) : s[i].time < 0 /\ s[i].time \in Int
  <2>1. \A i \in 1..Len(s) : s[i] \in Candle
    BY <1>4
  <2> QED
    BY <1>3, <1>4, <2>1 DEF Candle
<1>6. Ordered(s) /\ Newest(s)
  BY <1>4, <1>5 DEF Ordered, Newest
<1>7. CandleTyped /\ Awaited
  BY <1>3 DEF CandleTyped, Awaited, CandleInit, Nothing
<1> QED
  BY <1>4, <1>6, <1>7 DEF CandleInv

LEMMA TickTyped ==
  ASSUME now \in Int, NEW t \in Ticks
  PROVE  t.slot \in Int /\ t.price \in Price /\ (Stamped(t) => now' \in Int)
         /\ t = [slot |-> t.slot, price |-> t.price]
<1>1. t.slot \in Int /\ t.price \in Price /\ t = [slot |-> t.slot, price |-> t.price]
  BY DEF Ticks
<1>2. Max({now, t.slot}) \in Int
  BY <1>1, Extremes
<1> QED
  BY <1>1, <1>2 DEF Stamped

LEMMA FoldTickInOrder ==
  ASSUME CandleInv, NEW t \in Ticks, FoldTick(t) PROVE CandleInv'
<1>0. /\ t.slot \in Int /\ t.price \in Price /\ now' \in Int
      /\ UNCHANGED <<shared, tick, pending, published, reads>> /\ tick = <<>>
  BY TickTyped DEF FoldTick, CandleInv, CandleTyped
<1>1. PICK c \in Candle : /\ current' = <<c>>
                          /\ \/ current = <<>>
                             \/ current # <<>> /\ c.time = current[1].time
  <2>1. CASE current = <<>> /\ Open(t)
    BY <1>0, <2>1, CandlesTyped DEF Open
  <2>2. CASE current # <<>> /\ current' = <<Fold(current[1], t)>>
    <3>1. current[1] \in Candle
      BY <2>2 DEF CandleInv, CandleTyped
    <3> QED
      BY <1>0, <2>2, <3>1, CandlesTyped
  <2> QED
    BY <2>1, <2>2 DEF FoldTick
<1>2. current' # <<>> /\ current'[1] = c
  BY <1>1
<1>3. CandleTyped'
  BY <1>0, <1>1 DEF CandleInv, CandleTyped
<1>4. Awaited'
  BY <1>0, <1>1, <1>2 DEF CandleInv, Awaited
<1>5. reads = 0 => Ordered(shared.candles)' /\ Newest(shared.candles)'
  BY <1>0, <1>1, <1>2 DEF CandleInv, Ordered, Newest
<1> QED
  BY <1>0, <1>3, <1>4, <1>5 DEF CandleInv

LEMMA CloseInOrder ==
  ASSUME CandleInv, NEW t \in Ticks, CloseCandle(t) PROVE CandleInv'
<1>0. /\ t.slot \in Int /\ t.price \in Price /\ now' \in Int /\ t = [slot |-> t.slot, price |-> t.price]
      /\ UNCHANGED <<published, reads>> /\ tick = <<>> /\ IsShared(shared) /\ reads \in Nat
  BY TickTyped DEF CloseCandle, CandleInv, CandleTyped
<1>1. PICK c \in Candle : current = <<c>> /\ current[1] = c /\ c.time < t.slot /\ c.time \in Int
  <2>1. PICK c \in Candle : current = <<c>>
    BY DEF CloseCandle, CandleInv, CandleTyped
  <2>2. current[1] = c /\ c.time \in Int
    BY <2>1 DEF Candle
  <2> QED
    BY <1>0, <2>1, <2>2 DEF CloseCandle, Closes
<1>2. PICK done : /\ done = ProcessCandle(shared, own, c) /\ shared' = done.shared
                  /\ IF done.result.ready THEN tick' = <<t>> /\ pending' = done.result /\ current' = current
                     ELSE Open(t) /\ UNCHANGED <<tick, pending>>
  BY <1>1 DEF CloseCandle
<1>3. PICK s \in Seq(Candle), r \in Seq(Candle) : s = shared.candles /\ r = shared'.candles /\ PushedTo(s, c, r)
  <2>1. PICK s \in Seq(Candle) : s = shared.candles
    BY <1>0 DEF IsShared
  <2>2. shared'.candles = PushCandle(s, c)
    BY <1>0, <1>2, <2>1, Processed
  <2>3. PICK r : r = shared'.candles
    OBVIOUS
  <2>4. PushedTo(s, c, r)
    BY <2>1, <2>2, <2>3, Pushed
  <2> QED
    BY <2>1, <2>3, <2>4 DEF PushedTo
<1>4. IsShared(shared') /\ (done.result.ready => done.result.time = c.time)
  BY <1>0, <1>2, Processed
<1>5. /\ CandleOf(t) \in Candle /\ CandleOf(t).time = t.slot
  BY <1>0, CandlesTyped
<1>6. \/ done.result.ready /\ tick' = <<t>> /\ pending' = done.result /\ current' = <<c>>
      \/ ~done.result.ready /\ tick' = <<>> /\ current' = <<CandleOf(t)>>
  BY <1>0, <1>1, <1>2 DEF Open
<1>7. CandleTyped'
  BY <1>0, <1>4, <1>5, <1>6 DEF CandleTyped
<1>8. Awaited'
  BY <1>0, <1>1, <1>4, <1>5, <1>6 DEF CandleInv, Awaited, Candle
<1>9. ASSUME reads = 0 PROVE Ordered(r) /\ Newest(r)'
  <2>0. Len(s) \in Nat /\ Len(r) \in Nat /\ \A i \in 1..Len(s) : s[i].time \in Int
    BY <1>3 DEF Candle
  <2>1. PICK k \in {0, 1} : /\ Len(r) = Len(s) + 1 - k /\ (k = 1 => Len(s) > 2)
                            /\ \A i \in 1..Len(r) - 1 : r[i] = s[i + k]
    BY <1>3 DEF PushedTo
  <2>2. r[Len(r)] = c
    BY <1>3 DEF PushedTo
  <2>3. Ordered(s) /\ Newest(s)
    BY <1>3, <1>9 DEF CandleInv
  <2>4. ASSUME NEW i \in 2..Len(r), r[i].time >= 0 PROVE r[i - 1].time < r[i].time
    <3>1. i - 1 \in 1..Len(r) - 1 /\ r[i - 1] = s[(i - 1) + k]
      BY <2>0, <2>1
    <3>2. CASE i = Len(r)
      <4>1. (i - 1) + k = Len(s) /\ Len(s) \in 1..Len(s)
        BY <2>0, <2>1, <3>1, <3>2
      <4>2. s[Len(s)].time < 0 \/ s[Len(s)].time < c.time
        BY <1>0, <1>1, <2>3, <4>1 DEF Newest
      <4> QED
        BY <1>1, <2>0, <2>2, <2>4, <3>1, <3>2, <4>1, <4>2
    <3>3. CASE i # Len(r)
      <4>1. i \in Int /\ k \in Int /\ 2 <= i /\ i <= Len(r) - 1 /\ i \in 1..Len(r) - 1
        BY <2>0, <3>3
      <4>2. PICK j \in Int : j = i + k /\ j - 1 = (i - 1) + k
        BY <4>1
      <4>3. r[i] = s[j] /\ r[i - 1] = s[j - 1]
        BY <2>1, <3>1, <4>1, <4>2
      <4>4. k >= 0 /\ Len(r) = Len(s) + 1 - k
        BY <2>1
      <4>5. j \in 2..Len(s)
        BY ONLY <2>0, <4>1, <4>2, <4>4
      <4>6. s[j].time >= 0 => s[j - 1].time < s[j].time
        BY <2>3, <4>5 DEF Ordered
      <4> QED
        BY <2>4, <4>3, <4>6
    <3> QED
      BY <3>2, <3>3
  <2>5. Newest(r)'
    BY <1>1, <1>5, <1>6, <2>2 DEF Newest
  <2> QED
    BY <2>4, <2>5 DEF Ordered
<1>10. reads' = 0 => Ordered(shared'.candles) /\ Newest(shared.candles)'
  BY <1>0, <1>3, <1>9 DEF Newest
<1> QED
  BY <1>7, <1>8, <1>10 DEF CandleInv, Ordered

LEMMA PublishedInOrder ==
  ASSUME CandleInv, Published PROVE CandleInv'
<1>1. PICK n \in Int, p \in Price : tick = <<[slot |-> n, price |-> p]>>
  BY DEF Published, CandleInv, CandleTyped
<1>2. PICK c \in Candle : current = <<c>> /\ current[1] = c /\ c.time < n /\ c.time \in Int
                          /\ pending.ready /\ pending.time = c.time
  <2>1. PICK c \in Candle : current = <<c>>
    BY DEF Published, CandleInv, CandleTyped, Awaited
  <2> QED
    BY <1>1, <2>1 DEF Published, CandleInv, Awaited, Candle
<1>3. PICK d \in Candle : current' = <<d>> /\ current'[1] = d /\ d.time = n
  BY <1>1, CandlesTyped DEF Published, Open
<1>4. /\ UNCHANGED <<now, shared, reads>> /\ tick' = <<>>
      /\ published' = pending \/ published' = published
  BY DEF Published
<1>5. CandleTyped'
  BY <1>3, <1>4 DEF CandleInv, CandleTyped
<1>6. Awaited'
  BY <1>1, <1>2, <1>3, <1>4 DEF CandleInv, Awaited
<1>7. reads = 0 => Ordered(shared.candles) /\ Newest(shared.candles)'
  <2>1. PICK s \in Seq(Candle) : s = shared.candles
    BY DEF CandleInv, CandleTyped, IsShared
  <2>2. \A i \in 1..Len(s) : s[i].time \in Int
    BY DEF Candle
  <2> QED
    BY <1>1, <1>2, <1>3, <1>4, <2>1, <2>2 DEF CandleInv, Newest
<1> QED
  BY <1>4, <1>5, <1>6, <1>7 DEF CandleInv, Ordered

LEMMA ReadInOrder ==
  ASSUME CandleInv, GetLatestIndicators PROVE CandleInv'
<1>1. /\ IsShared(shared) /\ reads \in Nat /\ reads' = reads + 1
      /\ UNCHANGED <<now, current, tick, pending, published>>
  BY DEF CandleInv, CandleTyped, GetLatestIndicators
<1>2. PICK c \in Candle : current[1] = c /\ shared' = ProcessCandle(shared, own, c).shared
  BY DEF CandleInv, CandleTyped, GetLatestIndicators, DryRun
<1>3. IsShared(shared')
  BY <1>1, <1>2, Processed
<1>4. CandleTyped'
  BY <1>1, <1>3 DEF CandleInv, CandleTyped
<1>5. Awaited' /\ reads' # 0
  BY <1>1 DEF CandleInv, Awaited
<1> QED
  BY <1>4, <1>5 DEF CandleInv

\* Whatever the order of the time stamps, the candles of a symbol are closed and published in
\* the order of their intervals, each once, for any prices, periods, seeds and failed
\* publications, and a series without dry runs is in that order.
THEOREM CandleOrder == CandleSpec => []CandlesInOrder
<1>1. CandleInv /\ [CandleNext]_candlevars => CandleInv'
  <2>1. CASE UNCHANGED candlevars
    BY <2>1 DEF candlevars, CandleInv, CandleTyped, Awaited, Ordered, Newest
  <2> QED
    BY <2>1, FoldTickInOrder, CloseInOrder, PublishedInOrder, ReadInOrder DEF CandleNext
<1>2. CandleInv => CandlesInOrder
  BY DEF CandleInv, Awaited, Ordered, CandlesInOrder
<1> QED
  BY <1>1, <1>2, CandlesStart, PTL DEF CandleSpec

\* ---- the RSI of the server and of the chart ----
LEMMA ProcessedAverages ==
  ASSUME NEW sh, NEW ow, NEW c, NEW r, r = PushCandle(sh.candles, c), Len(r) \in Nat, Len(r) >= 2,
         NEW done, done = ProcessCandle(sh, ow, c)
  PROVE  /\ done.shared.avgGain = Averaged(sh.avgGain, 1, r, r[Len(r) - 1], r[Len(r)])
         /\ done.shared.avgLoss = Averaged(sh.avgLoss, -1, r, r[Len(r) - 1], r[Len(r)])
<1>1. done = Evaluate(sh, ow, r)
  <2>1. ~(Len(r) < 2)
    OBVIOUS
  <2> QED BY <2>1 DEF ProcessCandle
<1>2. PICK prev, curr : prev = r[Len(r) - 1] /\ curr = r[Len(r)]
  OBVIOUS
<1>3. PICK atr : atr = Atr(ow.tr, r, prev, curr)
  OBVIOUS
<1>4. PICK a : a = Averages(sh, ow, r, prev, curr, atr)
  OBVIOUS
<1>5. PICK smoothed : smoothed = Ema(SmoothPeriod, sh.stopEma, a.atrStop)
  OBVIOUS
<1>6. PICK rsi : rsi = Rsi(a.avgGain, a.avgLoss)
  OBVIOUS
<1>7. done = Signals(sh, ow, r, prev, curr, a, smoothed, rsi)
  <2>1. done = Smoothing(sh, ow, r, prev, curr, a)
    BY <1>1, <1>2, <1>3, <1>4 DEF Evaluate
  <2> QED BY <1>5, <1>6, <2>1 DEF Smoothing
<1>8. Shows(done, ow, r, prev, curr, a, smoothed, rsi)
  BY <1>7, SignalsShow
<1>9. done.shared.avgGain = a.avgGain /\ done.shared.avgLoss = a.avgLoss
  BY <1>8 DEF Shows
<1>10. a.avgGain = Averaged(sh.avgGain, 1, r, prev, curr) /\ a.avgLoss = Averaged(sh.avgLoss, -1, r, prev, curr)
  BY <1>4 DEF Averages
<1> QED BY <1>2, <1>9, <1>10

\* The averages of gains and losses as multiples of one fraction.
LEMMA GainAndLoss ==
  ASSUME NEW s \in Seq(Candle), Len(s) > RsiPeriod, NEW gain, AverageOf(gain, 1, s), NEW loss, AverageOf(loss, -1, s)
  PROVE  \E g, l : /\ gain = <<g>> /\ loss = <<l>>
                   /\ \E D \in Nat \ {0}, u \in Nat, v \in Nat : Means(g, u, D) /\ Means(l, v, D)
<1>1. PICK g, l : gain = <<g>> /\ Within(0, g, Span) /\ loss = <<l>> /\ Within(0, l, Span)
  BY DEF AverageOf
<1>2. PICK D \in Nat \ {0}, u \in Int, v \in Int : Means(g, u, D) /\ Means(l, v, D)
  BY <1>1, CommonOfTwo DEF Within
<1>3. u \in Nat /\ v \in Nat
  <2>0. 0 \in Int
    OBVIOUS
  <2>1. 0 * D <= u /\ 0 * D <= v
    BY <1>1, <1>2, <2>0, MeansWithin DEF Within
  <2> QED BY <2>1
<1> QED BY <1>1, <1>2, <1>3

\* A candle that closes where the last one did leaves the RSI alone: the dry run of the candle
\* that has just been closed does.
LEMMA RsiSteady ==
  ASSUME NEW sh, SharedInRange(sh), NEW ow, NEW c \in Candle, Len(sh.candles) > RsiPeriod,
         sh.candles[Len(sh.candles)].close = c.close, NEW done, done = ProcessCandle(sh, ow, c)
  PROVE  Rsi(done.shared.avgGain, done.shared.avgLoss) = Rsi(sh.avgGain, sh.avgLoss)
<1>0. RsiPeriod \in Nat /\ RsiPeriod > 1 /\ RsiPeriod \in Nat \ {0} /\ RsiPeriod - 1 \in Nat \ {0}
  BY Periods
<1>1. PICK s \in Seq(Candle) : s = sh.candles /\ Len(s) <= MaxLen /\ Len(s) \in Nat
  BY DEF SharedInRange, IsShared
<1>2. PICK r : r = PushCandle(s, c)
  OBVIOUS
<1>3. Len(s) >= 1
  BY <1>0, <1>1
<1>4. r \in Seq(Candle) /\ Len(r) >= 2 /\ r[Len(r)] = c /\ r[Len(r) - 1] = s[Len(s)]
  <2>1. Pushes(s, c, r)
    BY <1>1, <1>2, PushedWithin
  <2> QED BY <1>3, <2>1 DEF Pushes
<1>5. PICK prev \in Candle : prev = s[Len(s)] /\ prev.close = c.close
  BY <1>1, <1>3
<1>6. Len(r) \in Nat
  BY <1>4
<1>7. /\ done.shared.avgGain = Averaged(sh.avgGain, 1, r, prev, c)
      /\ done.shared.avgLoss = Averaged(sh.avgLoss, -1, r, prev, c)
  BY <1>1, <1>2, <1>4, <1>5, <1>6, ProcessedAverages
<1>8. Moved(1, prev, c) = 0 /\ Moved(-1, prev, c) = 0
  <2>1. PICK p \in Int : p = c.close /\ p = prev.close
    BY <1>5, CandlePrices
  <2>2. 1 * (p - p) = 0 /\ (-1) * (p - p) = 0 /\ 0 \in Int
    BY <2>1
  <2>3. Max({0, 0}) \in {0, 0}
    BY <2>2, Extremes
  <2> QED BY <2>1, <2>2, <2>3 DEF Moved
<1>9. PICK g, l : /\ sh.avgGain = <<g>> /\ sh.avgLoss = <<l>>
                  /\ \E D \in Nat \ {0}, u \in Nat, v \in Nat : Means(g, u, D) /\ Means(l, v, D)
  BY <1>1, GainAndLoss DEF SharedInRange
<1>10. PICK D \in Nat \ {0}, u \in Nat, v \in Nat : Means(g, u, D) /\ Means(l, v, D)
  BY <1>9
<1>11. PICK h, m : h = Rma(RsiPeriod, <<g>>, Whole(0)) /\ m = Rma(RsiPeriod, <<l>>, Whole(0))
  OBVIOUS
<1>12. done.shared.avgGain = <<h>> /\ done.shared.avgLoss = <<m>>
  <2>1. <<g>> # <<>> /\ <<l>> # <<>>
    OBVIOUS
  <2> QED BY <1>7, <1>8, <1>9, <1>11, <2>1 DEF Averaged
<1>13. PICK k \in Nat \ {0}, E \in Nat : k = RsiPeriod - 1 /\ E = RsiPeriod * D
  <2>1. RsiPeriod * D \in Nat
    BY ONLY <1>0, D \in Nat
  <2> QED BY <1>0, <2>1
<1>14. Means(h, k * u, E) /\ Means(m, k * v, E)
  <2>1. 0 \in Int /\ 0 * D = 0
    OBVIOUS
  <2>2. Means(Whole(0), 0, D)
    BY <2>1, WholeMeans
  <2>3. Means(h, k * u + 0, E) /\ Means(m, k * v + 0, E)
    BY <1>0, <1>10, <1>11, <1>13, <2>2, RmaMeans
  <2>4. k * u + 0 = k * u /\ k * v + 0 = k * v
    OBVIOUS
  <2> QED BY <2>3, <2>4
<1>15. k * u \in Nat /\ k * v \in Nat
  BY ONLY k \in Nat, u \in Nat, v \in Nat
<1>16. Rsi(<<h>>, <<m>>) = <<Relative(k * u, k * v)>>
  BY <1>14, <1>15, RsiRelative
<1>17. Rsi(<<g>>, <<l>>) = <<Relative(u, v)>>
  BY <1>10, RsiRelative
<1>18. Relative(k * u, k * v) = Relative(u, v)
  BY RelativeScales
<1> QED BY <1>9, <1>12, <1>16, <1>17, <1>18

LEMMA RsiOfChart ==
  ASSUME NEW s \in Seq(Candle), Len(s) \in RsiPeriod + 2 .. MaxLen - 1,
         NEW gain, AverageOf(gain, 1, s), NEW loss, AverageOf(loss, -1, s)
  PROVE  Rsi(gain, loss) = <<ChartRsi(s, RsiPeriod)[Len(s)]>>
<1>1. PICK n \in Nat : n = Len(s) /\ n > RsiPeriod /\ n < MaxLen /\ ~(n <= RsiPeriod + 1)
  BY Periods
<1>2. PICK g, l : /\ gain = <<g>> /\ loss = <<l>>
                  /\ \E D \in Nat \ {0}, u \in Nat, v \in Nat : Means(g, u, D) /\ Means(l, v, D)
  BY <1>1, GainAndLoss
<1>3. PICK D \in Nat \ {0}, u \in Nat, v \in Nat : Means(g, u, D) /\ Means(l, v, D)
  BY <1>2
<1>4. Rsi(<<g>>, <<l>>) = <<Strength(g, l)>>
  BY <1>3, RsiRelative
<1>5. g = ChartMoves(s, RsiPeriod, 1)[n - RsiPeriod] /\ l = ChartMoves(s, RsiPeriod, -1)[n - RsiPeriod]
  <2>1. \E v1 : gain = <<v1>> /\ v1 = ChartMoves(s, RsiPeriod, 1)[n - RsiPeriod]
    BY <1>1 DEF AverageOf
  <2>2. \E v1 : loss = <<v1>> /\ v1 = ChartMoves(s, RsiPeriod, -1)[n - RsiPeriod]
    BY <1>1 DEF AverageOf
  <2> QED BY <1>2, <2>1, <2>2
<1>6. ChartRsi(s, RsiPeriod)[n] = Strength(g, l)
  <2>1. n \in DOMAIN s
    BY <1>1, Periods
  <2> QED BY <1>1, <1>5, <2>1 DEF ChartRsi
<1> QED BY <1>1, <1>2, <1>4, <1>6

\* ---- results that follow each other ----
InRange(x) == x.ready => ResultInRange(x) /\ \E v : x.rsi = <<v>> /\ Within(0, v, 100)

\* The instance is as it was when it gave the result x, as far as the next arrow can see.
Follows(x) ==
  /\ x.smoothedAtrStop \in Rational /\ own.lastSmoothedAtrStop = <<x.smoothedAtrStop>>
  /\ shared.candles[Len(shared.candles)].close = x.close
  /\ x.simpleBuyCond => Less(x.smoothedAtrStop, Whole(x.close))

Running ==
  /\ SharedInRange(shared) /\ OwnInRange(own) /\ Len(shared.candles) >= RsiPeriod
  /\ InRange(pending) /\ InRange(published) /\ lost \in Nat

\* While a result is being published, dry runs of its candle change neither what the next
\* arrow depends on nor the RSI.
Awaiting ==
  pending.ready =>
    /\ tick # <<>> /\ pending.close = current[1].close /\ Follows(pending)
    /\ Len(shared.candles) > RsiPeriod /\ pending.rsi = Rsi(shared.avgGain, shared.avgLoss)

Arrows ==
  published.ready /\ ~readSince /\ lost = 0 =>
    /\ tick = <<>> => Follows(published)
    /\ tick # <<>> => ~(published.simpleBuyCond /\ pending.simpleBuyCond)

IndicatorInv == CandleInv /\ Running /\ Awaiting /\ Arrows

\* The series after a candle, in the handler or in a dry run.
LEMMA PushedOn ==
  ASSUME NEW sh, SharedInRange(sh), Len(sh.candles) >= RsiPeriod, NEW c \in Candle,
         NEW r, r = PushCandle(sh.candles, c)
  PROVE  Len(sh.candles) >= 1 /\ Len(r) > RsiPeriod /\ Len(r) >= RsiPeriod /\ r[Len(r)] = c
<1>1. PICK s \in Seq(Candle) : s = sh.candles /\ Len(s) <= MaxLen /\ Len(s) \in Nat
  BY DEF SharedInRange, IsShared
<1>2. Pushes(s, c, r)
  BY <1>1, PushedWithin
<1>3. /\ r[Len(r)] = c /\ (Len(s) = MaxLen => Len(r) = MaxLen) /\ (Len(s) # MaxLen => Len(r) = Len(s) + 1)
  BY <1>2 DEF Pushes
<1>4. Len(s) >= RsiPeriod
  BY <1>1
<1>5. Len(s) >= 1 /\ Len(r) > RsiPeriod /\ Len(r) >= RsiPeriod
  BY ONLY <1>1, <1>3, <1>4, Periods
<1> QED BY <1>1, <1>3, <1>5

\* A result of the handler: with the RSI, in range, and what the instance keeps of it.
LEMMA Resulting ==
  ASSUME NEW sh, SharedInRange(sh), NEW ow, OwnInRange(ow), Len(sh.candles) >= RsiPeriod, NEW c \in Candle,
         NEW done, done = ProcessCandle(sh, ow, c)
  PROVE  /\ done.result.ready /\ InRange(done.result)
         /\ Len(done.shared.candles) > RsiPeriod
         /\ done.shared.candles[Len(done.shared.candles)].close = done.result.close
         /\ done.result.simpleBuyCond => Less(done.result.smoothedAtrStop, Whole(done.result.close))
<1>1. Processes(sh, ow, c, done)
  BY ProcessedInRange
<1>2. PICK r : r = done.shared.candles /\ r = PushCandle(sh.candles, c)
  BY <1>1 DEF Processes
<1>3. Len(sh.candles) >= 1 /\ Len(r) > RsiPeriod /\ r[Len(r)] = c
  BY <1>2, PushedOn
<1>4. done.result.ready /\ Reports(done.result, sh, ow, c, done) /\ SharedInRange(done.shared)
  BY <1>1, <1>3 DEF Processes
<1>5. \E v : done.result.rsi = <<v>> /\ Within(0, v, 100)
  <2>1. r \in Seq(Candle) /\ AverageOf(done.shared.avgGain, 1, r) /\ AverageOf(done.shared.avgLoss, -1, r)
    BY <1>2, <1>4 DEF SharedInRange, IsShared
  <2>2. \E v : Rsi(done.shared.avgGain, done.shared.avgLoss) = <<v>> /\ Within(0, v, 100)
    BY <1>3, <2>1, RsiPercent
  <2> QED BY <1>4, <2>2 DEF Reports
<1>6. InRange(done.result)
  BY <1>4, <1>5 DEF InRange, Reports
<1>7. done.result.simpleBuyCond => Less(done.result.smoothedAtrStop, Whole(done.result.close))
  BY <1>4 DEF Reports, WasCrossOver
<1> QED BY <1>2, <1>3, <1>4, <1>6, <1>7 DEF Reports

LEMMA IndicatorStarts == CandleInit => IndicatorInv
<1> SUFFICES ASSUME CandleInit PROVE IndicatorInv
  OBVIOUS
<1>1. PICK walk \in [1..Seeds + 1 -> Step] : shared = Seeded(walk).shared /\ own = Seeded(walk).own
  BY DEF CandleInit
<1>2. Warm(Seeded(walk), Seeds)
  BY SeededWarm
<1>3. SharedInRange(shared) /\ OwnInRange(own) /\ (Len(shared.candles) >= Seeds \/ Len(shared.candles) > RsiPeriod)
  BY <1>1, <1>2 DEF Warm
<1>4. Len(shared.candles) >= RsiPeriod
  <2>1. Len(shared.candles) \in Nat
    BY <1>3 DEF SharedInRange, IsShared
  <2> QED BY ONLY <1>3, <2>1, Periods
<1>5. pending.ready = FALSE /\ published.ready = FALSE /\ lost = 0
  BY DEF CandleInit, Nothing
<1> QED BY <1>3, <1>4, <1>5, CandlesStart DEF IndicatorInv, Running, InRange, Awaiting, Arrows

LEMMA FoldTickKeeps ==
  ASSUME IndicatorInv, NEW t \in Ticks, FoldTick(t) PROVE Running' /\ Awaiting' /\ Arrows'
<1>1. UNCHANGED <<shared, own, tick, pending, published, readSince, lost>> /\ tick = <<>>
  BY DEF FoldTick
<1>2. ~pending.ready
  BY <1>1 DEF IndicatorInv, Awaiting
<1> QED BY <1>1, <1>2 DEF IndicatorInv, Running, InRange, Awaiting, Arrows, Follows

LEMMA CloseKeeps ==
  ASSUME IndicatorInv, NEW t \in Ticks, CloseCandle(t) PROVE Running' /\ Awaiting' /\ Arrows'
<1>1. PICK c \in Candle : current = <<c>> /\ current[1] = c
  BY DEF CloseCandle, IndicatorInv, CandleInv, CandleTyped
<1>2. PICK done : /\ done = ProcessCandle(shared, own, c) /\ shared' = done.shared /\ own' = done.own
                  /\ done.result.ready => tick' = <<t>> /\ pending' = done.result /\ current' = current
  BY <1>1 DEF CloseCandle
<1>3. SharedInRange(shared) /\ OwnInRange(own) /\ Len(shared.candles) >= RsiPeriod /\ lost \in Nat
  BY DEF IndicatorInv, Running
<1>4. /\ done.result.ready /\ InRange(done.result)
      /\ Len(done.shared.candles) > RsiPeriod
      /\ done.shared.candles[Len(done.shared.candles)].close = done.result.close
      /\ done.result.simpleBuyCond => Less(done.result.smoothedAtrStop, Whole(done.result.close))
  BY <1>1, <1>2, <1>3, Resulting
<1>5. Processes(shared, own, c, done)
  BY <1>2, <1>3, ProcessedInRange
<1>6. /\ SharedInRange(shared') /\ OwnInRange(own') /\ Reports(done.result, shared, own, c, done)
  BY <1>2, <1>4, <1>5 DEF Processes
<1>7. UNCHANGED <<published, readSince, lost>> /\ tick = <<>> /\ tick' = <<t>> /\ pending' = done.result
      /\ current' = <<c>> /\ tick' # <<>>
  <2>1. UNCHANGED <<published, readSince, lost>> /\ tick = <<>>
    BY DEF CloseCandle
  <2>2. tick' = <<t>> /\ pending' = done.result /\ current' = <<c>>
    BY <1>1, <1>2, <1>4
  <2> QED BY <2>1, <2>2
<1>8. Running'
  <2>1. Len(shared'.candles) >= RsiPeriod
    <3>1. Len(shared'.candles) \in Nat /\ Len(shared'.candles) > RsiPeriod
      BY <1>2, <1>4, <1>6 DEF SharedInRange, IsShared
    <3> QED BY <3>1, Periods
  <2>2. InRange(pending)' /\ InRange(published)'
    BY <1>4, <1>7 DEF IndicatorInv, Running, InRange
  <2> QED BY <1>3, <1>6, <1>7, <2>1, <2>2 DEF Running
<1>9. Follows(pending)'
  BY <1>2, <1>4, <1>6, <1>7 DEF Follows, Reports
<1>10. Awaiting'
  BY <1>1, <1>2, <1>4, <1>6, <1>7, <1>9 DEF Awaiting, Reports
<1>11. ASSUME published.ready, ~readSince, lost = 0, published.simpleBuyCond, done.result.simpleBuyCond PROVE FALSE
  <2>1. Follows(published)
    BY <1>7, <1>11 DEF IndicatorInv, Arrows
  <2>2. PICK m \in Rational : m = published.smoothedAtrStop /\ own.lastSmoothedAtrStop = <<m>>
    BY <2>1 DEF Follows
  <2>3. PICK p : p = Whole(published.close)
    OBVIOUS
  <2>4. Less(m, p)
    BY <1>11, <2>1, <2>2, <2>3 DEF Follows
  <2>5. WasCrossOver(Whole(c.close), done.result.smoothedAtrStop, p, <<m>>)
    BY <1>6, <1>11, <2>1, <2>2, <2>3 DEF Follows, Reports
  <2>6. AtMost(p, m)
    BY <2>5 DEF WasCrossOver
  <2>7. published.close \in Int
    <3>1. PICK s \in Seq(Candle) : s = shared.candles
      BY <1>3 DEF SharedInRange, IsShared
    <3>2. Len(s) \in 1..Len(s)
      BY <1>3, <3>1, Periods
    <3>3. s[Len(s)] \in Candle
      BY <3>1, <3>2
    <3> QED BY <2>1, <3>1, <3>3, CandlePrices DEF Follows
  <2>8. PICK x \in Int, y \in Int : x = m.num * p.den /\ y = p.num * m.den
    BY <2>2, <2>3, <2>7 DEF Rational, Whole
  <2> QED BY <2>4, <2>6, <2>8 DEF Less, AtMost
<1>12. Arrows'
  BY <1>7, <1>11 DEF Arrows
<1> QED BY <1>8, <1>10, <1>12

LEMMA PublishedKeeps ==
  ASSUME IndicatorInv, Published PROVE Running' /\ Awaiting' /\ Arrows'
<1>1. /\ tick # <<>> /\ tick' = <<>> /\ pending' = Nothing /\ readSince' = FALSE
      /\ UNCHANGED <<shared, own>>
      /\ \/ published' = pending /\ lost' = lost
         \/ lost' = lost + 1 /\ published' = published
  BY DEF Published
<1>2. pending'.ready = FALSE
  BY <1>1 DEF Nothing
<1>3. lost \in Nat /\ lost' \in Nat /\ (published' # pending => lost' # 0)
  BY <1>1 DEF IndicatorInv, Running
<1>4. Running'
  <2>1. InRange(pending)' /\ InRange(published)'
    BY <1>1, <1>2 DEF IndicatorInv, Running, InRange
  <2> QED BY <1>1, <1>3, <2>1 DEF IndicatorInv, Running
<1>5. Awaiting'
  BY <1>2 DEF Awaiting
<1>6. Arrows'
  <2>1. CASE published' = pending /\ pending.ready
    <3>1. Follows(pending)
      BY <2>1 DEF IndicatorInv, Awaiting
    <3>2. Follows(published)'
      BY <1>1, <2>1, <3>1 DEF Follows
    <3> QED BY <1>1, <3>2 DEF Arrows
  <2>2. CASE published' = pending /\ ~pending.ready
    BY <2>2 DEF Arrows
  <2>3. CASE published' # pending
    BY <1>3, <2>3 DEF Arrows
  <2> QED BY <2>1, <2>2, <2>3
<1> QED BY <1>4, <1>5, <1>6

LEMMA ReadKeeps ==
  ASSUME IndicatorInv, GetLatestIndicators PROVE Running' /\ Awaiting' /\ Arrows'
<1>1. UNCHANGED <<current, own, tick, pending, published, lost>> /\ readSince' = TRUE
  BY DEF GetLatestIndicators
<1>2. PICK c \in Candle : current[1] = c /\ shared' = ProcessCandle(shared, own, c).shared
  BY DEF IndicatorInv, CandleInv, CandleTyped, GetLatestIndicators, DryRun
<1>3. PICK done : done = ProcessCandle(shared, own, c) /\ shared' = done.shared
  BY <1>2
<1>4. SharedInRange(shared) /\ OwnInRange(own) /\ Len(shared.candles) >= RsiPeriod
  BY DEF IndicatorInv, Running
<1>5. SharedInRange(shared') /\ shared'.candles = PushCandle(shared.candles, c)
  <2>1. Processes(shared, own, c, done)
    BY <1>3, <1>4, ProcessedInRange
  <2> QED BY <1>3, <2>1 DEF Processes
<1>6. PICK r : r = shared'.candles /\ Len(r) > RsiPeriod /\ Len(r) >= RsiPeriod /\ r[Len(r)] = c
  BY <1>4, <1>5, PushedOn
<1>7. Running'
  BY <1>1, <1>5, <1>6 DEF IndicatorInv, Running, InRange
<1>8. ASSUME pending.ready
      PROVE  /\ tick # <<>> /\ pending.close = c.close /\ Follows(pending)'
             /\ pending.rsi = Rsi(shared'.avgGain, shared'.avgLoss)
  <2>1. /\ tick # <<>> /\ pending.close = c.close /\ Follows(pending)
        /\ Len(shared.candles) > RsiPeriod /\ pending.rsi = Rsi(shared.avgGain, shared.avgLoss)
    BY <1>2, <1>8 DEF IndicatorInv, Awaiting
  <2>2. shared.candles[Len(shared.candles)].close = c.close
    BY <2>1 DEF Follows
  <2>3. Rsi(done.shared.avgGain, done.shared.avgLoss) = Rsi(shared.avgGain, shared.avgLoss)
    BY <1>3, <1>4, <2>1, <2>2, RsiSteady
  <2>4. Follows(pending)'
    BY <1>1, <1>6, <2>1 DEF Follows
  <2> QED BY <1>3, <2>1, <2>3, <2>4
<1>9. Awaiting'
  BY <1>1, <1>2, <1>6, <1>8 DEF Awaiting
<1>10. Arrows'
  BY <1>1 DEF Arrows
<1> QED BY <1>7, <1>9, <1>10

\* The instance is in range and what its results say of it holds, under any interleaving of
\* ticks, closed candles, publications that end or fail, and dry runs.
THEOREM IndicatorInvariant == CandleSpec => []IndicatorInv
<1>1. IndicatorInv /\ [CandleNext]_candlevars => IndicatorInv'
  <2>1. CASE UNCHANGED candlevars
    BY <2>1 DEF candlevars, IndicatorInv, CandleInv, CandleTyped, Awaited, Ordered, Newest,
                Running, InRange, Awaiting, Arrows, Follows
  <2>2. ASSUME IndicatorInv, CandleNext PROVE IndicatorInv'
    <3>1. ASSUME NEW t \in Ticks, FoldTick(t) PROVE IndicatorInv'
      BY <2>2, <3>1, FoldTickInOrder, FoldTickKeeps DEF IndicatorInv
    <3>2. ASSUME NEW t \in Ticks, CloseCandle(t) PROVE IndicatorInv'
      BY <2>2, <3>2, CloseInOrder, CloseKeeps DEF IndicatorInv
    <3>3. CASE Published
      BY <2>2, <3>3, PublishedInOrder, PublishedKeeps DEF IndicatorInv
    <3>4. CASE GetLatestIndicators
      BY <2>2, <3>4, ReadInOrder, ReadKeeps DEF IndicatorInv
    <3> QED BY <2>2, <3>1, <3>2, <3>3, <3>4 DEF CandleNext
  <2> QED BY <2>1, <2>2
<1> QED BY <1>1, IndicatorStarts, PTL DEF CandleSpec

\* Without a dry run after the last publication and without a failed one, a candle that crosses
\* above the stop is not followed by another that does (simpleBuyCond of processCandle), for any
\* prices, periods and seeds: the arrow of a buy is not drawn twice.
THEOREM BuyArrows == CandleSpec => NoRepeatedBuy
<1>1. IndicatorInv /\ [CandleNext]_candlevars =>
        [ (published' # published /\ published.ready /\ published'.simpleBuyCond /\ ~readSince /\ lost = 0)
            => ~published.simpleBuyCond ]_candlevars
  <2> SUFFICES ASSUME IndicatorInv, [CandleNext]_candlevars,
                      published' # published, published.ready, published'.simpleBuyCond, ~readSince, lost = 0
               PROVE  ~published.simpleBuyCond
    BY DEF candlevars
  <2>1. Published
    BY DEF CandleNext, FoldTick, CloseCandle, GetLatestIndicators, candlevars
  <2>2. tick # <<>> /\ published' = pending
    BY <2>1 DEF Published
  <2> QED BY <2>2 DEF IndicatorInv, Arrows
<1> QED BY <1>1, IndicatorInvariant, PTL DEF CandleSpec, NoRepeatedBuy

\* The RSI that is published, which the server updates candle by candle, is the one computeRSI of
\* the chart gives for the whole series, for any prices and periods, as long as no candle has been
\* dropped from the series.
THEOREM RsiAgreement == CandleSpec => []RsiAgreesWithChart
<1>1. IndicatorInv => RsiAgreesWithChart
  <2> SUFFICES ASSUME IndicatorInv, pending.ready, Len(shared.candles) \in RsiPeriod + 2 .. MaxLen - 1
               PROVE  pending.rsi = <<ChartRsi(shared.candles, RsiPeriod)[Len(shared.candles)]>>
    BY DEF RsiAgreesWithChart
  <2>1. pending.rsi = Rsi(shared.avgGain, shared.avgLoss)
    BY DEF IndicatorInv, Awaiting
  <2>2. /\ shared.candles \in Seq(Candle)
        /\ AverageOf(shared.avgGain, 1, shared.candles) /\ AverageOf(shared.avgLoss, -1, shared.candles)
    BY DEF IndicatorInv, Running, SharedInRange, IsShared
  <2> QED BY <2>1, <2>2, RsiOfChart
<1> QED BY <1>1, IndicatorInvariant, PTL

\* ---- the lines of the chart ----
LEMMA Places ==
  ASSUME NEW s \in Seq(Candle), NEW i \in 1..Len(s)
  PROVE  s[i] \in Candle /\ (i # 1 => i - 1 \in 1..Len(s) /\ s[i - 1] \in Candle)
<1>1. Len(s) \in Nat
  OBVIOUS
<1>2. i # 1 => i - 1 \in 1..Len(s)
  BY <1>1
<1> QED BY <1>2

LEMMA ChartAtrWithin ==
  ASSUME NEW s \in Seq(Candle), NEW period \in Nat \ {0}, NEW i \in 1..Len(s)
  PROVE  Within(0, ChartAtr(s, period)[i], Span)
<1>0. 0 \in Int /\ Span \in Int /\ 1 \in Nat \ {0}
  BY SpanIsNumber
<1>1. PICK n \in Nat : n = Len(s) /\ DOMAIN s = 1..n
  OBVIOUS
<1> DEFINE values == [j \in DOMAIN s |-> Whole(ChartTrueRange(s, j))]
<1>2. \A j \in 1..n : ChartTrueRange(s, j) \in 0..Span
  <2> SUFFICES ASSUME NEW j \in 1..n PROVE ChartTrueRange(s, j) \in 0..Span
    OBVIOUS
  <2>1. s[j] \in Candle /\ (j # 1 => s[j - 1] \in Candle)
    BY <1>1, Places
  <2>2. CASE j = 1
    <3>1. s[j].high - s[j].low \in 0..Span
      BY <2>1, RangeInSpan
    <3> QED BY <2>2, <3>1 DEF ChartTrueRange
  <2>3. CASE j # 1
    <3>1. ChartTrueRange(s, j) = TrueRange(s[j - 1], s[j])
      BY <2>3 DEF ChartTrueRange, TrueRange
    <3>2. TrueRange(s[j - 1], s[j]) \in 0..Span
      BY <2>1, <2>3, RangeInSpan
    <3> QED BY <3>1, <3>2
  <2> QED BY <2>2, <2>3
<1>3. DOMAIN values = 1..n
  BY <1>1
<1>4. \A j \in 1..n : Within(0, values[j], Span)
  <2> SUFFICES ASSUME NEW j \in 1..n PROVE Within(0, values[j], Span)
    OBVIOUS
  <2>1. PICK t \in Int : t = ChartTrueRange(s, j) /\ 0 <= t /\ t <= Span
    <3>1. ChartTrueRange(s, j) \in 0..Span
      BY <1>2
    <3> QED BY <1>0, <3>1
  <2>2. values[j] = Whole(t)
    BY <1>1, <2>1
  <2> QED BY <1>0, <2>1, <2>2, WholeWithin
<1>5. ChartAtr(s, period) = Smoothed(values, period, 1)
  BY DEF ChartAtr, Wilder
<1> HIDE DEF values
<1>6. \A j \in 1..n : Within(0, Smoothed(values, period, 1)[j], Span)
  BY <1>0, <1>3, <1>4, SmoothedWithin
<1> QED BY <1>1, <1>5, <1>6

LEMMA ChartEmaWithin ==
  ASSUME NEW s \in Seq(Candle), NEW period \in Nat \ {0}, NEW i \in 1..Len(s)
  PROVE  Within(Min(Price), ChartEma(s, period)[i], Max(Price))
<1>0. Min(Price) \in Int /\ Max(Price) \in Int /\ 2 \in Nat \ {0}
  BY PricesBetween
<1>1. PICK n \in Nat : n = Len(s) /\ DOMAIN s = 1..n
  OBVIOUS
<1> DEFINE values == [j \in DOMAIN s |-> Whole(s[j].close)]
<1>2. DOMAIN values = 1..n
  BY <1>1
<1>3. \A j \in 1..n : Within(Min(Price), values[j], Max(Price))
  <2> SUFFICES ASSUME NEW j \in 1..n PROVE Within(Min(Price), values[j], Max(Price))
    OBVIOUS
  <2>1. s[j] \in Candle
    BY <1>1
  <2>2. PICK p \in Int : p = s[j].close /\ Min(Price) <= p /\ p <= Max(Price)
    <3>1. s[j].close \in Price
      BY <2>1, CandlePrices
    <3>2. s[j].close \in Nat \ {0} /\ Min(Price) <= s[j].close /\ s[j].close <= Max(Price)
      BY <3>1, PricesBetween
    <3> QED BY <3>2
  <2>3. values[j] = Whole(p)
    BY <1>1, <2>2
  <2> QED BY <1>0, <2>2, <2>3, WholeWithin
<1>4. ChartEma(s, period) = Smoothed(values, period, 2)
  BY DEF ChartEma
<1> HIDE DEF values
<1>5. \A j \in 1..n : Within(Min(Price), Smoothed(values, period, 2)[j], Max(Price))
  BY <1>0, <1>2, <1>3, SmoothedWithin
<1> QED BY <1>1, <1>4, <1>5

LEMMA VwapWithin ==
  ASSUME NEW s \in Seq(Candle), NEW i \in 1..Len(s)
  PROVE  Within(Min(Price), Vwap(s)[i], Max(Price))
<1>0. i \in Nat /\ i \in DOMAIN s /\ 1..i \subseteq 1..Len(s) /\ i >= 1
  OBVIOUS
<1>1. PICK lo \in Nat, hi \in Nat : lo = Min(Price) /\ hi = Max(Price)
  BY PricesBetween
<1> DEFINE f == [j \in 1..i |-> Weight(s[j]) * (s[j].high + s[j].low + s[j].close)]
           w == [j \in 1..i |-> Weight(s[j])]
           one == [j \in 1..i |-> 1]
<1>2. \A j \in 1..i : /\ f[j] \in Int /\ w[j] \in Int /\ (3 * lo) * w[j] <= f[j] /\ f[j] <= (3 * hi) * w[j]
                      /\ one[j] \in Int /\ 0 * w[j] <= one[j] /\ one[j] <= 1 * w[j]
  <2> SUFFICES ASSUME NEW j \in 1..i
               PROVE  /\ f[j] \in Int /\ w[j] \in Int /\ (3 * lo) * w[j] <= f[j] /\ f[j] <= (3 * hi) * w[j]
                      /\ one[j] \in Int /\ 0 * w[j] <= one[j] /\ one[j] <= 1 * w[j]
    OBVIOUS
  <2>1. s[j] \in Candle
    BY <1>0
  <2>2. PICK h \in Nat, l \in Nat, c \in Nat, v \in Nat :
           h = s[j].high /\ l = s[j].low /\ c = s[j].close /\ v = s[j].volume
    BY <2>1, CandlePrices
  <2>3. lo <= h /\ h <= hi /\ lo <= l /\ l <= hi /\ lo <= c /\ c <= hi
    BY <1>1, <2>1, <2>2, CandlePrices, PricesBetween
  <2>4. PICK k \in Nat : k = Weight(s[j]) /\ k >= 1
    BY <2>2 DEF Weight
  <2>5. PICK p \in Nat : p = h + l + c /\ 3 * lo <= p /\ p <= 3 * hi
    BY <2>3
  <2>6. k * p \in Int /\ (3 * lo) * k <= k * p /\ k * p <= (3 * hi) * k
    BY ONLY <2>5, k \in Nat, lo \in Nat, hi \in Nat
  <2>7. f[j] = k * p /\ w[j] = k /\ one[j] = 1
    BY <2>2, <2>4, <2>5
  <2>8. 1 \in Int /\ k \in Int /\ 0 * k <= 1 /\ 1 <= 1 * k
    BY <2>4
  <2> HIDE DEF f, w, one
  <2> QED BY ONLY <2>6, <2>7, <2>8
<1>3. IsFiniteSet(1..i) /\ DOMAIN f = 1..i /\ DOMAIN w = 1..i /\ \A j \in 1..i : one[j] = 1
  BY <1>0, FS_Interval
<1>4. Vwap(s)[i] = Ratio(SumFunction(f), 3 * SumFunction(w))
  BY <1>0 DEF Vwap
<1> HIDE DEF f, w, one
<1>5. SumFunctionOnSet(one, 1..i) = i
  <2>1. 0 \in Int /\ 0 + 1 = 1 /\ 0 + i = i
    BY <1>0
  <2>2. \A j \in 0 + 1 .. 0 + i : one[j] = 1
    BY <1>3, <2>1
  <2>3. SumFunctionOnSet(one, 0 + 1 .. 0 + i) = i
    BY ONLY <1>0, <2>1, <2>2, SumOnes
  <2> QED BY <2>1, <2>3
<1>6. PICK t \in Int, v \in Int : t = SumFunctionOnSet(f, 1..i) /\ v = SumFunctionOnSet(w, 1..i)
  BY <1>2, <1>3, SumType
<1>7. (3 * lo) * v <= t /\ t <= (3 * hi) * v
  <2>1. 3 * lo \in Int /\ 3 * hi \in Int
    OBVIOUS
  <2> QED BY <1>2, <1>3, <1>6, <2>1, SumBounds
<1>8. v >= 1
  <2>1. 0 \in Int /\ 1 \in Int
    OBVIOUS
  <2>2. SumFunctionOnSet(one, 1..i) <= 1 * SumFunctionOnSet(w, 1..i)
    BY ONLY <1>2, <1>3, <2>1, SumBounds
  <2> QED BY <1>0, <1>5, <1>6, <2>2
<1>9. SumFunction(f) = t /\ SumFunction(w) = v
  BY <1>3, <1>6 DEF SumFunction
<1>10. PICK d \in Nat \ {0} : d = 3 * v
  BY <1>8
<1>11. Means(Ratio(t, d), t, d)
  BY RatioMeans
<1>12. lo * d <= t /\ t <= hi * d
  BY ONLY <1>7, <1>10, v \in Int, lo \in Nat, hi \in Nat, t \in Int
<1>13. lo \in Int /\ hi \in Int
  OBVIOUS
<1>14. AtMost(Whole(lo), Ratio(t, d)) /\ AtMost(Ratio(t, d), Whole(hi))
  BY <1>11, <1>12, <1>13, MeansWithin
<1> QED BY <1>1, <1>4, <1>9, <1>10, <1>11, <1>14 DEF Within, Means

LEMMA BandsWithin ==
  ASSUME NEW s \in Seq(Candle), NEW period \in Nat \ {0}, NEW i \in 1..Len(s)
  PROVE  Within(0, Minus(Bands(s, period).upper[i], Bands(s, period).lower[i]), 3 * Span)
<1>0. i \in DOMAIN s /\ 0 \in Int /\ Span \in Int /\ 3 * Span \in Int /\ 3 \in Int /\ -3 \in Int /\ 2 \in Nat \ {0}
  BY SpanIsNumber
<1>1. PICK a : a = ChartAtr(s, period)[i] /\ Within(0, a, Span)
  BY ChartAtrWithin
<1>2. PICK c \in Int : c = s[i].close
  BY <1>0, CandlePrices
<1>3. PICK D \in Nat \ {0}, u \in Int : Means(a, u, D)
  BY <1>1, CommonOfTwo DEF Within
<1>4. 0 * D <= u /\ u <= Span * D
  BY <1>0, <1>1, <1>3, MeansWithin DEF Within
<1>5. PICK E \in Nat \ {0} : E = 2 * D
  OBVIOUS
<1>6. ASSUME NEW n \in Int PROVE Means(Over(Scale(n, a), 2), n * u, E)
  <2>1. Means(Scale(n, a), n * u, D)
    BY <1>3, ScaleMeans
  <2>2. Means(Scale(n, a), 2 * (n * u), E)
    BY <1>0, <1>5, <2>1, MeansTimes
  <2>3. n * u \in Int /\ 2 * (n * u) = (n * u) * 2
    OBVIOUS
  <2> QED BY <1>0, <2>2, <2>3, OverMeans
<1>7. PICK x, y : x = Bands(s, period).upper[i] /\ y = Bands(s, period).lower[i]
  OBVIOUS
<1>8. x = Plus(Whole(c), Over(Scale(3, a), 2)) /\ y = Plus(Whole(c), Over(Scale(-3, a), 2))
  <2>1. 3 * 1 = 3 /\ 3 * (-1) = -3
    OBVIOUS
  <2>2. x = Plus(Whole(c), Over(Scale(3 * 1, a), 2)) /\ y = Plus(Whole(c), Over(Scale(3 * (-1), a), 2))
    BY <1>0, <1>1, <1>2, <1>7 DEF Bands
  <2> QED BY <2>1, <2>2
<1>9. Means(Whole(c), c * E, E)
  BY WholeMeans
<1>10. Means(x, c * E + 3 * u, E) /\ Means(y, c * E + (-3) * u, E)
  BY <1>0, <1>6, <1>8, <1>9, PlusMeans
<1>11. Means(Minus(x, y), (c * E + 3 * u) - (c * E + (-3) * u), E)
  BY <1>10, MinusMeans
<1>12. PICK k \in Int : k = c * E
  OBVIOUS
<1>13. (k + 3 * u) - (k + (-3) * u) = 6 * u /\ 6 * u \in Int
  OBVIOUS
<1>14. Means(Minus(x, y), 6 * u, E)
  BY <1>11, <1>12, <1>13
<1>15. 0 * E <= 6 * u /\ 6 * u <= (3 * Span) * E
  <2>1. PICK q \in Int : q = Span * D /\ (3 * Span) * E = 6 * q
    BY ONLY <1>0, <1>5, D \in Nat
  <2>2. 0 * E = 0 /\ 0 * D = 0
    OBVIOUS
  <2>3. 0 <= u /\ u <= q
    BY <1>4, <2>1, <2>2
  <2>4. 0 <= 6 * u /\ 6 * u <= 6 * q
    BY ONLY <2>3, u \in Int, q \in Int
  <2>5. E \in Int /\ (3 * Span) * E \in Int /\ 6 * u \in Int
    BY <1>0, <1>5, <2>1
  <2> QED BY ONLY <2>1, <2>2, <2>4, <2>5
<1>16. AtMost(Whole(0), Minus(x, y)) /\ AtMost(Minus(x, y), Whole(3 * Span))
  <2>1. PICK t \in Int : t = 3 * Span
    BY <1>0
  <2>2. PICK z \in Int : z = 6 * u
    OBVIOUS
  <2>3. PICK w : w = Minus(x, y)
    OBVIOUS
  <2>4. Means(w, z, E) /\ 0 * E <= z /\ z <= t * E
    BY <1>14, <1>15, <2>1, <2>2, <2>3
  <2>5. AtMost(Whole(0), w) /\ AtMost(w, Whole(t))
    BY <1>0, <2>4, MeansWithin
  <2> QED BY <2>1, <2>3, <2>5
<1> QED BY <1>7, <1>14, <1>16 DEF Within, Means

LEMMA ChartAdxWithin ==
  ASSUME NEW s \in Seq(Candle), NEW period \in Nat \ {0}, NEW i \in 1..Len(s), i # 1
  PROVE  Within(0, ChartAdx(s, period)[i], 100)
<1>0. 0 \in Int /\ 100 \in Int /\ 100 \in Nat /\ Span \in Nat /\ Span \in Int /\ 1 \in Nat \ {0} /\ 0 <= 0 /\ 0 <= 100
  BY SpanIsNumber
<1>1. PICK n \in Nat : n = Len(s) /\ DOMAIN s = 1..n
  OBVIOUS
<1> DEFINE moves(way) == [j \in DOMAIN s |-> Whole(Direction(s, j, way))]
<1>2. ASSUME NEW way, NEW j \in 1..n PROVE Direction(s, j, way) \in 0..Span
  <2>1. s[j] \in Candle /\ (j # 1 => s[j - 1] \in Candle)
    BY <1>1, Places
  <2>2. CASE j = 1
    BY <1>0, <2>2 DEF Direction
  <2>3. CASE j # 1
    <3>1. PICK up \in Int, down \in Int : /\ up = s[j].high - s[j - 1].high /\ down = s[j - 1].low - s[j].low
                                          /\ up <= Span /\ down <= Span
      <4>1. PICK c \in Candle, d \in Candle : c = s[j - 1] /\ d = s[j]
        BY <2>1, <2>3
      <4>2. /\ c.high \in Price /\ d.high \in Price /\ c.low \in Price /\ d.low \in Price
            /\ c.high \in Nat /\ d.high \in Nat /\ c.low \in Nat /\ d.low \in Nat
        BY CandlePrices
      <4>3. d.high - c.high <= Span /\ c.low - d.low <= Span
        BY <4>2, SpanIsNumber
      <4> QED BY <4>1, <4>2, <4>3
    <3>2. Direction(s, j, way) = IF way = 1 THEN (IF up > down /\ up > 0 THEN up ELSE 0)
                                 ELSE (IF down > up /\ down > 0 THEN down ELSE 0)
      BY <2>3, <3>1 DEF Direction
    <3> QED BY <1>0, <3>1, <3>2
  <2> QED BY <2>2, <2>3
<1>3. ASSUME NEW way PROVE \A j \in 1..n : Within(0, Wilder(moves(way), period)[j], Span)
  <2>1. DOMAIN moves(way) = 1..n
    BY <1>1
  <2>2. \A j \in 1..n : Within(0, moves(way)[j], Span)
    <3> SUFFICES ASSUME NEW j \in 1..n PROVE Within(0, moves(way)[j], Span)
      OBVIOUS
    <3>1. PICK t \in Int : t = Direction(s, j, way) /\ 0 <= t /\ t <= Span
      <4>1. Direction(s, j, way) \in 0..Span
        BY <1>2
      <4> QED BY <1>0, <4>1
    <3>2. moves(way)[j] = Whole(t)
      BY <1>1, <3>1
    <3> QED BY <1>0, <3>1, <3>2, WholeWithin
  <2>3. PICK m : m = moves(way)
    OBVIOUS
  <2> HIDE DEF moves
  <2> QED BY <1>0, <2>1, <2>2, <2>3, SmoothedWithin DEF Wilder
<1>4. PICK plusDM, minusDM : plusDM = Wilder(moves(1), period) /\ minusDM = Wilder(moves(-1), period)
  OBVIOUS
<1>5. PICK range : range = ChartAtr(s, period)
  OBVIOUS
<1> DEFINE indices == [j \in DOMAIN s |-> IF j = 1 THEN Whole(0) ELSE ChartDx(plusDM[j], minusDM[j], range[j])]
<1>6. \A j \in 1..n : Within(0, indices[j], 100)
  <2> SUFFICES ASSUME NEW j \in 1..n PROVE Within(0, indices[j], 100)
    OBVIOUS
  <2>1. PICK p, m : p = plusDM[j] /\ m = minusDM[j] /\ Within(0, p, Span) /\ Within(0, m, Span)
    BY <1>3, <1>4
  <2>2. Within(0, Whole(0), 100)
    BY <1>0, WholeWithin
  <2>3. indices[j] = IF j = 1 THEN Whole(0) ELSE ChartDx(p, m, range[j])
    BY <1>1, <2>1
  <2>4. CASE indices[j] = Whole(0)
    BY <2>2, <2>4
  <2>5. CASE indices[j] # Whole(0)
    <3>1. indices[j] = Scale(100, Divide(Magnitude(Minus(p, m)), Plus(p, m))) /\ Plus(p, m).num # 0
      BY <2>3, <2>5 DEF ChartDx
    <3>2. Within(0, Scale(100, Divide(Magnitude(Minus(p, m)), Plus(p, m))), 100)
      BY <1>0, <2>1, <3>1, DirectionalPercent
    <3> QED BY <3>1, <3>2
  <2> QED BY <2>4, <2>5
<1>7. DOMAIN indices = 1..n
  BY <1>1
<1>8. ChartAdx(s, period)[i] = Wilder(indices, period)[i]
  BY <1>1, <1>4, <1>5 DEF ChartAdx
<1> HIDE DEF indices
<1>9. \A j \in 1..n : Within(0, Smoothed(indices, period, 1)[j], 100)
  BY <1>0, <1>6, <1>7, SmoothedWithin
<1> QED BY <1>1, <1>8, <1>9 DEF Wilder

\* What the server publishes and what the chart computes stays in range for any prices, periods,
\* seeds, late ticks, dry runs and failed publications, and however many candles were dropped: ATR,
\* moving averages, VWAP, RSI, ADX, the bands, and the distance of the stop from the close.
THEOREM IndicatorRanges == CandleSpec => []IndicatorsInRange
<1>1. IndicatorInv => ServerInRange
  <2> SUFFICES ASSUME IndicatorInv, NEW r \in {pending, published}, r.ready
               PROVE  /\ Between(Whole(0), r.atr, Whole(Max(Price) - Min(Price)))
                      /\ Between(Whole(Min(Price)), r.trendEma, Whole(Max(Price)))
                      /\ r.rsi # <<>> /\ \A i \in DOMAIN r.rsi : Percent(r.rsi[i])
                      /\ Percent(r.adx)
                      /\ AtMost(Magnitude(Minus(Whole(r.close), r.stop)), Scale(Sensitivity, r.atr))
    BY DEF ServerInRange
  <2>1. ResultInRange(r) /\ \E v : r.rsi = <<v>> /\ Within(0, v, 100)
    BY DEF IndicatorInv, Running, InRange
  <2>2. r.rsi # <<>> /\ \A i \in DOMAIN r.rsi : Percent(r.rsi[i])
    <3>1. PICK v : r.rsi = <<v>> /\ Within(0, v, 100)
      BY <2>1
    <3>2. DOMAIN <<v>> = {1} /\ <<v>>[1] = v
      OBVIOUS
    <3> QED BY <3>1, <3>2 DEF Percent, Between, Within
  <2> QED BY <2>1, <2>2 DEF ResultInRange, Within, Between, Percent, Span
<1>2. IndicatorInv => ChartInRange
  <2> SUFFICES ASSUME IndicatorInv, pending.ready PROVE ChartInRange
    BY DEF ChartInRange
  <2>0. AtrPeriod \in Nat \ {0} /\ TrendEmaPeriod \in Nat \ {0} /\ AdxPeriod \in Nat \ {0}
    BY AruAlgoAssumption
  <2>1. PICK s \in Seq(Candle) : s = shared.candles /\ Len(s) > RsiPeriod
    BY DEF IndicatorInv, Running, Awaiting, SharedInRange, IsShared
  <2>2. PICK n \in 1..Len(s) : n = Len(s) /\ n # 1
    BY <2>1, Periods
  <2>3. Within(Min(Price), Vwap(s)[n], Max(Price)) /\ Within(Min(Price), ChartEma(s, TrendEmaPeriod)[n], Max(Price))
    BY <2>0, VwapWithin, ChartEmaWithin
  <2>4. Within(0, Minus(Bands(s, AtrPeriod).upper[n], Bands(s, AtrPeriod).lower[n]), 3 * Span)
    BY <2>0, BandsWithin
  <2>5. Within(0, ChartAdx(s, AdxPeriod)[n], 100)
    BY <2>0, <2>2, ChartAdxWithin
  <2> QED BY <2>1, <2>2, <2>3, <2>4, <2>5 DEF ChartInRange, Within, Between, Percent, Span
<1>3. IndicatorInv => IndicatorsInRange
  BY <1>1, <1>2 DEF IndicatorsInRange
<1> QED BY <1>3, IndicatorInvariant, PTL
================================================================================
