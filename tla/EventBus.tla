------------------------------ MODULE EventBus ------------------------------
(***************************************************************************)
(* One Redis stream and the XREAD loops of its subscribers (eventBus.ts).  *)
(*                                                                         *)
(* The stream is append-only: message i is the i-th XADD, so a stream ID   *)
(* is a number and the stream is `last`, the number of the newest message. *)
(* A subscriber's loop asks Redis for what follows lastSeenId; "$" means   *)
(* "what follows the newest message at the moment this XREAD is served",   *)
(* and the loop keeps "$" until it has handled a first message.  The       *)
(* callback is awaited, and an exception it throws is caught and logged:   *)
(* the cursor moves on either way, so Handle stands for both outcomes.     *)
(*                                                                         *)
(* Each subscriber key is subscribed once per life of the process, as      *)
(* every caller of subscribe does; a second call with the same key returns *)
(* at once and changes nothing.                                            *)
(***************************************************************************)
EXTENDS Integers, Sequences

CONSTANTS Subscriber,   \* subscriber keys of this topic
          MaxMessages,  \* bound: messages published
          MaxFaults,    \* bound: connection faults
          MaxCrashes    \* bound: crashes of the process

ASSUME BusAssumption ==
    MaxMessages \in Nat /\ MaxFaults \in Nat /\ MaxCrashes \in Nat

VARIABLES last,     \* the newest message of the stream, 0 when it is empty
          pc,       \* where the loop of each subscriber is
          active,   \* activeSubscribers
          cursor,   \* lastSeenId: a message, or Dollar
          batch,    \* messages of the current XREAD result not handled yet: <<first, last>>
          seen,     \* history: the messages whose callback has run
          runStart, \* history: Len(seen) when the subscriber was last subscribed
          since,    \* history: the newest message when the first XREAD was served
          faults, crashes

vars == <<last, pc, active, cursor, batch, seen, runStart, since, faults, crashes>>

Dollar == 0
NoBatch == <<1, 0>>
NotYet == -1
Location == {"stopped", "poll", "blocked", "replied", "handling", "backoff"}

\* The first XREAD of a loop fixes what "the tail of the stream" means.
SinceOf(s) == IF since[s] = NotYet THEN last ELSE since[s]

Init ==
    /\ last = 0
    /\ pc = [s \in Subscriber |-> "stopped"]
    /\ active = [s \in Subscriber |-> FALSE]
    /\ cursor = [s \in Subscriber |-> Dollar]
    /\ batch = [s \in Subscriber |-> NoBatch]
    /\ seen = [s \in Subscriber |-> <<>>]
    /\ runStart = [s \in Subscriber |-> 0]
    /\ since = [s \in Subscriber |-> NotYet]
    /\ faults = 0
    /\ crashes = 0

\* XADD.  Redis answers every XREAD that waits on the stream with the new message.
Publish ==
    LET n == last + 1
    IN  /\ last < MaxMessages
        /\ last' = n
        /\ pc' = [s \in Subscriber |-> IF pc[s] = "blocked" THEN "replied" ELSE pc[s]]
        /\ batch' = [s \in Subscriber |-> IF pc[s] = "blocked" THEN <<n, n>> ELSE batch[s]]
        /\ UNCHANGED <<active, cursor, seen, runStart, since, faults, crashes>>

\* subscribe: a fresh loop starts from "$".
Subscribe(s) ==
    /\ ~active[s]
    /\ pc[s] = "stopped"
    /\ active' = [active EXCEPT ![s] = TRUE]
    /\ pc' = [pc EXCEPT ![s] = "poll"]
    /\ cursor' = [cursor EXCEPT ![s] = Dollar]
    /\ runStart' = [runStart EXCEPT ![s] = Len(seen[s])]
    /\ since' = [since EXCEPT ![s] = NotYet]
    /\ UNCHANGED <<last, batch, seen, faults, crashes>>

\* XREAD BLOCK with nothing after lastSeenId: the client waits for the next message.
Block(s) ==
    /\ pc[s] = "poll"
    /\ cursor[s] \in {Dollar, last}
    /\ pc' = [pc EXCEPT ![s] = "blocked"]
    /\ since' = [since EXCEPT ![s] = SinceOf(s)]
    /\ UNCHANGED <<last, active, cursor, batch, seen, runStart, faults, crashes>>

\* Slip: lastSeenId itself is read again.
ReadBacklogInclusive(s) ==
    /\ pc[s] = "poll"
    /\ cursor[s] # Dollar
    /\ cursor[s] < last
    /\ pc' = [pc EXCEPT ![s] = "replied"]
    /\ batch' = [batch EXCEPT ![s] = <<cursor[s], last>>]
    /\ UNCHANGED <<last, active, cursor, seen, runStart, since, faults, crashes>>

\* XREAD with a backlog: everything after lastSeenId is returned at once.
ReadBacklog(s) ==
    /\ pc[s] = "poll"
    /\ cursor[s] # Dollar
    /\ cursor[s] < last
    /\ pc' = [pc EXCEPT ![s] = "replied"]
    /\ batch' = [batch EXCEPT ![s] = <<cursor[s] + 1, last>>]
    /\ UNCHANGED <<last, active, cursor, seen, runStart, since, faults, crashes>>

\* 2000 ms without a message: the loop asks again with the same lastSeenId.
Timeout(s) ==
    /\ pc[s] = "blocked"
    /\ pc' = [pc EXCEPT ![s] = "poll"]
    /\ UNCHANGED <<last, active, cursor, batch, seen, runStart, since, faults, crashes>>

\* The reply reaches the process.
Receive(s) ==
    /\ pc[s] = "replied"
    /\ pc' = [pc EXCEPT ![s] = "handling"]
    /\ UNCHANGED <<last, active, cursor, batch, seen, runStart, since, faults, crashes>>

\* Slip: lastSeenId is not advanced.
HandleInPlace(s) ==
    LET m == batch[s][1]
        done == m = batch[s][2]
    IN  /\ pc[s] = "handling"
        /\ seen' = [seen EXCEPT ![s] = Append(@, m)]
        /\ batch' = [batch EXCEPT ![s] = IF done THEN NoBatch ELSE <<m + 1, @[2]>>]
        /\ pc' = [pc EXCEPT ![s] = IF ~done THEN "handling"
                                   ELSE IF active[s] THEN "poll" ELSE "stopped"]
        /\ UNCHANGED <<last, active, cursor, runStart, since, faults, crashes>>

\* The callback of the next message of the batch ends, well or badly; the loop looks at
\* activeSubscribers only when the batch is done.
Handle(s) ==
    LET m == batch[s][1]
        done == m = batch[s][2]
    IN  /\ pc[s] = "handling"
        /\ seen' = [seen EXCEPT ![s] = Append(@, m)]
        /\ cursor' = [cursor EXCEPT ![s] = m]
        /\ batch' = [batch EXCEPT ![s] = IF done THEN NoBatch ELSE <<m + 1, @[2]>>]
        /\ pc' = [pc EXCEPT ![s] = IF ~done THEN "handling"
                                   ELSE IF active[s] THEN "poll" ELSE "stopped"]
        /\ UNCHANGED <<last, active, runStart, since, faults, crashes>>

\* The connection breaks under an XREAD: its reply, if there was one, is lost.
ConnectionLost(s) ==
    /\ pc[s] \in {"poll", "blocked", "replied"}
    /\ faults < MaxFaults
    /\ faults' = faults + 1
    /\ pc' = [pc EXCEPT ![s] = "backoff"]
    /\ batch' = [batch EXCEPT ![s] = NoBatch]
    /\ UNCHANGED <<last, active, cursor, seen, runStart, since, crashes>>

\* Slip: an error ends the loop.
RetryStops(s) ==
    /\ pc[s] = "backoff"
    /\ pc' = [pc EXCEPT ![s] = "stopped"]
    /\ UNCHANGED <<last, active, cursor, batch, seen, runStart, since, faults, crashes>>

\* One second after an error the loop goes on, if it is still wanted.
Retry(s) ==
    /\ pc[s] = "backoff"
    /\ pc' = [pc EXCEPT ![s] = IF active[s] THEN "poll" ELSE "stopped"]
    /\ UNCHANGED <<last, active, cursor, batch, seen, runStart, since, faults, crashes>>

\* unsubscribe: the client is disconnected, which ends a pending XREAD, but neither a
\* callback that runs nor the rest of its batch.
Unsubscribe(s) ==
    LET reading == pc[s] \in {"poll", "blocked", "replied"}
    IN  /\ active[s]
        /\ active' = [active EXCEPT ![s] = FALSE]
        /\ pc' = [pc EXCEPT ![s] = IF reading THEN "stopped" ELSE @]
        /\ batch' = [batch EXCEPT ![s] = IF reading THEN NoBatch ELSE @]
        /\ UNCHANGED <<last, cursor, seen, runStart, since, faults, crashes>>

\* The process dies; the stream survives in Redis.
Crash ==
    /\ crashes < MaxCrashes
    /\ crashes' = crashes + 1
    /\ active' = [s \in Subscriber |-> FALSE]
    /\ pc' = [s \in Subscriber |-> "stopped"]
    /\ batch' = [s \in Subscriber |-> NoBatch]
    /\ UNCHANGED <<last, cursor, seen, runStart, since, faults>>

Loop(s) == Block(s) \/ ReadBacklog(s) \/ Receive(s) \/ Handle(s) \/ Retry(s)

Next ==
    \/ Publish
    \/ Crash
    \/ \E s \in Subscriber :
         Subscribe(s) \/ Loop(s) \/ Timeout(s) \/ ConnectionLost(s) \/ Unsubscribe(s)

\* The event loop keeps running a subscriber's loop; callbacks end.
Spec == Init /\ [][Next]_vars /\ \A s \in Subscriber : WF_vars(Loop(s))

-----------------------------------------------------------------------------
TypeOK ==
    /\ last \in 0..MaxMessages
    /\ pc \in [Subscriber -> Location]
    /\ active \in [Subscriber -> BOOLEAN]
    /\ cursor \in [Subscriber -> 0..last]
    /\ batch \in [Subscriber -> Nat \X Nat]
    /\ seen \in [Subscriber -> Seq(1..last)]
    /\ runStart \in [Subscriber -> Nat]
    /\ since \in [Subscriber -> {NotYet} \cup 0..last]
    /\ faults \in 0..MaxFaults
    /\ crashes \in 0..MaxCrashes

\* No message reaches a callback twice or after a newer one, whatever the faults, the
\* crashes and the restarts: delivery is at most once and in stream order.
AtMostOnceInOrder ==
    \A s \in Subscriber : \A j, k \in 1..Len(seen[s]) : j < k => seen[s][j] < seen[s][k]

\* Once a loop has handled its first message it skips none: timeouts and connection
\* faults lose nothing from then on.
GapFreeAfterFirst ==
    \A s \in Subscriber : \A k \in runStart[s] + 1 .. Len(seen[s]) - 1 :
        seen[s][k + 1] = seen[s][k] + 1

\* Everything published after a loop's first message is handled, unless the loop is ended.
BacklogIsHandled ==
    \A s \in Subscriber, m \in 1..MaxMessages :
        (active[s] /\ cursor[s] # Dollar /\ m > cursor[s] /\ m <= last)
            ~> (cursor[s] >= m \/ ~active[s])

\* eventBus.ts:57 says that a loop starts at the tail of the stream when it is
\* initialised: the first message it handles is the one after that tail.
StartsAtTail ==
    \A s \in Subscriber :
        Len(seen[s]) > runStart[s] => seen[s][runStart[s] + 1] = since[s] + 1
=============================================================================
