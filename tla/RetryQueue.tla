------------------------------ MODULE RetryQueue ------------------------------
(***************************************************************************)
(* The retry queue (retryQueue.ts): jobs wait in a Redis sorted set, a     *)
(* timer starts a poll every half second whether or not the last one has   *)
(* ended, and every poll takes the due jobs one after the other, runs      *)
(* their handlers, and puts them back or into the dead letter queue.       *)
(* Members of the set are the JSON of the job, so a job with another       *)
(* number of attempts is another member.  Scores are abstracted to being   *)
(* due or not; every job has a type of its own.                            *)
(***************************************************************************)
EXTENDS Integers, Sequences, FiniteSets

CONSTANTS Job,
          Poller,        \* bounds the polls that overlap
          MaxAttempts,   \* the budget of every job
          Limit,         \* how many members a poll asks for
          Keep,          \* how many entries the Redis dead letter list keeps
          MaxResends, MaxCrashes

ASSUME RetryAssumption ==
    /\ {MaxAttempts, Limit, Keep} \subseteq Nat \ {0}
    /\ MaxResends \in Nat /\ MaxCrashes \in Nat

VARIABLES queue,      \* members of the sorted set
          due,        \* those whose time has come
          running,    \* workerRunning, with its interval
          handlers,   \* types with a handler
          pc,         \* where each poll is
          batch,      \* members it has read and not tried yet
          hand,       \* the job it has taken out of the set, if any
          deadLetters,\* the Redis list
          table,      \* dead_letter_events
          runs,       \* history: calls of each job's handler
          outcome,    \* history: how each job ended
          resends, crashes

vars == <<queue, due, running, handlers, pc, batch, hand, deadLetters, table, runs, outcome, resends, crashes>>
redis == <<queue, due, deadLetters>>
worker == <<running, handlers>>
history == <<runs, outcome>>
faults == <<resends, crashes>>

Member == [job : Job, attempts : 0..MaxAttempts]
Step == {"idle", "claiming", "claimed", "running", "requeueing",
         "exhausted", "unhandled", "trimming", "storing"}   \* the last four in sendToDeadLetter
Outcome == {"unknown", "open", "done", "exhausted", "unhandled", "lost"}
Row == [job : Job, attempts : 0..MaxAttempts, error : Outcome]

TypeOK ==
    /\ queue \subseteq Member /\ due \subseteq queue
    /\ running \in BOOLEAN /\ handlers \subseteq Job
    /\ pc \in [Poller -> Step]
    /\ batch \in [Poller -> SUBSET Member]
    /\ hand \in [Poller -> SUBSET Member]
    /\ deadLetters \in Seq(Job)
    /\ table \subseteq Row
    /\ runs \in [Job -> Nat]
    /\ outcome \in [Job -> Outcome]
    /\ resends \in 0..MaxResends /\ crashes \in 0..MaxCrashes

Init ==
    /\ queue = {} /\ due = {} /\ running = FALSE /\ handlers = {}
    /\ pc = [p \in Poller |-> "idle"]
    /\ batch = [p \in Poller |-> {}] /\ hand = [p \in Poller |-> {}]
    /\ deadLetters = <<>> /\ table = {}
    /\ runs = [j \in Job |-> 0] /\ outcome = [j \in Job |-> "unknown"]
    /\ resends = 0 /\ crashes = 0

-----------------------------------------------------------------------------
RegisterHandler(j) ==
    /\ j \notin handlers
    /\ handlers' = handlers \cup {j}
    /\ UNCHANGED <<redis, running, pc, batch, hand, table, history, faults>>

\* enqueue, with an initial delay or without.
Enqueue(j) ==
    /\ outcome[j] = "unknown"
    /\ outcome' = [outcome EXCEPT ![j] = "open"]
    /\ queue' = queue \cup {[job |-> j, attempts |-> 0]}
    /\ due' \in {due, due \cup {[job |-> j, attempts |-> 0]}}
    /\ UNCHANGED <<worker, pc, batch, hand, deadLetters, table, runs, faults>>

BackoffElapses(m) ==
    /\ m \in queue \ due
    /\ due' = due \cup {m}
    /\ UNCHANGED <<queue, worker, pc, batch, hand, deadLetters, table, history, faults>>

StartWorker == ~running /\ running' = TRUE /\ UNCHANGED <<redis, handlers, pc, batch, hand, table, history, faults>>

\* stopWorker clears the interval; the polls under way go on.
StopWorker == running /\ running' = FALSE /\ UNCHANGED <<redis, handlers, pc, batch, hand, table, history, faults>>

\* The interval fires and ZRANGEBYSCORE answers with at most Limit due members.
Poll(p) ==
    /\ running /\ pc[p] = "idle" /\ due # {}
    /\ \E found \in SUBSET due :
         /\ Cardinality(found) = IF Cardinality(due) < Limit THEN Cardinality(due) ELSE Limit
         /\ batch' = [batch EXCEPT ![p] = found]
    /\ pc' = [pc EXCEPT ![p] = "claiming"]
    /\ UNCHANGED <<redis, worker, hand, table, history, faults>>

\* Where a poll goes on after a member: to the next one, or it returns.
Continue(p) == pc' = [pc EXCEPT ![p] = IF batch'[p] = {} THEN "idle" ELSE "claiming"]

\* ZREM answers 1, and the job is this poll's.
Claim(p, m) ==
    /\ pc[p] = "claiming" /\ m \in batch[p] \cap queue
    /\ batch' = [batch EXCEPT ![p] = @ \ {m}]
    /\ queue' = queue \ {m} /\ due' = due \ {m}
    /\ hand' = [hand EXCEPT ![p] = {m}]
    /\ pc' = [pc EXCEPT ![p] = "claimed"]
    /\ UNCHANGED <<worker, deadLetters, table, history, faults>>

\* Slip: the answer of ZREM is not looked at.
MissedAnyway(p, m) ==
    /\ pc[p] = "claiming" /\ m \in batch[p] \ queue
    /\ batch' = [batch EXCEPT ![p] = @ \ {m}]
    /\ hand' = [hand EXCEPT ![p] = {m}]
    /\ pc' = [pc EXCEPT ![p] = "claimed"]
    /\ UNCHANGED <<redis, worker, table, history, faults>>

\* ZREM answers 0: another poll took it.
Missed(p, m) ==
    /\ pc[p] = "claiming" /\ m \in batch[p] \ queue
    /\ batch' = [batch EXCEPT ![p] = @ \ {m}]
    /\ Continue(p)
    /\ UNCHANGED <<redis, worker, hand, table, history, faults>>

\* The connection breaks after ZREM was executed; the client sends it again and is told 0.
ClaimResent(p, m) ==
    /\ pc[p] = "claiming" /\ m \in batch[p] \cap queue /\ resends < MaxResends
    /\ resends' = resends + 1
    /\ batch' = [batch EXCEPT ![p] = @ \ {m}]
    /\ queue' = queue \ {m} /\ due' = due \ {m}
    /\ outcome' = [outcome EXCEPT ![m.job] = "lost"]
    /\ Continue(p)
    /\ UNCHANGED <<worker, hand, deadLetters, table, runs, crashes>>

\* processJob calls the handler with one more attempt on the count.
CallHandler(p) ==
    /\ pc[p] = "claimed"
    /\ \E m \in hand[p] :
         /\ m.job \in handlers
         /\ hand' = [hand EXCEPT ![p] = {[m EXCEPT !.attempts = @ + 1]}]
         /\ runs' = [runs EXCEPT ![m.job] = @ + 1]
    /\ pc' = [pc EXCEPT ![p] = "running"]
    /\ UNCHANGED <<redis, worker, batch, table, outcome, faults>>

NoHandler(p) ==
    /\ pc[p] = "claimed" /\ \E m \in hand[p] : m.job \notin handlers
    /\ pc' = [pc EXCEPT ![p] = "unhandled"]
    /\ UNCHANGED <<redis, worker, batch, hand, table, history, faults>>

HandlerSucceeds(p) ==
    /\ pc[p] = "running"
    /\ outcome' = [j \in Job |-> IF \E m \in hand[p] : m.job = j THEN "done" ELSE outcome[j]]
    /\ hand' = [hand EXCEPT ![p] = {}]
    /\ batch' = batch
    /\ Continue(p)
    /\ UNCHANGED <<redis, worker, table, runs, faults>>

\* Slip: one attempt too many.
HandlerFailsLate(p) ==
    /\ pc[p] = "running"
    /\ pc' = [pc EXCEPT ![p] = IF \E m \in hand[p] : m.attempts > MaxAttempts THEN "exhausted" ELSE "requeueing"]
    /\ UNCHANGED <<redis, worker, batch, hand, table, history, faults>>

HandlerFails(p) ==
    /\ pc[p] = "running"
    /\ pc' = [pc EXCEPT ![p] = IF \E m \in hand[p] : m.attempts >= MaxAttempts THEN "exhausted" ELSE "requeueing"]
    /\ UNCHANGED <<redis, worker, batch, hand, table, history, faults>>

\* Slip: the job is not put back.
RequeueForgotten(p) ==
    /\ pc[p] = "requeueing"
    /\ hand' = [hand EXCEPT ![p] = {}]
    /\ batch' = batch
    /\ Continue(p)
    /\ UNCHANGED <<redis, worker, table, history, faults>>

\* ZADD with the backoff; sent again after a broken connection it changes nothing.
Requeue(p) ==
    /\ pc[p] = "requeueing"
    /\ queue' = queue \cup hand[p]
    /\ hand' = [hand EXCEPT ![p] = {}]
    /\ batch' = batch
    /\ Continue(p)
    /\ UNCHANGED <<due, worker, deadLetters, table, history, faults>>

\* sendToDeadLetter: LPUSH (twice, if it is sent again) ...
Bury(p) ==
    /\ pc[p] \in {"exhausted", "unhandled"}
    /\ \E m \in hand[p] :
         /\ outcome' = [outcome EXCEPT ![m.job] = pc[p]]
         /\ \/ deadLetters' = <<m.job>> \o deadLetters /\ UNCHANGED resends
            \/ /\ resends < MaxResends /\ resends' = resends + 1
               /\ deadLetters' = <<m.job, m.job>> \o deadLetters
    /\ pc' = [pc EXCEPT ![p] = "trimming"]
    /\ UNCHANGED <<queue, due, worker, batch, hand, table, runs, crashes>>

\* ... LTRIM ...
Trim(p) ==
    /\ pc[p] = "trimming"
    /\ deadLetters' = SubSeq(deadLetters, 1, IF Len(deadLetters) < Keep THEN Len(deadLetters) ELSE Keep)
    /\ pc' = [pc EXCEPT ![p] = "storing"]
    /\ UNCHANGED <<queue, due, worker, batch, hand, table, history, faults>>

\* ... and the row, whose failure is only logged.
Store(p) ==
    /\ pc[p] = "storing"
    /\ \E m \in hand[p] :
         table' \in {table, table \cup {[job |-> m.job, attempts |-> m.attempts, error |-> outcome[m.job]]}}
    /\ hand' = [hand EXCEPT ![p] = {}]
    /\ batch' = batch
    /\ Continue(p)
    /\ UNCHANGED <<redis, worker, history, faults>>

\* The process ends, by itself or because a Redis command failed in a poll (nobody
\* catches that); what its polls had in hand goes with it.
Crash ==
    /\ crashes < MaxCrashes
    /\ crashes' = crashes + 1
    /\ running' = FALSE /\ handlers' = {}
    /\ pc' = [p \in Poller |-> "idle"]
    /\ batch' = [p \in Poller |-> {}] /\ hand' = [p \in Poller |-> {}]
    /\ outcome' = [j \in Job |->
         IF outcome[j] = "open" /\ \E p \in Poller : \E m \in hand[p] : m.job = j THEN "lost" ELSE outcome[j]]
    /\ UNCHANGED <<redis, table, runs, resends>>

ProcessJob(p) ==
    \/ CallHandler(p) \/ NoHandler(p) \/ HandlerSucceeds(p) \/ HandlerFails(p)
    \/ Requeue(p) \/ Bury(p) \/ Trim(p) \/ Store(p)

ProcessDueJobs(p) ==
    \/ Poll(p) \/ ProcessJob(p)
    \/ \E m \in Member : Claim(p, m) \/ Missed(p, m) \/ ClaimResent(p, m)

Next ==
    \/ \E j \in Job : RegisterHandler(j) \/ Enqueue(j)
    \/ \E m \in Member : BackoffElapses(m)
    \/ StartWorker \/ StopWorker \/ Crash
    \/ \E p \in Poller : ProcessDueJobs(p)

\* Time passes, the interval fires, Redis and PostgreSQL answer and handlers end.
Fairness ==
    /\ \A m \in Member : WF_vars(BackoffElapses(m))
    /\ \A p \in Poller : WF_vars(ProcessDueJobs(p))

Spec == Init /\ [][Next]_vars /\ Fairness

-----------------------------------------------------------------------------
MembersOf(j) == {m \in queue : m.job = j}
HoldersOf(j) == {p \in Poller : \E m \in hand[p] : m.job = j}

\* A job that has not ended is in exactly one place, as one member of the set or in the
\* hand of one poll, and one that has ended is not in the set and with nobody but
\* the poll that is burying it: polls that overlap neither share a job nor drop one, and
\* only a crash and an answer lost with the connection lose one.
OnePlace ==
    \A j \in Job :
      /\ outcome[j] = "open" =>
           \/ HoldersOf(j) = {} /\ \E m \in queue : MembersOf(j) = {m}
           \/ MembersOf(j) = {} /\ \E p \in Poller : HoldersOf(j) = {p}
      /\ outcome[j] # "open" =>
           /\ MembersOf(j) = {}
           /\ \A p \in HoldersOf(j) : outcome[j] \in {"exhausted", "unhandled"} /\ pc[p] \in {"trimming", "storing"}

\* The attempts on the record are the calls of the handler, wherever the job is; no
\* handler is called more often than its budget, and a job is buried for its failures
\* only when the budget is spent.
BudgetKept ==
    /\ \A m \in queue : runs[m.job] = m.attempts /\ m.attempts < MaxAttempts
    /\ \A p \in Poller : \A m \in hand[p] : runs[m.job] = m.attempts
    /\ \A r \in table : runs[r.job] = r.attempts
    /\ \A j \in Job : runs[j] <= MaxAttempts /\ (outcome[j] = "exhausted" => runs[j] = MaxAttempts)

\* Every job ends, done, dead-lettered or lost, as long as the worker is not stopped for good.
EveryJobEnds == \A j \in Job : [](outcome[j] = "open" => <>(outcome[j] # "open" \/ ~running))
================================================================================
