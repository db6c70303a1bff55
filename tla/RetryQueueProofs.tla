--------------------------- MODULE RetryQueueProofs ---------------------------
(***************************************************************************)
(* Overlapping polls of the retry queue neither share nor drop a job, and  *)
(* no handler is called beyond its budget, for any number of jobs, polls,  *)
(* crashes and lost answers and any budget.                                *)
(*                                                                         *)
(* A poll is described by what it has in hand at each place of processJob; *)
(* two polls have different jobs in hand, and a job in hand is not in the  *)
(* set.  ZREM makes the difference: it moves a member from the set into    *)
(* one hand, and ZADD moves it back with the attempts counted so far.      *)
(***************************************************************************)
EXTENDS RetryQueue, SequenceTheorems, TLAPS

Free == {"idle", "claiming"}
Buried == {"trimming", "storing"}
Dead == {"exhausted", "unhandled"}

\* What poll p has in hand.
HandOK(p) ==
    /\ pc[p] \in Free => hand[p] = {}
    /\ pc[p] \notin Free => \E m \in Member : hand[p] = {m}
    /\ \A m \in hand[p] :
         /\ runs[m.job] = m.attempts
         /\ pc[p] \in {"claimed", "requeueing", "unhandled"} => m.attempts < MaxAttempts
         /\ pc[p] = "exhausted" => m.attempts = MaxAttempts
         /\ pc[p] \in Buried => outcome[m.job] \in Dead
         /\ pc[p] \notin Buried => outcome[m.job] = "open"

HandsApart == \A p, q \in Poller : \A m \in hand[p], n \in hand[q] : m.job = n.job => p = q

QueueOK ==
    \A m \in queue :
      /\ runs[m.job] = m.attempts /\ m.attempts < MaxAttempts /\ outcome[m.job] = "open"
      /\ \A n \in queue : n.job = m.job => n = m
      /\ \A p \in Poller : \A n \in hand[p] : n.job # m.job

JobOK(j) ==
    /\ outcome[j] = "unknown" => runs[j] = 0
    /\ outcome[j] = "exhausted" => runs[j] = MaxAttempts
    /\ runs[j] <= MaxAttempts
    /\ outcome[j] = "open" => \/ \E m \in queue : m.job = j
                              \/ \E p \in Poller : \E m \in hand[p] : m.job = j

TableOK == \A r \in table : outcome[r.job] \in Dead /\ runs[r.job] = r.attempts

Placed ==
    /\ \A p \in Poller : HandOK(p)
    /\ HandsApart /\ QueueOK /\ TableOK
    /\ \A j \in Job : JobOK(j)

RetryInv == TypeOK /\ Placed

-----------------------------------------------------------------------------
LEMMA RetryStarts == Init => RetryInv
<1> SUFFICES ASSUME Init PROVE RetryInv
  OBVIOUS
<1>1. TypeOK
  <2>1. 0 \in 0..MaxResends /\ 0 \in 0..MaxCrashes
    BY RetryAssumption
  <2>2. deadLetters \in Seq(Job) /\ table \subseteq Row
    BY EmptySeq DEF Init
  <2> QED
    BY <2>1, <2>2 DEF Init, TypeOK, Step, Outcome
<1>2. Placed
  BY RetryAssumption DEF Init, Placed, HandOK, HandsApart, QueueOK, TableOK, JobOK, Free
<1> QED
  BY <1>1, <1>2 DEF RetryInv

\* Adding in front and trimming keep the dead letter list a sequence of jobs.
LEMMA DeadLettersTyped ==
  ASSUME deadLetters \in Seq(Job), NEW p \in Poller, Bury(p) \/ Trim(p),
         hand[p] \subseteq Member
  PROVE  deadLetters' \in Seq(Job)
<1>1. ASSUME Bury(p)
      PROVE  deadLetters' \in Seq(Job)
  <2>1. PICK m \in hand[p] : \/ deadLetters' = <<m.job>> \o deadLetters
                             \/ deadLetters' = <<m.job, m.job>> \o deadLetters
    BY <1>1 DEF Bury
  <2>2. m.job \in Job
    BY DEF Member
  <2>3. <<m.job>> \in Seq(Job) /\ <<m.job, m.job>> \in Seq(Job)
    BY <2>2
  <2> QED
    BY <2>1, <2>3, ConcatProperties, ZenonT(60)
<1>2. ASSUME Trim(p)
      PROVE  deadLetters' \in Seq(Job)
  <2>1. /\ Len(deadLetters) \in Nat /\ Keep \in Nat \ {0}
        /\ deadLetters' = SubSeq(deadLetters, 1, IF Len(deadLetters) < Keep THEN Len(deadLetters) ELSE Keep)
    BY <1>2, RetryAssumption, LenProperties DEF Trim
  <2> DEFINE n == IF Len(deadLetters) < Keep THEN Len(deadLetters) ELSE Keep
  <2>2. n \in 0..Len(deadLetters)
    BY <2>1
  <2>3. \A i \in 1..n : deadLetters[i] \in Job
    BY <2>1, <2>2, ElementOfSeq
  <2> QED
    BY <2>1, <2>2, <2>3, SubSeqProperties
<1> QED
  BY <1>1, <1>2

\* A step keeps the types.
LEMMA RetryStepTyped ==
  ASSUME TypeOK, Placed, [Next]_vars
  PROVE  TypeOK'
<1> USE DEF TypeOK, redis, worker, history, faults
<1>1. ASSUME NEW j \in Job, RegisterHandler(j)
      PROVE  TypeOK'
  BY <1>1 DEF RegisterHandler
<1>2. ASSUME NEW j \in Job, Enqueue(j)
      PROVE  TypeOK'
  <2>1. [job |-> j, attempts |-> 0] \in Member
    BY RetryAssumption DEF Member
  <2> QED
    BY <1>2, <2>1 DEF Enqueue, Outcome
<1>3. ASSUME NEW m \in Member, BackoffElapses(m)
      PROVE  TypeOK'
  BY <1>3 DEF BackoffElapses
<1>4. CASE StartWorker
  BY <1>4 DEF StartWorker
<1>5. CASE StopWorker
  BY <1>5 DEF StopWorker
<1>6. CASE Crash
  <2>1. crashes' \in 0..MaxCrashes
    BY <1>6, RetryAssumption DEF Crash
  <2> QED
    BY <1>6, <2>1 DEF Crash, Outcome, Step
<1>7. ASSUME NEW p \in Poller, Poll(p)
      PROVE  TypeOK'
  BY <1>7 DEF Poll, Step
<1>8. ASSUME NEW p \in Poller, NEW m \in Member, Claim(p, m)
      PROVE  TypeOK'
  BY <1>8 DEF Claim, Step
<1>9. ASSUME NEW p \in Poller, NEW m \in Member, Missed(p, m)
      PROVE  TypeOK'
  BY <1>9 DEF Missed, Continue, Step
<1>10. ASSUME NEW p \in Poller, NEW m \in Member, ClaimResent(p, m)
       PROVE  TypeOK'
  <2>1. resends' \in 0..MaxResends
    BY <1>10, RetryAssumption DEF ClaimResent
  <2>2. m.job \in Job /\ outcome' = [outcome EXCEPT ![m.job] = "lost"]
    BY <1>10 DEF ClaimResent, Member
  <2> QED
    BY <1>10, <2>1, <2>2 DEF ClaimResent, Continue, Step, Outcome
<1>11. ASSUME NEW p \in Poller, CallHandler(p)
       PROVE  TypeOK'
  <2>1. PICK m \in hand[p] : /\ hand' = [hand EXCEPT ![p] = {[m EXCEPT !.attempts = @ + 1]}]
                             /\ runs' = [runs EXCEPT ![m.job] = @ + 1]
    BY <1>11 DEF CallHandler
  <2>2. m \in Member /\ m.attempts < MaxAttempts
    BY <1>11 DEF CallHandler, Placed, HandOK
  <2>3. [m EXCEPT !.attempts = @ + 1] \in Member /\ m.job \in Job
    <3>1. m.job \in Job /\ m.attempts \in 0..MaxAttempts /\ MaxAttempts \in Nat
      BY <2>2, RetryAssumption DEF Member
    <3>2. m.attempts + 1 \in 0..MaxAttempts
      BY <2>2, <3>1
    <3> QED
      BY <2>2, <3>1, <3>2 DEF Member
  <2>4. runs' \in [Job -> Nat] /\ hand' \in [Poller -> SUBSET Member]
    BY <2>1, <2>3
  <2> QED
    BY <1>11, <2>4 DEF CallHandler, Step
<1>12. ASSUME NEW p \in Poller, NoHandler(p)
       PROVE  TypeOK'
  BY <1>12 DEF NoHandler, Step
<1>13. ASSUME NEW p \in Poller, HandlerSucceeds(p)
       PROVE  TypeOK'
  BY <1>13 DEF HandlerSucceeds, Continue, Step, Outcome
<1>14. ASSUME NEW p \in Poller, HandlerFails(p)
       PROVE  TypeOK'
  BY <1>14 DEF HandlerFails, Step
<1>15. ASSUME NEW p \in Poller, Requeue(p)
       PROVE  TypeOK'
  BY <1>15 DEF Requeue, Continue, Step
<1>16. ASSUME NEW p \in Poller, Bury(p)
       PROVE  TypeOK'
  <2>1. deadLetters' \in Seq(Job)
    BY <1>16, DeadLettersTyped
  <2>2. resends' \in 0..MaxResends
    BY <1>16, RetryAssumption DEF Bury
  <2>3. pc[p] \in Outcome /\ \E m \in hand[p] : outcome' = [outcome EXCEPT ![m.job] = pc[p]]
    BY <1>16 DEF Bury, Outcome
  <2>4. outcome' \in [Job -> Outcome]
    BY <2>3
  <2> QED
    BY <1>16, <2>1, <2>2, <2>4 DEF Bury, Step
<1>17. ASSUME NEW p \in Poller, Trim(p)
       PROVE  TypeOK'
  <2>1. deadLetters' \in Seq(Job)
    BY <1>17, DeadLettersTyped
  <2> QED
    BY <1>17, <2>1 DEF Trim, Step
<1>18. ASSUME NEW p \in Poller, Store(p)
       PROVE  TypeOK'
  <2>1. PICK m \in hand[p] :
          table' \in {table, table \cup {[job |-> m.job, attempts |-> m.attempts, error |-> outcome[m.job]]}}
    BY <1>18 DEF Store
  <2>2. m.job \in Job /\ m.attempts \in 0..MaxAttempts /\ outcome[m.job] \in Outcome
    BY DEF Member
  <2>3. table' \subseteq Row
    BY <2>1, <2>2 DEF Row
  <2> QED
    BY <1>18, <2>3 DEF Store, Continue, Step
<1>19. CASE UNCHANGED vars
  BY <1>19 DEF vars
<1> QED
  BY <1>1, <1>2, <1>3, <1>4, <1>5, <1>6, <1>7, <1>8, <1>9, <1>10, <1>11, <1>12, <1>13, <1>14,
     <1>15, <1>16, <1>17, <1>18, <1>19
     DEF Next, ProcessDueJobs, ProcessJob

-----------------------------------------------------------------------------
\* What the placement of jobs depends on.
places == <<queue, pc, hand, table, runs, outcome>>

LEMMA RetryStepElsewhere ==
  ASSUME Placed, UNCHANGED places
  PROVE  Placed'
BY DEF Placed, places, HandOK, HandsApart, QueueOK, TableOK, JobOK

\* A poll with empty hands may begin, go on or return.
LEMMA RetryStepFree ==
  ASSUME TypeOK, Placed, NEW p \in Poller, pc[p] \in Free, NEW step \in Free,
         pc' = [pc EXCEPT ![p] = step], UNCHANGED <<queue, hand, table, runs, outcome>>
  PROVE  Placed'
<1>1. ASSUME NEW q \in Poller
      PROVE  HandOK(q)'
  <2>1. HandOK(q) /\ hand'[q] = hand[q] /\ pc \in [Poller -> Step]
    BY DEF Placed, TypeOK
  <2>2. CASE q = p
    BY <2>1, <2>2 DEF HandOK
  <2>3. CASE q # p
    BY <2>1, <2>3 DEF HandOK
  <2> QED
    BY <2>2, <2>3
<1>2. (HandsApart /\ QueueOK /\ TableOK)' /\ \A j \in Job : JobOK(j)'
  BY DEF Placed, HandsApart, QueueOK, TableOK, JobOK
<1> QED
  BY <1>1, <1>2 DEF Placed

\* A poll that has a job in hand may move on with it, if what it has fits the next place.
LEMMA RetryStepHolding ==
  ASSUME TypeOK, Placed, NEW p \in Poller, pc[p] \notin Free, NEW step \in Step \ Free,
         pc' = [pc EXCEPT ![p] = step], UNCHANGED <<queue, hand, table, runs, outcome>>,
         pc[p] \in Buried <=> step \in Buried,
         \A m \in hand[p] : /\ step \in {"claimed", "requeueing", "unhandled"} => m.attempts < MaxAttempts
                            /\ step = "exhausted" => m.attempts = MaxAttempts
  PROVE  Placed'
<1>1. ASSUME NEW q \in Poller
      PROVE  HandOK(q)'
  <2>1. HandOK(q) /\ hand'[q] = hand[q] /\ pc \in [Poller -> Step]
    BY DEF Placed, TypeOK
  <2>2. CASE q = p
    BY <2>1, <2>2 DEF HandOK
  <2>3. CASE q # p
    BY <2>1, <2>3 DEF HandOK
  <2> QED
    BY <2>2, <2>3
<1>2. (HandsApart /\ QueueOK /\ TableOK)' /\ \A j \in Job : JobOK(j)'
  BY DEF Placed, HandsApart, QueueOK, TableOK, JobOK
<1> QED
  BY <1>1, <1>2 DEF Placed

\* A poll that ends with a job puts it down; the job is then in the set or has ended.
LEMMA RetryStepPutDown ==
  ASSUME TypeOK, Placed, NEW p \in Poller, NEW m \in Member, hand[p] = {m},
         NEW step \in Free, pc' = [pc EXCEPT ![p] = step],
         hand' = [hand EXCEPT ![p] = {}], UNCHANGED runs,
         \A j \in Job \ {m.job} : outcome'[j] = outcome[j],
         outcome' \in [Job -> Outcome],
         \/ queue' = queue /\ outcome'[m.job] = "done" /\ table' = table /\ outcome[m.job] = "open"
         \/ queue' = queue /\ outcome'[m.job] = outcome[m.job] /\ outcome[m.job] \in Dead
            /\ \A r \in table' \ table : r.job = m.job /\ r.attempts = m.attempts
         \/ queue' = queue \cup {m} /\ outcome'[m.job] = outcome[m.job] /\ outcome[m.job] = "open"
            /\ m.attempts < MaxAttempts /\ table' = table
  PROVE  Placed'
<1>a. m.job \in Job /\ runs[m.job] = m.attempts
  BY DEF Placed, HandOK, Member
<1>b. \A q \in Poller : q # p => \A n \in hand[q] : n.job # m.job
  BY DEF Placed, HandsApart
<1>c. \A n \in queue : n.job # m.job
  BY DEF Placed, QueueOK
<1>d. hand \in [Poller -> SUBSET Member] /\ pc \in [Poller -> Step] /\ queue \subseteq Member /\ table \subseteq Row
  BY DEF TypeOK
<1>1. ASSUME NEW q \in Poller
      PROVE  HandOK(q)'
  <2>1. HandOK(q)
    BY DEF Placed
  <2>2. CASE q = p
    BY <1>d, <2>2 DEF HandOK, Free
  <2>3. CASE q # p
    <3>1. hand'[q] = hand[q] /\ pc'[q] = pc[q] /\ hand[q] \subseteq Member
      BY <1>d, <2>3
    <3>2. \A n \in hand[q] : outcome'[n.job] = outcome[n.job]
      BY <1>b, <2>3, <3>1 DEF Member
    <3> QED
      BY <2>1, <3>1, <3>2 DEF HandOK
  <2> QED
    BY <2>2, <2>3
<1>2. HandsApart'
  BY <1>d DEF Placed, HandsApart
<1>3. QueueOK'
  <2> SUFFICES ASSUME NEW n \in queue'
               PROVE  /\ runs[n.job] = n.attempts /\ n.attempts < MaxAttempts /\ outcome'[n.job] = "open"
                      /\ \A k \in queue' : k.job = n.job => k = n
                      /\ \A q \in Poller : \A k \in hand'[q] : k.job # n.job
    BY DEF QueueOK
  <2>1. CASE n \in queue
    <3>1. n.job \in Job \ {m.job}
      BY <1>c, <1>d, <2>1 DEF Member
    <3> QED
      BY <1>d, <2>1, <3>1 DEF Placed, QueueOK
  <2>2. CASE n \notin queue
    <3>1. n = m /\ queue' = queue \cup {m} /\ outcome'[m.job] = "open" /\ m.attempts < MaxAttempts
      BY <2>2
    <3> QED
      BY <1>a, <1>b, <1>c, <1>d, <3>1
  <2> QED
    BY <2>1, <2>2
<1>4. TableOK'
  <2> SUFFICES ASSUME NEW r \in table'
               PROVE  outcome'[r.job] \in Dead /\ runs[r.job] = r.attempts
    BY DEF TableOK
  <2>1. CASE r \in table
    <3>1. r.job \in Job /\ outcome[r.job] \in Dead /\ runs[r.job] = r.attempts
      BY <1>d, <2>1 DEF Placed, TableOK, Row
    <3>2. outcome'[r.job] = outcome[r.job]
      BY <3>1 DEF Dead
    <3> QED
      BY <3>1, <3>2
  <2>2. CASE r \notin table
    BY <1>a, <2>2
  <2> QED
    BY <2>1, <2>2
<1>5. ASSUME NEW j \in Job
      PROVE  JobOK(j)'
  <2>1. JobOK(j)
    BY DEF Placed
  <2>2. CASE j = m.job
    BY <1>a, <2>1, <2>2 DEF JobOK, Dead
  <2>3. CASE j # m.job
    <3>1. outcome'[j] = outcome[j]
      BY <2>3
    <3>2. ASSUME NEW q \in Poller, NEW n \in hand[q], n.job = j
          PROVE  n \in hand'[q]
      BY <1>d, <2>3, <3>2
    <3>3. queue \subseteq queue'
      OBVIOUS
    <3> QED
      BY <2>1, <3>1, <3>2, <3>3 DEF JobOK
  <2> QED
    BY <2>2, <2>3
<1> QED
  BY <1>1, <1>2, <1>3, <1>4, <1>5 DEF Placed

\* ZREM that answers 1 moves a member from the set into one hand.
LEMMA RetryStepClaim ==
  ASSUME TypeOK, Placed, NEW p \in Poller, NEW m \in Member, Claim(p, m)
  PROVE  Placed'
<1>1. /\ pc[p] = "claiming" /\ m \in queue /\ queue' = queue \ {m}
      /\ hand' = [hand EXCEPT ![p] = {m}] /\ pc' = [pc EXCEPT ![p] = "claimed"]
      /\ table' = table /\ runs' = runs /\ outcome' = outcome
  BY DEF Claim, history
<1>2. hand \in [Poller -> SUBSET Member] /\ pc \in [Poller -> Step] /\ hand[p] = {}
  BY <1>1 DEF TypeOK, Placed, HandOK, Free
<1>3. /\ runs[m.job] = m.attempts /\ m.attempts < MaxAttempts /\ outcome[m.job] = "open"
      /\ \A n \in queue : n.job = m.job => n = m
      /\ \A q \in Poller : \A n \in hand[q] : n.job # m.job
  BY <1>1 DEF Placed, QueueOK
<1>4. ASSUME NEW q \in Poller
      PROVE  HandOK(q)'
  <2>1. HandOK(q)
    BY DEF Placed
  <2>2. CASE q = p
    BY <1>1, <1>2, <1>3, <2>2 DEF HandOK, Free, Buried
  <2>3. CASE q # p
    BY <1>1, <1>2, <2>1, <2>3 DEF HandOK
  <2> QED
    BY <2>2, <2>3
<1>5. HandsApart'
  BY <1>1, <1>2, <1>3 DEF Placed, HandsApart
<1>6. QueueOK'
  BY <1>1, <1>2, <1>3 DEF Placed, QueueOK
<1>7. TableOK'
  BY <1>1 DEF Placed, TableOK
<1>8. ASSUME NEW j \in Job
      PROVE  JobOK(j)'
  <2>1. JobOK(j)
    BY DEF Placed
  <2>2. CASE j = m.job
    BY <1>1, <1>2, <2>1, <2>2 DEF JobOK
  <2>3. CASE j # m.job
    BY <1>1, <1>2, <2>1, <2>3 DEF JobOK
  <2> QED
    BY <2>2, <2>3
<1> QED
  BY <1>4, <1>5, <1>6, <1>7, <1>8 DEF Placed

\* ZREM whose answer is lost takes a member out of the set and gives it to nobody.
LEMMA RetryStepClaimResent ==
  ASSUME TypeOK, Placed, NEW p \in Poller, NEW m \in Member, ClaimResent(p, m)
  PROVE  Placed'
<1> DEFINE step == IF batch'[p] = {} THEN "idle" ELSE "claiming"
<1>1. /\ pc[p] = "claiming" /\ m \in queue /\ queue' = queue \ {m}
      /\ outcome' = [outcome EXCEPT ![m.job] = "lost"] /\ pc' = [pc EXCEPT ![p] = step]
      /\ hand' = hand /\ table' = table /\ runs' = runs
  BY DEF ClaimResent, Continue
<1>2. /\ hand \in [Poller -> SUBSET Member] /\ pc \in [Poller -> Step] /\ hand[p] = {}
      /\ outcome \in [Job -> Outcome] /\ m.job \in Job /\ table \subseteq Row /\ queue \subseteq Member
  BY <1>1 DEF TypeOK, Placed, HandOK, Free, Member
<1>3. /\ outcome[m.job] = "open"
      /\ \A n \in queue : n.job = m.job => n = m
      /\ \A q \in Poller : \A n \in hand[q] : n.job # m.job
  BY <1>1 DEF Placed, QueueOK
<1>s. step \in Free
  BY DEF Free
<1> HIDE DEF step
<1>4. ASSUME NEW q \in Poller
      PROVE  HandOK(q)'
  <2>1. HandOK(q)
    BY DEF Placed
  <2>2. CASE q = p
    BY <1>1, <1>2, <1>s, <2>2 DEF HandOK
  <2>3. CASE q # p
    <3>1. \A n \in hand[q] : outcome'[n.job] = outcome[n.job]
      BY <1>1, <1>2, <1>3 DEF Member
    <3> QED
      BY <1>1, <1>2, <2>1, <2>3, <3>1 DEF HandOK
  <2> QED
    BY <2>2, <2>3
<1>5. HandsApart'
  BY <1>1 DEF Placed, HandsApart
<1>6. QueueOK'
  <2> SUFFICES ASSUME NEW n \in queue \ {m}
               PROVE  /\ runs[n.job] = n.attempts /\ n.attempts < MaxAttempts /\ outcome'[n.job] = "open"
                      /\ \A k \in queue \ {m} : k.job = n.job => k = n
                      /\ \A q \in Poller : \A k \in hand[q] : k.job # n.job
    BY <1>1 DEF QueueOK
  <2>1. n.job \in Job \ {m.job}
    BY <1>2, <1>3 DEF Member
  <2> QED
    BY <1>1, <1>2, <2>1 DEF Placed, QueueOK
<1>7. TableOK'
  <2> SUFFICES ASSUME NEW r \in table
               PROVE  outcome'[r.job] \in Dead /\ runs[r.job] = r.attempts
    BY <1>1 DEF TableOK
  <2>1. r.job \in Job /\ outcome[r.job] \in Dead /\ runs[r.job] = r.attempts
    BY <1>2 DEF Placed, TableOK, Row
  <2>2. r.job # m.job
    BY <1>3, <2>1 DEF Dead
  <2> QED
    BY <1>1, <1>2, <2>1, <2>2
<1>8. ASSUME NEW j \in Job
      PROVE  JobOK(j)'
  <2>1. JobOK(j)
    BY DEF Placed
  <2>2. CASE j = m.job
    BY <1>1, <1>2, <2>1, <2>2 DEF JobOK
  <2>3. CASE j # m.job
    BY <1>1, <1>2, <2>1, <2>3 DEF JobOK
  <2> QED
    BY <2>2, <2>3
<1> QED
  BY <1>4, <1>5, <1>6, <1>7, <1>8 DEF Placed

\* A call of the handler is counted in the hand and in the history.
LEMMA RetryStepCallHandler ==
  ASSUME TypeOK, Placed, NEW p \in Poller, CallHandler(p)
  PROVE  Placed'
<1>1. PICK m \in hand[p] : /\ hand' = [hand EXCEPT ![p] = {[m EXCEPT !.attempts = @ + 1]}]
                          /\ runs' = [runs EXCEPT ![m.job] = @ + 1]
  BY DEF CallHandler
<1>2. /\ pc[p] = "claimed" /\ pc' = [pc EXCEPT ![p] = "running"]
      /\ queue' = queue /\ table' = table /\ outcome' = outcome
  BY DEF CallHandler, redis
<1>3. /\ hand \in [Poller -> SUBSET Member] /\ pc \in [Poller -> Step] /\ runs \in [Job -> Nat]
      /\ table \subseteq Row /\ queue \subseteq Member
  BY DEF TypeOK
<1>4. /\ m \in Member /\ m.job \in Job /\ m.attempts \in 0..MaxAttempts /\ MaxAttempts \in Nat
      /\ runs[m.job] = m.attempts /\ m.attempts < MaxAttempts /\ outcome[m.job] = "open"
  BY <1>1, <1>2, <1>3, RetryAssumption DEF Placed, HandOK, Buried, Member
<1> DEFINE n == [m EXCEPT !.attempts = @ + 1]
<1>5. n \in Member /\ n.job = m.job /\ n.attempts = m.attempts + 1
  <2>1. m.attempts + 1 \in 0..MaxAttempts
    BY <1>4
  <2> QED
    BY <1>4, <2>1 DEF Member
<1>6. \A q \in Poller : q # p => \A k \in hand[q] : k.job # m.job
  BY <1>1 DEF Placed, HandsApart
<1>7. \A k \in queue : k.job # m.job
  BY <1>1 DEF Placed, QueueOK
<1>r. runs'[m.job] = m.attempts + 1 /\ \A j \in Job \ {m.job} : runs'[j] = runs[j]
  BY <1>1, <1>3, <1>4
<1>h. hand'[p] = {n} /\ \A q \in Poller : q # p => hand'[q] = hand[q]
  BY <1>1, <1>3
<1> HIDE DEF n
<1>8. ASSUME NEW q \in Poller
      PROVE  HandOK(q)'
  <2>1. HandOK(q)
    BY DEF Placed
  <2>2. CASE q = p
    BY <1>2, <1>3, <1>4, <1>5, <1>r, <1>h, <2>2 DEF HandOK, Free, Buried
  <2>3. CASE q # p
    <3>1. \A k \in hand[q] : runs'[k.job] = runs[k.job]
      BY <1>3, <1>6, <1>r, <2>3 DEF Member
    <3> QED
      BY <1>2, <1>3, <1>h, <2>1, <2>3, <3>1 DEF HandOK
  <2> QED
    BY <2>2, <2>3
<1>9. HandsApart'
  <2> SUFFICES ASSUME NEW q \in Poller, NEW r \in Poller, q # r,
                      NEW k \in hand'[q], NEW l \in hand'[r]
               PROVE  k.job # l.job
    BY DEF HandsApart
  <2>1. CASE q = p
    BY <1>5, <1>6, <1>h, <2>1
  <2>2. CASE r = p
    BY <1>5, <1>6, <1>h, <2>2
  <2>3. CASE q # p /\ r # p
    BY <1>h, <2>3 DEF Placed, HandsApart
  <2> QED
    BY <2>1, <2>2, <2>3
<1>10. QueueOK'
  <2>1. \A k \in queue : runs'[k.job] = runs[k.job]
    BY <1>3, <1>7, <1>r DEF Member
  <2>2. \A k \in queue, q \in Poller : \A l \in hand'[q] : l.job # k.job
    BY <1>5, <1>7, <1>h DEF Placed, QueueOK
  <2> QED
    BY <1>2, <2>1, <2>2 DEF Placed, QueueOK
<1>11. TableOK'
  <2> SUFFICES ASSUME NEW r \in table
               PROVE  outcome[r.job] \in Dead /\ runs'[r.job] = r.attempts
    BY <1>2 DEF TableOK
  <2>1. r.job \in Job /\ outcome[r.job] \in Dead /\ runs[r.job] = r.attempts
    BY <1>3 DEF Placed, TableOK, Row
  <2>2. r.job # m.job
    BY <1>4, <2>1 DEF Dead
  <2> QED
    BY <1>r, <2>1, <2>2
<1>12. ASSUME NEW j \in Job
       PROVE  JobOK(j)'
  <2>1. JobOK(j)
    BY DEF Placed
  <2>2. CASE j = m.job
    BY <1>2, <1>4, <1>5, <1>r, <1>h, <2>1, <2>2 DEF JobOK
  <2>3. CASE j # m.job
    <3>1. runs'[j] = runs[j]
      BY <1>r, <2>3
    <3>2. ASSUME NEW q \in Poller, NEW k \in hand[q], k.job = j
          PROVE  \E l \in hand'[q] : l.job = j
      <4>1. q # p
        BY <1>1, <2>3, <3>2, <1>2 DEF Placed, HandOK, Free
      <4> QED
        BY <1>h, <3>2, <4>1
    <3> QED
      BY <1>2, <2>1, <3>1, <3>2 DEF JobOK
  <2> QED
    BY <2>2, <2>3
<1> QED
  BY <1>8, <1>9, <1>10, <1>11, <1>12 DEF Placed

\* A new job is in the set and nowhere else.
LEMMA RetryStepEnqueue ==
  ASSUME TypeOK, Placed, NEW j \in Job, Enqueue(j)
  PROVE  Placed'
<1> DEFINE m == [job |-> j, attempts |-> 0]
<1>1. /\ outcome[j] = "unknown" /\ outcome' = [outcome EXCEPT ![j] = "open"] /\ queue' = queue \cup {m}
      /\ pc' = pc /\ hand' = hand /\ table' = table /\ runs' = runs
  BY DEF Enqueue
<1>2. /\ outcome \in [Job -> Outcome] /\ queue \subseteq Member /\ table \subseteq Row
      /\ hand \in [Poller -> SUBSET Member] /\ 0 < MaxAttempts
  BY RetryAssumption DEF TypeOK
<1>3. runs[j] = 0 /\ m.job = j /\ m.attempts = 0
  BY <1>1 DEF Placed, JobOK
<1> HIDE DEF m
<1>4. \A q \in Poller : \A n \in hand[q] : n.job # j
  BY <1>1 DEF Placed, HandOK, Dead
<1>5. \A n \in queue : n.job # j
  BY <1>1 DEF Placed, QueueOK
<1>6. ASSUME NEW q \in Poller
      PROVE  HandOK(q)'
  <2>1. \A n \in hand[q] : outcome'[n.job] = outcome[n.job]
    BY <1>1, <1>2, <1>4 DEF Member
  <2> QED
    BY <1>1, <2>1 DEF Placed, HandOK
<1>7. HandsApart'
  BY <1>1 DEF Placed, HandsApart
<1>8. QueueOK'
  <2> SUFFICES ASSUME NEW n \in queue'
               PROVE  /\ runs[n.job] = n.attempts /\ n.attempts < MaxAttempts /\ outcome'[n.job] = "open"
                      /\ \A k \in queue' : k.job = n.job => k = n
                      /\ \A q \in Poller : \A k \in hand[q] : k.job # n.job
    BY <1>1 DEF QueueOK
  <2>1. CASE n = m
    BY <1>1, <1>2, <1>3, <1>4, <1>5, <2>1
  <2>2. CASE n # m
    <3>1. n \in queue /\ n.job \in Job \ {j}
      BY <1>1, <1>2, <1>5, <2>2 DEF Member
    <3> QED
      BY <1>1, <1>2, <1>3, <3>1 DEF Placed, QueueOK
  <2> QED
    BY <2>1, <2>2
<1>9. TableOK'
  <2> SUFFICES ASSUME NEW r \in table
               PROVE  outcome'[r.job] \in Dead /\ runs[r.job] = r.attempts
    BY <1>1 DEF TableOK
  <2>1. r.job \in Job /\ outcome[r.job] \in Dead /\ runs[r.job] = r.attempts
    BY <1>2 DEF Placed, TableOK, Row
  <2> QED
    BY <1>1, <1>2, <2>1 DEF Dead
<1>10. ASSUME NEW i \in Job
       PROVE  JobOK(i)'
  <2>1. JobOK(i)
    BY DEF Placed
  <2>2. CASE i = j
    BY <1>1, <1>2, <1>3, <2>1, <2>2 DEF JobOK
  <2>3. CASE i # j
    BY <1>1, <1>2, <2>1, <2>3 DEF JobOK
  <2> QED
    BY <2>2, <2>3
<1> QED
  BY <1>6, <1>7, <1>8, <1>9, <1>10 DEF Placed

\* The dead letter list takes the job in hand; the outcome is the reason.
LEMMA RetryStepBury ==
  ASSUME TypeOK, Placed, NEW p \in Poller, Bury(p)
  PROVE  Placed'
<1>1. PICK m \in hand[p] : outcome' = [outcome EXCEPT ![m.job] = pc[p]]
  BY DEF Bury
<1>2. /\ pc[p] \in Dead /\ pc' = [pc EXCEPT ![p] = "trimming"]
      /\ queue' = queue /\ hand' = hand /\ table' = table /\ runs' = runs
  BY DEF Bury, Dead
<1>3. /\ hand \in [Poller -> SUBSET Member] /\ pc \in [Poller -> Step] /\ outcome \in [Job -> Outcome]
      /\ table \subseteq Row /\ queue \subseteq Member
  BY DEF TypeOK
<1>4. /\ m \in Member /\ m.job \in Job /\ hand[p] = {m} /\ outcome[m.job] = "open"
      /\ runs[m.job] = m.attempts /\ (pc[p] = "exhausted" => m.attempts = MaxAttempts)
  BY <1>1, <1>2, <1>3 DEF Placed, HandOK, Buried, Dead, Free, Member
<1>5. \A q \in Poller : q # p => \A k \in hand[q] : k.job # m.job
  BY <1>1 DEF Placed, HandsApart
<1>6. \A k \in queue : k.job # m.job
  BY <1>1 DEF Placed, QueueOK
<1>o. outcome'[m.job] = pc[p] /\ \A j \in Job \ {m.job} : outcome'[j] = outcome[j]
  BY <1>1, <1>3, <1>4
<1>7. ASSUME NEW q \in Poller
      PROVE  HandOK(q)'
  <2>1. HandOK(q)
    BY DEF Placed
  <2>2. CASE q = p
    BY <1>2, <1>3, <1>4, <1>o, <2>2 DEF HandOK, Free, Buried
  <2>3. CASE q # p
    <3>1. \A k \in hand[q] : outcome'[k.job] = outcome[k.job]
      BY <1>3, <1>5, <1>o, <2>3 DEF Member
    <3> QED
      BY <1>2, <1>3, <2>1, <2>3, <3>1 DEF HandOK
  <2> QED
    BY <2>2, <2>3
<1>8. HandsApart'
  BY <1>2 DEF Placed, HandsApart
<1>9. QueueOK'
  <2>1. \A k \in queue : outcome'[k.job] = outcome[k.job]
    BY <1>3, <1>6, <1>o DEF Member
  <2> QED
    BY <1>2, <2>1 DEF Placed, QueueOK
<1>10. TableOK'
  <2> SUFFICES ASSUME NEW r \in table
               PROVE  outcome'[r.job] \in Dead /\ runs[r.job] = r.attempts
    BY <1>2 DEF TableOK
  <2>1. r.job \in Job /\ outcome[r.job] \in Dead /\ runs[r.job] = r.attempts
    BY <1>3 DEF Placed, TableOK, Row
  <2> QED
    BY <1>2, <1>o, <2>1
<1>11. ASSUME NEW j \in Job
       PROVE  JobOK(j)'
  <2>1. JobOK(j)
    BY DEF Placed
  <2>2. CASE j = m.job
    BY <1>2, <1>4, <1>o, <2>1, <2>2 DEF JobOK, Dead
  <2>3. CASE j # m.job
    BY <1>2, <1>o, <2>1, <2>3 DEF JobOK
  <2> QED
    BY <2>2, <2>3
<1> QED
  BY <1>7, <1>8, <1>9, <1>10, <1>11 DEF Placed

\* A crash empties every hand; what was in one is lost, unless it was buried already.
LEMMA RetryStepCrash ==
  ASSUME TypeOK, Placed, Crash
  PROVE  Placed'
<1> DEFINE Held(j) == outcome[j] = "open" /\ \E p \in Poller : \E m \in hand[p] : m.job = j
<1>1. /\ pc' = [p \in Poller |-> "idle"] /\ hand' = [p \in Poller |-> {}]
      /\ outcome' = [j \in Job |-> IF Held(j) THEN "lost" ELSE outcome[j]]
      /\ queue' = queue /\ table' = table /\ runs' = runs
  BY DEF Crash, redis
<1>2. table \subseteq Row /\ queue \subseteq Member /\ outcome \in [Job -> Outcome]
  BY DEF TypeOK
<1>3. \A p \in Poller : HandOK(p)'
  BY <1>1 DEF HandOK, Free
<1>4. HandsApart'
  BY <1>1 DEF HandsApart
<1>5. QueueOK'
  <2>1. ASSUME NEW n \in queue
        PROVE  outcome'[n.job] = outcome[n.job]
    <3>1. n.job \in Job /\ ~Held(n.job)
      BY <1>2 DEF Placed, QueueOK, Member
    <3> HIDE DEF Held
    <3> QED
      BY <1>1, <3>1
  <2> QED
    BY <1>1, <2>1 DEF Placed, QueueOK
<1>6. TableOK'
  <2>1. ASSUME NEW r \in table
        PROVE  outcome'[r.job] = outcome[r.job]
    <3>1. r.job \in Job /\ ~Held(r.job)
      BY <1>2 DEF Placed, TableOK, Row, Dead
    <3> HIDE DEF Held
    <3> QED
      BY <1>1, <3>1
  <2> QED
    BY <1>1, <2>1 DEF Placed, TableOK
<1>7. ASSUME NEW j \in Job
      PROVE  JobOK(j)'
  <2>1. JobOK(j)
    BY DEF Placed
  <2>2. CASE Held(j)
    <3>1. outcome'[j] = "lost"
      BY <1>1, <2>2
    <3> QED
      BY <1>1, <2>1, <3>1 DEF JobOK
  <2>3. CASE ~Held(j)
    <3>1. outcome'[j] = outcome[j]
      BY <1>1, <2>3
    <3> QED
      BY <1>1, <2>1, <2>3, <3>1 DEF JobOK
  <2> QED
    BY <2>2, <2>3
<1> QED
  BY <1>3, <1>4, <1>5, <1>6, <1>7 DEF Placed

\* Every step keeps the jobs in their places.
LEMMA RetryStepPlaced ==
  ASSUME TypeOK, Placed, [Next]_vars
  PROVE  Placed'
<1>1. CASE \/ \E j \in Job : RegisterHandler(j)
           \/ \E m \in Member : BackoffElapses(m)
           \/ StartWorker \/ StopWorker \/ UNCHANGED vars
  <2>1. UNCHANGED places
    BY <1>1 DEF RegisterHandler, BackoffElapses, StartWorker, StopWorker, vars, places, redis, worker, history
  <2> QED
    BY <2>1, RetryStepElsewhere
<1>2. ASSUME NEW j \in Job, Enqueue(j)
      PROVE  Placed'
  BY <1>2, RetryStepEnqueue
<1>3. CASE Crash
  BY <1>3, RetryStepCrash
<1>4. ASSUME NEW p \in Poller, Poll(p)
      PROVE  Placed'
  <2>1. /\ pc[p] \in Free /\ "claiming" \in Free /\ pc' = [pc EXCEPT ![p] = "claiming"]
        /\ UNCHANGED <<queue, hand, table, runs, outcome>>
    BY <1>4 DEF Poll, Free, redis, history
  <2> QED
    BY <2>1, RetryStepFree
<1>5. ASSUME NEW p \in Poller, NEW m \in Member, Claim(p, m)
      PROVE  Placed'
  BY <1>5, RetryStepClaim
<1>6. ASSUME NEW p \in Poller, NEW m \in Member, Missed(p, m)
      PROVE  Placed'
  <2> DEFINE step == IF batch'[p] = {} THEN "idle" ELSE "claiming"
  <2>1. /\ pc[p] \in Free /\ step \in Free /\ pc' = [pc EXCEPT ![p] = step]
        /\ UNCHANGED <<queue, hand, table, runs, outcome>>
    BY <1>6 DEF Missed, Continue, Free, redis, history
  <2> HIDE DEF step
  <2> QED
    BY <2>1, RetryStepFree
<1>7. ASSUME NEW p \in Poller, NEW m \in Member, ClaimResent(p, m)
      PROVE  Placed'
  BY <1>7, RetryStepClaimResent
<1>8. ASSUME NEW p \in Poller, CallHandler(p)
      PROVE  Placed'
  BY <1>8, RetryStepCallHandler
<1>9. ASSUME NEW p \in Poller, NoHandler(p)
      PROVE  Placed'
  <2>1. /\ pc[p] \notin Free /\ "unhandled" \in Step \ Free /\ pc' = [pc EXCEPT ![p] = "unhandled"]
        /\ UNCHANGED <<queue, hand, table, runs, outcome>>
        /\ (pc[p] \in Buried <=> "unhandled" \in Buried)
    BY <1>9 DEF NoHandler, Free, Buried, Step, redis, history
  <2>2. \A m \in hand[p] : m.attempts < MaxAttempts
    BY <1>9 DEF NoHandler, Placed, HandOK
  <2> QED
    BY <2>1, <2>2, RetryStepHolding
<1>10. ASSUME NEW p \in Poller, HandlerSucceeds(p)
       PROVE  Placed'
  <2>1. pc[p] = "running" /\ UNCHANGED <<queue, table, runs>> /\ hand' = [hand EXCEPT ![p] = {}]
    BY <1>10 DEF HandlerSucceeds, redis
  <2>2. PICK m \in Member : hand[p] = {m}
    BY <2>1 DEF Placed, HandOK, Free
  <2>3. m.job \in Job /\ outcome[m.job] = "open"
    BY <2>1, <2>2 DEF Placed, HandOK, Buried, Member
  <2>4. outcome' = [j \in Job |-> IF j = m.job THEN "done" ELSE outcome[j]]
    BY <1>10, <2>2 DEF HandlerSucceeds
  <2>5. outcome' \in [Job -> Outcome] /\ outcome'[m.job] = "done"
        /\ \A j \in Job \ {m.job} : outcome'[j] = outcome[j]
    BY <2>3, <2>4 DEF TypeOK, Outcome
  <2> DEFINE step == IF batch'[p] = {} THEN "idle" ELSE "claiming"
  <2>6. step \in Free /\ pc' = [pc EXCEPT ![p] = step]
    BY <1>10 DEF HandlerSucceeds, Continue, Free
  <2> HIDE DEF step
  <2> QED
    BY <2>1, <2>2, <2>3, <2>5, <2>6, RetryStepPutDown
<1>11. ASSUME NEW p \in Poller, HandlerFails(p)
       PROVE  Placed'
  <2>1. PICK m \in Member : hand[p] = {m}
    BY <1>11 DEF HandlerFails, Placed, HandOK, Free
  <2> DEFINE step == IF m.attempts >= MaxAttempts THEN "exhausted" ELSE "requeueing"
  <2>2. m.attempts \in 0..MaxAttempts /\ MaxAttempts \in Nat
    BY RetryAssumption DEF Member
  <2>3. /\ pc[p] = "running" /\ pc' = [pc EXCEPT ![p] = step]
        /\ UNCHANGED <<queue, hand, table, runs, outcome>>
    BY <1>11, <2>1 DEF HandlerFails, redis, history
  <2>4. /\ step \in Step \ Free /\ pc[p] \notin Free /\ (pc[p] \in Buried <=> step \in Buried)
        /\ step # "claimed" /\ step # "unhandled"
    BY <2>3 DEF Step, Free, Buried
  <2>5. (step = "requeueing" => m.attempts < MaxAttempts) /\ (step = "exhausted" => m.attempts = MaxAttempts)
    BY <2>2
  <2> HIDE DEF step
  <2> QED
    BY <2>1, <2>3, <2>4, <2>5, RetryStepHolding
<1>12. ASSUME NEW p \in Poller, Requeue(p)
       PROVE  Placed'
  <2>1. pc[p] = "requeueing" /\ UNCHANGED <<outcome, table, runs>> /\ hand' = [hand EXCEPT ![p] = {}]
    BY <1>12 DEF Requeue, history
  <2>2. PICK m \in Member : hand[p] = {m}
    BY <2>1 DEF Placed, HandOK, Free
  <2>3. outcome[m.job] = "open" /\ m.attempts < MaxAttempts /\ queue' = queue \cup {m}
    BY <1>12, <2>1, <2>2 DEF Requeue, Placed, HandOK, Buried
  <2> DEFINE step == IF batch'[p] = {} THEN "idle" ELSE "claiming"
  <2>4. step \in Free /\ pc' = [pc EXCEPT ![p] = step]
    BY <1>12 DEF Requeue, Continue, Free
  <2>5. outcome' \in [Job -> Outcome] /\ outcome' = outcome
    BY <2>1 DEF TypeOK
  <2> HIDE DEF step
  <2> QED
    BY <2>1, <2>2, <2>3, <2>4, <2>5, RetryStepPutDown
<1>13. ASSUME NEW p \in Poller, Bury(p)
       PROVE  Placed'
  BY <1>13, RetryStepBury
<1>14. ASSUME NEW p \in Poller, Trim(p)
       PROVE  Placed'
  <2>1. /\ pc[p] \notin Free /\ "storing" \in Step \ Free /\ pc' = [pc EXCEPT ![p] = "storing"]
        /\ UNCHANGED <<queue, hand, table, runs, outcome>>
        /\ (pc[p] \in Buried <=> "storing" \in Buried)
    BY <1>14 DEF Trim, Free, Buried, Step, history
  <2> QED
    BY <2>1, RetryStepHolding
<1>15. ASSUME NEW p \in Poller, Store(p)
       PROVE  Placed'
  <2>1. pc[p] = "storing" /\ UNCHANGED <<queue, outcome, runs>> /\ hand' = [hand EXCEPT ![p] = {}]
    BY <1>15 DEF Store, redis, history
  <2>2. PICK m \in Member : hand[p] = {m}
    BY <2>1 DEF Placed, HandOK, Free
  <2>3. outcome[m.job] \in Dead
    BY <2>1, <2>2 DEF Placed, HandOK, Buried
  <2>4. \A r \in table' \ table : r.job = m.job /\ r.attempts = m.attempts
    BY <1>15, <2>2 DEF Store
  <2> DEFINE step == IF batch'[p] = {} THEN "idle" ELSE "claiming"
  <2>5. step \in Free /\ pc' = [pc EXCEPT ![p] = step]
    BY <1>15 DEF Store, Continue, Free
  <2>6. outcome' \in [Job -> Outcome] /\ outcome' = outcome
    BY <2>1 DEF TypeOK
  <2> HIDE DEF step
  <2> QED
    BY <2>1, <2>2, <2>3, <2>4, <2>5, <2>6, RetryStepPutDown
<1> QED
  BY <1>1, <1>2, <1>3, <1>4, <1>5, <1>6, <1>7, <1>8, <1>9, <1>10, <1>11, <1>12, <1>13, <1>14, <1>15
     DEF Next, ProcessDueJobs, ProcessJob

-----------------------------------------------------------------------------
\* The placement of jobs holds in every state of processDueJobs, processJob,
\* sendToDeadLetter and enqueue, however many polls overlap.
THEOREM RetryInvariant == Spec => []RetryInv
<1>1. Init => RetryInv
  BY RetryStarts
<1>2. RetryInv /\ [Next]_vars => RetryInv'
  BY RetryStepTyped, RetryStepPlaced DEF RetryInv
<1> QED
  BY <1>1, <1>2, PTL DEF Spec

\* The state of the queue, of its polls and of the dead letters has its types.
THEOREM RetryTyped == Spec => []TypeOK
<1>1. RetryInv => TypeOK
  BY DEF RetryInv
<1> QED
  BY <1>1, RetryInvariant, PTL

LEMMA PlacedIsOnePlace == RetryInv => OnePlace
<1> SUFFICES ASSUME RetryInv, NEW j \in Job
             PROVE  /\ outcome[j] = "open" =>
                         \/ HoldersOf(j) = {} /\ \E m \in queue : MembersOf(j) = {m}
                         \/ MembersOf(j) = {} /\ \E p \in Poller : HoldersOf(j) = {p}
                    /\ outcome[j] # "open" =>
                         /\ MembersOf(j) = {}
                         /\ \A p \in HoldersOf(j) : outcome[j] \in {"exhausted", "unhandled"} /\ pc[p] \in {"trimming", "storing"}
  BY DEF OnePlace
<1>1. CASE outcome[j] = "open"
  <2>1. CASE \E m \in queue : m.job = j
    <3>1. PICK m \in queue : m.job = j
      BY <2>1
    <3>2. MembersOf(j) = {m} /\ HoldersOf(j) = {}
      BY <3>1 DEF RetryInv, Placed, QueueOK, MembersOf, HoldersOf
    <3> QED
      BY <1>1, <3>2
  <2>2. CASE ~ \E m \in queue : m.job = j
    <3>1. PICK p \in Poller : \E m \in hand[p] : m.job = j
      BY <1>1, <2>2 DEF RetryInv, Placed, JobOK
    <3>2. HoldersOf(j) = {p}
      BY <3>1 DEF RetryInv, Placed, HandsApart, HoldersOf
    <3>3. MembersOf(j) = {}
      BY <2>2 DEF MembersOf
    <3> QED
      BY <1>1, <3>2, <3>3
  <2> QED
    BY <2>1, <2>2
<1>2. CASE outcome[j] # "open"
  <2>1. MembersOf(j) = {}
    BY <1>2 DEF RetryInv, Placed, QueueOK, MembersOf
  <2>2. ASSUME NEW p \in HoldersOf(j)
        PROVE  outcome[j] \in Dead /\ pc[p] \in Buried
    BY <1>2 DEF RetryInv, Placed, HandOK, HoldersOf
  <2> QED
    BY <1>2, <2>1, <2>2 DEF Dead, Buried
<1> QED
  BY <1>1, <1>2

\* Overlapping polls neither share a job nor drop one: ZREM decides which of them runs it.
THEOREM RetryOnePlace == Spec => []OnePlace
BY PlacedIsOnePlace, RetryInvariant, PTL

\* No handler is called beyond maxAttempts, and a job is buried as exhausted only at it.
THEOREM RetryBudgetKept == Spec => []BudgetKept
<1>1. RetryInv => BudgetKept
  BY DEF RetryInv, Placed, QueueOK, HandOK, TableOK, JobOK, BudgetKept
<1> QED
  BY <1>1, RetryInvariant, PTL
================================================================================
