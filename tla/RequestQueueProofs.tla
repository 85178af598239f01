------------------------- MODULE RequestQueueProofs -------------------------
(***************************************************************************)
(* Proofs about RequestQueue, for any number of requests and workers, any  *)
(* queue size and any delays.                                              *)
(***************************************************************************)
EXTENDS RequestQueue, FiniteSetTheorems, TLAPS

LEMMA InitInv == Init => QueueInv
<1> SUFFICES ASSUME Init PROVE QueueInv
  OBVIOUS
<1>1. TypeOK
  BY BackoffAssumption, MaxWaitAssumption
  DEF Init, TypeOK, Statuses, Errors, Callers, Phases, MaxAttempts
<1>2. Untouched /\ QueueIsFresh /\ WorkersOwnTheirJobs /\ RecordIsConsistent
  BY DEF Init, Untouched, QueueIsFresh, WorkersOwnTheirJobs, Working,
         RecordIsConsistent, Accepted
<1>3. QED
  BY <1>1, <1>2 DEF QueueInv

LEMMA EnqueueKeepsInv ==
  ASSUME QueueInv, NEW r \in Requests, Enqueue(r) PROVE QueueInv'
<1> USE DEF QueueInv, Enqueue, Put, workerVars
<1>1. Untouched /\ caller[r] = "none"
  OBVIOUS
<1>2. /\ status[r] = "none" /\ error[r] = "none" /\ ~result[r]
      /\ attempts[r] = 0 /\ ~completed_event[r]
      /\ \A i \in 1..Len(pending) : pending[i] # r
  BY <1>1 DEF Untouched, Accepted
<1>3. TypeOK'
  <2>1. queue' \in Seq(Requests) /\ pending' \in Seq(Requests)
    BY DEF TypeOK
  <2>2. status' \in [Requests -> Statuses]
    BY DEF TypeOK, Statuses
  <2>3. caller' \in [Requests -> Callers]
    BY DEF TypeOK, Callers
  <2>4. total_queued' \in Nat
    BY DEF TypeOK
  <2>5. QED
    BY <2>1, <2>2, <2>3, <2>4 DEF TypeOK
<1>4. Untouched'
  BY DEF Untouched, Accepted, TypeOK
<1>5. QueueIsFresh'
  BY SMTT(30), <1>2 DEF QueueIsFresh, Accepted, TypeOK
<1>6. WorkersOwnTheirJobs'
  BY <1>2 DEF WorkersOwnTheirJobs, Working, Accepted, TypeOK
<1>7. RecordIsConsistent'
  BY <1>2 DEF RecordIsConsistent, TypeOK
<1>8. QED
  BY <1>3, <1>4, <1>5, <1>6, <1>7

LEMMA CallerKeepsInv ==
  ASSUME QueueInv, NEW r \in Requests,
         EnqueueFull(r) \/ GetResult(r) \/ GetResultTimeout(r)
  PROVE  QueueInv'
<1> USE DEF QueueInv, records, workerVars, totals
<1>1. CASE EnqueueFull(r)
  <2> USE <1>1 DEF EnqueueFull
  <2>1. TypeOK'
    BY DEF TypeOK, Callers
  <2>2. Untouched' /\ QueueIsFresh'
    BY SMTT(30) DEF Untouched, QueueIsFresh, Accepted, TypeOK
  <2>3. WorkersOwnTheirJobs'
    BY DEF WorkersOwnTheirJobs, Working, Accepted, TypeOK
  <2>4. RecordIsConsistent'
    BY DEF RecordIsConsistent, TypeOK
  <2>5. QED
    BY <2>1, <2>2, <2>3, <2>4
<1>2. CASE GetResult(r)
  <2> USE <1>2 DEF GetResult, Answer
  <2>1. TypeOK'
    BY DEF TypeOK, Callers
  <2>2. Untouched' /\ QueueIsFresh'
    BY SMTT(30) DEF Untouched, QueueIsFresh, Accepted, TypeOK
  <2>3. WorkersOwnTheirJobs'
    BY DEF WorkersOwnTheirJobs, Working, Accepted, TypeOK
  <2>4. RecordIsConsistent'
    BY DEF RecordIsConsistent, TypeOK
  <2>5. QED
    BY <2>1, <2>2, <2>3, <2>4
<1>3. CASE GetResultTimeout(r)
  <2> USE <1>3 DEF GetResultTimeout, TimedOut
  <2>1. TypeOK'
    <3>1. status' \in [Requests -> Statuses] /\ error' \in [Requests -> Errors]
      BY DEF TypeOK, Statuses, Errors
    <3>2. caller' \in [Requests -> Callers] /\ total_expired' \in Nat
      BY DEF TypeOK, Callers
    <3>3. QED
      BY <3>1, <3>2 DEF TypeOK
  <2>2. Untouched' /\ QueueIsFresh'
    <3>1. Untouched'
      BY DEF Untouched, Accepted, TypeOK
    <3>2. QueueIsFresh'
      BY DEF QueueIsFresh, Accepted, TypeOK
    <3>3. QED
      BY <3>1, <3>2
  <2>3. WorkersOwnTheirJobs'
    BY DEF WorkersOwnTheirJobs, Working, Accepted, TypeOK
  <2>4. RecordIsConsistent'
    BY DEF RecordIsConsistent, TypeOK
  <2>5. QED
    BY <2>1, <2>2, <2>3, <2>4
<1>4. QED
  BY <1>1, <1>2, <1>3

(* Taking the head leaves a queue that is as fresh, without the head. *)
LEMMA TakeLeavesFreshQueue ==
  ASSUME TypeOK, QueueIsFresh, queue # <<>>, queue' = Tail(queue)
  PROVE  /\ queue' \in Seq(Requests)
         /\ Head(queue) \in Requests
         /\ Head(queue) = queue[1] /\ Len(queue) > 0
         /\ Accepted(Head(queue))
         /\ attempts[Head(queue)] = 0 /\ ~completed_event[Head(queue)]
         /\ Len(queue') = Len(queue) - 1
         /\ \A i \in 1..Len(queue') :
              /\ i + 1 \in 1..Len(queue)
              /\ queue'[i] = queue[i + 1]
              /\ queue'[i] # Head(queue)
<1>1. /\ queue \in Seq(Requests) /\ Len(queue) \in Nat /\ Len(queue) > 0
      /\ Head(queue) = queue[1] /\ Head(queue) \in Requests
  BY DEF TypeOK
<1>2. /\ queue' \in Seq(Requests) /\ Len(queue') = Len(queue) - 1
      /\ \A i \in 1..Len(queue') : queue'[i] = queue[i + 1]
  BY <1>1
<1>3. \A i \in 1..Len(queue') : i + 1 \in 1..Len(queue) /\ i + 1 # 1
  BY <1>1, <1>2
<1>4. 1 \in 1..Len(queue)
  BY <1>1
<1>5. \A i \in 1..Len(queue') : queue'[i] # Head(queue)
  BY <1>1, <1>2, <1>3, <1>4 DEF QueueIsFresh
<1>6. /\ Accepted(Head(queue))
      /\ attempts[Head(queue)] = 0 /\ ~completed_event[Head(queue)]
  BY <1>1, <1>4 DEF QueueIsFresh
<1>7. QED
  BY <1>1, <1>2, <1>3, <1>5, <1>6

(* The last step of a worker on an open request of its own: whatever the   *)
(* outcome, and whether the request comes from the queue or from the job.  *)
LEMMA SettleKeepsInv ==
  ASSUME QueueInv, NEW w \in Workers, NEW r \in Requests,
         NEW outcome, NEW why, Settle(w, r, outcome, why),
         Accepted(r), ~completed_event[r],
         \A v \in Workers : v # w /\ Working(v) => job[v] # r,
         queue' \in Seq(Requests), Untouched',  QueueIsFresh',
         \A i \in 1..Len(queue') : \E j \in 1..Len(queue) : queue'[i] = queue[j],
         attempts' = attempts,
         \/ /\ outcome = "completed" /\ why = error[r]
            /\ result' = [result EXCEPT ![r] = TRUE]
         \/ /\ outcome = "failed" /\ why \in {"expired", "not_a_dict", "exhausted"}
            /\ result' = result,
         total_completed' \in Nat, total_failed' \in Nat, total_expired' \in Nat
  PROVE  QueueInv'
<1> USE DEF QueueInv, Settle
<1>1. TypeOK'
  <2>1. status' \in [Requests -> Statuses] /\ error' \in [Requests -> Errors]
    BY DEF TypeOK, Statuses, Errors
  <2>2. /\ result' \in [Requests -> BOOLEAN]
        /\ completed_event' \in [Requests -> BOOLEAN]
    BY DEF TypeOK
  <2>3. phase' \in [Workers -> Phases] /\ job' \in [Workers -> Requests \cup {None}]
    BY DEF TypeOK, Phases
  <2>4. QED
    BY <2>1, <2>2, <2>3 DEF TypeOK
<1>2. WorkersOwnTheirJobs'
  <2> SUFFICES ASSUME NEW v \in Workers, Working(v)'
               PROVE  /\ job'[v] \in Requests
                      /\ Accepted(job[v])'
                      /\ ~completed_event'[job'[v]]
                      /\ attempts'[job'[v]] > 0
                      /\ phase'[v] = "sleeping" => attempts'[job'[v]] < MaxAttempts
                      /\ \A u \in Workers :
                           u # v /\ Working(u)' => job'[u] # job'[v]
                      /\ \A i \in 1..Len(queue') : queue'[i] # job'[v]
    BY DEF WorkersOwnTheirJobs
  <2>1. \A u \in Workers : Working(u)' =>
          u # w /\ Working(u) /\ job'[u] = job[u] /\ phase'[u] = phase[u]
    BY DEF Working, TypeOK
  <2>2. v # w /\ Working(v) /\ job'[v] = job[v] /\ phase'[v] = phase[v] /\ job[v] # r
    BY <2>1
  <2>3. /\ job[v] \in Requests /\ Accepted(job[v]) /\ ~completed_event[job[v]]
        /\ attempts[job[v]] > 0
        /\ phase[v] = "sleeping" => attempts[job[v]] < MaxAttempts
        /\ \A u \in Workers : u # v /\ Working(u) => job[u] # job[v]
        /\ \A i \in 1..Len(queue) : queue[i] # job[v]
    BY <2>2 DEF WorkersOwnTheirJobs
  <2>4. /\ job'[v] \in Requests /\ Accepted(job[v])'
        /\ ~completed_event'[job'[v]] /\ attempts'[job'[v]] > 0
        /\ phase'[v] = "sleeping" => attempts'[job'[v]] < MaxAttempts
    BY <2>2, <2>3 DEF Accepted, TypeOK
  <2>5. \A u \in Workers : u # v /\ Working(u)' => job'[u] # job'[v]
    BY <2>1, <2>2, <2>3
  <2>6. \A i \in 1..Len(queue') : queue'[i] # job'[v]
    BY <2>2, <2>3
  <2>7. QED
    BY <2>4, <2>5, <2>6
<1>3. RecordIsConsistent'
  <2> SUFFICES ASSUME NEW q \in Requests
               PROVE  RecordIsConsistent!(q)'
    BY DEF RecordIsConsistent
  <2>1. CASE q # r
    BY <2>1 DEF RecordIsConsistent, TypeOK
  <2>2. CASE q = r
    BY <2>2 DEF RecordIsConsistent, TypeOK
  <2>3. QED
    BY <2>1, <2>2
<1>4. QED
  BY <1>1, <1>2, <1>3

LEMMA JobSettlesKeepsInv ==
  ASSUME QueueInv, NEW w \in Workers, Working(w),
         RetryExpire(w) \/ RouteCompleted(w) \/ RouteNotADict(w) \/ RouteRaisedLast(w)
  PROVE  QueueInv'
<1> DEFINE r == job[w]
<1>1. /\ r \in Requests /\ Accepted(r) /\ ~completed_event[r]
      /\ \A v \in Workers : v # w /\ Working(v) => job[v] # r
      /\ \A i \in 1..Len(queue) : queue[i] # r
  BY DEF QueueInv, WorkersOwnTheirJobs
<1> DEFINE Concludes(outcome, why) ==
      /\ Settle(w, r, outcome, why)
      /\ \/ /\ outcome = "completed" /\ why = error[r]
            /\ result' = [result EXCEPT ![r] = TRUE]
         \/ /\ outcome = "failed" /\ why \in {"expired", "not_a_dict", "exhausted"}
            /\ result' = result
<1>2. PICK outcome, why : Concludes(outcome, why)
  <2>1. CASE RetryExpire(w)
    <3>1. Concludes("failed", "expired")
      BY <2>1 DEF RetryExpire, Expire
    <3>2. QED
      BY <3>1
  <2>2. CASE RouteCompleted(w)
    <3>1. Concludes("completed", error[r])
      BY <2>2 DEF RouteCompleted
    <3>2. QED
      BY <3>1
  <2>3. CASE RouteNotADict(w)
    <3>1. Concludes("failed", "not_a_dict")
      BY <2>3 DEF RouteNotADict
    <3>2. QED
      BY <3>1
  <2>4. CASE RouteRaisedLast(w)
    <3>1. Concludes("failed", "exhausted")
      BY <2>4 DEF RouteRaisedLast
    <3>2. QED
      BY <3>1
  <2>5. QED
    BY <2>1, <2>2, <2>3, <2>4
<1>3. /\ queue' = queue /\ attempts' = attempts
      /\ total_completed' \in Nat /\ total_failed' \in Nat /\ total_expired' \in Nat
  BY DEF RetryExpire, Expire, ExpireCounted, RouteCompleted, RouteNotADict,
         RouteRaisedLast, QueueInv, TypeOK
<1>4. queue' \in Seq(Requests)
  BY <1>3 DEF QueueInv, TypeOK
<1> HIDE DEF r
<1>5. Untouched'
  BY <1>1, <1>2, <1>3 DEF Settle, Untouched, Accepted, QueueInv, TypeOK
<1>6. QueueIsFresh'
  BY SMTT(30), <1>1, <1>2, <1>3 DEF Settle, QueueIsFresh, Accepted, QueueInv, TypeOK
<1>7. QED
  BY <1>1, <1>2, <1>3, <1>4, <1>5, <1>6, SettleKeepsInv

LEMMA TakeAndExpireKeepsInv ==
  ASSUME QueueInv, NEW w \in Workers, TakeAndExpire(w)
  PROVE  QueueInv'
<1> DEFINE r == Head(queue)
<1>1. /\ queue # <<>> /\ queue' = Tail(queue)
      /\ Settle(w, r, "failed", "expired")
      /\ attempts' = attempts /\ result' = result
      /\ total_completed' \in Nat /\ total_failed' \in Nat /\ total_expired' \in Nat
  BY DEF TakeAndExpire, Taken, Expire, ExpireCounted, QueueInv, TypeOK
<1>2. /\ queue' \in Seq(Requests) /\ r \in Requests
      /\ r = queue[1] /\ Len(queue) > 0
      /\ Accepted(r) /\ ~completed_event[r]
      /\ Len(queue') = Len(queue) - 1
      /\ \A i \in 1..Len(queue') :
           i + 1 \in 1..Len(queue) /\ queue'[i] = queue[i + 1] /\ queue'[i] # r
  BY <1>1, TakeLeavesFreshQueue DEF QueueInv
<1>3. 1 \in 1..Len(queue)
  BY <1>2 DEF QueueInv, TypeOK
<1>4. \A v \in Workers : Working(v) => job[v] # r
  BY <1>2, <1>3 DEF QueueInv, WorkersOwnTheirJobs
<1> HIDE DEF r
<1>5. Untouched'
  BY <1>1, <1>2 DEF Settle, Untouched, Accepted, QueueInv, TypeOK
<1>6. QueueIsFresh'
  <2>1. \A i \in 1..Len(queue') : \A j \in 1..Len(queue') :
          i # j => queue'[i] # queue'[j]
    <3> SUFFICES ASSUME NEW i \in 1..Len(queue'), NEW j \in 1..Len(queue'), i # j
                 PROVE  queue'[i] # queue'[j]
      OBVIOUS
    <3>1. /\ i + 1 \in 1..Len(queue) /\ queue'[i] = queue[i + 1]
          /\ j + 1 \in 1..Len(queue) /\ queue'[j] = queue[j + 1]
          /\ i + 1 # j + 1
      BY <1>2
    <3>2. QED
      BY <3>1 DEF QueueInv, QueueIsFresh
  <2>2. \A i \in 1..Len(queue') :
          Accepted(queue[i + 1]) /\ attempts[queue[i + 1]] = 0
            /\ ~completed_event[queue[i + 1]]
    BY <1>2 DEF QueueInv, QueueIsFresh
  <2>3. QED
    BY <1>1, <1>2, <2>1, <2>2 DEF QueueIsFresh, Settle, Accepted, QueueInv, TypeOK
<1>7. \A i \in 1..Len(queue') : \E j \in 1..Len(queue) : queue'[i] = queue[j]
  BY <1>2
<1>8. QED
  BY <1>1, <1>2, <1>4, <1>5, <1>6, <1>7, SettleKeepsInv

LEMMA TakeAndAttemptKeepsInv ==
  ASSUME QueueInv, NEW w \in Workers, TakeAndAttempt(w)
  PROVE  QueueInv'
<1> DEFINE r == Head(queue)
<1>1. /\ phase[w] = "idle" /\ queue # <<>> /\ queue' = Tail(queue)
      /\ status' = [status EXCEPT ![r] = "processing"]
      /\ attempts' = [attempts EXCEPT ![r] = @ + 1]
      /\ phase' = [phase EXCEPT ![w] = "routing"]
      /\ job' = [job EXCEPT ![w] = r]
      /\ UNCHANGED <<pending, error, result, completed_event, age, caller,
                     delay, running, totals>>
  BY DEF TakeAndAttempt, Taken, Attempt
<1>2. /\ queue' \in Seq(Requests) /\ r \in Requests
      /\ r = queue[1] /\ Len(queue) > 0
      /\ Accepted(r) /\ attempts[r] = 0 /\ ~completed_event[r]
      /\ Len(queue') = Len(queue) - 1
      /\ \A i \in 1..Len(queue') :
           i + 1 \in 1..Len(queue) /\ queue'[i] = queue[i + 1] /\ queue'[i] # r
  BY <1>1, TakeLeavesFreshQueue DEF QueueInv
<1>3. 1 \in 1..Len(queue)
  BY <1>2 DEF QueueInv, TypeOK
<1>4. \A v \in Workers : Working(v) => v # w /\ job[v] # r
  BY <1>1, <1>2, <1>3 DEF QueueInv, WorkersOwnTheirJobs, Working
<1> HIDE DEF r
<1> USE DEF QueueInv
<1>5. TypeOK'
  <2>1. status' \in [Requests -> Statuses] /\ phase' \in [Workers -> Phases]
    BY <1>1, <1>2 DEF TypeOK, Statuses, Phases
  <2>2. attempts' \in [Requests -> 0..MaxAttempts]
    BY <1>1, <1>2, BackoffAssumption DEF TypeOK, MaxAttempts
  <2>3. job' \in [Workers -> Requests \cup {None}]
    BY <1>1, <1>2 DEF TypeOK
  <2>4. QED
    BY <1>1, <1>2, <2>1, <2>2, <2>3 DEF TypeOK, totals
<1>6. Untouched'
  BY <1>1, <1>2 DEF Untouched, Accepted, TypeOK
<1>7. QueueIsFresh'
  <2>1. \A i \in 1..Len(queue') : \A j \in 1..Len(queue') :
          i # j => queue'[i] # queue'[j]
    <3> SUFFICES ASSUME NEW i \in 1..Len(queue'), NEW j \in 1..Len(queue'), i # j
                 PROVE  queue'[i] # queue'[j]
      OBVIOUS
    <3>1. /\ i + 1 \in 1..Len(queue) /\ queue'[i] = queue[i + 1]
          /\ j + 1 \in 1..Len(queue) /\ queue'[j] = queue[j + 1]
          /\ i + 1 # j + 1
      BY <1>2
    <3>2. QED
      BY <3>1 DEF QueueIsFresh
  <2>2. \A i \in 1..Len(queue') :
          /\ Accepted(queue[i + 1]) /\ attempts[queue[i + 1]] = 0
          /\ ~completed_event[queue[i + 1]]
    BY <1>2 DEF QueueIsFresh
  <2>3. QED
    BY <1>1, <1>2, <2>1, <2>2 DEF QueueIsFresh, Accepted, TypeOK
<1>8. WorkersOwnTheirJobs'
  <2> SUFFICES ASSUME NEW v \in Workers, Working(v)'
               PROVE  WorkersOwnTheirJobs!(v)!2'
    BY DEF WorkersOwnTheirJobs
  <2>1. \A u \in Workers :
          \/ u = w /\ job'[u] = r /\ phase'[u] = "routing"
          \/ u # w /\ job'[u] = job[u] /\ phase'[u] = phase[u]
    BY <1>1 DEF TypeOK
  <2>2. \A u \in Workers : Working(u)' /\ u # w =>
          /\ Working(u) /\ job'[u] = job[u] /\ job[u] # r
          /\ \A x \in Workers : x # u /\ Working(x) => job[x] # job[u]
    BY <2>1, <1>4 DEF Working, WorkersOwnTheirJobs
  <2>3. CASE v = w
    BY <1>1, <1>2, <2>1, <2>2, <2>3 DEF WorkersOwnTheirJobs, Working, Accepted, TypeOK
  <2>4. CASE v # w
    <3>1. /\ job[v] \in Requests /\ Accepted(job[v]) /\ ~completed_event[job[v]]
          /\ attempts[job[v]] > 0
          /\ phase[v] = "sleeping" => attempts[job[v]] < MaxAttempts
          /\ \A i \in 1..Len(queue) : queue[i] # job[v]
      BY <2>2, <2>4 DEF WorkersOwnTheirJobs
    <3>2. \A i \in 1..Len(queue') : queue'[i] # job[v]
      BY <3>1, <1>2
    <3>3. \A u \in Workers : u # v /\ Working(u)' => job'[u] # job'[v]
      BY <2>1, <2>2, <2>4 DEF Working
    <3>4. QED
      BY <1>1, <2>1, <2>2, <2>4, <3>1, <3>2, <3>3 DEF Accepted, TypeOK
  <2>5. QED
    BY <2>3, <2>4
<1>9. RecordIsConsistent'
  BY SMTT(30), <1>1, <1>2 DEF RecordIsConsistent, Accepted, TypeOK
<1>10. QED
  BY <1>5, <1>6, <1>7, <1>8, <1>9

LEMMA RetryKeepsInv ==
  ASSUME QueueInv, NEW w \in Workers, Working(w),
         RetryAttempt(w) \/ RouteRaisedRetry(w)
  PROVE  QueueInv'
<1> USE DEF QueueInv
<1>1. /\ job[w] \in Requests /\ Accepted(job[w]) /\ ~completed_event[job[w]]
      /\ attempts[job[w]] > 0
      /\ phase[w] = "sleeping" => attempts[job[w]] < MaxAttempts
      /\ \A i \in 1..Len(queue) : queue[i] # job[w]
  BY DEF WorkersOwnTheirJobs
<1>2. CASE RetryAttempt(w)
  <2> USE DEF totals, records
  <2>1. /\ phase[w] = "sleeping"
        /\ attempts' = [attempts EXCEPT ![job[w]] = @ + 1]
        /\ phase' = [phase EXCEPT ![w] = "routing"]
        /\ job' = job
        /\ UNCHANGED <<queue, pending, status, error, result, completed_event, age,
                       caller, delay, running, totals>>
    BY <1>2 DEF RetryAttempt, Attempt, TypeOK
  <2>2. TypeOK'
    <3>1. attempts' \in [Requests -> 0..MaxAttempts] /\ phase' \in [Workers -> Phases]
      BY <1>1, <2>1, BackoffAssumption DEF TypeOK, Phases, MaxAttempts
    <3>2. QED
      BY <2>1, <3>1 DEF TypeOK
  <2>3. Untouched' /\ QueueIsFresh'
    <3>1. Untouched'
      BY <1>1, <2>1 DEF Untouched, Accepted, TypeOK
    <3>2. QueueIsFresh'
      BY SMTT(30), <1>1, <2>1 DEF QueueIsFresh, Accepted, TypeOK
    <3>3. QED
      BY <3>1, <3>2
  <2>4. WorkersOwnTheirJobs'
    BY <1>1, <2>1 DEF WorkersOwnTheirJobs, Working, Accepted, TypeOK
  <2>5. RecordIsConsistent'
    BY <2>1 DEF RecordIsConsistent
  <2>6. QED
    BY <2>2, <2>3, <2>4, <2>5
<1>3. CASE RouteRaisedRetry(w)
  <2> USE DEF totals, records
  <2>1. /\ phase[w] = "routing" /\ attempts[job[w]] < MaxAttempts
        /\ phase' = [phase EXCEPT ![w] = "sleeping"]
        /\ delay' = [delay EXCEPT ![w] = RetryDelay(attempts[job[w]] + 1)]
        /\ UNCHANGED <<queue, pending, records, age, caller, job, running, totals>>
    BY <1>3 DEF RouteRaisedRetry, AttemptsLeft
  <2>2. RetryDelay(attempts[job[w]] + 1) \in Nat
    BY <1>1, BackoffAssumption DEF RetryDelay, TypeOK, MaxAttempts
  <2>3. TypeOK'
    BY <2>1, <2>2 DEF TypeOK, Phases
  <2>4. Untouched' /\ QueueIsFresh'
    BY <1>1, <2>1 DEF Untouched, QueueIsFresh, Accepted, TypeOK
  <2>5. WorkersOwnTheirJobs'
    BY <1>1, <2>1 DEF WorkersOwnTheirJobs, Working, Accepted, TypeOK
  <2>6. RecordIsConsistent'
    BY <2>1 DEF RecordIsConsistent
  <2>7. QED
    BY <2>3, <2>4, <2>5, <2>6
<1>4. QED
  BY <1>2, <1>3

LEMMA EnvironmentKeepsInv ==
  ASSUME QueueInv, Tick \/ StopWorkers \/ UNCHANGED vars
  PROVE  QueueInv'
<1> USE DEF QueueInv, records, totals, workerVars
<1>1. CASE Tick
  <2> USE <1>1 DEF Tick
  <2>1. age' \in [Requests -> 0..(MaxWait + 1)] /\ delay' \in [Workers -> Nat]
    BY MaxWaitAssumption DEF TypeOK
  <2>2. TypeOK'
    BY <2>1 DEF TypeOK
  <2>3. Untouched' /\ QueueIsFresh' /\ WorkersOwnTheirJobs' /\ RecordIsConsistent'
    BY DEF Untouched, QueueIsFresh, WorkersOwnTheirJobs, RecordIsConsistent,
           Accepted, Working
  <2>4. QED
    BY <2>2, <2>3
<1>2. CASE StopWorkers
  <2> USE <1>2 DEF StopWorkers
  <2>1. TypeOK'
    BY DEF TypeOK, Phases
  <2>2. Untouched' /\ QueueIsFresh' /\ WorkersOwnTheirJobs' /\ RecordIsConsistent'
    BY DEF Untouched, QueueIsFresh, WorkersOwnTheirJobs, RecordIsConsistent,
           Accepted, Working
  <2>3. QED
    BY <2>1, <2>2
<1>3. CASE UNCHANGED vars
  BY <1>3 DEF vars, TypeOK, Untouched, QueueIsFresh, WorkersOwnTheirJobs,
              RecordIsConsistent, Accepted, Working
<1>4. QED
  BY <1>1, <1>2, <1>3

LEMMA StepKeepsInv == QueueInv /\ [Next]_vars => QueueInv'
<1> SUFFICES ASSUME QueueInv, [Next]_vars PROVE QueueInv'
  OBVIOUS
<1>1. ASSUME NEW r \in Requests, Enqueue(r) \/ EnqueueFull(r) \/ CallerStep(r)
      PROVE  QueueInv'
  BY <1>1, EnqueueKeepsInv, CallerKeepsInv DEF CallerStep
<1>2. ASSUME NEW w \in Workers, WorkerStep(w) \/ RouteReturns(w)
      PROVE  QueueInv'
  <2>1. CASE TakeAndAttempt(w) \/ TakeAndExpire(w)
    BY <2>1, TakeAndAttemptKeepsInv, TakeAndExpireKeepsInv
  <2>2. CASE RetryAttempt(w) \/ RouteRaisedRetry(w)
    <3>1. Working(w)
      BY <2>2 DEF RetryAttempt, RouteRaisedRetry, Working
    <3>2. QED
      BY <2>2, <3>1, RetryKeepsInv
  <2>3. CASE RetryExpire(w) \/ RouteCompleted(w) \/ RouteNotADict(w) \/ RouteRaisedLast(w)
    <3>1. Working(w)
      BY <2>3 DEF RetryExpire, RouteCompleted, RouteNotADict, RouteRaisedLast, Working
    <3>2. QED
      BY <2>3, <3>1, JobSettlesKeepsInv
  <2>4. QED
    BY <1>2, <2>1, <2>2, <2>3 DEF WorkerStep, RouteReturns
<1>3. QED
  BY <1>1, <1>2, EnvironmentKeepsInv DEF Next

(* The inductive invariant holds in every reachable state: this is what    *)
(* the theorems below rest on.                                             *)
THEOREM QueueInvariant == SafetySpec => []QueueInv
<1>1. QED
  BY InitInv, StepKeepsInv, PTL DEF SafetySpec

(* The variables keep their types, and no request is attempted more often  *)
(* than max_attempts (_process_request).                                   *)
THEOREM TypeCorrect == SafetySpec => []TypeOK
<1>1. QueueInv => TypeOK
  BY DEF QueueInv
<1>2. QED
  BY <1>1, QueueInvariant, PTL

(* No request is ever in the hands of two workers, or back in the queue,   *)
(* or still worked on once its completed_event is set (_worker,            *)
(* _process_request).                                                      *)
THEOREM SingleOwner == SafetySpec => []OneWorkerPerRequest
<1>1. QueueInv => OneWorkerPerRequest
  BY DEF QueueInv, WorkersOwnTheirJobs, OneWorkerPerRequest
<1>2. QED
  BY <1>1, QueueInvariant, PTL

(* What a client was told agrees with the request's record ever after      *)
(* (get_result, _handle_rate_limited).                                     *)
THEOREM RepliesAreTrue == SafetySpec => []ReplyMatchesRecord
<1>1. QueueInv => ReplyMatchesRecord
  BY DEF QueueInv, RecordIsConsistent, ReplyMatchesRecord
<1>2. QED
  BY <1>1, QueueInvariant, PTL

(* A recorded outcome is only rewritten on account of a caller that timed  *)
(* out (get_result).                                                       *)
THEOREM OutcomesAreFinal == SafetySpec => OutcomeIsFinal
<1> DEFINE Kept ==
      \A r \in Requests :
        status[r] \in {"completed", "failed"} /\ status'[r] # status[r] =>
          caller'[r] = "timed_out"
<1>1. ASSUME QueueInv, [Next]_vars PROVE Kept
  <2> SUFFICES ASSUME NEW r \in Requests,
                      status[r] \in {"completed", "failed"}, status'[r] # status[r]
               PROVE  caller'[r] = "timed_out"
    OBVIOUS
  <2>1. ~completed_event[r] => status[r] = "failed" /\ caller[r] = "timed_out"
    BY <1>1 DEF QueueInv, RecordIsConsistent
  <2>2. Accepted(r)
    BY <1>1 DEF QueueInv, Untouched
  <2>3. ASSUME NEW q \in Requests, Enqueue(q) \/ EnqueueFull(q) \/ CallerStep(q)
        PROVE  caller'[r] = "timed_out"
    BY <1>1, <2>2, <2>3
    DEF Enqueue, EnqueueFull, CallerStep, GetResult, GetResultTimeout, Accepted,
        QueueInv, TypeOK, records
  <2>4. ASSUME NEW w \in Workers, WorkerStep(w) \/ RouteReturns(w)
        PROVE  caller'[r] = "timed_out"
    <3>1. caller' = caller
      BY <2>4 DEF WorkerStep, RouteReturns, TakeAndAttempt, TakeAndExpire, Attempt,
                  RetryAttempt, RetryExpire, Expire, Settle, RouteCompleted,
                  RouteNotADict, RouteRaisedRetry, RouteRaisedLast
    <3>2. ASSUME NEW q \in Requests, q # r, NEW s, status' = [status EXCEPT ![q] = s]
          PROVE  FALSE
      BY <1>1, <3>2 DEF QueueInv, TypeOK
    <3>3. CASE TakeAndAttempt(w) \/ TakeAndExpire(w)
      <4>1. queue # <<>> /\ \E s : status' = [status EXCEPT ![Head(queue)] = s]
        BY <3>3 DEF TakeAndAttempt, TakeAndExpire, Expire, Settle
      <4>2. Head(queue) \in Requests /\ Head(queue) = queue[1] /\ 1 \in 1..Len(queue)
        BY <1>1, <4>1 DEF QueueInv, TypeOK
      <4>3. r = Head(queue)
        BY <3>2, <4>1, <4>2
      <4>4. ~completed_event[r]
        BY <1>1, <4>2, <4>3 DEF QueueInv, QueueIsFresh
      <4>5. QED
        BY <2>1, <3>1, <4>4
    <3>4. CASE ~(TakeAndAttempt(w) \/ TakeAndExpire(w))
      <4>1. Working(w)
        BY <2>4, <3>4 DEF WorkerStep, RouteReturns, RetryAttempt, RetryExpire,
             RouteCompleted, RouteNotADict, RouteRaisedRetry, RouteRaisedLast, Working
      <4>2. job[w] \in Requests /\ ~completed_event[job[w]]
        BY <1>1, <4>1 DEF QueueInv, WorkersOwnTheirJobs
      <4>3. status' = status \/ \E s : status' = [status EXCEPT ![job[w]] = s]
        BY <2>4, <3>4 DEF WorkerStep, RouteReturns, RetryAttempt, RetryExpire, Expire,
             Settle, RouteCompleted, RouteNotADict, RouteRaisedRetry, RouteRaisedLast,
             records
      <4>4. r = job[w]
        BY <3>2, <4>2, <4>3
      <4>5. QED
        BY <2>1, <3>1, <4>2, <4>4
    <3>5. QED
      BY <3>3, <3>4
  <2>5. CASE Tick \/ StopWorkers \/ UNCHANGED vars
    BY <2>5 DEF Tick, StopWorkers, vars, records
  <2>6. QED
    BY <1>1, <2>3, <2>4, <2>5 DEF Next
<1>2. QED
  BY <1>1, QueueInvariant, PTL DEF SafetySpec, OutcomeIsFinal

(* Attempts are only added and completed_event is never cleared; a step    *)
(* that is not Enqueue or a take leaves queue and _pending alone.          *)
LEMMA StepsOnlyAdd ==
  ASSUME QueueInv, [Next]_vars
  PROVE  /\ \A r \in Requests : attempts'[r] >= attempts[r]
         /\ \A r \in Requests : completed_event[r] => completed_event'[r]
         /\ \/ UNCHANGED <<queue, pending>>
            \/ \E r \in Requests : Enqueue(r)
            \/ \E w \in Workers : TakeAndAttempt(w) \/ TakeAndExpire(w)
<1>1. ASSUME NEW r \in Requests, Enqueue(r) \/ EnqueueFull(r) \/ CallerStep(r)
      PROVE  /\ UNCHANGED <<attempts, completed_event>>
             /\ Enqueue(r) \/ UNCHANGED <<queue, pending>>
  BY <1>1 DEF Enqueue, EnqueueFull, CallerStep, GetResult, GetResultTimeout, records
<1>2. ASSUME NEW w \in Workers, WorkerStep(w) \/ RouteReturns(w)
      PROVE  /\ attempts' = attempts
                \/ \E r : attempts' = [attempts EXCEPT ![r] = @ + 1]
             /\ completed_event' = completed_event
                \/ \E r : completed_event' = [completed_event EXCEPT ![r] = TRUE]
             /\ TakeAndAttempt(w) \/ TakeAndExpire(w) \/ UNCHANGED <<queue, pending>>
  BY <1>2 DEF WorkerStep, RouteReturns, TakeAndAttempt, TakeAndExpire, Attempt,
              RetryAttempt, RetryExpire, Expire, Settle, RouteCompleted,
              RouteNotADict, RouteRaisedRetry, RouteRaisedLast, records
<1>3. CASE Tick \/ StopWorkers \/ UNCHANGED vars
  BY <1>3 DEF Tick, StopWorkers, vars, records, QueueInv, TypeOK
<1>4. CASE \E r \in Requests : Enqueue(r) \/ EnqueueFull(r) \/ CallerStep(r)
  BY <1>1, <1>4 DEF QueueInv, TypeOK
<1>5. CASE \E w \in Workers : WorkerStep(w) \/ RouteReturns(w)
  <2>1. PICK w \in Workers : WorkerStep(w) \/ RouteReturns(w)
    BY <1>5
  <2>2. \A r \in Requests : attempts'[r] >= attempts[r]
    <3>1. attempts \in [Requests -> 0..MaxAttempts] /\ MaxAttempts \in Nat
      BY BackoffAssumption DEF QueueInv, TypeOK, MaxAttempts
    <3>2. CASE attempts' = attempts
      BY <3>1, <3>2
    <3>3. CASE \E r : attempts' = [attempts EXCEPT ![r] = @ + 1]
      BY <3>1, <3>3
    <3>4. QED
      BY <1>2, <2>1, <3>2, <3>3
  <2>3. \A r \in Requests : completed_event[r] => completed_event'[r]
    BY <1>2, <2>1 DEF QueueInv, TypeOK
  <2>4. QED
    BY <1>2, <2>1, <2>2, <2>3
<1>6. QED
  BY <1>3, <1>4, <1>5 DEF Next

LEMMA StepKeepsOrder ==
  QueueInv /\ QueueInv' /\ ServedInArrivalOrder /\ [Next]_vars => ServedInArrivalOrder'
<1> SUFFICES ASSUME QueueInv, QueueInv', ServedInArrivalOrder, [Next]_vars
             PROVE  ServedInArrivalOrder'
  OBVIOUS
<1>1. /\ \A r \in Requests : attempts'[r] >= attempts[r]
      /\ \A r \in Requests : completed_event[r] => completed_event'[r]
      /\ \/ UNCHANGED <<queue, pending>>
         \/ \E r \in Requests : Enqueue(r)
         \/ \E w \in Workers : TakeAndAttempt(w) \/ TakeAndExpire(w)
  BY StepsOnlyAdd
<1>2. \A i \in 1..Len(queue') : attempts'[queue'[i]] = 0 /\ ~completed_event'[queue'[i]]
  BY DEF QueueInv, QueueIsFresh
<1>3. /\ pending \in Seq(Requests) /\ queue \in Seq(Requests)
      /\ Len(pending) \in Nat /\ Len(queue) \in Nat
      /\ TakenCount \in Nat
      /\ \A i \in 1..Len(pending) : pending[i] \in Requests
  BY DEF QueueInv, TypeOK, TakenCount, ServedInArrivalOrder
<1>4. \A i \in 1..TakenCount : i \in 1..Len(pending)
  BY <1>3 DEF TakenCount
<1>5. \A i \in 1..TakenCount :
        attempts'[pending[i]] > 0 \/ completed_event'[pending[i]]
  <2> SUFFICES ASSUME NEW i \in 1..TakenCount
               PROVE  attempts'[pending[i]] > 0 \/ completed_event'[pending[i]]
    OBVIOUS
  <2>1. pending[i] \in Requests
    BY <1>3, <1>4
  <2>2. attempts[pending[i]] > 0 \/ completed_event[pending[i]]
    BY DEF ServedInArrivalOrder
  <2>3. attempts[pending[i]] \in Nat /\ attempts'[pending[i]] \in Nat
    BY <2>1 DEF QueueInv, TypeOK, MaxAttempts
  <2>4. QED
    BY <1>1, <2>1, <2>2, <2>3
<1>6. CASE UNCHANGED <<queue, pending>>
  BY <1>2, <1>5, <1>6 DEF ServedInArrivalOrder, TakenCount
<1>7. CASE \E r \in Requests : Enqueue(r)
  <2>1. PICK r \in Requests : queue' = Append(queue, r) /\ pending' = Append(pending, r)
    BY <1>7 DEF Enqueue, Put
  <2>2. /\ Len(queue') = Len(queue) + 1 /\ Len(pending') = Len(pending) + 1
        /\ TakenCount' = TakenCount
    BY <1>3, <2>1 DEF TakenCount
  <2>3. \A i \in 1..Len(pending) : pending'[i] = pending[i]
    BY <1>3, <2>1
  <2>4. \A i \in 1..Len(queue') : queue'[i] = pending'[TakenCount + i]
    <3> SUFFICES ASSUME NEW i \in 1..Len(queue')
                 PROVE  queue'[i] = pending'[TakenCount + i]
      OBVIOUS
    <3>1. CASE i = Len(queue) + 1
      <4>1. TakenCount + i = Len(pending) + 1
        BY <1>3, <3>1 DEF TakenCount
      <4>2. QED
        BY <1>3, <2>1, <3>1, <4>1
    <3>2. CASE i \in 1..Len(queue)
      <4>1. TakenCount + i \in 1..Len(pending)
        BY <1>3, <3>2 DEF TakenCount
      <4>2. queue[i] = pending[TakenCount + i]
        BY <3>2 DEF ServedInArrivalOrder
      <4>3. queue'[i] = queue[i]
        BY <1>3, <2>1, <3>2
      <4>4. QED
        BY <2>3, <4>1, <4>2, <4>3
    <3>3. QED
      BY <1>3, <2>2, <3>1, <3>2
  <2>5. \A i \in 1..TakenCount :
          attempts'[pending'[i]] > 0 \/ completed_event'[pending'[i]]
    BY <1>4, <1>5, <2>3
  <2>6. QED
    BY <1>2, <1>3, <2>2, <2>4, <2>5 DEF ServedInArrivalOrder
<1>8. CASE \E w \in Workers : TakeAndAttempt(w) \/ TakeAndExpire(w)
  <2>1. /\ queue # <<>> /\ queue' = Tail(queue) /\ pending' = pending
        /\ \/ attempts' = [attempts EXCEPT ![Head(queue)] = @ + 1]
           \/ completed_event' = [completed_event EXCEPT ![Head(queue)] = TRUE]
    BY <1>8 DEF TakeAndAttempt, TakeAndExpire, Taken, Attempt, Expire, Settle
  <2>2. /\ Len(queue) > 0 /\ Len(queue') = Len(queue) - 1
        /\ Head(queue) = queue[1] /\ Head(queue) \in Requests
        /\ \A i \in 1..Len(queue') : queue'[i] = queue[i + 1]
    BY <1>3, <2>1
  <2>3. TakenCount' = TakenCount + 1
    BY <1>3, <2>1, <2>2 DEF TakenCount
  <2>4. queue[1] = pending[TakenCount + 1]
    BY <1>3, <2>2 DEF ServedInArrivalOrder
  <2>5. attempts'[Head(queue)] > 0 \/ completed_event'[Head(queue)]
    BY <2>1, <2>2 DEF QueueInv, TypeOK, MaxAttempts
  <2>6. \A i \in 1..(TakenCount + 1) :
          attempts'[pending[i]] > 0 \/ completed_event'[pending[i]]
    <3> SUFFICES ASSUME NEW i \in 1..(TakenCount + 1)
                 PROVE  attempts'[pending[i]] > 0 \/ completed_event'[pending[i]]
      OBVIOUS
    <3>1. CASE i = TakenCount + 1
      BY <2>2, <2>4, <2>5, <3>1
    <3>2. CASE i # TakenCount + 1
      <4>1. i \in 1..TakenCount
        BY <1>3, <3>2
      <4>2. QED
        BY <1>5, <4>1
    <3>3. QED
      BY <3>1, <3>2
  <2>7. \A i \in 1..Len(queue') : queue'[i] = pending[TakenCount + 1 + i]
    <3> SUFFICES ASSUME NEW i \in 1..Len(queue')
                 PROVE  queue'[i] = pending[TakenCount + 1 + i]
      OBVIOUS
    <3>1. i + 1 \in 1..Len(queue) /\ TakenCount + (i + 1) = TakenCount + 1 + i
      BY <1>3, <2>2
    <3>2. queue[i + 1] = pending[TakenCount + (i + 1)]
      BY <3>1 DEF ServedInArrivalOrder
    <3>3. QED
      BY <2>2, <3>1, <3>2
  <2>8. QED
    BY <1>2, <1>3, <2>1, <2>2, <2>3, <2>6, <2>7 DEF ServedInArrivalOrder
<1>9. QED
  BY <1>1, <1>6, <1>7, <1>8

(* Requests are taken in the order they were accepted; none is lost or     *)
(* taken twice (enqueue, _worker).                                         *)
THEOREM ArrivalOrder == SafetySpec => []ServedInArrivalOrder
<1>1. Init => ServedInArrivalOrder
  BY DEF Init, ServedInArrivalOrder, TakenCount
<1>2. QED
  BY <1>1, QueueInvariant, StepKeepsOrder, PTL DEF SafetySpec

Total == total_completed + total_failed + total_expired

(* One more request in a finite set of requests: the two sets that         *)
(* Accounting counts only grow by one.                                     *)
LEMMA CountOneMore ==
  ASSUME NEW S \in SUBSET Requests, NEW r \in Requests, r \notin S
  PROVE  Cardinality(S \cup {r}) = Cardinality(S) + 1 /\ Cardinality(S) \in Nat
<1>1. IsFiniteSet(S)
  BY RequestsAssumption, FS_Subset
<1>2. QED
  BY <1>1, FS_AddElement, FS_CardinalityType

(* What a step adds to the totals it adds to the sets they count.          *)
LEMMA StepCounts ==
  ASSUME QueueInv, [Next]_vars
  PROVE  \/ Total' = Total /\ Settled' = Settled /\ GaveUp' = GaveUp
         \/ \E r \in Requests \ Settled :
              Total' = Total + 1 /\ Settled' = Settled \cup {r} /\ GaveUp' = GaveUp
         \/ \E r \in Requests \ GaveUp :
              Total' = Total + 1 /\ Settled' = Settled /\ GaveUp' = GaveUp \cup {r}
<1>1. ASSUME NEW r \in Requests, Enqueue(r) \/ EnqueueFull(r) \/ GetResult(r)
      PROVE  Total' = Total /\ Settled' = Settled /\ GaveUp' = GaveUp
  <2>1. UNCHANGED <<total_completed, total_failed, total_expired, completed_event>>
    BY <1>1 DEF Enqueue, EnqueueFull, GetResult, records, totals
  <2>2. PICK reply : reply # "timed_out" /\ caller[r] # "timed_out"
                     /\ caller' = [caller EXCEPT ![r] = reply]
    <3>1. CASE Enqueue(r)
      <4>1. CASE Blocking
        BY <3>1, <4>1 DEF Enqueue
      <4>2. CASE ~Blocking
        BY <3>1, <4>2 DEF Enqueue
      <4>3. QED
        BY <4>1, <4>2
    <3>2. CASE EnqueueFull(r)
      BY <3>2 DEF EnqueueFull
    <3>3. CASE GetResult(r)
      BY <3>3 DEF GetResult, Answer
    <3>4. QED
      BY <1>1, <3>1, <3>2, <3>3
  <2>3. QED
    BY <2>1, <2>2 DEF Total, Settled, GaveUp, QueueInv, TypeOK
<1>2. ASSUME NEW r \in Requests, GetResultTimeout(r)
      PROVE  /\ r \in Requests \ GaveUp /\ Total' = Total + 1
             /\ Settled' = Settled /\ GaveUp' = GaveUp \cup {r}
  <2>1. /\ total_expired' = total_expired + 1
        /\ UNCHANGED <<total_completed, total_failed, completed_event>>
        /\ caller[r] = "waiting" /\ caller' = [caller EXCEPT ![r] = "timed_out"]
    BY <1>2 DEF GetResultTimeout
  <2>2. Settled' = Settled /\ r \notin GaveUp
    BY <2>1 DEF Settled, GaveUp
  <2>3. Total' = Total + 1
    BY <2>1 DEF Total, QueueInv, TypeOK
  <2>4. GaveUp' = GaveUp \cup {r}
    BY <2>1 DEF GaveUp, QueueInv, TypeOK
  <2>5. QED
    BY <2>2, <2>3, <2>4
<1>3. ASSUME NEW w \in Workers,
             TakeAndAttempt(w) \/ RetryAttempt(w) \/ RouteRaisedRetry(w)
      PROVE  Total' = Total /\ Settled' = Settled /\ GaveUp' = GaveUp
  BY <1>3 DEF TakeAndAttempt, RetryAttempt, RouteRaisedRetry, Attempt, records, totals,
              Total, Settled, GaveUp
<1>4. ASSUME NEW w \in Workers,
             \/ TakeAndExpire(w) \/ RetryExpire(w)
             \/ RouteCompleted(w) \/ RouteNotADict(w) \/ RouteRaisedLast(w)
      PROVE  \E r \in Requests \ Settled :
               Total' = Total + 1 /\ Settled' = Settled \cup {r} /\ GaveUp' = GaveUp
  <2>1. Total' = Total + 1 /\ GaveUp' = GaveUp
    <3> USE DEF Settle, Total, GaveUp, QueueInv, TypeOK
    <3>1. CASE TakeAndExpire(w)
      BY <3>1 DEF TakeAndExpire, Expire, ExpireCounted
    <3>2. CASE RetryExpire(w)
      BY <3>2 DEF RetryExpire, Expire, ExpireCounted
    <3>3. CASE RouteCompleted(w)
      BY <3>3 DEF RouteCompleted
    <3>4. CASE RouteNotADict(w)
      BY <3>4 DEF RouteNotADict
    <3>5. CASE RouteRaisedLast(w)
      BY <3>5 DEF RouteRaisedLast
    <3>6. QED
      BY <1>4, <3>1, <3>2, <3>3, <3>4, <3>5
  <2>2. PICK r : /\ completed_event' = [completed_event EXCEPT ![r] = TRUE]
                 /\ \/ TakeAndExpire(w) /\ r = Head(queue)
                    \/ Working(w) /\ r = job[w]
    <3>1. CASE TakeAndExpire(w)
      BY <3>1 DEF TakeAndExpire, Expire, Settle
    <3>2. CASE ~TakeAndExpire(w)
      BY <1>4, <3>2 DEF RetryExpire, RouteCompleted, RouteNotADict,
                        RouteRaisedLast, Expire, Settle, Working
    <3>3. QED
      BY <3>1, <3>2
  <2>3. r \in Requests /\ ~completed_event[r]
    <3>1. CASE TakeAndExpire(w) /\ r = Head(queue)
      <4>1. r = queue[1] /\ r \in Requests /\ 1 \in 1..Len(queue)
        BY <3>1 DEF TakeAndExpire, QueueInv, TypeOK
      <4>2. QED
        BY <4>1 DEF QueueInv, QueueIsFresh
    <3>2. CASE Working(w) /\ r = job[w]
      BY <3>2 DEF QueueInv, WorkersOwnTheirJobs
    <3>3. QED
      BY <2>2, <3>1, <3>2
  <2>4. Settled' = Settled \cup {r} /\ r \notin Settled
    BY <2>2, <2>3 DEF Settled, QueueInv, TypeOK
  <2>5. QED
    BY <2>1, <2>3, <2>4
<1>5. CASE Tick \/ StopWorkers \/ UNCHANGED vars
  BY <1>5 DEF Tick, StopWorkers, vars, records, totals, Total, Settled, GaveUp
<1>6. CASE \E r \in Requests : Enqueue(r) \/ EnqueueFull(r) \/ CallerStep(r)
  BY <1>1, <1>2, <1>6 DEF CallerStep
<1>7. CASE \E w \in Workers : WorkerStep(w) \/ RouteReturns(w)
  BY <1>3, <1>4, <1>7 DEF WorkerStep, RouteReturns
<1>8. QED
  BY <1>5, <1>6, <1>7 DEF Next

LEMMA StepKeepsAccounting ==
  QueueInv /\ Accounting /\ [Next]_vars => Accounting'
<1> SUFFICES ASSUME QueueInv, Accounting, [Next]_vars PROVE Accounting'
  OBVIOUS
<1>1. /\ Settled \in SUBSET Requests /\ GaveUp \in SUBSET Requests
      /\ IsFiniteSet(Settled) /\ IsFiniteSet(GaveUp)
      /\ Cardinality(Settled) \in Nat /\ Cardinality(GaveUp) \in Nat
  BY RequestsAssumption, FS_Subset, FS_CardinalityType DEF Settled, GaveUp
<1>2. Total = Cardinality(Settled) + Cardinality(GaveUp)
  BY DEF Accounting, Total
<1>3. Total' = Cardinality(Settled)' + Cardinality(GaveUp)'
  <2>1. CASE Total' = Total /\ Settled' = Settled /\ GaveUp' = GaveUp
    BY <1>2, <2>1
  <2>2. ASSUME NEW r \in Requests \ Settled,
               Total' = Total + 1 /\ Settled' = Settled \cup {r} /\ GaveUp' = GaveUp
        PROVE  Total' = Cardinality(Settled)' + Cardinality(GaveUp)'
    <3>1. Cardinality(Settled)' = Cardinality(Settled) + 1
      BY <1>1, <2>2, CountOneMore
    <3>2. QED
      BY <1>1, <1>2, <2>2, <3>1
  <2>3. ASSUME NEW r \in Requests \ GaveUp,
               Total' = Total + 1 /\ Settled' = Settled /\ GaveUp' = GaveUp \cup {r}
        PROVE  Total' = Cardinality(Settled)' + Cardinality(GaveUp)'
    <3>1. Cardinality(GaveUp)' = Cardinality(GaveUp) + 1
      BY <1>1, <2>3, CountOneMore
    <3>2. QED
      BY <1>1, <1>2, <2>3, <3>1
  <2>4. QED
    BY <2>1, <2>2, <2>3, StepCounts
<1>4. total_queued' = Len(pending')
  <2>1. CASE \E r \in Requests : Enqueue(r)
    BY <2>1 DEF Enqueue, Accounting, QueueInv, TypeOK
  <2>2. CASE ~\E r \in Requests : Enqueue(r)
    <3>1. total_queued' = total_queued /\ pending' = pending
      BY <2>2 DEF Next, EnqueueFull, CallerStep, GetResult, GetResultTimeout, WorkerStep,
           RouteReturns, TakeAndAttempt, TakeAndExpire, Attempt, RetryAttempt,
           RetryExpire, Expire, Settle, RouteCompleted, RouteNotADict, RouteRaisedRetry,
           RouteRaisedLast, Tick, StopWorkers, vars, records, totals
    <3>2. QED
      BY <3>1 DEF Accounting
  <2>3. QED
    BY <2>1, <2>2
<1>5. QED
  BY <1>3, <1>4 DEF Accounting, Total

(* The totals of stats() add up: every settled request is counted once and *)
(* every caller that gave up once more (get_result, _process_request).     *)
THEOREM TotalsAddUp == SafetySpec => []Accounting
<1>1. Init => Accounting
  <2> SUFFICES ASSUME Init PROVE Accounting
    OBVIOUS
  <2>1. Settled = {} /\ GaveUp = {}
    BY DEF Init, Settled, GaveUp
  <2>2. Cardinality(Settled) = 0 /\ Cardinality(GaveUp) = 0
    BY <2>1, FS_EmptySet
  <2>3. QED
    BY <2>2 DEF Init, Accounting
<1>2. QED
  BY <1>1, QueueInvariant, StepKeepsAccounting, PTL DEF SafetySpec

-----------------------------------------------------------------------------
(***************************************************************************)
(* The queue implements Delivery.                                          *)
(***************************************************************************)

LEMMA EnqueueAccepts ==
  ASSUME QueueInv, NEW r \in Requests, Enqueue(r)
  PROVE  Promise!Accept(r)
<1>1. status[r] = "none" /\ ~completed_event[r] /\ caller[r] = "none"
  BY DEF Enqueue, QueueInv, Untouched, Accepted
<1>2. /\ status' = [status EXCEPT ![r] = "queued"]
      /\ caller' = [caller EXCEPT ![r] = IF Blocking THEN "waiting" ELSE "polling"]
      /\ UNCHANGED <<result, completed_event>>
  BY DEF Enqueue
<1>3. CASE Blocking
  BY <1>1, <1>2, <1>3 DEF Promise!Accept, QueueInv, TypeOK
<1>4. CASE ~Blocking
  BY <1>1, <1>2, <1>4 DEF Promise!Accept, QueueInv, TypeOK
<1>5. QED
  BY <1>3, <1>4

LEMMA CallerDelivers ==
  ASSUME QueueInv, NEW r \in Requests,
         EnqueueFull(r) \/ GetResult(r) \/ GetResultTimeout(r)
  PROVE  Promise!Refuse(r) \/ Promise!Deliver(r) \/ Promise!GiveUp(r)
<1> USE DEF QueueInv, TypeOK
<1>1. CASE EnqueueFull(r)
  BY <1>1 DEF EnqueueFull, records, Promise!Refuse
<1>2. CASE GetResult(r)
  <2>1. /\ caller[r] = "waiting" /\ completed_event[r] /\ status[r] # "none"
        /\ caller' = [caller EXCEPT ![r] = Answer(r)]
        /\ UNCHANGED <<status, result, completed_event>>
    BY <1>2 DEF GetResult, records, RecordIsConsistent
  <2>2. IF result[r] THEN Answer(r) = "returned" ELSE Answer(r) = "raised"
    BY <2>1 DEF Answer, RecordIsConsistent
  <2>3. QED
    BY <2>1, <2>2 DEF Promise!Deliver
<1>3. CASE GetResultTimeout(r)
  <2>1. /\ caller[r] = "waiting" /\ status[r] # "none"
        /\ caller' = [caller EXCEPT ![r] = "timed_out"]
        /\ status' = [status EXCEPT ![r] = "failed"]
        /\ UNCHANGED <<result, completed_event>>
    BY <1>3 DEF GetResultTimeout, RecordIsConsistent
  <2>2. QED
    BY <2>1 DEF Promise!GiveUp
<1>4. QED
  BY <1>1, <1>2, <1>3

(* A worker that settles a request concludes it. *)
LEMMA SettleConcludes ==
  ASSUME QueueInv, NEW r \in Requests, NEW outcome \in Statuses \ {"none"},
         status[r] # "none", ~completed_event[r],
         status' = [status EXCEPT ![r] = outcome],
         completed_event' = [completed_event EXCEPT ![r] = TRUE],
         \/ UNCHANGED result
         \/ result' = [result EXCEPT ![r] = TRUE],
         UNCHANGED caller
  PROVE  Promise!Conclude(r)
<1> USE DEF QueueInv, TypeOK
<1>1. CASE UNCHANGED result
  <2>1. ~result[r]
    BY DEF RecordIsConsistent
  <2>2. QED
    BY <1>1, <2>1 DEF Promise!Conclude
<1>2. CASE result' = [result EXCEPT ![r] = TRUE]
  BY <1>2 DEF Promise!Conclude
<1>3. QED
  BY <1>1, <1>2

(* What a worker that settles or attempts a request may rely on. *)
LEMMA HeldRequestIsOpen ==
  ASSUME QueueInv, NEW w \in Workers
  PROVE  /\ Working(w) =>
              job[w] \in Requests /\ status[job[w]] # "none" /\ ~completed_event[job[w]]
         /\ queue # <<>> =>
              /\ Head(queue) \in Requests /\ status[Head(queue)] # "none"
              /\ ~completed_event[Head(queue)]
<1>1. ASSUME NEW r \in Requests, Accepted(r) PROVE status[r] # "none"
  BY <1>1 DEF QueueInv, Accepted, RecordIsConsistent
<1>2. Working(w) =>
        job[w] \in Requests /\ status[job[w]] # "none" /\ ~completed_event[job[w]]
  BY <1>1 DEF QueueInv, WorkersOwnTheirJobs
<1>3. ASSUME queue # <<>>
      PROVE  /\ Head(queue) \in Requests /\ status[Head(queue)] # "none"
             /\ ~completed_event[Head(queue)]
  <2>1. Head(queue) = queue[1] /\ Head(queue) \in Requests /\ 1 \in 1..Len(queue)
    BY <1>3 DEF QueueInv, TypeOK
  <2>2. Accepted(Head(queue)) /\ ~completed_event[Head(queue)]
    BY <2>1 DEF QueueInv, QueueIsFresh
  <2>3. QED
    BY <1>1, <2>1, <2>2
<1>4. QED
  BY <1>2, <1>3

LEMMA WorkerConcludes ==
  ASSUME QueueInv, NEW w \in Workers, WorkerStep(w) \/ RouteReturns(w)
  PROVE  (\E r \in Requests : Promise!Conclude(r)) \/ UNCHANGED Promise!dvars
<1> USE HeldRequestIsOpen
<1>1. CASE TakeAndAttempt(w)
  <2>1. /\ queue # <<>> /\ status' = [status EXCEPT ![Head(queue)] = "processing"]
        /\ UNCHANGED <<caller, result, completed_event>>
    BY <1>1 DEF TakeAndAttempt, Attempt
  <2>2. QED
    BY <2>1 DEF Promise!dvars, QueueInv, TypeOK
<1>2. CASE RetryAttempt(w) \/ RouteRaisedRetry(w)
  <2>1. UNCHANGED <<caller, status, result, completed_event>>
    BY <1>2 DEF RetryAttempt, RouteRaisedRetry, Attempt, records
  <2>2. QED
    BY <2>1 DEF Promise!dvars
<1>3. CASE TakeAndExpire(w)
  <2>1. queue # <<>> /\ Settle(w, Head(queue), "failed", "expired") /\ UNCHANGED result
    BY <1>3 DEF TakeAndExpire, Expire
  <2>2. QED
    BY <2>1, SettleConcludes DEF Settle, Statuses
<1>4. CASE RetryExpire(w)
  <2>1. /\ Working(w) /\ Settle(w, job[w], "failed", "expired") /\ UNCHANGED result
    BY <1>4 DEF RetryExpire, Expire, Working
  <2>2. QED
    BY <2>1, SettleConcludes DEF Settle, Statuses
<1>5. CASE RouteCompleted(w)
  <2>1. /\ Working(w) /\ Settle(w, job[w], "completed", error[job[w]])
        /\ result' = [result EXCEPT ![job[w]] = TRUE]
    BY <1>5 DEF RouteCompleted, Working
  <2>2. QED
    BY <2>1, SettleConcludes DEF Settle, Statuses
<1>6. CASE RouteNotADict(w)
  <2>1. /\ Working(w) /\ Settle(w, job[w], "failed", "not_a_dict") /\ UNCHANGED result
    BY <1>6 DEF RouteNotADict, Working
  <2>2. QED
    BY <2>1, SettleConcludes DEF Settle, Statuses
<1>7. CASE RouteRaisedLast(w)
  <2>1. /\ Working(w) /\ Settle(w, job[w], "failed", "exhausted") /\ UNCHANGED result
    BY <1>7 DEF RouteRaisedLast, Working
  <2>2. QED
    BY <2>1, SettleConcludes DEF Settle, Statuses
<1>8. QED
  BY <1>1, <1>2, <1>3, <1>4, <1>5, <1>6, <1>7 DEF WorkerStep, RouteReturns

LEMMA StepRefines ==
  QueueInv /\ [Next]_vars => [Promise!Next]_Promise!dvars
<1> SUFFICES ASSUME QueueInv, [Next]_vars PROVE [Promise!Next]_Promise!dvars
  OBVIOUS
<1>1. CASE \E r \in Requests : Enqueue(r) \/ EnqueueFull(r) \/ CallerStep(r)
  BY <1>1, EnqueueAccepts, CallerDelivers DEF CallerStep, Promise!Next
<1>2. CASE \E w \in Workers : WorkerStep(w) \/ RouteReturns(w)
  BY <1>2, WorkerConcludes DEF Promise!Next
<1>3. CASE Tick \/ StopWorkers \/ UNCHANGED vars
  <2>1. UNCHANGED <<caller, status, result, completed_event>>
    BY <1>3 DEF Tick, StopWorkers, vars, records
  <2>2. QED
    BY <2>1 DEF Promise!dvars
<1>4. QED
  BY <1>1, <1>2, <1>3 DEF Next

(* The queue keeps Delivery's promise, its fairness aside: every request   *)
(* has one outcome that never changes, and its client one reply that       *)
(* agrees with the outcome or says that the client stopped waiting.        *)
THEOREM QueueDelivers == SafetySpec => Promise!SafetySpec
<1>1. Init => Promise!Init
  BY DEF Init, Promise!Init
<1>2. QED
  BY <1>1, QueueInvariant, StepRefines, PTL DEF SafetySpec, Promise!SafetySpec
=============================================================================
