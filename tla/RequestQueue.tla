---------------------------- MODULE RequestQueue ----------------------------
(***************************************************************************)
(* The queue that holds chat requests while every provider of their model  *)
(* is rate limited (request_queue.py), with the handler that feeds it and  *)
(* waits on it (main.py, _handle_rate_limited).                            *)
(*                                                                         *)
(* Everything runs on one asyncio event loop, so a step is the code from   *)
(* one await to the next.  A step of a worker ends where it sleeps before  *)
(* a retry or awaits the router; a step of a caller ends where it waits on *)
(* the request's completed_event.                                          *)
(*                                                                         *)
(* Time is counted in units the delays are multiples of.  The only thing   *)
(* the code asks of enqueued_at is how it compares with MAX_WAIT_TIME, so  *)
(* a request carries its age, saturated just above that bound, and the     *)
(* clock needs no bound of its own.  Timers never fire early; a busy event *)
(* loop may fire them late.                                                *)
(***************************************************************************)
EXTENDS Naturals, Sequences, FiniteSets

CONSTANTS
  Requests,    \* the requests clients may make, each made once
  Workers,     \* start_workers(num_workers)
  QueueSize,   \* MAX_QUEUE_SIZE
  MaxWait,     \* MAX_WAIT_TIME, also the timeout of get_result
  Backoff,     \* BACKOFF_DELAYS; its length is max_attempts
  Blocking,    \* BLOCKING_QUEUE: the handler waits, or answers 202 at once
  None         \* no request

ASSUME RequestsAssumption == IsFiniteSet(Requests) /\ None \notin Requests
ASSUME QueueSizeAssumption == QueueSize \in Nat \ {0}
ASSUME MaxWaitAssumption == MaxWait \in Nat \ {0}
ASSUME BackoffAssumption == Backoff \in Seq(Nat) /\ Len(Backoff) > 0
ASSUME BlockingAssumption == Blocking \in BOOLEAN

VARIABLES
  queue,            \* _queue, the asyncio.Queue of requests not yet taken
  pending,          \* _pending, in insertion order; nothing ever leaves it
  status,           \* per request: status, "none" before it is accepted
  error,            \* per request: error
  result,           \* per request: is there a result
  attempts,         \* per request: attempts
  completed_event,  \* per request: completed_event.is_set()
  age,              \* per request: time.time() - enqueued_at
  caller,           \* per request: what the HTTP handler did or does
  phase,            \* per worker: where its coroutine is suspended
  job,              \* per worker: the request _process_request runs on
  delay,            \* per worker: what is left of its asyncio.sleep
  running,          \* _running
  total_queued, total_completed, total_failed, total_expired

records == <<status, error, result, attempts, completed_event>>
workerVars == <<phase, job, delay>>
totals == <<total_queued, total_completed, total_failed, total_expired>>
vars == <<queue, pending, records, age, caller, workerVars, running, totals>>

MaxAttempts == Len(Backoff)

Statuses == {"none", "queued", "processing", "completed", "failed"}
Errors == {"none", "timed_out", "expired", "not_a_dict", "exhausted"}
Callers == {"none", "rejected", "polling", "waiting", "returned", "raised",
            "timed_out"}
Phases == {"idle", "sleeping", "routing", "cancelled"}

Init ==
  /\ queue = <<>>
  /\ pending = <<>>
  /\ status = [r \in Requests |-> "none"]
  /\ error = [r \in Requests |-> "none"]
  /\ result = [r \in Requests |-> FALSE]
  /\ attempts = [r \in Requests |-> 0]
  /\ completed_event = [r \in Requests |-> FALSE]
  /\ age = [r \in Requests |-> 0]
  /\ caller = [r \in Requests |-> "none"]
  /\ phase = [w \in Workers |-> "idle"]
  /\ job = [w \in Workers |-> None]
  /\ delay = [w \in Workers |-> 0]
  /\ running = TRUE
  /\ total_queued = 0
  /\ total_completed = 0
  /\ total_failed = 0
  /\ total_expired = 0

(***************************************************************************)
(* The callers.                                                            *)
(***************************************************************************)

(* Mutated forms of the next three definitions. *)
PutFirst(r) == <<r>> \o queue
NeverTimesOut(r) == FALSE
AlwaysReturns(r) == "returned"

Put(r) == Append(queue, r)
TimedOut(r) == age[r] >= MaxWait
Answer(r) == IF error[r] # "none" THEN "raised" ELSE "returned"

(* enqueue finds room: the request is stored, and the handler either goes  *)
(* on to get_result without yielding or answers 202.                       *)
Enqueue(r) ==
  /\ running
  /\ caller[r] = "none"
  /\ Len(queue) < QueueSize
  /\ queue' = Put(r)
  /\ pending' = Append(pending, r)
  /\ status' = [status EXCEPT ![r] = "queued"]
  /\ total_queued' = total_queued + 1
  /\ caller' = [caller EXCEPT ![r] = IF Blocking THEN "waiting" ELSE "polling"]
  /\ UNCHANGED <<error, result, attempts, completed_event, age, workerVars,
                 running, total_completed, total_failed, total_expired>>

(* put_nowait raises QueueFull: the handler answers 503. *)
EnqueueFull(r) ==
  /\ running
  /\ caller[r] = "none"
  /\ Len(queue) >= QueueSize
  /\ caller' = [caller EXCEPT ![r] = "rejected"]
  /\ UNCHANGED <<queue, pending, records, age, workerVars, running, totals>>

(* get_result resumes because completed_event was set: it raises the       *)
(* request's error if there is one and returns its result otherwise.       *)
GetResult(r) ==
  /\ caller[r] = "waiting"
  /\ completed_event[r]
  /\ caller' = [caller EXCEPT ![r] = Answer(r)]
  /\ UNCHANGED <<queue, pending, records, age, workerVars, running, totals>>

(* wait_for times out.  The event may be set already: when both happen     *)
(* before the handler's task runs again, the timeout wins (Python 3.12     *)
(* cancels the task, and wait_for turns that into TimeoutError).           *)
GetResultTimeout(r) ==
  /\ caller[r] = "waiting"
  /\ TimedOut(r)
  /\ status' = [status EXCEPT ![r] = "failed"]
  /\ error' = [error EXCEPT ![r] = "timed_out"]
  /\ total_expired' = total_expired + 1
  /\ caller' = [caller EXCEPT ![r] = "timed_out"]
  /\ UNCHANGED <<queue, pending, result, attempts, completed_event, age,
                 workerVars, running, total_queued, total_completed,
                 total_failed>>

(***************************************************************************)
(* The workers.                                                            *)
(***************************************************************************)

(* Mutated forms of Taken and ExpireCounted. *)
TakenNot == queue
ExpireUncounted(r) == total_expired

Taken == Tail(queue)
RetryDelay(n) == Backoff[IF n <= Len(Backoff) THEN n ELSE Len(Backoff)]
AttemptsLeft(r) == attempts[r] < MaxAttempts
ExpireCounted(r) == total_expired + 1

(* The request's last step in _process_request: its worker records the     *)
(* outcome, sets completed_event and returns to the loop of _worker.       *)
Settle(w, r, outcome, why) ==
  /\ status' = [status EXCEPT ![r] = outcome]
  /\ error' = [error EXCEPT ![r] = why]
  /\ completed_event' = [completed_event EXCEPT ![r] = TRUE]
  /\ phase' = [phase EXCEPT ![w] = "idle"]
  /\ job' = [job EXCEPT ![w] = None]
  /\ UNCHANGED <<pending, age, caller, delay, running, total_queued>>

(* The expiry check that precedes every attempt, and the attempt itself up *)
(* to the await of route_request.                                          *)
Expire(w, r) ==
  /\ age[r] > MaxWait
  /\ Settle(w, r, "failed", "expired")
  /\ total_expired' = ExpireCounted(r)
  /\ UNCHANGED <<result, attempts, total_completed, total_failed>>

Attempt(w, r) ==
  /\ age[r] <= MaxWait
  /\ attempts' = [attempts EXCEPT ![r] = @ + 1]
  /\ phase' = [phase EXCEPT ![w] = "routing"]
  /\ job' = [job EXCEPT ![w] = r]
  /\ UNCHANGED <<pending, error, result, completed_event, age, caller, delay,
                 running, totals>>

(* An idle worker takes the oldest request; no delay precedes the first    *)
(* attempt.                                                                *)
TakeAndAttempt(w) ==
  /\ phase[w] = "idle"
  /\ queue # <<>>
  /\ queue' = Taken
  /\ status' = [status EXCEPT ![Head(queue)] = "processing"]
  /\ Attempt(w, Head(queue))

TakeAndExpire(w) ==
  /\ phase[w] = "idle"
  /\ queue # <<>>
  /\ queue' = Taken
  /\ Expire(w, Head(queue))

(* The sleep before a retry is over. *)
RetryAttempt(w) ==
  /\ phase[w] = "sleeping"
  /\ delay[w] = 0
  /\ Attempt(w, job[w])
  /\ UNCHANGED <<queue, status>>

RetryExpire(w) ==
  /\ phase[w] = "sleeping"
  /\ delay[w] = 0
  /\ Expire(w, job[w])
  /\ UNCHANGED queue

(* route_request returned a response body.  An error the caller's timeout  *)
(* left on the request stays there.                                        *)
RouteCompleted(w) ==
  /\ phase[w] = "routing"
  /\ Settle(w, job[w], "completed", error[job[w]])
  /\ result' = [result EXCEPT ![job[w]] = TRUE]
  /\ total_completed' = total_completed + 1
  /\ UNCHANGED <<queue, attempts, total_failed, total_expired>>

(* Mutated form of RouteNotADict: completed_event is not set. *)
RouteNotADictUnset(w) ==
  /\ phase[w] = "routing"
  /\ status' = [status EXCEPT ![job[w]] = "failed"]
  /\ error' = [error EXCEPT ![job[w]] = "not_a_dict"]
  /\ phase' = [phase EXCEPT ![w] = "idle"]
  /\ job' = [job EXCEPT ![w] = None]
  /\ total_failed' = total_failed + 1
  /\ UNCHANGED <<queue, pending, result, attempts, completed_event, age,
                 caller, delay, running, total_queued, total_completed,
                 total_expired>>

(* route_request returned something else than a dict. *)
RouteNotADict(w) ==
  /\ phase[w] = "routing"
  /\ Settle(w, job[w], "failed", "not_a_dict")
  /\ total_failed' = total_failed + 1
  /\ UNCHANGED <<queue, result, attempts, total_completed, total_expired>>

(* route_request raised and attempts are left: sleep before the next. *)
RouteRaisedRetry(w) ==
  /\ phase[w] = "routing"
  /\ AttemptsLeft(job[w])
  /\ phase' = [phase EXCEPT ![w] = "sleeping"]
  /\ delay' = [delay EXCEPT ![w] = RetryDelay(attempts[job[w]] + 1)]
  /\ UNCHANGED <<queue, pending, records, age, caller, job, running, totals>>

(* route_request raised at the last attempt. *)
RouteRaisedLast(w) ==
  /\ phase[w] = "routing"
  /\ ~AttemptsLeft(job[w])
  /\ Settle(w, job[w], "failed", "exhausted")
  /\ total_failed' = total_failed + 1
  /\ UNCHANGED <<queue, result, attempts, total_completed, total_expired>>

(***************************************************************************)
(* The clock, and the shutdown of the application.                         *)
(***************************************************************************)

Tick ==
  /\ age' = [r \in Requests |->
               IF status[r] # "none" /\ age[r] <= MaxWait THEN age[r] + 1
                                                          ELSE age[r]]
  /\ delay' = [w \in Workers |-> IF delay[w] > 0 THEN delay[w] - 1 ELSE 0]
  /\ UNCHANGED <<queue, pending, records, caller, phase, job, running, totals>>

(* stop_workers: every worker is cancelled where it is suspended and drops *)
(* its request.  The server runs it only once no handler is waiting.       *)
StopWorkers ==
  /\ running
  /\ \A r \in Requests : caller[r] # "waiting"
  /\ running' = FALSE
  /\ phase' = [w \in Workers |-> "cancelled"]
  /\ job' = [w \in Workers |-> None]
  /\ delay' = [w \in Workers |-> 0]
  /\ UNCHANGED <<queue, pending, records, age, caller, totals>>

RouteReturns(w) ==
  \/ RouteCompleted(w)
  \/ RouteNotADict(w)
  \/ RouteRaisedRetry(w)
  \/ RouteRaisedLast(w)

WorkerStep(w) ==
  \/ TakeAndAttempt(w)
  \/ TakeAndExpire(w)
  \/ RetryAttempt(w)
  \/ RetryExpire(w)

CallerStep(r) ==
  \/ GetResult(r)
  \/ GetResultTimeout(r)

Next ==
  \/ \E r \in Requests : Enqueue(r) \/ EnqueueFull(r) \/ CallerStep(r)
  \/ \E w \in Workers : WorkerStep(w) \/ RouteReturns(w)
  \/ Tick
  \/ StopWorkers

SafetySpec == Init /\ [][Next]_vars

(* Time passes and the event loop runs the callbacks that are due; nothing *)
(* is assumed of the workers or of the providers.                          *)
LoopFairness ==
  /\ WF_vars(Tick)
  /\ \A r \in Requests : WF_vars(CallerStep(r))

Spec == SafetySpec /\ LoopFairness

(* Each worker is scheduled, and route_request returns or raises: every    *)
(* provider call has a timeout.                                            *)
WorkerFairness ==
  \A w \in Workers : WF_vars(WorkerStep(w)) /\ WF_vars(RouteReturns(w))
-----------------------------------------------------------------------------
(***************************************************************************)
(* Properties.                                                             *)
(***************************************************************************)

(* The variables have the types the code gives them; in particular no      *)
(* request is attempted more than max_attempts times.                      *)
TypeOK ==
  /\ queue \in Seq(Requests)
  /\ pending \in Seq(Requests)
  /\ status \in [Requests -> Statuses]
  /\ error \in [Requests -> Errors]
  /\ result \in [Requests -> BOOLEAN]
  /\ attempts \in [Requests -> 0..MaxAttempts]
  /\ completed_event \in [Requests -> BOOLEAN]
  /\ age \in [Requests -> 0..(MaxWait + 1)]
  /\ caller \in [Requests -> Callers]
  /\ phase \in [Workers -> Phases]
  /\ job \in [Workers -> Requests \cup {None}]
  /\ delay \in [Workers -> Nat]
  /\ running \in BOOLEAN
  /\ total_queued \in Nat
  /\ total_completed \in Nat
  /\ total_failed \in Nat
  /\ total_expired \in Nat

Accepted(r) == caller[r] \notin {"none", "rejected"}
Working(w) == phase[w] \in {"sleeping", "routing"}
Settled == {r \in Requests : completed_event[r]}
GaveUp == {r \in Requests : caller[r] = "timed_out"}
TakenCount == Len(pending) - Len(queue)

(* Requests are taken in the order they were accepted, and none is lost or *)
(* taken twice: the queue is always the tail of _pending that no worker    *)
(* has touched (enqueue, _worker).                                         *)
ServedInArrivalOrder ==
  /\ Len(queue) <= Len(pending)
  /\ \A i \in 1..Len(queue) : queue[i] = pending[TakenCount + i]
  /\ \A i \in 1..TakenCount :
       attempts[pending[i]] > 0 \/ completed_event[pending[i]]
  /\ \A i \in 1..Len(queue) :
       attempts[queue[i]] = 0 /\ ~completed_event[queue[i]]

(* A request is worked on by one worker at a time, and never again once    *)
(* its completed_event is set, however its caller fares meanwhile.         *)
OneWorkerPerRequest ==
  \A w \in Workers : Working(w) =>
    /\ ~completed_event[job[w]]
    /\ \A v \in Workers : v # w /\ Working(v) => job[v] # job[w]
    /\ \A i \in 1..Len(queue) : queue[i] # job[w]

(* What stats() reports adds up: each request a worker finished is counted *)
(* once as completed, failed or expired, and each caller that gave up is   *)
(* counted once more as expired, finished request or not.                  *)
Accounting ==
  /\ total_queued = Len(pending)
  /\ total_completed + total_failed + total_expired =
       Cardinality(Settled) + Cardinality(GaveUp)

(* What the handler told its client agrees with what the request records   *)
(* ever after: a result was returned only for a completed request without  *)
(* error, an error only for a request that carries one; and a completed    *)
(* request carries an error only if its caller had given up on it.         *)
ReplyMatchesRecord ==
  \A r \in Requests :
    /\ caller[r] = "returned" =>
         status[r] = "completed" /\ result[r] /\ error[r] = "none"
    /\ caller[r] = "raised" =>
         status[r] = "failed" /\ error[r] \notin {"none", "timed_out"}
    /\ caller[r] = "timed_out" => error[r] # "none"
    /\ status[r] = "completed" /\ error[r] # "none" => caller[r] = "timed_out"

(* A poller of GET /api/queue/{id} that saw a final status keeps seeing    *)
(* it, unless the request's own caller timed out: only get_result and the  *)
(* worker that outlives it rewrite an outcome.                             *)
OutcomeIsFinal ==
  [][\A r \in Requests :
       status[r] \in {"completed", "failed"} /\ status'[r] # status[r] =>
         caller'[r] = "timed_out"]_vars

(* Every accepted request gets its completed_event, whether or not its     *)
(* caller still waits, unless the application is shut down; this, and no   *)
(* more, needs the providers to answer or time out (_process_request).     *)
EveryAcceptedRequestSettles ==
  WorkerFairness =>
    \A r \in Requests : status[r] = "queued" ~> completed_event[r] \/ ~running

(* How Delivery sees a request: its record until completed_event is set,   *)
(* and what the handler told its client.                                   *)
Promise == INSTANCE Delivery WITH
  outcome <- [r \in Requests |->
                IF status[r] = "none" THEN "absent"
                ELSE IF ~completed_event[r] THEN "open"
                ELSE IF result[r] THEN "success" ELSE "failure"],
  reply <- [r \in Requests |->
              CASE caller[r] = "none" -> "none"
                [] caller[r] = "rejected" -> "refused"
                [] caller[r] = "polling" -> "accepted"
                [] caller[r] = "waiting" -> "awaiting"
                [] caller[r] = "returned" -> "result"
                [] OTHER -> "error"]

(* What the queue promises, stated in Delivery: an accepted request has    *)
(* one outcome, and a client that waits gets exactly one reply, which      *)
(* agrees with that outcome or says that the client stopped waiting.  It   *)
(* is answered even when no provider ever answers (get_result).            *)
DeliversOnce == Promise!Spec
-----------------------------------------------------------------------------
(***************************************************************************)
(* The inductive invariant behind the properties above.                    *)
(***************************************************************************)

(* A request no one accepted has left no trace. *)
Untouched ==
  \A r \in Requests : ~Accepted(r) =>
    /\ status[r] = "none" /\ error[r] = "none" /\ ~result[r]
    /\ attempts[r] = 0 /\ ~completed_event[r]
    /\ \A i \in 1..Len(pending) : pending[i] # r

(* What waits in the queue was accepted once and not attempted. *)
QueueIsFresh ==
  \A i \in 1..Len(queue) :
    /\ Accepted(queue[i])
    /\ attempts[queue[i]] = 0 /\ ~completed_event[queue[i]]
    /\ \A j \in 1..Len(queue) : i # j => queue[i] # queue[j]

(* What a worker holds is its own, open, and has the attempts it needs. *)
WorkersOwnTheirJobs ==
  \A w \in Workers : Working(w) =>
    /\ job[w] \in Requests
    /\ Accepted(job[w])
    /\ ~completed_event[job[w]]
    /\ attempts[job[w]] > 0
    /\ phase[w] = "sleeping" => attempts[job[w]] < MaxAttempts
    /\ \A v \in Workers : v # w /\ Working(v) => job[v] # job[w]
    /\ \A i \in 1..Len(queue) : queue[i] # job[w]

(* How a request's record and its caller's reply hang together. *)
RecordIsConsistent ==
  \A r \in Requests :
    /\ caller[r] \notin {"none", "rejected"} => status[r] # "none"
    /\ completed_event[r] =>
         \/ /\ status[r] = "completed" /\ result[r]
            /\ error[r] = "none" \/ caller[r] = "timed_out"
         \/ status[r] = "failed" /\ error[r] # "none"
    /\ ~completed_event[r] =>
         /\ status[r] # "completed" /\ ~result[r]
         /\ error[r] \in {"none", "timed_out"}
         /\ status[r] = "failed" => error[r] = "timed_out"
    /\ result[r] => status[r] = "completed" \/ caller[r] = "timed_out"
    /\ error[r] = "timed_out" => caller[r] = "timed_out"
    /\ caller[r] = "timed_out" => error[r] # "none"
    /\ caller[r] = "returned" =>
         completed_event[r] /\ status[r] = "completed" /\ error[r] = "none"
    /\ caller[r] = "raised" =>
         completed_event[r] /\ status[r] = "failed" /\ error[r] # "none"

(* All of it: no step of a caller, a worker or the clock breaks it.        *)
QueueInv ==
  /\ TypeOK
  /\ Untouched
  /\ QueueIsFresh
  /\ WorkersOwnTheirJobs
  /\ RecordIsConsistent
=============================================================================
