# Verification of the LLM gateway

The gateway is one FastAPI process that answers OpenAI-style chat requests by
forwarding them to free LLM providers: each model has a chain of fallback
providers, each provider a ring of API keys, and everything that can be limited,
fail or be unhealthy is steered around.  This directory holds TLA+ models of the
parts where that steering is decided and of what the steering relies on - rate
windows, quotas, key stores, model files, sessions, credentials, conversions -
with TLC configurations that check them, and theorems checked by TLAPS.

All of the program runs on **one asyncio event loop**.  Between two `await`s a
coroutine is not interrupted, so a step of a model is the code from one `await`
to the next; what makes the program hard is what the other coroutines do while
one is suspended.

## Inventory

| Component | State | Operations | Where it is hard |
|---|---|---|---|
| Request queue (`request_queue.py`, `_handle_rate_limited` in `main.py`) | `_queue`, `_pending`, `_workers`, `_running`, counters; per request status, error, result, attempts, `completed_event` | `enqueue`, `get_result`, `_worker`/`_process_request`, `start_workers`, `stop_workers`, `stats` | a caller's timeout races the worker that outlives it; retries with delays; expiry; a full queue; shutdown |
| Router (`router.py`) | `_rr_index`, `_penalties`; per request the plan, the attempt, the errors | `route_request`, `_select_provider`, `apply_preferred_connection`, `PenaltyTracker` | a plan made once is carried out over many awaits, during which keys, cooldowns, limits and health change |
| Key ring (`ProviderConfig` in `config.py`) | `api_keys`, `disabled_keys`, `_key_index` | `api_key` (moves the index), `rotate_key` | reads have side effects; overlapping requests rotate the same ring |
| Key health (`health.py`, `toggle_key` and the key endpoints in `main.py`) | `KeyHealth` per index, `disabled_keys` | `check_key`, `_disable_key`, `toggle_key`, adding and removing keys | answers arrive after the list of keys has changed; two records of one fact |
| Provider health (`health.py`) | `ProviderHealth` per provider, `_check_cycle` | `check_provider`, `check_all`, `is_available`, `_loop` | overlapping checks; two periods that must fit each other |
| Rate limiter (`rate_limiter.py`) | timestamps per provider | `is_limited`, `record_request` | asked and counted at different moments |
| Per-key tracker (`rate_tracker.py`) | windows of requests and tokens, `_cooldowns` | `is_limited`, `record_*`, `set_cooldown`, `is_on_cooldown` | sliding windows at their edges; cooldowns that overlap |
| Key stores (`key_manager.py`, `key_encryptor.py`) | keys in memory and in a JSON file | add, delete, load, save | two stores write one list; overwriting a file in place and a crash in the middle |
| Sticky sessions (`sticky_sessions.py`) | session to provider, with expiry | get, set, delete, cleanup loop | expiry between get and set |
| Response cache (`cache.py`) | an ordered dict with a time to live | get, put, eviction | eviction order against expiry |
| Gateway keys (`gateway_auth.py`) | keys, limits, windows | create, validate, revoke | limits at their edges; names are not unique |
| Quotas (`quota_tracker.py`) | counters per minute, day and month | record, reset, `is_within_limits` | which window is reset when; what is lost at a restart |
| Usage (`tracking.py`) | counters, batched to a file | record, flush | a crash between two writes |
| OAuth (`oauth_manager.py`) | tokens, pending states | authorize, callback, refresh, remove | refreshes of one token that overlap |
| Combos (`custom_combos.py`) and fallback editing (`main.py`) | `config.models` | add, remove, reorder | a chain edited while a request carries out a plan made from it |
| HTTP application (`main.py`) | all of the above as globals | `chat_completions` and some ninety endpoints | the order of authentication, cache, sticky session, routing and queue |
| Provider adapters (`providers.py`), translators (`format_translator.py`, `tool_call_translator.py`) | none | request and response conversion | which exceptions become a `ProviderError`; streams that fail late |
| Smart routing (`smart_router.py`, `smart_default.py`) | none | ranking of models | tie-breaking |
| Token compression and estimation (`token_compressor.py`, `token_estimator.py`) | none | `compress_messages`, `estimate_tokens` | what a window of recent messages cuts off; what merging loses |
| Discovery and updates (`discover_models` in `config.py`, `sync_providers.py`, `auto_update.py`) | `config.models`, `models.yaml`, `update_state.json` | discovery, sync, update, reload | processes that read and write one file whole; two configurations in one process |
| Benchmarks (`benchmark.py`), request log (`request_db.py`), guides and dashboard | a running flag; one SQLite table; static data | background job, insertions and aggregates | little |

What makes each correct:

* Request queue: requests are taken once and in order; every waiting caller gets
  one reply, which agrees with the record; every accepted request settles; the
  counters add up.
* Router: no candidate is skipped, tried twice or tried before its turn; the
  local provider is the last resort; the kind of failure is right, because it
  decides between queue and error; attempts end.
* Key ring: an enabled key is used if there is one; a rotation leaves a limited
  key.
* Key health: a key is disabled for its own failures, enough of them, and then
  for certain; enabled again when it works.  Edits of the list and toggles break
  that in the code, and what still holds is stated.
* Provider health: outages and recoveries are noticed; nothing is hidden forever.
* Rate limiter, per-key tracker, gateway keys, quotas: never more than the limit
  in a window, never refused below it; concurrent requests overshoot by a bounded
  number.
* Key stores, usage: what was acknowledged survives a crash, or the loss is
  bounded; a failed load does not destroy the file.
* Sticky sessions, cache: nothing expired is served or kept; the size is bounded
  and what makes room is the least recently used entry.
* OAuth: a state is redeemed once; after refreshes that overlap the manager has
  the refresh token the provider grants.
* Gateway keys: what was revoked or disabled admits nobody, after restarts too.
* Combos, discovery and updates: what is there is not overwritten by what is
  found; a script writes all it has read, and notes as known only what it wrote;
  a combo wins over a model of its name and leaves with it.
* Translation and compression: no tool call and no answer is lost or moved before
  its call; what is sent is bounded; a schema survives the way there and back.
* Smart routing: a name is resolved to a model that is served, and a request with
  tools to one that supports them.

How they interact: `chat_completions` calls `Router.route_request`, which reads
health (`is_available`), the rate limiter, the per-key tracker and the key ring
while it makes its plan, and writes the limiter, the penalties, the cooldowns
and the ring while it carries the plan out.  `AllRateLimitedError` sends the
request to the queue, whose three workers call `route_request` again.  The
health loop (every 180 s, alternating between providers and keys), `POST
/api/health/check` and the operator's key endpoints write what the router reads.
Before that, `chat_completions` translates the request, resolves its name,
compresses its messages, asks the cache and looks up the session; after it, it
writes the session, the per-key windows, the usage books, the quotas and the
cache.  Batches and the playground use the router and none of these.  Main keeps
`config` in a global that a sync of the providers replaces; the router keeps the
object it was made with.

`PROJECT.json` lists under `hazards` every behaviour of this code that a test
would hardly reach, at its line, with the properties that cover it.

## Modules

| Module | Models | Checked by | Proved in |
|---|---|---|---|
| `RequestQueue` | the queue, its callers, workers, clock and shutdown | `MCRequestQueue`, `RequestQueue_*.cfg` | `RequestQueueProofs` |
| `Delivery` | what a queue promises its clients (abstract) | refinement in `queue_promise` | its safety part, in `RequestQueueProofs` |
| `KeyRing` | `api_key` and `rotate_key` as operators | through `Router` | lemmas in `PlanProofs` |
| `Router` | `route_request`, non-streaming | `MCRouter`, `Router_*.cfg` | `PlanProofs`, `RouterProofs` |
| `Failover` | what routing promises a caller (abstract) | refinement in `route_plan` | its safety part, in `RouterProofs` |
| `KeyHealth` | one provider's keys: checks, toggles, edits | `MCKeyHealth`, `KeyHealth_*.cfg` | `StoresProofs` |
| `KeyStores` | `KeyHealth` with the files of both key stores and the operator's validations | `MCStores` | `StoresProofs` |
| `ProviderHealth` | one provider's health record, its checks and the background loop | `MCProviderHealth`, `ProviderHealth_checks.cfg` | `RecordsProofs` |
| `RateWindows` | the rolling windows of a provider and of its models, cooldowns | `MCBooks`, `Books_windows.cfg` | `RecordsProofs` |
| `UsageBooks` | usage counters with batched saves, and quota windows | `MCBooks` | `RecordsProofs` |
| `Gateway` | a chat's way through cache, session, router, queue and stream | `MCChat`, `Chat_requests.cfg` | `ChatProofs` |
| `Translation` | the shape that is asked of a request; conversions from and to Claude's and Gemini's formats, and of tools | `MCChat` | `ChatProofs` |
| `Compression` | merging and windowing the messages of a chat; the estimate of its tokens | `MCChat` | `ChatProofs` |
| `Naming` | which model a name, a task or a need for tools stands for | `MCChat` | `ChatProofs` |
| `ModelFiles` | `models.yaml` and the two scripts that add to it | `MCStores`, `Stores_*.cfg` | `StoresProofs` |
| `Catalog` | the models of the running gateway: discovery, combos, fallbacks, reload | `MCStores` | `StoresProofs` |
| `OAuth` | authorization, callback, refresh and removal | `MCStores` | `CredentialProofs` |
| `GatewayKeys` | the gateway's own keys and their file | `MCStores` | `CredentialProofs` |
| `Lists` | what is kept of a list (`Only`) and sums over one (`SumOver`), for the modules above | with them | `DataLemmas` |

`MCBooks`, `MCChat` and `MCStores` put components side by side that share no state:
a variable `part`, chosen in the initial state and constant, says whose
behaviours are explored.  What one part reads of another is a parameter there (the
contents of `models.yaml`, the answers of the router, measured latencies), so no
interleaving between parts is lost.

### RequestQueue

Variables carry the names of the attributes they model; `status`, `error`,
`result`, `attempts` and `completed_event` are the fields of `QueuedRequest`, as
functions of the request.  `phase`, `job` and `delay` say where a worker's
coroutine is suspended: in `queue.get()`, in the sleep before a retry, in the
router.  Time is counted in units of the delays, and a request carries its age,
saturated just above `MaxWait`, because the code compares `enqueued_at` with
nothing else.  A timer never fires early and may fire late.  The router's answer
is chosen freely, so everything `route_request` can do is covered.

Each request is enqueued once: a client that tries again makes another request.
A worker's `wait_for(queue.get(), 1.0)` that times out changes nothing and is
not a step.

### Router and KeyRing

`Start` is the whole synchronous stretch from the call of `route_request` to the
first request to a provider: filter, preferred connection, penalty sort,
round-robin turn, the cut to `MAX_RETRIES` with the local provider kept, the
limiter's count, and the key read from the ring.  The order of the candidates
is given by comparing entries (`Before`, `Place`) rather than by sorting.  Each
`Reply*` action is one kind of answer with everything the code does up to the
next `await`: penalties, rotation, cooldown, and the request to the next
candidate or the return.  Reading `api_key` moves the index, in the model as in
the code, also for the providers that are merely looked at in a plan.

What the clock makes run out (a cooldown, a penalty, the limiter's window) may
run out at any moment; what the health checker and the per-key counters report
is chosen freely from sets of the configuration.  The model covers one provider
limit, requests per minute or per day.

### KeyHealth

One provider.  A check is two steps, reading a key by its index and recording the
answer, and any number of checks and of the operator's requests may come
between.  An edit of either store replaces the list (`SetKeys`); one of another
provider's runtime keys does too, as `_sync_keys_to_config` goes over all of them
(`SyncOthers`).  Histories say what the code's counters, which are kept per
index, should be compared with: `strikes`, the auth failures in a row of the key an
index has now, since it has it; `tainted`, the indices that have counted something
about another key; `undercut`, the checks whose index got another key while they
waited.  A fourth, `meddled`, says whether the operator has toggled a key or changed
the list so far.

### ProviderHealth

One provider, its health record, and the three sources of checks.  A check is
scheduled, pings, and records the answer, in three steps, because the tasks of
`check_all` start at the next pass of the event loop and the provider may have
lost its last key by then.  The loop's round of key validation is only a round
that takes its time here; what it does is `KeyHealth`.  Several providers do not
share anything but the loop's rounds, which may therefore last longer than the
check of this provider.

### RateWindows and UsageBooks

Time is a number, windows are compared as the code compares them, and the
clock moves by one.  A request asks (`Plan`), is counted by the provider's
limiter at each attempt (`Send`) and by the model's bucket when it has succeeded
(`Book`), and anything may come between.  The histories `sends` and `booked` are
never pruned, so the properties compare what the code still remembers with what
happened.  `UsageBooks` keeps the four counters of a record, the file they are
saved to at most every five seconds, and the three windows of a quota; `kept` and
`filed` are the records in memory and in the file.

### Gateway, Translation, Compression, Naming

`Gateway` has one action per stretch between two awaits of `chat_completions`;
the router and the queue are their answers.  A stream has any frames, with an end
marker or without one, and ends whenever the provider's does; if it breaks, or could
not be opened, `safe_stream` adds the frame of an error and the end.  The cache is
a sequence, least recently used first; `recent` is the history that order must
agree with.  The other three are operators on one request: a text is a sequence of pieces, a name
a sequence of its parts, a schema a sequence of types from the outside in.  The
initial states enumerate the inputs and one action applies the operator the way
the handler does.  In `Translation` the kinds of blocks and the messages of each
format are sets (`TextBlocks`, `CallBlocks`, `OpenAIMessages`), and what the code
collects in a loop is what is `Only` of one of them; blocks of other kinds (`Other`)
and a Gemini message without text are passed over, as in the code.  A Claude body is
told by its system prompt, an empty one too, beside `max_tokens`.  In `Compression` a
message has a text or a list of parts, whose texts count in the estimate and are
not compressed.

### KeyStores, ModelFiles, Catalog, OAuth, GatewayKeys

Every file is rewritten in place, so a crash may leave one that is cut short
(`Torn`, `TornFile`, `TornKeys`, `CutShort`); a start takes what it can read for
all there is.  `Catalog` tells the router's configuration (`served`) from main's
(`current`): they are one object until the first reload.  In `ModelFiles` the runs of both scripts may overlap, be
killed in the middle of a write, give up, and meet edits by hand, which may remove a
model; `had` remembers what `models.yaml` ever had.  In `OAuth` a token is an object
that a refresh reads before its await and writes after it, whether the manager still
holds it or not.  It has a refresh token, or none; times and access tokens are left
out, for nothing the manager keeps depends on them.  The provider's side is an
external action: it grants a refresh to the last refresh token it gave, and answers
with a new one, the same one, or none.  `KeyStores` extends `KeyHealth` with files,
flags and validations that read an index before an await and write it after.

## Runs and bounds

| Run | Question | Bounds |
|---|---|---|
| `queue_safety` | are the safety properties of the queue true? | 3 requests, 2 workers, a queue of 2, 3 attempts, delays that leave time for one more in `MaxWait` |
| `queue_promise` | does the queue implement `Delivery`, a reply for every waiting client included, even if no provider ever answers; does every accepted request settle if providers do? | 2 requests, 1 worker, 2 attempts |
| `route_plan` | are plans well formed and failures honest, with preferences, outages, retries, the local provider and plans longer than `MAX_RETRIES`; does every request end, and is routing a `Failover`? | 1 caller, 3 providers, no symmetry |
| `route_race` | do overlapping requests with retries use enabled keys and leave a limited one, with keys toggled at any moment? | 2 callers, a ring of 2 keys, a limit of 1 |
| `key_edit` | while keys are toggled and both stores edited under overlapping checks: whose keys has the provider, which key does an answer disable, and after how many failures of it; and, until the operator has touched the keys, is one disabled exactly when its own failures demand it? | 2 keys, 2 checks, threshold 2, 3 keys in both stores together |
| `health_checks` | are outages and recoveries noticed, and is a provider that is down offered again? | the code's constants, unit 1 minute; 2 requests for checks beside the loop and the startup |
| `books` | do windows hold with requests under way, does pruning change an answer, do the books agree after crashes, is a refusal by a quota recent? | see `Books_windows.cfg`: a minute and a day of a few units, limits of 1 to 3, every attempt and every moment of the horizon |
| `chat` | is the cache fresh and in order, do sessions end; are calls, answers, tools, schemas and names kept by the conversions? | 2 calls, 3 keys in a cache of 2; all conversations of up to 4 Claude turns (texts, calls, answers, images) and 5 OpenAI turns (texts, calls, answers, parts), all catalogs of up to 3 models (`MCChat`) |
| `stores` | what survives crashes, restarts, overlapping scripts, edits by hand, validations, refreshes and callbacks; what do discoveries, combos, edits of fallbacks and reloads make of the models? | 2 keys, 2 models of 2 providers in `models.yaml`, 1 run of each script; 1 model in the running gateway, which treats each by itself, with 2 discoveries at once and combos of entries of equal and of different weights; 2 flows or refreshes at once, 2 connections, 3 refresh tokens of each, 3 gateway keys, of which two may share a name |

Properties that belong together are checked as one: `PlansAreSound`,
`ChangesAreNoticed`, `WindowsHold`, `QuotaIsRecent`, `LeftInOrder`, `FormatsAgree`,
`CompressionIsSound`, `NamesAreServed` and the type
invariants of the composed runs are conjunctions of parts that are stated, and
named, where they are defined.

The bounds are the smallest at which every action fires and two of each kind of
actor meet: two workers for a request to be taken twice, three requests for the
order of the queue, two callers on one ring, two checks of one key, a plan
longer than the cut.  Bounds inside the modules: ages saturate just above the
one value they are compared with; `penalty` at `MaxPenalty` (as in the code);
counters of failures and `strikes` at their threshold; key lists at `MaxKeys`,
both stores together at `MaxStored`.  The runs of the queue have handlers that wait (`Blocking`); a handler
that answers 202 at once takes no further part, and the theorems cover both.

In `health_checks` the constants matter: two pauses of 180 s leave 360 s between
two pings of the loop, more than the 300 s after which a provider that is down
may be tried again.  With a pause of two minutes it never would be.  The same
happens if `POST /api/health/check` is called more often than every 300 s, which
is why `DownIsRetried` excepts that.

### Runs that end in a violation

Each checks what a comment or document of the repository says, and TLC finds an
execution in which the code does otherwise:

| Run | What is said | What happens |
|---|---|---|
| `route_cooldown` | the rate-limited key is put on cooldown (`router.py:450`) | the ring is rotated first, and the key rotated to is cooled down |
| `key_confirmed` | a key is disabled after `CONSECUTIVE_FAILURES_TO_DISABLE` confirmed auth failures (`health.py:163`) | the list is edited while a check waits, and `_disable_key` disables the key now at the index (`health.py:241`) |
| `reload` | new providers and models appear automatically (`README.md:282`) | a sync replaces main's configuration (`main.py:963`); the router keeps the old one, so a new model is listed and unknown, and edits of fallbacks and combos change only what is listed |

Other places where text and code differ, seen while modelling and not given a
run:

* Router: a refused connection leaves `route_request` although any error should
  move on to the next provider (`README.md:13`; outcome `escaped` in `Router`);
  cooldowns are read when a plan is made, not when a request is sent
  (`rate_tracker.py:165` says the key is skipped); with all keys of a provider
  disabled one is used nevertheless (`main.py:906`); timeouts count towards
  `AllRateLimitedError` (`router.py:131` says 429 everywhere; `FailureIsHonest`
  states what is true); the round-robin turn lifts penalized providers to the
  front (`router.py:212` says they sink).
* Streams: a streamed call returns before its provider is contacted
  (`providers.py:167`), so a stream's errors show when `route_request` has returned;
  the client gets them as a frame, and no other provider is tried (`README.md:13`).
* Key health: a key that a check has disabled and the operator has enabled keeps
  `KeyHealth.disabled` (`main.py:921`), which a healthy answer resets only for a key
  in `disabled_keys` (`health.py:181`); `_disable_key` never disables it again
  (`health.py:239`), although `check_key` says it does (`health.py:163`).
* Scripts: what is written to `models.yaml` while `sync_providers.py` waits for its
  upstream list is overwritten (`sync_providers.py:277`), although the header of the
  file says "Manual edits preserved" (`sync_providers.py:99`).  `ScriptsOnlyAdd` says
  what is true: a script writes all it has read.
* Sessions: `sticky_sessions.py:60` promises that later requests prefer the same
  provider; `chat_completions` looks it up (`main.py:392`) and does not give it to
  the router.  A stream is recorded in its session before its provider has been
  contacted.
* Answers from the queue are neither cached nor counted; batches and the
  playground bypass every count.  The cache key has no tools and no `max_tokens`.
* A request that is refused by validation is answered 500 instead of 400: the
  details of the error are unpacked as pairs (`main.py:321`).  Gemini and Vertex
  bodies, and Claude's with blocks in an assistant's message, may be refused before their format is
  detected, as validation asks for OpenAI's shape.
* Compression merges consecutive messages of an assistant and loses the calls of
  the later ones; a tool's answer may outlive its call.  Of several system
  messages Gemini gets the last.
* The month of a quota is compared without being reset (`quota_tracker.py:98`); of
  the limits registered at start, those named `default` match no model
  (`main.py:117`); `cleanup_expired` ignores its `max_age`.
* The permissions and rates of gateway keys are stored and not enforced.  The
  pending states of OAuth never expire; a late answer that echoes an old refresh token
  overwrites a newer one (`ConnectionCanBeRefreshed` excuses it); nobody calls
  `get_valid_token`, so nothing is refreshed before it expires.
* Deleting a combo removes the model of `models.yaml` it had replaced until the
  next start; sorting fallbacks by "priority" changes nothing; a listing that
  failed is noted as one without models, so all are new the next time; a state file
  cut short stops its script until it is removed; a model that was written and then
  lost, to a kill or to another script, stays known and is not added again.
* The encrypted key store is not given to the providers at start.

## Fairness

* The event loop runs callbacks that are due: `WF(Tick)` and weak fairness for a
  caller whose `wait_for` is over (`LoopFairness`).
* Workers are tasks of that loop, and `route_request` returns or raises because
  every provider call has a timeout and retries are bounded.  In the queue this
  is not part of `Spec` but the premise of the one property that needs it
  (`WorkerFairness`): a caller must be answered without it.  In `Router` it is
  weak fairness of `Reply` and `Wake`, in `ProviderHealth` of the steps of a check
  and of the loop.
* Nothing is assumed of clients, operators, or of the answers providers give.

## Proofs

Every invariant that a run checks is also a theorem, for all values of the
constants, and so is every action property; what stays with TLC is liveness (see
the end of this section).  The properties are seldom inductive on their own.  For
each component this says what had to be added, which is what the component's
correctness rests on.

**Numbers and lists** (`DataLemmas`).  Most of this program filters, merges, sums
and appends to lists, and what such a function computes is defined by recursion.
The library's induction theorems take an operator as a parameter, which the provers
cannot instantiate; so induction here is over sets: what is to hold of all
sequences is the set of those it holds of, which has the empty one and is closed
under appending (`ByAppending`; `UpTo` for numbers, from the least element of a
set, `Least`).  That a recursive function exists at all follows from the library's
well-founded recursion (`RecursionExists`).  Conditions and summands are therefore
values, sets and functions (`Only`, `SumOver` of `Lists`), and not operators as in
`SelectSeq` and `FoldLeft`.  On these rest lemmas on what is kept of a list, sums,
lists mapped (`Mapped`) and flattened (`FlattenSeq`), what repeats nothing and what
is a suffix.

**Request queue** (`RequestQueueProofs`).  For any requests, workers, bounds and
delays `QueueInv` is inductive, and from it come the types, `OneWorkerPerRequest`,
`ReplyMatchesRecord`, `ServedInArrivalOrder`, `Accounting`, `OutcomeIsFinal`, and
that every step of the queue is a step of `Delivery` or leaves it unchanged.  That
no two workers hold one request needs that what waits in the queue is fresh and
without repetition (`QueueIsFresh`), which needs that a request nobody accepted is
nowhere (`Untouched`); that replies agree with records needs to know which error
goes with which status while the request is still open (`RecordIsConsistent`),
because a caller that gives up writes the record of a request a worker still has.
`Accounting` adds the cardinality of the settled requests, with the library's
theorems on finite sets.

**Routing** (`PlanProofs`, `RouterProofs`).  `PlanProofs` has the arithmetic of a
ring - every key is ahead of every index, the settled key is enabled if any is, an
index at an enabled key stays, a rotation moves to another key - and what
`_select_provider` makes: the order by rank, penalty and position is strict, so
counting what precedes an entry gives every entry a place of its own
(`Counting`); the ranks occupy blocks (`Blocks`), turning the middle block keeps its
places apart (`TurnedApart`), so the places are a bijection (`PlacesCount`); the
cut keeps what is apart and keeps the local entries last (`CutKeeps`).
`RouterInv` is inductive: the types, and of every caller under way that each
provider of its plan has keys, that its errors number one less than its position
and that `all_rate_limited` says of them what it should.  From it follow
`FailureIsHonest`, `UsesEnabledKey`, the types with `LocalIsLastResort`, and that
routing implements the safety part of `Failover`.  Two theorems have a premise of
their own, since nothing in the code enforces it: `PlansAreSound` that no fallback
chain names an entry twice, and `RotationLeavesLimitedKey` that no ring has a key
twice (with a key listed twice the ring may rotate from one of its places to the
other).

**Keys, files and models** (`StoresProofs`).
* Of `KeyHealth`, `ChecksInv`, under edits and toggles: where no key was replaced
  under a count (`tainted`), the counter of an index is that of its key, and a check
  that was not undercut is about the key at its index.  From it follow
  `CountsAreTheKeys`, `JudgedKeyOnly` and `EnoughStrikes`.  `DisabledAfterStrikes` is
  about the time before the operator toggles a key or changes the list (`Untouched`):
  after either the code breaks it, as `key_confirmed` shows for edits.  It has the
  premise that the environment lists no key twice (`Distinct`).  `KeysOfOneStore` is inductive with the types.
* Of `KeyStores`, `EntriesInv`: a file that can be read, and whose store is not
  unread, holds what memory holds; and while no key was removed under a validation
  (`mixed`), every mark stands at a key that was accepted and the keys of a
  validation are still the first of the list it read.  From it come `MarkedIsAccepted` and `RestartKeepsStores`;
  with `HistoriesTyped` it is inductive for the types.
* Of `ModelFiles`, `FilesInv`: what is known of models, and what a script has noted to
  save as known, has been in `models.yaml`; a script notes nothing before it has
  written the file.  Nothing is assumed of runs that overlap or are killed, or of
  edits.  `ScriptsOnlyAdd` follows from what the scripts make of a list (`AddedTo`),
  the types from `SinglesInv`, that no model has a provider twice.
* Of `Catalog` the types are inductive as they stand, and `DiscoveryOnlyAdds` and
  `ModelsFollowCombos` are proved of every step from them.
* `StoresTogether` puts the parts of `MCStores` side by side: each keeps its invariant
  while another part moves.

**Credentials** (`CredentialProofs`).  `StateIsRedeemedOnce` is inductive with the
types, because flows and open states have numbers already given out.
`ConnectionCanBeRefreshed` needs `RefreshInv`: of each token the manager holds, that
no other provider has its object; that the refresh token in it is the one the provider
grants, or exactly one answer is under way that makes it so; and that what any other
refresh has sent is spent by then, and what any other answer carries not newer.
`BarredStaysBarred` needs `KeysInv`: no key is in the ring twice, a
barred key is in it disabled or not at all, and the file loads what memory has, or
nothing, while no save has failed.  That no key is there twice is what makes
revoking the first key of a name leave no other copy of it behind; `RingInv`, for
the types, has the order of creation instead.

**Records** (`RecordsProofs`).
* Of `UsageBooks`, `BooksInv`: the four counters have counted the same records
  (`Recorded`), the file lacks none but those since the last save while saves
  succeed (`Lossless`), and every window of a quota counts what was sent since it
  began (`WindowsTrue`).  From it follow `BooksAgree`, `LossIsRecent`, `QuotaIsRecent`.
* Of `RateWindows`, `KeptInv`: what was pruned is in no window any more, for every
  later time too; so the answers are those of complete lists (`PruningLosesNothing`).
  `WindowsHold` is not inductive: when a request is booked it was asked for long
  ago.  `RatesInv` counts a request that is planned, and an attempt that is still to
  be made, as if it were in the window already (`Bounded`): asking is then the only
  step that brings a window nearer to its bound, and the clock only takes from it.
* Of `ProviderHealth`, the types and `StatusTellsFailures` are inductive together: a
  ping that raises leaves the status alone below the threshold, and that is right
  only because a provider that is down has a full counter.

**A chat** (`ChatProofs`).
* Of `Gateway`, `GatewayInv`: the cache, within its size, has no key twice, its keys
  are those of `recent` in that order and its entries are no older than they claim
  (`CacheInOrder`); a session ends before the cleanup after its time
  (`SessionsInOrder`); a call that is routed has what it asked for (`CallsInOrder`).  `LeftInOrder`
  and `CachedIsFresh` follow.  What a hit moves and a put evicts is a lemma about
  `Only` each (`UsedInOrder`, `EvictedInOrder`).
* `Naming`, `Translation`, `Compression` have one step, and the work is in what their
  operators compute for every input.  A conversation is merged message by message,
  so its lemmas go by appending one: what `_deduplicate_consecutive` makes of a list
  with one more message (`DeduplicatedStep`) gives which calls and answers survive,
  how it ends, and that no two neighbours are alike (`DeduplicatedApart`).  Claude's
  messages are translated by flattening: the calls of a flattened list are those of
  its parts in a row (`CallsOfConversation`), and a message of texts alone, or calls
  alone, comes back as itself (`ToClaudeMessageIs`), so the list does
  (`ClaudeRoundTrip`, `GeminiRoundTrip`).
* `AgreedFormats` and `ChatTyped` have the specifications of the parts side by side as
  their premise.  `MCChat` explores one part at a time and gives the others any
  input, `<<>>` for instance, which need not be one of theirs.

**Assumptions.**  Those stated, and named, in the modules, which TLC evaluates in the
runs: sizes and periods are positive where the code divides by them or takes the
first element; markers such as `NoText`, `TornKeys` or `NoName` are none of the values
they stand beside; a request has the shape its format defines, and in Claude's only
the assistant uses tools and only the user brings results; a chain, a table or a
listing is a list of what it lists.  Nothing is assumed about how many requests,
callers, keys or messages there are, but that callers and the requests of the queue
are finitely many where they are counted.

**Model-checked only.**  Liveness, and what rests on fairness, is out of the provers'
reach: `EveryAcceptedRequestSettles`, `DownIsRetried`, `ChangesAreNoticed`, and the part
of `DeliversOnce` and `FailsOver` that says something happens (their safety parts
are `QueueDelivers` and `RoutingFailsOver`).  The runs that end in a violation
show counterexamples, of which there is nothing to prove.

## Not modelled

* The request database: insertions into one table and aggregates over it, in
  single statements; nothing reads it to decide anything.
* Benchmarks: one job behind a flag that is read and set without an `await`
  between and reset in a `finally`; its results are a parameter of `Naming`.
* Provider guides, the dashboard, exports, setup helpers and views: they change no
  state.
* Of the adapters: building bodies and headers for each provider.  Of the
  translators: responses (`translate_response` has no caller) and a provider's
  tool calls.  Of the scripts: dry runs and `.env.example`.  Of compression: whitespace.  Of configuration: the environment,
  what makes a model free, and everything of a model but its fallbacks'
  providers.
* Ciphers, hashes and keys of the cache are taken to be injective, and a wrong
  master key to read nothing.

## Plan

The runs' invariants and action properties are proved.  What is left to prove is
beside them: that `KeyRing`'s rotation under overlapping requests visits every enabled
key; that `Router` with the windows of `RateWindows` in place of its abstract
exhaustion sends no more than they admit; premises that could be weaker, such as
`Distinct` in `KeyHealth`.
