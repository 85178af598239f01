------------------------------- MODULE Gateway -------------------------------
(***************************************************************************)
(* The way of a chat request through main.py: the response cache           *)
(* (cache.py), the sticky sessions (sticky_sessions.py), the router, the   *)
(* queue, and the stream that goes back to the client.  A batch            *)
(* (/v1/batch) and the playground use the router alone.                    *)
(*                                                                         *)
(* The router is what Router shows of it: an await that ends with the      *)
(* answer of a provider, with all of them rate limited, or with another    *)
(* error; the queue is RequestQueue's.  The session's provider is looked   *)
(* up and not given to the router.  What is counted when an answer comes   *)
(* is in RateWindows and UsageBooks.  A key stands for the model, the      *)
(* messages and the temperature of a request.                              *)
(***************************************************************************)
EXTENDS Naturals, FiniteSets, Sequences, SequencesExt, Lists

CONSTANTS
  Calls,            \* the requests that may be under way at once
  Asked,            \* what they may ask: see AskedFields
  Keys, Convs,      \* the keys of the cache; the conversations
  Providers,        \* those that may answer
  MaxSize,          \* CACHE_MAX_SIZE
  CacheTtl, SessionTtl, CleanupInterval,  \* CACHE_TTL, DEFAULT_SESSION_TTL, CLEANUP_INTERVAL
  Blocking,         \* BLOCKING_QUEUE
  MaxClock,         \* bound: the last time
  MaxFrames,        \* bound: the frames of a stream
  None              \* no conversation, no provider, no answer

AskedFields ==
  [path : {"chat", "batch", "playground"}, key : Keys, conv : Convs \cup {None},
   stream : BOOLEAN]

ASSUME GatewayAssumption ==
  /\ Asked \subseteq AskedFields /\ MaxSize \in Nat \ {0}
  /\ {CacheTtl, SessionTtl, MaxClock, MaxFrames} \subseteq Nat /\ CleanupInterval \in Nat \ {0}

VARIABLES
  clock,     \* the time
  cache,     \* ResponseCache._cache, the least recently used entry first
  sessions,  \* StickySessionManager._sessions
  cleanup,   \* when the cleanup loop goes on
  calls,     \* per call: where it is, what it asks, what came back
  recent     \* history: the keys of the cache by their last use

gatewayVars == <<clock, cache, sessions, cleanup, calls, recent>>

(* What providers answer, and what the cache keeps of it. *)
Answers == [key : Keys, made : 0..MaxClock]
Entry == [key : Keys, answer : Answers, until : 0..(MaxClock + CacheTtl)]

NoCall == [stage |-> "idle", req |-> None, answer |-> None, frames |-> <<>>]

GatewayInit ==
  /\ clock = 0 /\ cache = <<>> /\ recent = <<>>
  /\ sessions = [s \in Convs |-> None] /\ cleanup = 0
  /\ calls = [c \in Calls |-> NoCall]

CachedAt(k) == {i \in DOMAIN cache : cache[i].key = k}
Without(k) == Only(cache, {e \in Entry : e.key # k})
InCache(keys) == Only(keys, {k \in Keys : \E i \in DOMAIN cache' : cache'[i].key = k})
UsedNow(k) == InCache(Append(Only(recent, Keys \ {k}), k))
Hit(k) == \E i \in CachedAt(k) : clock <= cache[i].until

(* Mutated form of Moved: a hit renews the entry. *)
MovedLonger(e) == Append(Without(e.key), [e EXCEPT !.until = clock + CacheTtl])

(* get: a hit makes its entry the most recently used one. *)
Moved(e) == Append(Without(e.key), e)

(* Mutated form of Put: room is made when there is too much already. *)
PutLate(k, answer) ==
  LET room == IF CachedAt(k) # {} THEN Without(k)
              ELSE IF Len(cache) > MaxSize THEN Tail(cache) ELSE cache
  IN  Append(room, [key |-> k, answer |-> answer, until |-> clock + CacheTtl])

(* put: room is made by the first entry, be another one expired or not.   *)
Put(k, answer) ==
  LET room == IF CachedAt(k) # {} THEN Without(k)
              ELSE IF Len(cache) >= MaxSize THEN Tail(cache) ELSE cache
  IN  Append(room, [key |-> k, answer |-> answer, until |-> clock + CacheTtl])

(* Mutated form of Expired: a session is let go one unit late. *)
ExpiredLate(s) == clock - s.used > SessionTtl + 1

Expired(s) == clock - s.used > SessionTtl
UnexpiredSessions == [s \in Convs |->
  IF sessions[s] # None /\ Expired(sessions[s]) THEN None ELSE sessions[s]]

(* StickySessionManager.get: a session that is found is used, an expired *)
(* one goes.                                                             *)
Touched(s) ==
  IF s = None \/ sessions[s] = None THEN sessions
  ELSE [sessions EXCEPT ![s] = IF Expired(@) THEN None ELSE [@ EXCEPT !.used = clock]]

(* StickySessionManager.set: an expired session is revived. *)
Stuck(s, p) ==
  IF s = None THEN sessions ELSE [sessions EXCEPT ![s] = [provider |-> p, used |-> clock]]

Enters(q) == [NoCall EXCEPT !.stage = "routing", !.req = q]

(* A request of a chat that the cache can answer. *)
AnswerFromCache(c, q) ==
  /\ calls[c].stage = "idle"
  /\ q.path = "chat" /\ ~q.stream /\ Hit(q.key)
  /\ \E i \in CachedAt(q.key) :
       /\ cache' = Moved(cache[i])
       /\ calls' = [calls EXCEPT ![c] =
            [NoCall EXCEPT !.stage = "cached", !.req = q, !.answer = cache[i].answer]]
  /\ recent' = UsedNow(q.key)
  /\ UNCHANGED <<clock, sessions, cleanup>>

(* One that it cannot answer: an expired entry goes, and the session of   *)
(* the conversation is looked up.                                         *)
Arrive(c, q) ==
  /\ calls[c].stage = "idle"
  /\ q.path = "chat" /\ (q.stream \/ ~Hit(q.key))
  /\ cache' = IF q.stream THEN cache ELSE Without(q.key)
  /\ calls' = [calls EXCEPT ![c] = Enters(q)]
  /\ sessions' = Touched(q.conv)
  /\ recent' = InCache(recent)
  /\ UNCHANGED <<clock, cleanup>>

(* An item of a batch, never streamed, and a request of the playground. *)
ArriveElsewhere(c, q) ==
  /\ calls[c].stage = "idle" /\ q.path # "chat"
  /\ calls' = [calls EXCEPT ![c] = Enters([q EXCEPT !.stream = q.path = "playground" /\ @])]
  /\ UNCHANGED <<clock, cache, sessions, cleanup, recent>>

(* route_request returns the answer of provider p; one that cannot stream *)
(* answers a request for a stream at once, and that is not cached.        *)
Routed(c, p, streams) ==
  /\ calls[c].stage = "routing"
  /\ streams => calls[c].req.stream
  /\ calls' = [calls EXCEPT ![c].stage = IF streams THEN "streaming" ELSE "answered"]
  /\ LET q == calls[c].req
         chat == q.path = "chat"
     IN  /\ sessions' = IF chat THEN Stuck(q.conv, p) ELSE sessions
         /\ cache' = IF chat /\ ~q.stream THEN Put(q.key, [key |-> q.key, made |-> clock])
                                          ELSE cache
         /\ recent' = IF chat /\ ~q.stream THEN UsedNow(q.key) ELSE recent
  /\ UNCHANGED <<clock, cleanup>>

(* AllRateLimitedError: a chat that is no stream goes to the queue, if    *)
(* there is room, and waits for it or is told to ask again (202).         *)
Limited(c, room) ==
  /\ calls[c].stage = "routing"
  /\ LET q == calls[c].req
         queued == q.path = "chat" /\ ~q.stream /\ room /\ Blocking
     IN  calls' = [calls EXCEPT ![c] =
           IF queued THEN [@ EXCEPT !.stage = "queued"] ELSE NoCall]
  /\ UNCHANGED <<clock, cache, sessions, cleanup, recent>>

(* Any other error of route_request, such as an unknown model. *)
Failed(c) ==
  /\ calls[c].stage = "routing"
  /\ calls' = [calls EXCEPT ![c] = NoCall]
  /\ UNCHANGED <<clock, cache, sessions, cleanup, recent>>

(* get_result returns an answer, which is neither cached nor counted, or  *)
(* raises (504).                                                          *)
QueueEnds(c) ==
  /\ calls[c].stage = "queued"
  /\ calls' = [calls EXCEPT ![c] = NoCall]
  /\ UNCHANGED <<clock, cache, sessions, cleanup, recent>>

(* safe_stream passes on what the provider sends, with the "done" that    *)
(* most end with or without.                                              *)
Frame(c, f) ==
  /\ calls[c].stage = "streaming" /\ Len(calls[c].frames) < MaxFrames
  /\ f \in {"chunk", "done"}
  /\ calls' = [calls EXCEPT ![c].frames = Append(@, f)]
  /\ UNCHANGED <<clock, cache, sessions, cleanup, recent>>

(* The provider's stream ends, or breaks: then, and when the provider     *)
(* cannot be reached or answers with an error, which shows only when the  *)
(* stream is read, the client gets the frame of an error and the end.     *)
AtError(frames) == frames \o <<"error", "done">>

StreamEnds(c, broken) ==
  /\ calls[c].stage = "streaming"
  /\ calls' = [calls EXCEPT ![c].stage = "streamed",
       ![c].frames = IF broken THEN AtError(@) ELSE @]
  /\ UNCHANGED <<clock, cache, sessions, cleanup, recent>>

(* The answer is with the client, who may hang up on a stream. *)
Leave(c) ==
  /\ calls[c].stage \in {"cached", "answered", "streaming", "streamed"}
  /\ calls' = [calls EXCEPT ![c] = NoCall]
  /\ UNCHANGED <<clock, cache, sessions, cleanup, recent>>

(* The dashboard clears the cache, or prunes what has expired. *)
ClearCache ==
  /\ \/ cache' = <<>>
     \/ cache' = Only(cache, {e \in Entry : clock <= e.until})
  /\ recent' = InCache(recent)
  /\ UNCHANGED <<clock, sessions, cleanup, calls>>

(* It removes a session; it lists or cleans up the sessions. *)
EndSessions ==
  /\ \/ \E s \in Convs : sessions' = [sessions EXCEPT ![s] = None]
     \/ sessions' = UnexpiredSessions
  /\ UNCHANGED <<clock, cache, cleanup, calls, recent>>

(* _cleanup_loop *)
CleanupLoop ==
  /\ clock = cleanup
  /\ sessions' = UnexpiredSessions /\ cleanup' = clock + CleanupInterval
  /\ UNCHANGED <<clock, cache, calls, recent>>

(* The loop is not late. *)
Tick ==
  /\ clock < MaxClock /\ clock < cleanup
  /\ clock' = clock + 1
  /\ UNCHANGED <<cache, sessions, cleanup, calls, recent>>

GatewayNext ==
  \/ \E c \in Calls :
       \/ \E q \in Asked : AnswerFromCache(c, q) \/ Arrive(c, q) \/ ArriveElsewhere(c, q)
       \/ \E p \in Providers, streams \in BOOLEAN : Routed(c, p, streams)
       \/ (\E room \in BOOLEAN : Limited(c, room)) \/ Failed(c)
       \/ QueueEnds(c)
       \/ (\E f \in {"chunk", "done"} : Frame(c, f)) \/ (\E broken \in BOOLEAN : StreamEnds(c, broken))
       \/ Leave(c)
  \/ ClearCache \/ EndSessions \/ CleanupLoop \/ Tick

GatewaySpec == GatewayInit /\ [][GatewayNext]_gatewayVars
-----------------------------------------------------------------------------
(***************************************************************************)
(* Properties.                                                             *)
(***************************************************************************)

Stages == {"idle", "routing", "queued", "streaming", "streamed", "cached", "answered"}
Call == [stage : Stages, req : AskedFields \cup {None}, answer : Answers \cup {None},
         frames : Seq({"chunk", "done", "error"})]

(* The cache is never over its limit and has a key once (put); sessions    *)
(* and calls have the shape the handlers give them.                        *)
GatewayTypeOK ==
  /\ clock \in 0..MaxClock /\ cleanup \in 0..(MaxClock + CleanupInterval)
  /\ cache \in Seq(Entry) /\ Len(cache) <= MaxSize
  /\ \A k \in Keys : Cardinality(CachedAt(k)) <= 1
  /\ sessions \in [Convs -> [provider : Providers, used : 0..clock] \cup {None}]
  /\ calls \in [Calls -> Call]

(* A call is never answered from the cache with what was made for another  *)
(* key, or longer ago than the ttl, however often it was asked for since   *)
(* (get: a hit does not renew an entry).                                   *)
CachedIsFresh ==
  [][\A c \in Calls : calls[c].stage = "idle" /\ calls'[c].stage = "cached" =>
       /\ calls'[c].answer.key = calls'[c].req.key
       /\ clock - calls'[c].answer.made <= CacheTtl]_gatewayVars

(* The order of the cache is the order in which its entries were last      *)
(* asked for or put, so that what makes room is the least recently used    *)
(* entry (OrderedDict.move_to_end, popitem).                               *)
OrderIsOfUse ==
  \A i, j \in DOMAIN cache : i < j =>
    \E m, n \in DOMAIN recent : m < n /\ recent[m] = cache[i].key /\ recent[n] = cache[j].key

(* No session is kept longer than its time to live and the wait for the    *)
(* cleanup loop after its last use (cleanup_expired, _cleanup_loop).       *)
IdleSessionsGo ==
  \A s \in Convs : sessions[s] # None =>
    clock - sessions[s].used <= SessionTtl + CleanupInterval

(* What requests leave behind is in order: in the cache (OrderedDict) and  *)
(* in the sessions (cleanup_expired).                                      *)
LeftInOrder == OrderIsOfUse /\ IdleSessionsGo
=============================================================================
