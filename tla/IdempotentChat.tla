--------------------------- MODULE IdempotentChat ---------------------------
(***************************************************************************)
(* POST /api/chat with an X-Idempotency-Key: the store of                  *)
(* core/infra/idempotency.py around a turn of api/routes/chat.py.          *)
(*                                                                         *)
(* A request arrives once; a retry is another request with the same key.   *)
(* Everything from the look-up to the acquisition of the session's lock    *)
(* runs without an await and is one step.  Time is the moment at which a   *)
(* stored result expires; it may lie between the two clock reads of one    *)
(* look-up.                                                                *)
(***************************************************************************)
EXTENDS FiniteSets

CONSTANTS
  Requests,
  Keys,
  Sessions,
  KeyOf,       \* the key of a request, or NoKey
  SessionOf,   \* the session its handler was given: a fresh one without a session header
  BodyOf,      \* message, mode and approved plan
  NoKey

Other == "another transport's turn"

ASSUME RequestAssumption ==
  /\ NoKey \notin Keys
  /\ Other \notin Requests
  /\ KeyOf \in [Requests -> Keys \cup {NoKey}]
  /\ SessionOf \in [Requests -> Sessions]

\* request_fingerprint
Fingerprint(r) == << SessionOf[r], BodyOf[r] >>

VARIABLES
  result,     \* IdempotencyStore._results: the requests whose responses are stored, per key
  expired,    \* keys whose stored result has expired
  inflight,   \* IdempotencyStore._locks: the holder of the key's lock
  turn,       \* holders of the sessions' turn locks: requests, or turns of other transports
  at,         \* where a request is
  reply,      \* whose response a request was given
  recent      \* requests that succeeded and whose time to live has not run out

replayVars == << result, expired, inflight, turn, at, reply, recent >>

Nobody == {}
\* A stored result, a lock and a reply have at most one request.
AtMostOne == { {} } \cup { {r} : r \in Requests }

ReplayTypeOK ==
  /\ result \in [Keys -> AtMostOne]
  /\ expired \subseteq { k \in Keys : result[k] # {} }
  /\ inflight \in [Keys -> AtMostOne]
  /\ turn \in [Sessions -> AtMostOne \cup { {Other} }]
  /\ at \in [Requests -> {"new", "running", "done", "failed", "cached", "conflict", "in progress", "busy"}]
  /\ reply \in [Requests -> AtMostOne]
  /\ recent \subseteq Requests

ReplayInit ==
  /\ result = [k \in Keys |-> {}]
  /\ expired = {}
  /\ inflight = [k \in Keys |-> Nobody]
  /\ turn = [s \in Sessions |-> Nobody]
  /\ at = [r \in Requests |-> "new"]
  /\ reply = [r \in Requests |-> {}]
  /\ recent = {}

-----------------------------------------------------------------------------
\* _prune: expired results go, with the locks of their keys.  The result of a key in late expires
\* after this clock read and before the next.
PrunedResult == [k \in Keys |-> IF k \in expired THEN {} ELSE result[k]]
PrunedLocks == [k \in Keys |-> IF k \in expired THEN Nobody ELSE inflight[k]]

\* Faulty variant: a stored result answers whatever request carries its key.
FoundWhatever(r, late) ==
  /\ KeyOf[r] \in Keys \ (expired \cup late)
  /\ result[KeyOf[r]] # {}

\* get_cached finds a live result of the same request.
Found(r, late) ==
  /\ KeyOf[r] \in Keys \ (expired \cup late)
  /\ \E q \in result[KeyOf[r]] : Fingerprint(q) = Fingerprint(r)

\* get_cached raises IdempotencyConflict.
Conflicting(r, late) ==
  /\ KeyOf[r] \in Keys \ (expired \cup late)
  /\ \E q \in result[KeyOf[r]] : Fingerprint(q) # Fingerprint(r)

\* Late keys stay in the store, expired.
LookedUp(r, late) ==
  /\ at[r] = "new"
  /\ IF KeyOf[r] = NoKey
     THEN UNCHANGED << result, expired, recent >> /\ late = {}
     ELSE /\ late \subseteq { k \in Keys \ expired : result[k] # {} }
          /\ result' = PrunedResult
          /\ expired' = late
          /\ recent' = { q \in recent : KeyOf[q] \notin late }

LocksAfterLookUp(r) == IF KeyOf[r] = NoKey THEN inflight ELSE PrunedLocks

ServedFromStore(r, late) ==
  /\ LookedUp(r, late) /\ Found(r, late)
  /\ at' = [at EXCEPT ![r] = "cached"]
  /\ reply' = [reply EXCEPT ![r] = result[KeyOf[r]]]
  /\ inflight' = LocksAfterLookUp(r)
  /\ UNCHANGED turn

ConflictRefused(r, late) ==
  /\ LookedUp(r, late) /\ Conflicting(r, late)
  /\ at' = [at EXCEPT ![r] = "conflict"]
  /\ inflight' = LocksAfterLookUp(r)
  /\ UNCHANGED << turn, reply >>

InProgressRefused(r, late) ==
  /\ LookedUp(r, late) /\ ~Found(r, late) /\ ~Conflicting(r, late)
  /\ KeyOf[r] # NoKey /\ LocksAfterLookUp(r)[KeyOf[r]] # Nobody
  /\ at' = [at EXCEPT ![r] = "in progress"]
  /\ inflight' = LocksAfterLookUp(r)
  /\ UNCHANGED << turn, reply >>

KeyIsFree(r) == KeyOf[r] # NoKey => LocksAfterLookUp(r)[KeyOf[r]] = Nobody

\* The lock of the request's key in `locks`, held by h.
KeyLock(locks, r, h) == [k \in Keys |-> IF k = KeyOf[r] THEN h ELSE locks[k]]

\* The session runs a turn: the key's lock, taken a moment ago, is dropped again.
BusyRefused(r, late) ==
  /\ LookedUp(r, late) /\ ~Found(r, late) /\ ~Conflicting(r, late) /\ KeyIsFree(r)
  /\ turn[SessionOf[r]] # Nobody
  /\ at' = [at EXCEPT ![r] = "busy"]
  /\ inflight' = KeyLock(LocksAfterLookUp(r), r, Nobody)
  /\ UNCHANGED << turn, reply >>

Starts(r, late) ==
  /\ LookedUp(r, late) /\ ~Found(r, late) /\ ~Conflicting(r, late) /\ KeyIsFree(r)
  /\ turn[SessionOf[r]] = Nobody
  /\ at' = [at EXCEPT ![r] = "running"]
  /\ turn' = [turn EXCEPT ![SessionOf[r]] = {r}]
  /\ inflight' = KeyLock(LocksAfterLookUp(r), r, {r})
  /\ UNCHANGED reply

\* The `finally` of the handler.  release pops the key's lock, whoever holds it.
Released(r) ==
  /\ at[r] = "running"
  /\ turn' = [turn EXCEPT ![SessionOf[r]] = Nobody]
  /\ inflight' = KeyLock(inflight, r, Nobody)

\* Faulty variant: the response is returned without being stored.
SucceedsUnstored(r) ==
  /\ Released(r)
  /\ at' = [at EXCEPT ![r] = "done"]
  /\ reply' = [reply EXCEPT ![r] = {r}]
  /\ recent' = recent \cup {r}
  /\ UNCHANGED << result, expired >>

Succeeds(r) ==
  /\ Released(r)
  /\ at' = [at EXCEPT ![r] = "done"]
  /\ reply' = [reply EXCEPT ![r] = {r}]
  /\ result' = [k \in Keys |-> IF k = KeyOf[r] THEN {r} ELSE result[k]]
  /\ expired' = expired \ {KeyOf[r]}
  /\ recent' = recent \cup {r}

\* The turn raises, or the request is cancelled: nothing is stored.
Fails(r) ==
  /\ Released(r)
  /\ at' = [at EXCEPT ![r] = "failed"]
  /\ UNCHANGED << result, expired, reply, recent >>

\* A WebSocket or a stream takes and gives back the lock of the session.
OtherTurnBegins(s) ==
  /\ turn[s] = Nobody /\ turn' = [turn EXCEPT ![s] = {Other}]
  /\ UNCHANGED << result, expired, inflight, at, reply, recent >>

OtherTurnEnds(s) ==
  /\ turn[s] = {Other} /\ turn' = [turn EXCEPT ![s] = Nobody]
  /\ UNCHANGED << result, expired, inflight, at, reply, recent >>

\* The time to live of a stored result runs out.
Expires(k) ==
  /\ result[k] # {} /\ k \notin expired /\ expired' = expired \cup {k}
  /\ recent' = { q \in recent : KeyOf[q] # k }
  /\ UNCHANGED << result, inflight, turn, at, reply >>

ReplayNext ==
  \/ \E r \in Requests, late \in SUBSET Keys :
       ServedFromStore(r, late) \/ ConflictRefused(r, late) \/ InProgressRefused(r, late)
         \/ BusyRefused(r, late) \/ Starts(r, late)
  \/ \E r \in Requests : Succeeds(r) \/ Fails(r)
  \/ \E s \in Sessions : OtherTurnBegins(s) \/ OtherTurnEnds(s)
  \/ \E k \in Keys : Expires(k)

ReplaySpec == ReplayInit /\ [][ReplayNext]_replayVars

-----------------------------------------------------------------------------
(* Properties.                                                             *)

Same(q, r) == KeyOf[q] = KeyOf[r] /\ KeyOf[r] # NoKey /\ Fingerprint(q) = Fingerprint(r)

\* While a request runs, no other request identical to it runs, and none starts for the time to
\* live after it succeeded: the turn's effects happen once, through expiry, pruning, busy sessions and retries
\* (IdempotencyStore).
EffectsHappenOnce ==
  \A q, r \in Requests : Same(q, r) /\ q # r => ~(at[r] = "running" /\ (at[q] = "running" \/ q \in recent))

\* A response comes from the request itself or from an identical one that succeeded: never from
\* another session's turn or another message (get_cached, store_result).
ReplyIsForThisRequest ==
  \A r \in Requests : \A q \in reply[r] : at[q] = "done" /\ (q = r \/ Same(q, r))

\* A request that is retried has its effects once and is told of its own.
RetriesHold == EffectsHappenOnce /\ ReplyIsForThisRequest

\* The lock of a key belongs to a request that is running, so that a refused, failed or finished
\* request never blocks its own retries (release).
NoKeyStaysLocked ==
  \A k \in Keys : \A r \in inflight[k] : at[r] = "running" /\ KeyOf[r] = k /\ turn[SessionOf[r]] = {r}
=============================================================================
