----------------------------- MODULE StoreProofs -----------------------------
(***************************************************************************)
(* What TLAPS proves about what the program keeps, whatever its sizes: the *)
(* idempotency store of IdempotentChat, the table of sessions of Sessions, *)
(* the datasets of a session (DataSources), skills with the candidates for *)
(* one (Skills), and the downloads of models (Models).                     *)
(***************************************************************************)
EXTENDS MCStores, FiniteSetTheorems, WellFoundedInduction, TLAPS

\* A running request holds its session.
RunsUnderItsSession == \A r \in Requests : at[r] = "running" => turn[SessionOf[r]] = {r}

\* A key is locked by a running request that carries it.
LocksAreRunning == \A k \in Keys : \A r \in inflight[k] : at[r] = "running" /\ KeyOf[r] = k

\* A stored result is that of a finished request with its key.
ResultsAreDone == \A k \in Keys : \A q \in result[k] : at[q] = "done" /\ KeyOf[q] = k

\* While the response of a request is alive, its key has a live result, its own or a later one.
RecentIsStored ==
  \A q \in recent : KeyOf[q] # NoKey => result[KeyOf[q]] # {} /\ KeyOf[q] \notin expired

IInv ==
  /\ ReplayTypeOK /\ RunsUnderItsSession /\ LocksAreRunning /\ ResultsAreDone /\ RecentIsStored
  /\ EffectsHappenOnce /\ ReplyIsForThisRequest

\* Results, locks and replies name requests.
LEMMA Members ==
  ASSUME ReplayTypeOK
  PROVE  /\ \A k \in Keys : result[k] \subseteq Requests /\ inflight[k] \subseteq Requests
         /\ \A r \in Requests : reply[r] \subseteq Requests
<1>1. \A S \in AtMostOne : S \subseteq Requests
  BY DEF AtMostOne
<1> QED
  BY <1>1 DEF ReplayTypeOK

LEMMA InitHolds == ReplayInit => IInv
<1> QED
  BY DEF ReplayInit, IInv, ReplayTypeOK, RunsUnderItsSession, LocksAreRunning, ResultsAreDone, RecentIsStored,
         EffectsHappenOnce, ReplyIsForThisRequest, AtMostOne, Nobody

\* What a look-up leaves in the store.
LEMMA LookUp ==
  ASSUME IInv, NEW r \in Requests, NEW late \in SUBSET Keys, LookedUp(r, late)
  PROVE  /\ result' \in [Keys -> AtMostOne]
         /\ expired' \subseteq { k \in Keys : result'[k] # {} }
         /\ recent' \subseteq recent
         /\ \A k \in Keys : result'[k] \subseteq result[k]
         /\ \A q \in recent' : KeyOf[q] # NoKey => result'[KeyOf[q]] # {} /\ KeyOf[q] \notin expired'
         /\ LocksAfterLookUp(r) \in [Keys -> AtMostOne]
         /\ \A k \in Keys : LocksAfterLookUp(r)[k] \subseteq inflight[k]
<1>1. \A q \in recent : q \in Requests /\ (KeyOf[q] # NoKey => KeyOf[q] \in Keys)
  BY RequestAssumption DEF IInv, ReplayTypeOK
<1>2. CASE KeyOf[r] = NoKey
  <2>1. /\ result' = result /\ expired' = expired /\ recent' = recent
        /\ LocksAfterLookUp(r) = inflight
    BY <1>2 DEF LookedUp, LocksAfterLookUp
  <2> QED
    BY <1>1, <2>1 DEF IInv, ReplayTypeOK, RecentIsStored
<1>3. CASE KeyOf[r] # NoKey
  <2>1. /\ result' = PrunedResult /\ expired' = late
        /\ late \subseteq { k \in Keys \ expired : result[k] # {} }
        /\ recent' = { q \in recent : KeyOf[q] \notin late }
    BY <1>3 DEF LookedUp
  <2>2. /\ PrunedResult \in [Keys -> AtMostOne] /\ PrunedLocks \in [Keys -> AtMostOne]
        /\ \A k \in Keys : /\ PrunedResult[k] \subseteq result[k]
                           /\ k \notin expired => PrunedResult[k] = result[k]
                           /\ PrunedLocks[k] \subseteq inflight[k]
    BY DEF PrunedResult, PrunedLocks, AtMostOne, Nobody, IInv, ReplayTypeOK
  <2>3. LocksAfterLookUp(r) = PrunedLocks
    BY <1>3 DEF LocksAfterLookUp
  <2>4. \A q \in recent : KeyOf[q] # NoKey => result'[KeyOf[q]] # {} /\ KeyOf[q] \in Keys
    BY <1>1, <2>1, <2>2 DEF IInv, RecentIsStored
  <2> QED
    BY <2>1, <2>2, <2>3, <2>4
<1> QED
  BY <1>2, <1>3

\* The request's key gets a lock or loses one.
LEMMA KeyLockType ==
  ASSUME NEW locks \in [Keys -> AtMostOne], NEW r, NEW h \in AtMostOne
  PROVE  /\ KeyLock(locks, r, h) \in [Keys -> AtMostOne]
         /\ \A k \in Keys : KeyLock(locks, r, h)[k] = IF k = KeyOf[r] THEN h ELSE locks[k]
<1> QED
  BY DEF KeyLock

\* A request that is turned away or served from the store changes no turn.
LEMMA AnsweredAtOnce ==
  ASSUME IInv, NEW r \in Requests, NEW late \in SUBSET Keys,
         \/ ServedFromStore(r, late) \/ ConflictRefused(r, late)
         \/ InProgressRefused(r, late) \/ BusyRefused(r, late)
  PROVE  IInv'
<1> USE RequestAssumption DEF IInv
<1>1. /\ LookedUp(r, late) /\ turn' = turn /\ at[r] = "new"
      /\ \E a \in {"cached", "conflict", "in progress", "busy"} : at' = [at EXCEPT ![r] = a]
  BY DEF ServedFromStore, ConflictRefused, InProgressRefused, BusyRefused, LookedUp
<1>2. \A q \in Requests : /\ q # r => at'[q] = at[q]
                          /\ at'[q] \in {"running", "done"} => at'[q] = at[q] /\ q # r
                          /\ at[q] \in {"running", "done"} => at'[q] = at[q]
  BY <1>1 DEF ReplayTypeOK
<1>3. inflight' \in [Keys -> AtMostOne] /\ \A k \in Keys : inflight'[k] \subseteq inflight[k]
  <2>1. {} \in AtMostOne
    BY DEF AtMostOne
  <2>2. inflight' = LocksAfterLookUp(r) \/ inflight' = KeyLock(LocksAfterLookUp(r), r, {})
    BY DEF ServedFromStore, ConflictRefused, InProgressRefused, BusyRefused, Nobody
  <2>3. /\ LocksAfterLookUp(r) \in [Keys -> AtMostOne]
        /\ \A k \in Keys : LocksAfterLookUp(r)[k] \subseteq inflight[k]
    BY <1>1, LookUp
  <2>4. CASE inflight' = LocksAfterLookUp(r)
    BY <2>3, <2>4
  <2>5. CASE inflight' = KeyLock(LocksAfterLookUp(r), r, {})
    <3>1. /\ KeyLock(LocksAfterLookUp(r), r, {}) \in [Keys -> AtMostOne]
          /\ \A k \in Keys : KeyLock(LocksAfterLookUp(r), r, {})[k]
                              = IF k = KeyOf[r] THEN {} ELSE LocksAfterLookUp(r)[k]
      BY <2>1, <2>3, KeyLockType
    <3> QED
      BY <2>3, <2>5, <3>1
  <2> QED
    BY <2>2, <2>4, <2>5
<1>4. reply' \in [Requests -> AtMostOne] /\ \A p \in Requests : reply'[p] = reply[p]
          \/ (p = r /\ ServedFromStore(r, late) /\ reply'[p] = result[KeyOf[r]])
  <2>1. CASE ServedFromStore(r, late)
    <3>1. KeyOf[r] \in Keys /\ reply' = [reply EXCEPT ![r] = result[KeyOf[r]]]
      BY <2>1 DEF ServedFromStore, Found
    <3>2. result[KeyOf[r]] \in AtMostOne
      BY <3>1 DEF ReplayTypeOK
    <3>3. reply \in [Requests -> AtMostOne]
      BY DEF ReplayTypeOK
    <3>4. reply' \in [Requests -> AtMostOne]
      BY <3>1, <3>2, <3>3
    <3>5. \A p \in Requests : reply'[p] = reply[p] \/ (p = r /\ reply'[p] = result[KeyOf[r]])
      BY <3>1, <3>2, <3>3
    <3> QED
      BY <2>1, <3>4, <3>5
  <2>2. CASE ~ServedFromStore(r, late)
    <3>1. reply' = reply
      BY <2>2 DEF ConflictRefused, InProgressRefused, BusyRefused
    <3>2. reply \in [Requests -> AtMostOne]
      BY DEF ReplayTypeOK
    <3> QED
      BY <3>1, <3>2
  <2> QED
    BY <2>1, <2>2
<1>5. ReplayTypeOK'
  <2>1. at' \in [Requests -> {"new", "running", "done", "failed", "cached", "conflict", "in progress", "busy"}]
    BY <1>1 DEF ReplayTypeOK
  <2> QED
    BY <1>1, <1>3, <1>4, <2>1, LookUp DEF ReplayTypeOK
<1>6. RunsUnderItsSession' /\ LocksAreRunning'
  <2>1. \A k \in Keys : \A q \in inflight[k] : q \in Requests
    BY Members
  <2> QED
    BY <1>1, <1>2, <1>3, <2>1 DEF RunsUnderItsSession, LocksAreRunning
<1>7. ResultsAreDone' /\ RecentIsStored'
  <2>1. \A k \in Keys : \A q \in result[k] : q \in Requests
    BY Members
  <2>2. ResultsAreDone'
    BY <1>1, <1>2, <2>1, LookUp DEF ResultsAreDone
  <2> QED
    BY <1>1, <2>2, LookUp DEF RecentIsStored
<1>8. EffectsHappenOnce'
  <2>1. recent' \subseteq recent
    BY <1>1, LookUp
  <2> QED
    BY <1>2, <2>1 DEF EffectsHappenOnce, Same, Fingerprint
<1>9. ReplyIsForThisRequest'
  <2> SUFFICES ASSUME NEW p \in Requests, NEW q \in reply'[p]
               PROVE  at'[q] = "done" /\ (q = p \/ Same(q, p))
    BY DEF ReplyIsForThisRequest, Same, Fingerprint
  <2>1. CASE reply'[p] = reply[p]
    <3>1. q \in Requests
      BY <2>1, Members
    <3> QED
      BY <1>2, <2>1, <3>1 DEF ReplyIsForThisRequest
  <2>2. CASE p = r /\ ServedFromStore(r, late) /\ reply'[p] = result[KeyOf[r]]
    <3>1. KeyOf[r] \in Keys /\ \E x \in result[KeyOf[r]] : Fingerprint(x) = Fingerprint(r)
      BY <2>2 DEF ServedFromStore, Found
    <3>2. q \in Requests /\ Fingerprint(q) = Fingerprint(r)
      <4>1. result[KeyOf[r]] \in AtMostOne /\ q \in result[KeyOf[r]]
        BY <2>2, <3>1 DEF ReplayTypeOK
      <4> QED
        BY <3>1, <4>1 DEF AtMostOne
    <3>3. at[q] = "done" /\ KeyOf[q] = KeyOf[r]
      BY <2>2, <3>1 DEF ResultsAreDone
    <3> QED
      BY <1>2, <2>2, <3>1, <3>2, <3>3 DEF Same
  <2> QED
    BY <1>4, <2>1, <2>2
<1> QED
  BY <1>5, <1>6, <1>7, <1>8, <1>9

\* A turn starts: nothing identical runs, since it would hold the session, and nothing identical
\* succeeded within its time to live, since its key would have a live result.
LEMMA StartStep ==
  ASSUME IInv, NEW r \in Requests, NEW late \in SUBSET Keys, Starts(r, late)
  PROVE  IInv'
<1> USE RequestAssumption DEF IInv
<1>1. /\ LookedUp(r, late) /\ at[r] = "new" /\ at' = [at EXCEPT ![r] = "running"]
      /\ turn[SessionOf[r]] = {} /\ turn' = [turn EXCEPT ![SessionOf[r]] = {r}]
      /\ reply' = reply /\ inflight' = KeyLock(LocksAfterLookUp(r), r, {r})
  BY DEF Starts, LookedUp, Nobody
<1>2. \A q \in Requests : q # r => at'[q] = at[q]
  BY <1>1 DEF ReplayTypeOK
<1>3. {r} \in AtMostOne /\ SessionOf[r] \in Sessions
  BY DEF AtMostOne
<1>4. ReplayTypeOK'
  <2>1. at' \in [Requests -> {"new", "running", "done", "failed", "cached", "conflict", "in progress", "busy"}]
    BY <1>1 DEF ReplayTypeOK
  <2>2. inflight' \in [Keys -> AtMostOne]
    BY <1>1, <1>3, LookUp, KeyLockType
  <2>3. turn' \in [Sessions -> AtMostOne \cup { {Other} }]
    BY <1>1, <1>3 DEF ReplayTypeOK
  <2> QED
    BY <1>1, <2>1, <2>2, <2>3, LookUp DEF ReplayTypeOK
<1>5. RunsUnderItsSession'
  BY <1>1, <1>2, <1>3 DEF RunsUnderItsSession, ReplayTypeOK
<1>6. LocksAreRunning'
  <2> SUFFICES ASSUME NEW k \in Keys, NEW q \in inflight'[k]
               PROVE  at'[q] = "running" /\ KeyOf[q] = k
    BY DEF LocksAreRunning
  <2>1. inflight'[k] = IF k = KeyOf[r] THEN {r} ELSE LocksAfterLookUp(r)[k]
    BY <1>1, <1>3, LookUp, KeyLockType
  <2>2. CASE k = KeyOf[r]
    <3>1. q = r
      BY <2>1, <2>2
    <3> QED
      BY <1>1, <2>2, <3>1 DEF ReplayTypeOK
  <2>3. CASE k # KeyOf[r]
    <3>1. q \in inflight[k]
      BY <1>1, <2>1, <2>3, LookUp
    <3>2. q \in Requests /\ q # r
      BY <1>1, <3>1, Members DEF LocksAreRunning
    <3> QED
      BY <1>2, <3>1, <3>2 DEF LocksAreRunning
  <2> QED
    BY <2>2, <2>3
<1>7. ResultsAreDone' /\ RecentIsStored'
  <2>1. \A k \in Keys : \A q \in result[k] : q \in Requests /\ q # r
    BY <1>1, Members DEF ResultsAreDone
  <2>2. ResultsAreDone'
    BY <1>1, <1>2, <2>1, LookUp DEF ResultsAreDone
  <2> QED
    BY <1>1, <2>2, LookUp DEF RecentIsStored
<1>8. ASSUME NEW q \in Requests, Same(q, r), q # r PROVE at[q] # "running" /\ q \notin recent'
  <2>1. SessionOf[q] = SessionOf[r] /\ KeyOf[q] = KeyOf[r] /\ KeyOf[r] \in Keys
        /\ Fingerprint(q) = Fingerprint(r)
    BY <1>8 DEF Same, Fingerprint
  <2>2. at[q] # "running"
    BY <1>1, <2>1 DEF RunsUnderItsSession
  <2>3. q \notin recent'
    <3> SUFFICES ASSUME q \in recent' PROVE FALSE
      OBVIOUS
    <3>1. q \in recent /\ KeyOf[q] \notin late
      BY <1>1, <1>8, <2>1 DEF LookedUp, Same
    <3>2. result[KeyOf[r]] # {} /\ KeyOf[r] \in Keys \ (expired \cup late)
      BY <1>8, <2>1, <3>1 DEF RecentIsStored, Same
    <3>3. \E x \in result[KeyOf[r]] : Fingerprint(x) = Fingerprint(r) \/ Fingerprint(x) # Fingerprint(r)
      BY <3>2
    <3> QED
      BY <3>2, <3>3 DEF Starts, Found, Conflicting
  <2> QED
    BY <2>2, <2>3
<1>9. EffectsHappenOnce'
  <2> SUFFICES ASSUME NEW p \in Requests, NEW q \in Requests, Same(q, p), q # p,
                      at'[p] = "running", at'[q] = "running" \/ q \in recent'
               PROVE  FALSE
    BY DEF EffectsHappenOnce, Same, Fingerprint
  <2>1. Same(p, q)
    BY DEF Same
  <2>2. recent' \subseteq recent
    BY <1>1, LookUp
  <2>3. CASE p = r
    BY <1>2, <1>8, <2>3
  <2>4. CASE q = r
    <3>1. q \notin recent'
      <4>1. KeyOf[p] = KeyOf[r] /\ KeyOf[r] # NoKey /\ at[p] = "running"
        BY <1>2, <2>4 DEF Same
      <4> QED
        BY <1>2, <1>8, <2>1, <2>4, <4>1
    <3> QED
      BY <1>2, <1>8, <2>1, <2>4, <3>1
  <2>5. CASE p # r /\ q # r
    BY <1>2, <2>2, <2>5 DEF EffectsHappenOnce
  <2> QED
    BY <2>3, <2>4, <2>5
<1>10. ReplyIsForThisRequest'
  <2>1. \A p \in Requests : \A q \in reply[p] : q \in Requests /\ q # r
    BY <1>1, Members DEF ReplyIsForThisRequest
  <2> QED
    BY <1>1, <1>2, <2>1 DEF ReplyIsForThisRequest, Same, Fingerprint
<1> QED
  BY <1>4, <1>5, <1>6, <1>7, <1>9, <1>10

\* A turn ends, with a response or without.
LEMMA EndStep ==
  ASSUME IInv, NEW r \in Requests, Succeeds(r) \/ Fails(r)
  PROVE  IInv'
<1> USE RequestAssumption DEF IInv
<1> DEFINE E == IF Succeeds(r) THEN "done" ELSE "failed"
<1>1. /\ at[r] = "running" /\ at' = [at EXCEPT ![r] = E]
      /\ turn' = [turn EXCEPT ![SessionOf[r]] = {}] /\ inflight' = KeyLock(inflight, r, {})
  BY DEF Succeeds, Fails, Released, Nobody
<1>2. \A q \in Requests : /\ q # r => at'[q] = at[q]
                          /\ at'[q] = "running" => q # r /\ at[q] = "running"
                          /\ at[q] = "done" => at'[q] = "done"
                          /\ at'[r] = E
  BY <1>1 DEF ReplayTypeOK
<1>3. {r} \in AtMostOne /\ {} \in AtMostOne /\ SessionOf[r] \in Sessions
  BY DEF AtMostOne
<1>4. /\ recent' = IF Succeeds(r) THEN recent \cup {r} ELSE recent
      /\ reply' = IF Succeeds(r) THEN [reply EXCEPT ![r] = {r}] ELSE reply
      /\ Succeeds(r) => /\ result' = [k \in Keys |-> IF k = KeyOf[r] THEN {r} ELSE result[k]]
                        /\ expired' = expired \ {KeyOf[r]}
      /\ ~Succeeds(r) => result' = result /\ expired' = expired
  BY DEF Succeeds, Fails
<1>5. ReplayTypeOK'
  <2>1. at' \in [Requests -> {"new", "running", "done", "failed", "cached", "conflict", "in progress", "busy"}]
    BY <1>1 DEF ReplayTypeOK
  <2>2. inflight' \in [Keys -> AtMostOne]
    BY <1>1, <1>3, KeyLockType DEF ReplayTypeOK
  <2>3. turn' \in [Sessions -> AtMostOne \cup { {Other} }] /\ reply' \in [Requests -> AtMostOne]
    BY <1>1, <1>3, <1>4 DEF ReplayTypeOK
  <2>4. result' \in [Keys -> AtMostOne] /\ expired' \subseteq { k \in Keys : result'[k] # {} }
    BY ZenonT(60), <1>3, <1>4 DEF ReplayTypeOK
  <2> QED
    BY <1>4, <2>1, <2>2, <2>3, <2>4 DEF ReplayTypeOK
<1>6. RunsUnderItsSession'
  <2> SUFFICES ASSUME NEW q \in Requests, at'[q] = "running" PROVE turn'[SessionOf[q]] = {q}
    BY DEF RunsUnderItsSession
  <2>1. q # r /\ turn[SessionOf[q]] = {q} /\ turn[SessionOf[r]] = {r}
    BY <1>1, <1>2 DEF RunsUnderItsSession
  <2>2. SessionOf[q] # SessionOf[r]
    BY <2>1
  <2> QED
    BY <1>1, <2>1, <2>2 DEF ReplayTypeOK
<1>7. LocksAreRunning'
  <2> SUFFICES ASSUME NEW k \in Keys, NEW q \in inflight'[k]
               PROVE  at'[q] = "running" /\ KeyOf[q] = k
    BY DEF LocksAreRunning
  <2>1. k # KeyOf[r] /\ q \in inflight[k]
    <3>1. inflight \in [Keys -> AtMostOne]
      BY DEF ReplayTypeOK
    <3>2. KeyLock(inflight, r, {})[k] = IF k = KeyOf[r] THEN {} ELSE inflight[k]
      BY <1>3, <3>1, KeyLockType
    <3> QED
      BY <1>1, <3>2
  <2>2. q \in Requests /\ q # r
    BY <1>1, <2>1, Members DEF LocksAreRunning
  <2> QED
    BY <1>2, <2>1, <2>2 DEF LocksAreRunning
<1>8. ResultsAreDone'
  <2>1. \A k \in Keys : \A q \in result[k] : q \in Requests /\ at[q] = "done" /\ KeyOf[q] = k
    BY Members DEF ResultsAreDone
  <2>2. Succeeds(r) => at'[r] = "done"
    BY <1>2
  <2> SUFFICES ASSUME NEW k \in Keys, NEW q \in result'[k] PROVE at'[q] = "done" /\ KeyOf[q] = k
    BY DEF ResultsAreDone
  <2>3. CASE Succeeds(r) /\ k = KeyOf[r]
    BY <1>4, <2>2, <2>3
  <2>4. CASE ~(Succeeds(r) /\ k = KeyOf[r])
    <3>1. q \in result[k]
      BY <1>4, <2>4
    <3> QED
      BY <1>2, <2>1, <3>1
  <2> QED
    BY <2>3, <2>4
<1>9. RecentIsStored'
  <2> SUFFICES ASSUME NEW q \in recent', KeyOf[q] # NoKey
               PROVE  result'[KeyOf[q]] # {} /\ KeyOf[q] \notin expired'
    BY DEF RecentIsStored
  <2>1. q \in Requests /\ KeyOf[q] \in Keys
    BY <1>5 DEF ReplayTypeOK
  <2> QED
    BY ZenonT(60), <1>4, <2>1 DEF RecentIsStored, ReplayTypeOK
<1>10. EffectsHappenOnce'
  <2> SUFFICES ASSUME NEW p \in Requests, NEW q \in Requests, Same(q, p), q # p,
                      at'[p] = "running", at'[q] = "running" \/ q \in recent'
               PROVE  FALSE
    BY DEF EffectsHappenOnce, Same, Fingerprint
  <2>1. p # r /\ at[p] = "running"
    BY <1>2
  <2>2. at[q] = "running" \/ q \in recent
    BY <1>1, <1>2, <1>4
  <2> QED
    BY <2>1, <2>2 DEF EffectsHappenOnce
<1>11. ReplyIsForThisRequest'
  <2>1. \A p \in Requests : \A q \in reply[p] : q \in Requests
    BY Members
  <2>2. Succeeds(r) => at'[r] = "done"
    BY <1>2
  <2>3. \A p \in Requests : reply'[p] = reply[p] \/ (Succeeds(r) /\ p = r /\ reply'[p] = {r})
    <3>1. reply \in [Requests -> AtMostOne]
      BY DEF ReplayTypeOK
    <3>2. CASE Succeeds(r)
      BY <1>4, <3>1, <3>2
    <3>3. CASE ~Succeeds(r)
      BY <1>4, <3>1, <3>3
    <3> QED
      BY <3>2, <3>3
  <2> QED
    BY <1>2, <2>1, <2>2, <2>3 DEF ReplyIsForThisRequest, Same, Fingerprint
<1> QED
  BY <1>5, <1>6, <1>7, <1>8, <1>9, <1>10, <1>11

\* Turns of other transports, and the passing of time.
LEMMA EnvironmentStep ==
  ASSUME IInv, \/ \E s \in Sessions : OtherTurnBegins(s) \/ OtherTurnEnds(s)
               \/ \E k \in Keys : Expires(k)
  PROVE  IInv'
<1> USE RequestAssumption DEF IInv
<1>1. ASSUME NEW s \in Sessions, OtherTurnBegins(s) \/ OtherTurnEnds(s) PROVE IInv'
  <2>1. UNCHANGED << result, expired, inflight, at, reply, recent >>
    BY <1>1 DEF OtherTurnBegins, OtherTurnEnds
  <2>2. ReplayTypeOK'
    BY <1>1, <2>1 DEF OtherTurnBegins, OtherTurnEnds, ReplayTypeOK, AtMostOne, Nobody
  <2>3. RunsUnderItsSession'
    <3> SUFFICES ASSUME NEW q \in Requests, at'[q] = "running" PROVE turn'[SessionOf[q]] = {q}
      BY DEF RunsUnderItsSession
    <3>1. turn[SessionOf[q]] = {q} /\ q # Other
      BY <2>1, <1>1 DEF RunsUnderItsSession
    <3> QED
      BY <1>1, <3>1 DEF OtherTurnBegins, OtherTurnEnds, ReplayTypeOK, Nobody
  <2> QED
    BY <2>1, <2>2, <2>3 DEF LocksAreRunning, ResultsAreDone, RecentIsStored, EffectsHappenOnce,
                            ReplyIsForThisRequest, Same, Fingerprint
<1>2. ASSUME NEW k \in Keys, Expires(k) PROVE IInv'
  <2>1. recent' \subseteq recent /\ \A q \in recent' : KeyOf[q] # k
    BY <1>2 DEF Expires
  <2>2. ReplayTypeOK'
    BY <1>2 DEF Expires, ReplayTypeOK
  <2>3. RecentIsStored'
    BY <1>2, <2>1 DEF Expires, RecentIsStored
  <2> QED
    BY <1>2, <2>1, <2>2, <2>3 DEF Expires, RunsUnderItsSession, LocksAreRunning, ResultsAreDone,
                                  EffectsHappenOnce, ReplyIsForThisRequest, Same, Fingerprint
<1> QED
  BY <1>1, <1>2

LEMMA InductiveStep == IInv /\ [ReplayNext]_replayVars => IInv'
<1> SUFFICES ASSUME IInv, [ReplayNext]_replayVars PROVE IInv'
  OBVIOUS
<1>1. CASE UNCHANGED replayVars
  <2>1. UNCHANGED << result, expired, inflight, turn, at, reply, recent >>
    BY <1>1 DEF replayVars
  <2>2. ReplayTypeOK'
    BY <2>1 DEF IInv, ReplayTypeOK
  <2>3. RunsUnderItsSession' /\ LocksAreRunning' /\ ResultsAreDone' /\ RecentIsStored'
    BY <2>1 DEF IInv, RunsUnderItsSession, LocksAreRunning, ResultsAreDone, RecentIsStored
  <2>4. EffectsHappenOnce' /\ ReplyIsForThisRequest'
    BY <2>1 DEF IInv, EffectsHappenOnce, ReplyIsForThisRequest, Same, Fingerprint
  <2> QED
    BY <2>2, <2>3, <2>4 DEF IInv
<1>2. CASE ReplayNext
  BY <1>2, AnsweredAtOnce, StartStep, EndStep, EnvironmentStep DEF ReplayNext
<1> QED
  BY <1>1, <1>2

LEMMA Invariance == ReplaySpec => []IInv
<1> QED
  BY InitHolds, InductiveStep, PTL DEF ReplaySpec

\* Every variable of the store keeps its type: an expired entry is an entry.
THEOREM TypeCorrect == ReplaySpec => []ReplayTypeOK
<1>1. IInv => ReplayTypeOK
  BY DEF IInv
<1> QED
  BY <1>1, Invariance, PTL

\* The effects of a request happen once, whatever its retries, the other sessions and the clock do.
THEOREM EffectsOnce == ReplaySpec => []EffectsHappenOnce
<1>1. IInv => EffectsHappenOnce
  BY DEF IInv
<1> QED
  BY <1>1, Invariance, PTL

\* A response is that of the request or of an identical one.
THEOREM RepliesCorrect == ReplaySpec => []ReplyIsForThisRequest
<1>1. IInv => ReplyIsForThisRequest
  BY DEF IInv
<1> QED
  BY <1>1, Invariance, PTL

\* A retry neither repeats what a request did nor is told of another one.
THEOREM RetriesAreSafe == ReplaySpec => []RetriesHold
<1>1. EffectsHappenOnce /\ ReplyIsForThisRequest => RetriesHold
  BY DEF RetriesHold
<1> QED
  BY <1>1, EffectsOnce, RepliesCorrect, PTL

\* A key is locked only while a request that carries it runs under its session's lock.
THEOREM KeysCorrect == ReplaySpec => []NoKeyStaysLocked
<1>1. IInv => NoKeyStaysLocked
  BY Members DEF IInv, RunsUnderItsSession, LocksAreRunning, NoKeyStaysLocked
<1> QED
  BY <1>1, Invariance, PTL
-----------------------------------------------------------------------------
(* The sessions.                                                            *)

\* The inductive invariant of Sessions.  Types alone do not say that a session
\* is in one hand at a time, that what is minted is new, or what a disposal has
\* still to come to.
States == {"idle", "insert", "enforce", "dispose", "shutdown"}

SessTyped ==
    /\ live \subseteq SessionIds /\ working \subseteq SessionIds /\ made \subseteq SessionIds
    /\ seen \in [SessionIds -> Nat]
    /\ caller \in [Threads -> [at : States, id : SUBSET SessionIds, victims : SUBSET SessionIds,
                               step : 0..6]]
    /\ kept \in [SessionIds -> SUBSET Things]

\* A thread holds what it is about to insert or has to dispose of, one at a time.
Shaped ==
    \A c \in Threads :
        /\ At(c, "idle") \/ At(c, "enforce") => caller[c].id = {} /\ caller[c].victims = {}
        /\ At(c, "insert") => caller[c].victims = {} /\ \E s \in SessionIds : caller[c].id = {s}
        /\ At(c, "shutdown") => caller[c].id = {}
        /\ Disposing(c) /\ caller[c].id # {} =>
              /\ caller[c].step \in 1..6
              /\ \E s \in SessionIds : caller[c].id = {s}
        /\ caller[c].id \cap caller[c].victims = {}

\* What a thread holds of the sessions.
Held(c) == caller[c].victims \cup caller[c].id

\* Nobody else holds it, and it is not in the table.
Apart ==
    /\ \A c \in Threads : Held(c) \cap live = {}
    /\ \A c, d \in Threads : c # d => Held(c) \cap Held(d) = {}

\* Every id has had its first request once it is minted.
Minted == {s \in SessionIds : seen[s] # 0}

\* An id nobody has had is nowhere, and the ranks of the others stay positive.
Ranked ==
    /\ \A s \in Minted : seen[s] > Cardinality(SessionIds) - Cardinality(Minted)
    /\ live \subseteq Minted
    /\ \A c \in Threads : Held(c) \subseteq Minted

\* A disposal has still to come to x.
Owed(s, x) ==
    \/ s \in live
    \/ \E c \in Threads : s \in caller[c].victims
    \/ \E c \in Threads : /\ Disposing(c) /\ s \in caller[c].id
                          /\ \E i \in caller[c].step..6 : x = Teardown[i]

Accounted == \A s \in SessionIds \ made : \A x \in kept[s] : Owed(s, x)

SInv == SessTyped /\ Shaped /\ Apart /\ Ranked /\ Accounted /\ CapacityHolds

\* A disposal gives back six things.
LEMMA SixThings == Len(Teardown) = 6 /\ Things = {Teardown[i] : i \in 1..6}
BY DEF Teardown, Things, ToSet

\* What is ahead of a session, as a set and as who owes it.
LEMMA AheadIsOwed ==
    ASSUME SessTyped, Shaped, NEW s \in SessionIds
    PROVE  /\ Ahead(s) \subseteq Things
           /\ \A x \in Things : x \in Ahead(s) <=> Owed(s, x)
<1>1. CASE s \in live
  BY <1>1 DEF Ahead, Owed
<1>2. CASE s \notin live
  <2> DEFINE A == {Things : c \in {d \in Threads : s \in caller[d].victims}}
             B == {{Teardown[i] : i \in caller[c].step..6} :
                     c \in {d \in Threads : Disposing(d) /\ s \in caller[d].id}}
  <2>1. Ahead(s) = UNION (A \cup B)
    BY <1>2, SixThings DEF Ahead
  <2>2. \A T : T \in A <=> T = Things /\ \E c \in Threads : s \in caller[c].victims
    OBVIOUS
  <2>3. \A T : T \in B <=> \E c \in Threads : /\ Disposing(c) /\ s \in caller[c].id
                                             /\ T = {Teardown[i] : i \in caller[c].step..6}
    OBVIOUS
  <2> HIDE DEF A, B
  <2>4. ASSUME NEW x
        PROVE  x \in Ahead(s) <=>
                 \/ x \in Things /\ \E c \in Threads : s \in caller[c].victims
                 \/ \E c \in Threads : /\ Disposing(c) /\ s \in caller[c].id
                                      /\ \E i \in caller[c].step..6 : x = Teardown[i]
    <3>1. x \in Ahead(s) <=> (\E T \in A : x \in T) \/ (\E T \in B : x \in T)
      BY <2>1
    <3>2. (\E T \in A : x \in T) <=> x \in Things /\ \E c \in Threads : s \in caller[c].victims
      BY <2>2
    <3>3. (\E T \in B : x \in T) <=> \E c \in Threads :
                                       /\ Disposing(c) /\ s \in caller[c].id
                                       /\ x \in {Teardown[i] : i \in caller[c].step..6}
      BY <2>3
    <3> QED BY <3>1, <3>2, <3>3
  <2>5. \A c \in Threads : caller[c].step \in 0..6
    BY DEF SessTyped
  <2>6. ASSUME NEW c \in Threads, Shaped, Disposing(c), s \in caller[c].id, NEW i \in caller[c].step..6
        PROVE  Teardown[i] \in Things
    <3>1. i \in 1..6
      BY <2>5, <2>6 DEF Shaped
    <3> QED BY <3>1, SixThings
  <2> QED BY <1>2, <2>4, <2>6 DEF Owed
<1> QED BY <1>1, <1>2

\* Everything counted is finite.
LEMMA Finite ==
    /\ IsFiniteSet(SessionIds) /\ IsFiniteSet(Threads) /\ MaxActive \in Nat
    /\ \A S \in SUBSET SessionIds : IsFiniteSet(S) /\ Cardinality(S) \in Nat
                                    /\ Cardinality(S) <= Cardinality(SessionIds)
    /\ \A S \in SUBSET Threads : IsFiniteSet(S) /\ Cardinality(S) \in Nat
    /\ Cardinality(SessionIds) \in Nat
BY SessionsAssumption, FS_Subset, FS_CardinalityType

\* The clock: to touch a session makes it the last seen, and minting one keeps
\* every minted session's rank positive.
LEMMA TouchKeepsRanks ==
    ASSUME SessTyped, NEW s \in SessionIds, seen' = Touched(s),
           \A t \in Minted : seen[t] > Cardinality(SessionIds) - Cardinality(Minted)
    PROVE  /\ seen' \in [SessionIds -> Nat]
           /\ Minted' = Minted \cup {s}
           /\ \A t \in Minted' : seen'[t] > Cardinality(SessionIds) - Cardinality(Minted')
<1> DEFINE N == Cardinality(SessionIds)
           m == Cardinality(Minted)
<1>1. IsFiniteSet(Minted) /\ m \in Nat /\ m <= N /\ N \in Nat
  BY Finite DEF Minted
<1>2. Cardinality(Minted \cup {s}) = IF s \in Minted THEN m ELSE m + 1
  BY <1>1, FS_AddElement
<1>3. Minted \cup {s} \subseteq SessionIds /\ Cardinality(Minted \cup {s}) <= N
  BY Finite DEF Minted
<1>4. N >= 1 /\ (s \in Minted => m >= 1)
  <2>1. {s} \subseteq SessionIds /\ Cardinality({s}) = 1
    BY FS_Singleton
  <2>2. s \in Minted => Minted # {}
    OBVIOUS
  <2>3. Minted # {} => m # 0
    BY <1>1, FS_EmptySet
  <2>4. Cardinality({s}) <= N
    BY <2>1, Finite
  <2> QED BY <2>1, <2>2, <2>3, <2>4, <1>1
<1> HIDE DEF N, m
<1>5. \A t \in SessionIds : seen[t] \in Nat /\ (t \in Minted <=> seen[t] # 0)
  BY DEF SessTyped, Minted
<1>6. \A t \in SessionIds : seen'[t] = IF t = s THEN N
                                       ELSE IF seen[t] > seen[s] THEN seen[t] - 1 ELSE seen[t]
  BY DEF Touched, N
<1>7. \A t \in Minted : seen[t] > N - m
  BY DEF N, m
<1>8. ASSUME NEW t \in SessionIds
      PROVE  /\ seen'[t] \in Nat
             /\ seen'[t] # 0 <=> t \in Minted \cup {s}
             /\ t \in Minted \cup {s} => seen'[t] > N - Cardinality(Minted \cup {s})
  <2>1. CASE t = s
    BY <2>1, <1>1, <1>2, <1>4, <1>6
  <2>2. CASE t # s /\ seen[t] > seen[s]
    <3>1. seen'[t] = seen[t] - 1 /\ t \in Minted
      BY <2>2, <1>5, <1>6
    <3>2. CASE s \in Minted
      BY <2>2, <3>1, <3>2, <1>1, <1>2, <1>5, <1>7
    <3>3. CASE s \notin Minted
      BY <2>2, <3>1, <3>3, <1>1, <1>2, <1>3, <1>5, <1>7
    <3> QED BY <3>2, <3>3
  <2>3. CASE t # s /\ ~(seen[t] > seen[s])
    <3>1. seen'[t] = seen[t]
      BY <2>3, <1>6
    <3> QED BY <2>3, <3>1, <1>1, <1>2, <1>5, <1>7
  <2> QED BY <2>1, <2>2, <2>3
<1>9. Minted' = Minted \cup {s}
  BY <1>8 DEF Minted
<1>10. seen' \in [SessionIds -> Nat]
  BY <1>8 DEF Touched
<1> QED BY <1>8, <1>9, <1>10 DEF N, Minted
-----------------------------------------------------------------------------
(* One lemma per kind of step.                                              *)


LEMMA SInitHolds == SessInit => SInv
<1> SUFFICES ASSUME SessInit PROVE SInv
  OBVIOUS
<1>1. SessTyped /\ Shaped /\ Apart /\ Accounted
  BY DEF SessInit, SessTyped, Shaped, Apart, Accounted, Held, At, Disposing, Idle, Hands, States
<1>2. Minted = {}
  BY DEF SessInit, Minted
<1>3. Ranked
  BY <1>2 DEF SessInit, Ranked, Held, Idle, Hands
<1>4. CapacityHolds
  <2>1. {c \in Threads : At(c, "enforce")} = {}
    BY DEF SessInit, At, Idle, Hands
  <2> QED BY <2>1, FS_EmptySet, SessionsAssumption DEF CapacityHolds, SessInit
<1> QED BY <1>1, <1>3, <1>4 DEF SInv

\* Neither a thread nor the table changes hands.
LEMMA SStill ==
    ASSUME SInv, UNCHANGED <<live, caller>>, SessTyped', Ranked', Accounted' PROVE SInv'
BY DEF SInv, Shaped, Apart, Held, At, Disposing, CapacityHolds

LEMMA SGet ==
    ASSUME SInv, NEW s \in SessionIds, Get(s) PROVE SInv'
<1> USE DEF SInv
<1>1. s \in Minted /\ seen' = Touched(s) /\ UNCHANGED <<live, caller, kept, working, made>>
  BY DEF Get, Ranked
<1>2. seen' \in [SessionIds -> Nat] /\ Minted' = Minted
  BY <1>1, TouchKeepsRanks DEF Ranked
<1>3. Ranked'
  BY <1>1, <1>2, TouchKeepsRanks DEF Ranked, Held
<1>4. SessTyped' /\ Accounted'
  BY <1>1, <1>2 DEF SessTyped, Accounted, Owed, Disposing
<1> QED BY <1>1, <1>3, <1>4, SStill

LEMMA STurns ==
    ASSUME SInv, NEW s \in SessionIds, Begin(s) \/ Work(s) \/ Finish(s) PROVE SInv'
<1> USE DEF SInv
<1>1. UNCHANGED <<live, seen, caller>>
  BY DEF Begin, Work, Finish
<1>2. Ranked'
  BY <1>1 DEF Ranked, Minted, Held
<1>3. CASE Begin(s) \/ Finish(s)
  <2>1. SessTyped' /\ Accounted'
    BY <1>1, <1>3 DEF Begin, Finish, SessTyped, Accounted, Owed, Disposing
  <2> QED BY <1>1, <1>2, <2>1, SStill
<1>4. CASE Work(s)
  <2>1. PICK x \in Makes : /\ kept' = [kept EXCEPT ![s] = @ \cup {x}]
                          /\ made' = IF x \in Ahead(s) THEN made ELSE made \cup {s}
    BY <1>4 DEF Work
  <2>2. x \in Things
    BY SessionsAssumption DEF Things, Teardown, ToSet
  <2>3. SessTyped'
    BY <1>1, <1>4, <2>1, <2>2 DEF Work, SessTyped
  <2>4. x \in Ahead(s) => Owed(s, x)
    BY <2>2, AheadIsOwed
  <2>5. \A t \in SessionIds : \A y : Owed(t, y) => Owed(t, y)'
    BY <1>1 DEF Owed, Disposing
  <2>6. Accounted'
    BY <2>1, <2>4, <2>5 DEF Accounted, SessTyped
  <2> QED BY <1>1, <1>2, <2>3, <2>6, SStill
<1> QED BY <1>3, <1>4


\* Enforcing is a matter of who is about to.
Enforcers == {c \in Threads : At(c, "enforce")}

\* A table that shrinks stays under its capacity.
LEMMA SShrinks ==
    ASSUME SInv, live' \subseteq live, Enforcers' = Enforcers PROVE CapacityHolds'
<1>1. live \subseteq SessionIds /\ Enforcers \subseteq Threads
  BY DEF SInv, SessTyped, Enforcers
<1>2. Cardinality(live') <= Cardinality(live) /\ Cardinality(live') \in Nat
  BY <1>1, Finite, FS_Subset
<1>3. Cardinality(live) <= MaxActive + Cardinality(Enforcers)
  BY DEF SInv, CapacityHolds, Enforcers
<1>4. Cardinality(live') <= MaxActive + Cardinality(Enforcers')
  BY <1>1, <1>2, <1>3, Finite
<1> QED BY <1>4 DEF CapacityHolds, Enforcers

LEMMA SMint ==
    ASSUME SInv, NEW c \in Threads, NEW s \in SessionIds, Mint(c, s) PROVE SInv'
<1> USE DEF SInv
<1>1. /\ At(c, "idle") /\ s \notin Minted /\ seen' = Touched(s)
      /\ UNCHANGED <<live, kept, working, made>>
      /\ caller' = [caller EXCEPT ![c] = [at |-> "insert", id |-> {s}, victims |-> {}, step |-> 0]]
  <2>1. /\ At(c, "idle") /\ s \notin Minted /\ seen' = Touched(s)
        /\ UNCHANGED <<live, kept, working, made>>
        /\ caller' = [caller EXCEPT ![c] = Hands("insert", {s}, {}, 0)]
    BY DEF Mint, Minted
  <2> QED BY <2>1 DEF Hands
<1>2. /\ seen' \in [SessionIds -> Nat] /\ Minted' = Minted \cup {s}
      /\ \A t \in Minted' : seen'[t] > Cardinality(SessionIds) - Cardinality(Minted')
  BY <1>1, TouchKeepsRanks DEF Ranked
<1>3. SessTyped'
  BY <1>1, <1>2 DEF SessTyped, States
<1>4. /\ caller'[c] = [at |-> "insert", id |-> {s}, victims |-> {}, step |-> 0]
      /\ \A d \in Threads \ {c} : caller'[d] = caller[d]
  BY <1>1 DEF SessTyped
<1>5. /\ Held(c)' = {s} /\ \A d \in Threads \ {c} : Held(d)' = Held(d)
      /\ \A d \in Threads : s \notin Held(d)
      /\ s \notin live
  BY <1>1, <1>4 DEF Held, Ranked
<1>6. Shaped'
  BY <1>1, <1>4 DEF Shaped, At, Disposing
<1>7. Apart'
  BY <1>1, <1>5 DEF Apart
<1>8. Ranked'
  BY <1>1, <1>2, <1>5 DEF Ranked
<1>9. Accounted'
  BY <1>1, <1>4 DEF Accounted, Owed, Disposing, Shaped, At
<1>10. CapacityHolds'
  <2>1. Enforcers' = Enforcers
    BY <1>1, <1>4 DEF Enforcers, At
  <2> QED BY <1>1, <2>1, SShrinks
<1> QED BY <1>3, <1>6, <1>7, <1>8, <1>9, <1>10

LEMMA SInsert ==
    ASSUME SInv, NEW c \in Threads, Insert(c) PROVE SInv'
<1> USE DEF SInv
<1>1. /\ At(c, "insert") /\ live' = live \cup caller[c].id
      /\ UNCHANGED <<seen, kept, working, made>>
      /\ caller' = [caller EXCEPT ![c] = [at |-> "enforce", id |-> {}, victims |-> {}, step |-> 0]]
  BY DEF Insert, Hands
<1>2. PICK s \in SessionIds : caller[c].id = {s} /\ caller[c].victims = {}
  BY <1>1 DEF Shaped
<1>3. SessTyped'
  BY <1>1 DEF SessTyped, States
<1>4. /\ caller'[c] = [at |-> "enforce", id |-> {}, victims |-> {}, step |-> 0]
      /\ \A d \in Threads \ {c} : caller'[d] = caller[d]
  BY <1>1 DEF SessTyped
<1>5. /\ Held(c)' = {} /\ \A d \in Threads \ {c} : Held(d)' = Held(d)
      /\ Held(c) = {s} /\ live' = live \cup {s}
  BY <1>1, <1>2, <1>4 DEF Held
<1>6. Shaped'
  BY <1>1, <1>4 DEF Shaped, At, Disposing
<1>7. Apart'
  BY <1>1, <1>5 DEF Apart
<1>8. Ranked'
  BY <1>1, <1>5 DEF Ranked, Minted
<1>9. Accounted'
  BY <1>1, <1>2, <1>4 DEF Accounted, Owed, Disposing, At
<1>10. CapacityHolds'
  <2>1. Enforcers' = Enforcers \cup {c} /\ c \notin Enforcers
    BY <1>1, <1>4 DEF Enforcers, At
  <2>2. Enforcers \subseteq Threads /\ live \subseteq SessionIds
    BY DEF Enforcers, SessTyped
  <2>3. Cardinality(Enforcers') = Cardinality(Enforcers) + 1
    BY <2>1, <2>2, Finite, FS_AddElement
  <2>4. Cardinality(live') <= Cardinality(live) + 1 /\ Cardinality(live') \in Nat
    BY <1>5, <2>2, Finite, FS_AddElement
  <2> QED BY <2>2, <2>3, <2>4, Finite DEF CapacityHolds, Enforcers
<1> QED BY <1>3, <1>6, <1>7, <1>8, <1>9, <1>10

\* Sessions leave the table for the hands of one thread.
LEMMA STakenOut ==
    ASSUME SInv, NEW c \in Threads, At(c, "idle") \/ At(c, "enforce"),
           NEW V \in SUBSET live, live' = live \ V,
           NEW where \in {"dispose", "shutdown"},
           caller' = [caller EXCEPT ![c] = [at |-> where, id |-> {}, victims |-> V, step |-> 0]],
           UNCHANGED <<seen, kept, working, made>>, CapacityHolds'
    PROVE  SInv'
<1> USE DEF SInv
<1>3. SessTyped'
  BY DEF SessTyped, States
<1>4. /\ caller'[c] = [at |-> where, id |-> {}, victims |-> V, step |-> 0]
      /\ \A d \in Threads \ {c} : caller'[d] = caller[d]
  BY DEF SessTyped
<1>5. /\ Held(c)' = V /\ \A d \in Threads \ {c} : Held(d)' = Held(d)
      /\ Held(c) = {}
  BY <1>4 DEF Held, Shaped
<1>6. Shaped'
  BY <1>4 DEF Shaped, At, Disposing
<1>7. Apart'
  BY <1>5 DEF Apart
<1>8. Ranked'
  BY <1>5 DEF Ranked, Minted
<1>9. Accounted'
  <2> SUFFICES ASSUME NEW s \in SessionIds \ made, NEW x \in kept[s] PROVE Owed(s, x)'
    BY DEF Accounted
  <2>1. Owed(s, x)
    BY DEF Accounted
  <2>2. CASE s \in live
    BY <1>4, <2>2 DEF Owed
  <2>3. CASE \E d \in Threads : s \in caller[d].victims
    BY <1>4, <2>3 DEF Owed, Shaped
  <2>4. CASE \E d \in Threads : /\ Disposing(d) /\ s \in caller[d].id
                               /\ \E i \in caller[d].step..6 : x = Teardown[i]
    BY <1>4, <2>4 DEF Owed, Shaped, Disposing
  <2> QED BY <2>1, <2>2, <2>3, <2>4 DEF Owed
<1> QED BY <1>3, <1>6, <1>7, <1>8, <1>9

LEMMA SEnforce ==
    ASSUME SInv, NEW c \in Threads, Enforce(c) PROVE SInv'
<1> USE DEF SInv
<1>1. PICK V \in SUBSET live : /\ Overflow(V, MaxActive) /\ live' = live \ V
         /\ caller' = [caller EXCEPT ![c] = [at |-> "dispose", id |-> {}, victims |-> V, step |-> 0]]
  BY DEF Enforce, Hands
<1>2. Cardinality(live') <= MaxActive
  <2>1. IsFiniteSet(live) /\ Cardinality(live) \in Nat /\ MaxActive \in Nat
    BY Finite DEF SessTyped
  <2>2. live \cap V = V
    OBVIOUS
  <2>3. Cardinality(live \ V) = Cardinality(live) - Cardinality(V)
    BY <2>1, <2>2, FS_Difference
  <2> QED BY <1>1, <2>1, <2>3 DEF Overflow
<1>3. CapacityHolds'
  <2>1. Cardinality(Enforcers') \in Nat
    <3>1. Enforcers' \subseteq Threads
      BY DEF Enforcers
    <3> QED BY <3>1, Finite
  <2>2. Cardinality(live') \in Nat /\ MaxActive \in Nat
    BY <1>1, Finite DEF SessTyped
  <2> QED BY <1>2, <2>1, <2>2 DEF CapacityHolds, Enforcers
<1> QED BY <1>1, <1>3, STakenOut DEF Enforce

LEMMA SLeaves ==
    ASSUME SInv, NEW c \in Threads, Reap(c) \/ Shutdown(c) \/ \E s \in SessionIds : Drop(c, s)
    PROVE  SInv'
<1> USE DEF SInv
<1>1. PICK V \in SUBSET live, where \in {"dispose", "shutdown"} :
         /\ live' = live \ V
         /\ caller' = [caller EXCEPT ![c] = [at |-> where, id |-> {}, victims |-> V, step |-> 0]]
  <2>1. CASE Reap(c)
    <3>1. PICK cutoff \in 1..Cardinality(SessionIds) :
             LET overdue == {s \in live : seen[s] <= cutoff}
             IN  /\ live' = live \ overdue
                 /\ caller' = [caller EXCEPT ![c] = Hands("dispose", {}, overdue, 0)]
      BY <2>1 DEF Reap
    <3> DEFINE V == {s \in live : seen[s] <= cutoff}
    <3>2. V \in SUBSET live /\ "dispose" \in {"dispose", "shutdown"} /\ live' = live \ V
      BY <3>1
    <3>3. caller' = [caller EXCEPT ![c] = [at |-> "dispose", id |-> {}, victims |-> V, step |-> 0]]
      BY <3>1 DEF Hands
    <3> HIDE DEF V
    <3> QED BY <3>2, <3>3
  <2>2. CASE Shutdown(c)
    <3>1. live \in SUBSET live /\ "shutdown" \in {"dispose", "shutdown"} /\ live' = live \ live
      BY <2>2 DEF Shutdown
    <3>2. caller' = [caller EXCEPT ![c] = [at |-> "shutdown", id |-> {}, victims |-> live, step |-> 0]]
      BY <2>2 DEF Hands, Shutdown
    <3> QED BY <3>1, <3>2
  <2>3. CASE \E s \in SessionIds : Drop(c, s)
    <3>1. PICK s \in SessionIds : Drop(c, s)
      BY <2>3
    <3>2. {s} \in SUBSET live /\ "dispose" \in {"dispose", "shutdown"} /\ live' = live \ {s}
      BY <3>1 DEF Drop
    <3>3. caller' = [caller EXCEPT ![c] = [at |-> "dispose", id |-> {}, victims |-> {s}, step |-> 0]]
      BY <3>1 DEF Hands, Drop
    <3> QED BY <3>2, <3>3
  <2> QED BY <2>1, <2>2, <2>3
<1>2. At(c, "idle") /\ UNCHANGED <<seen, kept, working, made>>
  BY DEF Reap, Shutdown, Drop
<1>3. Enforcers' = Enforcers
  BY <1>1, <1>2 DEF Enforcers, At, SessTyped
<1>4. CapacityHolds'
  BY <1>1, <1>3, SShrinks
<1> QED BY <1>1, <1>2, <1>4, STakenOut

LEMMA SRelease ==
    ASSUME SInv, NEW c \in Threads, Release(c) PROVE SInv'
<1> USE DEF SInv
<1>1. /\ At(c, "shutdown") /\ UNCHANGED <<live, seen, working>>
      /\ kept' = [s \in SessionIds |-> IF s \in caller[c].victims THEN kept[s] \ {"runtime"} ELSE kept[s]]
      /\ made' = made \cup {s \in caller[c].victims : kept'[s] # {}}
      /\ caller' = [caller EXCEPT ![c] = [at |-> "idle", id |-> {}, victims |-> {}, step |-> 0]]
  BY DEF Release, Idle, Hands
<1>3. SessTyped'
  BY <1>1 DEF SessTyped, States
<1>4. /\ caller'[c] = [at |-> "idle", id |-> {}, victims |-> {}, step |-> 0]
      /\ \A d \in Threads \ {c} : caller'[d] = caller[d]
  BY <1>1 DEF SessTyped
<1>5. Held(c)' = {} /\ \A d \in Threads \ {c} : Held(d)' = Held(d)
  BY <1>4 DEF Held
<1>6. Shaped'
  BY <1>1, <1>4 DEF Shaped, At, Disposing
<1>7. Apart'
  BY <1>1, <1>5 DEF Apart
<1>8. Ranked'
  BY <1>1, <1>5 DEF Ranked, Minted
<1>9. Accounted'
  <2> SUFFICES ASSUME NEW s \in SessionIds, s \notin made', NEW x \in kept'[s] PROVE Owed(s, x)'
    BY DEF Accounted
  <2>1. s \notin caller[c].victims /\ s \notin made /\ x \in kept[s]
    BY <1>1
  <2>2. Owed(s, x)
    BY <2>1 DEF Accounted
  <2> QED BY <1>1, <1>4, <2>1, <2>2 DEF Owed, Disposing, At
<1>10. CapacityHolds'
  <2>1. Enforcers' = Enforcers
    BY <1>1, <1>4 DEF Enforcers, At
  <2> QED BY <1>1, <2>1, SShrinks
<1> QED BY <1>3, <1>6, <1>7, <1>8, <1>9, <1>10

LEMMA STake ==
    ASSUME SInv, NEW c \in Threads, Take(c) PROVE SInv'
<1> USE DEF SInv
<1>1. Disposing(c) /\ caller[c].id = {} /\ UNCHANGED <<live, seen, kept, working, made>>
  BY DEF Take
<1> DEFINE Next(V, I, k, where) ==
              /\ caller' = [caller EXCEPT ![c] = Hands(where, I, V, k)]
              /\ V \cup I = caller[c].victims /\ V \cap I = {}
              /\ I # {} => k = 1 /\ where = "dispose" /\ \E s \in SessionIds : I = {s}
              /\ where = "idle" => V = {} /\ I = {}
<1>2. PICK V \in SUBSET SessionIds, I \in SUBSET SessionIds, k \in 0..6, where \in {"idle", "dispose"} :
         Next(V, I, k, where)
  <2>1. CASE caller[c].victims = {}
    <3>1. Next({}, {}, 0, "idle")
      BY <2>1 DEF Take, Idle
    <3> HIDE DEF Next
    <3> QED BY <3>1
  <2>2. CASE caller[c].victims # {}
    <3>1. PICK s \in caller[c].victims :
             caller' = [caller EXCEPT ![c] = Hands("dispose", {s}, caller[c].victims \ {s}, 1)]
      BY <2>2 DEF Take
    <3>2. s \in SessionIds /\ caller[c].victims \subseteq SessionIds
      BY DEF SessTyped
    <3>5. Next(caller[c].victims \ {s}, {s}, 1, "dispose")
      BY <3>1, <3>2
    <3> HIDE DEF Next
    <3>6. 1 \in 0..6 /\ "dispose" \in {"idle", "dispose"} /\ {s} \in SUBSET SessionIds
          /\ caller[c].victims \ {s} \in SUBSET SessionIds
      BY <3>2
    <3> QED BY <3>5, <3>6
  <2> QED BY <2>1, <2>2
<1>3. SessTyped'
  BY <1>1, <1>2 DEF SessTyped, States, Hands
<1>4. /\ caller'[c] = [at |-> where, id |-> I, victims |-> V, step |-> k]
      /\ \A d \in Threads \ {c} : caller'[d] = caller[d]
  BY <1>2 DEF SessTyped, Hands
<1>5. \A d \in Threads : Held(d)' = Held(d)
  BY <1>1, <1>2, <1>4 DEF Held
<1>6. Shaped'
  BY <1>1, <1>2, <1>4 DEF Shaped, At, Disposing
<1>7. Apart'
  BY <1>1, <1>5 DEF Apart
<1>8. Ranked'
  BY <1>1, <1>5 DEF Ranked, Minted
<1>9. Accounted'
  <2> SUFFICES ASSUME NEW s \in SessionIds \ made, NEW x \in kept[s] PROVE Owed(s, x)'
    BY <1>1 DEF Accounted
  <2>1. Owed(s, x) /\ x \in Things
    BY DEF Accounted, SessTyped
  <2>2. CASE s \in I
    BY <1>2, <1>4, <2>1, <2>2, SixThings DEF Owed, Disposing
  <2>3. CASE s \notin I
    BY <1>1, <1>2, <1>4, <2>1, <2>3 DEF Owed, Disposing
  <2> QED BY <2>2, <2>3
<1>10. CapacityHolds'
  <2>1. Enforcers' = Enforcers
    BY <1>1, <1>4 DEF Enforcers, At, Disposing
  <2> QED BY <1>1, <2>1, SShrinks
<1> QED BY <1>3, <1>6, <1>7, <1>8, <1>9, <1>10

LEMMA SGiveBack ==
    ASSUME SInv, NEW c \in Threads, GiveBack(c) PROVE SInv'
<1> USE DEF SInv
<1>1. Disposing(c) /\ caller[c].id # {} /\ UNCHANGED <<live, seen, working, made>>
  BY DEF GiveBack
<1>2. PICK s \in SessionIds : caller[c].id = {s} /\ caller[c].step \in 1..6
  BY <1>1 DEF Shaped
<1>a. kept' = [kept EXCEPT ![s] = @ \ {Teardown[caller[c].step]}]
  BY <1>2 DEF GiveBack
<1>b. PICK I \in {{}, {s}}, k \in 0..6 :
         /\ caller' = [caller EXCEPT ![c] = [at |-> "dispose", id |-> I, victims |-> caller[c].victims, step |-> k]]
         /\ caller[c].step = 6 => I = {}
         /\ caller[c].step # 6 => I = {s} /\ k = caller[c].step + 1
  <2> DEFINE r == After(c)
  <2>1. caller' = [caller EXCEPT ![c] = r]
    BY DEF GiveBack
  <2>2. caller[c].step = 6 => r = [at |-> "dispose", id |-> {}, victims |-> caller[c].victims, step |-> 0]
    BY SixThings DEF After, Hands
  <2>3. caller[c].step # 6 => r = [at |-> "dispose", id |-> {s}, victims |-> caller[c].victims,
                                   step |-> caller[c].step + 1]
    BY <1>2, SixThings DEF After, Hands
  <2> HIDE DEF r
  <2>4. CASE caller[c].step = 6
    <3>1. {} \in {{}, {s}} /\ 0 \in 0..6
      OBVIOUS
    <3> QED BY <2>1, <2>2, <2>4, <3>1
  <2>5. CASE caller[c].step # 6
    <3>1. caller[c].step + 1 \in 0..6
      BY <1>2, <2>5
    <3> QED BY <2>1, <2>3, <2>5, <3>1
  <2> QED BY <2>4, <2>5
<1>3. SessTyped'
  BY <1>1, <1>2, <1>a, <1>b DEF SessTyped, States
<1>4. /\ caller'[c] = [at |-> "dispose", id |-> I, victims |-> caller[c].victims, step |-> k]
      /\ \A d \in Threads \ {c} : caller'[d] = caller[d]
  BY <1>b DEF SessTyped
<1>5. Held(c)' \subseteq Held(c) /\ \A d \in Threads \ {c} : Held(d)' = Held(d)
  BY <1>2, <1>4 DEF Held
<1>6. Shaped'
  BY <1>1, <1>2, <1>b, <1>4 DEF Shaped, At, Disposing
<1>7. Apart'
  BY <1>1, <1>5 DEF Apart
<1>8. Ranked'
  BY <1>1, <1>5 DEF Ranked, Minted
<1>9. Accounted'
  <2> SUFFICES ASSUME NEW t \in SessionIds \ made, NEW x \in kept'[t] PROVE Owed(t, x)'
    BY <1>1 DEF Accounted
  <2>1. x \in kept[t] /\ (t = s => x # Teardown[caller[c].step])
    BY <1>a DEF SessTyped
  <2>2. Owed(t, x)
    BY <2>1 DEF Accounted
  <2>3. CASE t # s
    BY <1>1, <1>2, <1>4, <2>2, <2>3 DEF Owed, Disposing
  <2>4. CASE t = s
    <3>1. t \in Held(c)
      BY <1>2, <2>4 DEF Held
    <3>2. t \notin live /\ \A d \in Threads : t \notin caller[d].victims /\ (d # c => t \notin caller[d].id)
      BY <1>2, <2>4, <3>1 DEF Apart, Held, Shaped
    <3>3. PICK i \in caller[c].step..6 : x = Teardown[i]
      BY <2>2, <3>2 DEF Owed
    <3>4. i # caller[c].step
      BY <2>1, <2>4, <3>3
    <3>5. caller[c].step # 6 /\ i \in (caller[c].step + 1)..6
      BY <1>2, <3>3, <3>4
    <3> QED BY <1>b, <1>4, <2>4, <3>3, <3>5 DEF Owed, Disposing
  <2> QED BY <2>3, <2>4
<1>10. CapacityHolds'
  <2>1. Enforcers' = Enforcers
    BY <1>1, <1>4 DEF Enforcers, At, Disposing
  <2> QED BY <1>1, <2>1, SShrinks
<1> QED BY <1>3, <1>6, <1>7, <1>8, <1>9, <1>10

LEMMA SNextHolds == SInv /\ [SessNext]_sessVars => SInv'
<1> SUFFICES ASSUME SInv, [SessNext]_sessVars PROVE SInv'
  OBVIOUS
<1>1. CASE UNCHANGED sessVars
  BY <1>1 DEF sessVars, SInv, SessTyped, Shaped, Apart, Held, Ranked, Minted, Accounted, Owed, CapacityHolds,
     At, Disposing
<1> QED BY <1>1, SMint, SInsert, SEnforce, SLeaves, SRelease, STake, SGiveBack, SGet, STurns
        DEF SessNext, Call

\* The strengthening holds in every reachable state.
THEOREM SessionInvariance == SessSpec => []SInv
BY SInitHolds, SNextHolds, PTL DEF SessSpec

\* Types of the table, the clock, the threads and what is kept of a session.
THEOREM SessionsTyped == SessSpec => []SessTypeOK
<1>1. SInv => SessTypeOK
  BY SixThings DEF SInv, SessTyped, SessTypeOK, States
<1> QED BY <1>1, SessionInvariance, PTL

\* However creations, drops, the reaper and the shutdown overlap, with any
\* capacity and any number of threads: the table is over its capacity only by
\* the creations under way, one thread disposes of a session, and a disposed
\* session leaves nothing but what its own turn made behind the disposal.
THEOREM SessionsSafe == SessSpec => []SessionsHold
<1>1. SInv => SessionsHold
  <2> SUFFICES ASSUME SInv PROVE SessionsHold
    OBVIOUS
  <2>1. NothingLeft
    <3> SUFFICES ASSUME NEW s \in SessionIds \ made, s \notin live, Ahead(s) = {} PROVE kept[s] = {}
      BY DEF NothingLeft
    <3>1. kept[s] \subseteq Things /\ \A x \in kept[s] : Owed(s, x)
      BY DEF SInv, SessTyped, Accounted
    <3> QED BY <3>1, AheadIsOwed DEF SInv
  <2>2. DisposedOnce
    BY DEF SInv, DisposedOnce, Apart, Held
  <2> QED BY <2>1, <2>2 DEF SInv, SessionsHold
<1> QED BY <1>1, SessionInvariance, PTL

-----------------------------------------------------------------------------
(* The datasets of a session.                                               *)

DataTyped ==
    /\ Loaded \subseteq Names
    /\ \A n \in Loaded :
          /\ DOMAIN data[n] = {"ver", "origin", "place"}
          /\ data[n].ver \in 1..loads /\ data[n].place \in Nat
          /\ data[n].origin = <<>> \/ data[n].origin \in Conns \X ConnNames
    /\ activeData \in Loaded \cup {"none"}
    /\ spec \in [Conns -> ConnNames \cup {"none"}]
    /\ raced \in BOOLEAN /\ loads \in 0..MaxLoads /\ cleaner \in 0..loads
    /\ DOMAIN importer = DOMAIN NoImport
    /\ importer.at \in {"none", "reading", "landed", "written"}
    /\ importer.at # "none" =>
          /\ importer.name \in Names \ Files /\ importer.conn \in Conns /\ importer.label \in ConnNames
          /\ importer.ver \in 1..loads /\ importer.bind \in BOOLEAN

TableKeys == {TableKey[n] : n \in Names}

FilesTyped ==
    /\ tables \in [TableKeys -> 0..loads] /\ frame \in 0..loads
    /\ unwritten \subseteq TableKeys /\ frameUnwritten \in BOOLEAN /\ failures \in 0..MaxFailures

\* A load is in the session once, that of an import not before it landed, and a
\* cleaning pass and an import have not the same.
LoadedOnce ==
    /\ \A m, n \in Loaded : data[m].ver = data[n].ver => m = n
    /\ importer.at = "reading" => \A n \in Loaded : data[n].ver # importer.ver
    /\ importer.at # "none" => importer.ver # cleaner

\* What an import has still to write is written nowhere, and it is in the
\* session as it landed, active where it will be the child's df.
ToBeWritten ==
    /\ ~raced /\ importer.at \in {"reading", "landed"} => frame # importer.ver
    /\ ~raced /\ importer.at = "landed" =>
          /\ importer.name \in Loaded /\ data[importer.name].ver = importer.ver
          /\ importer.bind <=> activeData = importer.name

\* So is what a cleaning pass has still to write, and it is the active dataset.
ToBeCleaned ==
    ~raced /\ cleaner # 0 =>
        RawName \in Loaded /\ data[RawName].ver = cleaner /\ activeData = RawName /\ frame # cleaner

\* A table is on disk as it was loaded, but for one whose last write failed, and those an import and
\* a cleaning pass have to write.
TablesAreWritten ==
    ~raced => \A n \in Loaded : Alone(n) =>
        \/ tables[TableKey[n]] = data[n].ver \/ TableKey[n] \in unwritten
        \/ importer.at = "landed" /\ importer.name = n
        \/ cleaner # 0 /\ n = RawName

\* The child's df is no table but the active one, unless its last write failed or an import or a
\* cleaning pass has to write it.
FrameIsActive ==
    ~raced => \A n \in Loaded : frame = data[n].ver =>
        activeData = n \/ frameUnwritten \/ (importer.at = "landed" /\ importer.bind) \/ cleaner # 0

DInv ==
    /\ DataTyped /\ FilesTyped /\ LoadedOnce /\ ToBeWritten /\ ToBeCleaned /\ TablesAreWritten /\ FrameIsActive
    /\ NoPolicyIsInherited /\ NothingOfADeletedSource

\* The order of places is well founded.
Below == {pair \in Nat \X Nat : pair[1] < pair[2]}

LEMMA BelowIsWellFounded == IsWellFoundedOn(Below, Nat)
BY NatLessThanWellFounded DEF OpToRel, Below

\* There is a first one among some that are left.
LEMMA FirstIsThere ==
    ASSUME DataTyped, NEW rest \in SUBSET Loaded
    PROVE  FirstOf(rest) \in rest \cup {"none"}
<1>1. CASE rest = {}
  BY <1>1 DEF FirstOf
<1>2. CASE rest # {}
  <2> DEFINE places == {data[n].place : n \in rest}
  <2>1. places \subseteq Nat /\ places # {}
    BY <1>2 DEF DataTyped
  <2> HIDE DEF places
  <2>2. PICK p \in places : \A q \in places : <<q, p>> \notin Below
    BY <2>1, BelowIsWellFounded, WFMin
  <2>3. ASSUME NEW q \in places PROVE p <= q
    <3>1. p \in Nat /\ q \in Nat /\ <<q, p>> \notin Below
      BY <2>1, <2>2
    <3> QED BY <3>1 DEF Below
  <2>4. \E n \in rest : \A m \in rest : data[n].place <= data[m].place
    BY <2>3 DEF places
  <2> QED BY <1>2, <2>4 DEF FirstOf
<1> QED BY <1>1, <1>2

\* What putting one into the dict leaves there.
LEMMA PutIn ==
    ASSUME NEW name, NEW ver, NEW place, data' = Put(name, ver, place)
    PROVE  /\ Loaded' = Loaded \cup {name}
           /\ \A n \in Loaded \ {name} : data'[n] = data[n]
           /\ DOMAIN data'[name] = {"ver", "origin", "place"}
           /\ data'[name].ver = ver /\ data'[name].origin = <<>>
           /\ data'[name].place = IF name \in Loaded THEN data[name].place ELSE place
BY DEF Put, Loaded

\* What a write leaves: the file, or that it is told to be missing; and the other tables.
LEMMA Written ==
    ASSUME FilesTyped, NEW name \in Names, NEW ver \in 0..loads', NEW active \in BOOLEAN,
           loads' \in Nat, loads \in Nat, loads <= loads',
           Materialized(name, ver, active)
    PROVE  /\ FilesTyped'
           /\ tables'[TableKey[name]] = ver \/ TableKey[name] \in unwritten'
           /\ \A n \in Names \ {name} : Alone(n) =>
                 /\ tables'[TableKey[n]] = tables[TableKey[n]]
                 /\ TableKey[n] \in unwritten => TableKey[n] \in unwritten'
           /\ active => (frame' = ver) \/ (frame' \in {frame, 0} /\ frameUnwritten')
           /\ ~active => frame' = frame /\ frameUnwritten' = frameUnwritten
<1> DEFINE key == TableKey[name]
<1>1. /\ key \in TableKeys /\ 0..loads \subseteq 0..loads' /\ 0 \in 0..loads'
      /\ \A n \in Names \ {name} : Alone(n) => TableKey[n] \in TableKeys \ {key}
  BY DEF TableKeys, Alone
<1>2. /\ tables' \in {tables, [tables EXCEPT ![key] = 0], [tables EXCEPT ![key] = ver]}
      /\ unwritten' \in {unwritten \ {key}, unwritten \cup {key}}
      /\ frame' \in {frame, 0, ver} /\ frameUnwritten' \in BOOLEAN
      /\ tables' # [tables EXCEPT ![key] = ver] => key \in unwritten'
  BY DEF Materialized, FilesTyped
<1>3. failures' \in 0..MaxFailures
  BY DataAssumption DEF Materialized, FilesTyped
<1>4. tables' \in [TableKeys -> 0..loads'] /\ (tables'[key] = ver \/ key \in unwritten')
  BY <1>1, <1>2 DEF FilesTyped
<1>5. \A k \in TableKeys \ {key} : tables'[k] = tables[k] /\ (k \in unwritten => k \in unwritten')
  BY <1>1, <1>2 DEF FilesTyped
<1>6. frame' \in 0..loads' /\ unwritten' \subseteq TableKeys
  BY <1>1, <1>2 DEF FilesTyped
<1>7. /\ active => (frame' = ver) \/ (frame' \in {frame, 0} /\ frameUnwritten')
      /\ ~active => frame' = frame /\ frameUnwritten' = frameUnwritten
  BY DEF Materialized, FilesTyped
<1> QED BY <1>1, <1>2, <1>3, <1>4, <1>5, <1>6, <1>7 DEF FilesTyped

\* Signing changes no more than the origins.
LEMMA SignedOnly ==
    ASSUME DataTyped, NEW names, NEW origin, data' = Signed(names, origin)
    PROVE  /\ Loaded' = Loaded
           /\ \A n \in Loaded :
                 /\ DOMAIN data'[n] = {"ver", "origin", "place"}
                 /\ data'[n].ver = data[n].ver /\ data'[n].place = data[n].place
                 /\ data'[n].origin = IF n \in names THEN origin ELSE data[n].origin
BY DEF Signed, Loaded, DataTyped

\* What a removal leaves: fewer datasets, and one of them active.
LEMMA RemovedOnly ==
    ASSUME DInv, NEW names \in SUBSET Loaded, Removed(names),
           UNCHANGED <<frame, unwritten, frameUnwritten, failures, importer, cleaner, loads>>,
           override' = override \ names,
           spec' \in [Conns -> ConnNames \cup {"none"}],
           \A n \in Loaded \ names : data[n].origin # <<>> /\ ~raced => spec'[data[n].origin[1]] = spec[data[n].origin[1]]
    PROVE  DInv'
<1>1. /\ Loaded' = Loaded \ names
      /\ \A n \in Loaded' : data'[n] = data[n]
  BY DEF Removed, Restrict, Loaded
<1>2. \A n \in Loaded : TableKey[n] \in TableKeys
  BY DEF DInv, DataTyped, TableKeys
<1>3. /\ FilesTyped'
      /\ \A n \in Loaded' : Alone(n) => tables'[TableKey[n]] = tables[TableKey[n]]
  <2>1. DOMAIN tables = TableKeys /\ 0 \in 0..loads
    BY DEF DInv, DataTyped, FilesTyped
  <2>2. /\ tables' \in [TableKeys -> 0..loads]
        /\ \A k \in TableKeys : (\A n \in names : TableKey[n] # k) => tables'[k] = tables[k]
    BY <2>1 DEF Removed, DInv, FilesTyped
  <2>3. \A n \in Loaded' : Alone(n) => TableKey[n] \in TableKeys /\ \A m \in names : TableKey[m] # TableKey[n]
    BY <1>1, <1>2 DEF Alone, DInv, DataTyped
  <2> QED BY <2>2, <2>3 DEF DInv, FilesTyped
<1>4. /\ activeData' \in Loaded' \cup {"none"}
      /\ activeData \notin names => activeData' = activeData
  BY <1>1, FirstIsThere DEF Removed, DInv, DataTyped
<1>5. /\ raced' \in BOOLEAN
      /\ ~raced' => ~raced /\ (Exposed => names = {})
  BY DEF Removed, DInv, DataTyped
<1>6. DataTyped' /\ LoadedOnce'
  BY <1>1, <1>4, <1>5 DEF DInv, DataTyped, LoadedOnce
<1>7. ToBeWritten' /\ ToBeCleaned'
  BY <1>1, <1>4, <1>5 DEF DInv, ToBeWritten, ToBeCleaned, Exposed
<1>8. TablesAreWritten'
  BY <1>1, <1>3, <1>5 DEF DInv, TablesAreWritten, Exposed
<1>9. FrameIsActive'
  BY <1>1, <1>4, <1>5 DEF DInv, FrameIsActive, Exposed
<1>10. NoPolicyIsInherited' /\ NothingOfADeletedSource'
  BY <1>1, <1>5 DEF DInv, NoPolicyIsInherited, NothingOfADeletedSource
<1> QED BY <1>3, <1>6, <1>7, <1>8, <1>9, <1>10 DEF DInv

\* What is put into the session as it is counted: the rest of it stays.
LEMMA PutNow ==
    ASSUME DInv, NEW name \in Files, loads < MaxLoads, loads' = loads + 1,
           data' = Put(name, loads', 2 * loads'), activeData' = name,
           raced' = (raced \/ Exposed), UNCHANGED <<override, spec, importer>>,
           cleaner' \in {cleaner, loads'}
    PROVE  /\ DataTyped' /\ LoadedOnce' /\ NoPolicyIsInherited' /\ NothingOfADeletedSource'
           /\ name \in Names /\ loads \in Nat /\ loads' \in Nat /\ loads <= loads' /\ loads' \in 0..loads'
           /\ Loaded' = Loaded \cup {name} /\ data'[name].ver = loads'
           /\ \A n \in Loaded \ {name} : data'[n] = data[n] /\ data[n].ver # loads'
           /\ frame # loads' /\ loads' # 0
           /\ importer.at # "none" => importer.ver # loads' /\ importer.ver # 0
           /\ ~raced' => ~raced /\ importer.at # "landed" /\ cleaner = 0
<1>1. /\ name \in Names /\ loads' \in 1..MaxLoads /\ loads \in Nat /\ loads' \in Nat
      /\ 2 * loads' \in Nat /\ 1..loads \subseteq 1..loads' /\ 0..loads \subseteq 0..loads'
      /\ loads' \in 1..loads' /\ loads' \in 0..loads'
  BY DataAssumption DEF DInv, DataTyped
<1>2. /\ Loaded' = Loaded \cup {name}
      /\ \A n \in Loaded \ {name} : data'[n] = data[n]
      /\ DOMAIN data'[name] = {"ver", "origin", "place"}
      /\ data'[name].ver = loads' /\ data'[name].origin = <<>> /\ data'[name].place \in Nat
  BY <1>1, PutIn DEF DInv, DataTyped
<1>3. /\ \A n \in Loaded : data[n].ver # loads'
      /\ frame # loads' /\ cleaner # loads'
      /\ importer.at # "none" => importer.ver # loads' /\ importer.ver # 0
  BY <1>1 DEF DInv, DataTyped, FilesTyped
<1>4. raced' \in BOOLEAN /\ (~raced' => ~raced /\ importer.at # "landed" /\ cleaner = 0)
  BY DEF Exposed, DInv, DataTyped
<1>5. cleaner' \in 0..loads'
  BY <1>1 DEF DInv, DataTyped
<1>6. DataTyped'
  BY SMTT(30), <1>1, <1>2, <1>4, <1>5 DEF DInv, DataTyped
<1>7. LoadedOnce'
  BY <1>2, <1>3 DEF DInv, LoadedOnce
<1>8. NoPolicyIsInherited' /\ NothingOfADeletedSource'
  BY <1>2, <1>4 DEF DInv, NoPolicyIsInherited, NothingOfADeletedSource
<1> QED BY <1>1, <1>2, <1>3, <1>4, <1>6, <1>7, <1>8

LEMMA DUpload ==
    ASSUME DInv, NEW name \in Files, Upload(name) PROVE DInv'
<1>1. /\ DataTyped' /\ LoadedOnce' /\ NoPolicyIsInherited' /\ NothingOfADeletedSource'
      /\ name \in Names /\ loads \in Nat /\ loads' \in Nat /\ loads <= loads' /\ loads' \in 0..loads'
      /\ Loaded' = Loaded \cup {name} /\ data'[name].ver = loads'
      /\ \A n \in Loaded \ {name} : data'[n] = data[n] /\ data[n].ver # loads'
      /\ frame # loads' /\ loads' # 0
      /\ importer.at # "none" => importer.ver # loads' /\ importer.ver # 0
      /\ ~raced' => ~raced /\ importer.at # "landed" /\ cleaner = 0
  BY PutNow DEF Upload
<1>2. /\ Materialized(name, loads', TRUE) /\ activeData' = name
      /\ UNCHANGED <<importer, cleaner>>
  BY DEF Upload
<1>3. /\ FilesTyped'
      /\ tables'[TableKey[name]] = loads' \/ TableKey[name] \in unwritten'
      /\ \A n \in Names \ {name} : Alone(n) =>
            /\ tables'[TableKey[n]] = tables[TableKey[n]]
            /\ TableKey[n] \in unwritten => TableKey[n] \in unwritten'
      /\ (frame' = loads') \/ (frame' \in {frame, 0} /\ frameUnwritten')
  BY <1>1, <1>2, Written DEF DInv
<1>4. ToBeWritten' /\ ToBeCleaned'
  BY <1>1, <1>2, <1>3 DEF DInv, ToBeWritten, ToBeCleaned
<1>5. TablesAreWritten'
  BY <1>1, <1>2, <1>3 DEF DInv, DataTyped, TablesAreWritten
<1>6. FrameIsActive'
  BY <1>1, <1>2, <1>3 DEF FrameIsActive
<1> QED BY <1>1, <1>3, <1>4, <1>5, <1>6 DEF DInv

LEMMA DCleanLands ==
    ASSUME DInv, CleanLands PROVE DInv'
<1>1. /\ DataTyped' /\ LoadedOnce' /\ NoPolicyIsInherited' /\ NothingOfADeletedSource'
      /\ loads \in Nat /\ loads <= loads'
      /\ Loaded' = Loaded \cup {RawName} /\ data'[RawName].ver = loads'
      /\ \A n \in Loaded \ {RawName} : data'[n] = data[n] /\ data[n].ver # loads'
      /\ frame # loads' /\ loads' # 0
      /\ ~raced' => ~raced /\ importer.at # "landed" /\ cleaner = 0
  BY PutNow, DataAssumption DEF CleanLands
<1>2. /\ activeData' = RawName /\ cleaner' = loads' /\ 0..loads \subseteq 0..loads'
      /\ UNCHANGED <<tables, frame, unwritten, frameUnwritten, failures, importer>>
  BY <1>1 DEF CleanLands, childFiles, DInv, DataTyped
<1>3. FilesTyped'
  BY <1>2 DEF DInv, FilesTyped
<1>4. ToBeWritten' /\ ToBeCleaned'
  BY <1>1, <1>2 DEF DInv, ToBeWritten, ToBeCleaned
<1>5. TablesAreWritten' /\ FrameIsActive'
  BY <1>1, <1>2 DEF DInv, TablesAreWritten, FrameIsActive
<1> QED BY <1>1, <1>3, <1>4, <1>5 DEF DInv

LEMMA DCleanWrites ==
    ASSUME DInv, CleanWrites PROVE DInv'
<1>1. /\ RawName \in Names /\ cleaner \in 0..loads /\ cleaner # 0 /\ loads \in Nat /\ cleaner' = 0
      /\ UNCHANGED <<data, activeData, override, spec, importer, raced, loads>>
      /\ loads' \in Nat /\ loads <= loads' /\ cleaner \in 0..loads'
  BY DataAssumption DEF CleanWrites, DInv, DataTyped
<1>0. Materialized(RawName, cleaner, TRUE)
  BY DEF CleanWrites
<1>2. /\ FilesTyped'
      /\ tables'[TableKey[RawName]] = cleaner \/ TableKey[RawName] \in unwritten'
      /\ \A n \in Names \ {RawName} : Alone(n) =>
            /\ tables'[TableKey[n]] = tables[TableKey[n]]
            /\ TableKey[n] \in unwritten => TableKey[n] \in unwritten'
      /\ (frame' = cleaner) \/ (frame' \in {frame, 0} /\ frameUnwritten')
  BY <1>0, <1>1, Written DEF DInv
<1>3. ~raced => RawName \in Loaded /\ data[RawName].ver = cleaner /\ activeData = RawName
  BY <1>1 DEF DInv, ToBeCleaned
<1>4. importer.at # "none" => importer.ver # cleaner /\ importer.ver # 0 /\ importer.name # RawName
  BY <1>1, DataAssumption DEF DInv, DataTyped, LoadedOnce
<1>5. DataTyped' /\ LoadedOnce'
  BY <1>1, <1>4 DEF DInv, DataTyped, LoadedOnce, Loaded
<1>6. ToBeWritten' /\ ToBeCleaned'
  BY <1>1, <1>2, <1>4 DEF DInv, ToBeWritten, ToBeCleaned, Loaded
<1>7. TablesAreWritten'
  BY <1>1, <1>2, <1>3 DEF DInv, DataTyped, TablesAreWritten, Loaded
<1>8. FrameIsActive'
  BY <1>1, <1>2, <1>3 DEF DInv, LoadedOnce, FrameIsActive, Loaded
<1>9. NoPolicyIsInherited' /\ NothingOfADeletedSource'
  BY <1>1 DEF DInv, NoPolicyIsInherited, NothingOfADeletedSource, Loaded
<1> QED BY <1>2, <1>5, <1>6, <1>7, <1>8, <1>9 DEF DInv

LEMMA DActivate ==
    ASSUME DInv, NEW name \in Names, Activate(name) PROVE DInv'
<1>1. /\ name \in Loaded /\ activeData' = name
      /\ UNCHANGED <<data, override, spec, importer, cleaner, loads>>
      /\ data[name].ver \in 0..loads' /\ loads \in Nat /\ loads' \in Nat /\ loads <= loads'
  BY DataAssumption DEF Activate, DInv, DataTyped
<1>0. Materialized(name, data[name].ver, TRUE)
  BY DEF Activate, Handle
<1>2. /\ FilesTyped'
      /\ tables'[TableKey[name]] = data[name].ver \/ TableKey[name] \in unwritten'
      /\ \A n \in Names \ {name} : Alone(n) =>
            /\ tables'[TableKey[n]] = tables[TableKey[n]]
            /\ TableKey[n] \in unwritten => TableKey[n] \in unwritten'
      /\ (frame' = data[name].ver) \/ (frame' \in {frame, 0} /\ frameUnwritten')
  BY <1>0, <1>1, Written DEF DInv
<1>3. raced' \in BOOLEAN /\ (~raced' => ~raced /\ importer.at # "landed" /\ cleaner = 0)
  BY DEF Activate, Exposed, DInv, DataTyped
<1>4. DataTyped' /\ LoadedOnce'
  BY <1>1, <1>3 DEF DInv, DataTyped, LoadedOnce, Loaded
<1>5. importer.at = "reading" => importer.ver # 0 /\ importer.ver # data[name].ver
  BY <1>1 DEF DInv, DataTyped, LoadedOnce
<1>6. ToBeWritten' /\ ToBeCleaned'
  BY <1>1, <1>2, <1>3, <1>5 DEF DInv, ToBeWritten, ToBeCleaned
<1>7. TablesAreWritten'
  BY <1>1, <1>2, <1>3 DEF DInv, DataTyped, TablesAreWritten, Loaded
<1>8. FrameIsActive'
  BY <1>1, <1>2 DEF DInv, LoadedOnce, FrameIsActive, Loaded
<1>9. NoPolicyIsInherited' /\ NothingOfADeletedSource'
  BY <1>1, <1>3 DEF DInv, NoPolicyIsInherited, NothingOfADeletedSource, Loaded
<1> QED BY <1>2, <1>4, <1>6, <1>7, <1>8, <1>9 DEF DInv

LEMMA DRemoveDataset ==
    ASSUME DInv, NEW name \in Names, RemoveDataset(name) PROVE DInv'
<1>1. spec' \in [Conns -> ConnNames \cup {"none"}]
  BY DEF RemoveDataset, DInv, DataTyped
<1> QED BY <1>1, RemovedOnly DEF RemoveDataset

LEMMA DPolicy ==
    ASSUME DInv, NEW name \in Names, SetPolicy(name) \/ ClearPolicy(name) PROVE DInv'
<1>1. /\ UNCHANGED <<data, activeData, tables, frame, unwritten, frameUnwritten, failures, spec, importer, cleaner, raced, loads>>
      /\ override' \subseteq Loaded
  BY DEF SetPolicy, ClearPolicy, childFiles, atWork, DInv, NoPolicyIsInherited
<1> QED BY <1>1 DEF DInv, DataTyped, FilesTyped, LoadedOnce, ToBeWritten, ToBeCleaned, TablesAreWritten, FrameIsActive, NoPolicyIsInherited,
                    NothingOfADeletedSource, Loaded, Exposed

\* Where a table came from changes, and nothing else of the tables.
LEMMA OnlyOrigins ==
    ASSUME DInv, Loaded' = Loaded,
           \A n \in Loaded :
              /\ DOMAIN data'[n] = {"ver", "origin", "place"}
              /\ data'[n].ver = data[n].ver /\ data'[n].place = data[n].place
              /\ data'[n].origin = <<>> \/ data'[n].origin \in Conns \X ConnNames,
           UNCHANGED <<activeData, tables, frame, unwritten, frameUnwritten, failures, override, cleaner, loads>>,
           raced' \in BOOLEAN, ~raced' => ~raced,
           spec' \in [Conns -> ConnNames \cup {"none"}],
           importer' = importer \/ (importer.at = "written" /\ importer' = NoImport),
           NothingOfADeletedSource'
    PROVE  DInv'
<1>1. /\ DOMAIN importer' = DOMAIN NoImport
      /\ importer'.at \in {"none", "reading", "landed", "written"}
      /\ importer'.at # "none" => importer' = importer
      /\ importer'.at = "landed" <=> importer.at = "landed"
  <2>1. CASE importer' = importer
    BY <2>1 DEF DInv, DataTyped
  <2>2. CASE importer.at = "written" /\ importer' = NoImport
    BY <2>2 DEF NoImport
  <2> QED BY <2>1, <2>2
<1>2. DataTyped' /\ FilesTyped' /\ LoadedOnce'
  BY <1>1 DEF DInv, DataTyped, FilesTyped, LoadedOnce
<1>3. ToBeWritten' /\ ToBeCleaned'
  BY <1>1 DEF DInv, ToBeWritten, ToBeCleaned
<1>4. TablesAreWritten' /\ FrameIsActive' /\ NoPolicyIsInherited'
  BY <1>1 DEF DInv, TablesAreWritten, FrameIsActive, NoPolicyIsInherited
<1> QED BY <1>2, <1>3, <1>4 DEF DInv

LEMMA DAddConnection ==
    ASSUME DInv, NEW c \in Conns, AddConnection(c) PROVE DInv'
<1>1. /\ UNCHANGED <<data, activeData, tables, frame, unwritten, frameUnwritten, failures, override, importer, cleaner, raced, loads>>
      /\ spec' \in [Conns -> ConnNames \cup {"none"}]
      /\ spec[c] = "none" /\ \A d \in Conns \ {c} : spec'[d] = spec[d]
  BY DEF AddConnection, childFiles, atWork, DInv, DataTyped, ConnNames
<1>2. ASSUME ~raced, NEW n \in Loaded, data[n].origin # <<>>
      PROVE  data[n].origin[1] \in Conns \ {c}
  BY <1>1, <1>2 DEF DInv, DataTyped, NothingOfADeletedSource, ConnNames
<1>3. NothingOfADeletedSource'
  BY <1>1, <1>2 DEF DInv, NothingOfADeletedSource, Loaded
<1> QED BY <1>1, <1>3, OnlyOrigins DEF DInv, DataTyped, Loaded

LEMMA DRename ==
    ASSUME DInv, NEW c \in Conns, Rename(c) PROVE DInv'
<1>1. /\ UNCHANGED <<activeData, tables, frame, unwritten, frameUnwritten, failures, override, importer, cleaner, loads>>
      /\ raced' \in BOOLEAN /\ (~raced' => ~raced)
      /\ spec' \in [Conns -> ConnNames \cup {"none"}]
      /\ spec[c] = "old" /\ spec'[c] = "new" /\ \A d \in Conns \ {c} : spec'[d] = spec[d]
  BY DEF Rename, childFiles, DInv, DataTyped, ConnNames
<1>2. /\ Loaded' = Loaded
      /\ \A n \in Loaded :
            /\ DOMAIN data'[n] = {"ver", "origin", "place"}
            /\ data'[n].ver = data[n].ver /\ data'[n].place = data[n].place
            /\ data'[n].origin = IF n \in From(<<c, "old">>) THEN <<c, "new">> ELSE data[n].origin
  BY SignedOnly DEF Rename, DInv
<1>3. <<c, "new">> \in Conns \X ConnNames /\ <<c, "new">> # <<>>
  BY DEF ConnNames
<1>4. \A n \in Loaded : data'[n].origin = <<>> \/ data'[n].origin \in Conns \X ConnNames
  BY <1>2, <1>3 DEF DInv, DataTyped
<1>5. ASSUME ~raced, NEW n \in Loaded, data'[n].origin # <<>>
      PROVE  spec'[data'[n].origin[1]] = data'[n].origin[2]
  <2>1. CASE data[n].origin = <<c, "old">>
    BY <1>1, <1>2, <2>1 DEF From
  <2>2. CASE data[n].origin # <<c, "old">>
    <3>1. data'[n].origin = data[n].origin
      BY <1>2, <2>2 DEF From
    <3>2. data[n].origin \in Conns \X ConnNames /\ spec[data[n].origin[1]] = data[n].origin[2]
      BY <1>5, <3>1 DEF DInv, DataTyped, NothingOfADeletedSource
    <3>3. data[n].origin[1] # c
      BY <1>1, <2>2, <3>2
    <3> QED BY <1>1, <3>1, <3>2, <3>3
  <2> QED BY <2>1, <2>2
<1>6. NothingOfADeletedSource'
  BY <1>1, <1>2, <1>5 DEF NothingOfADeletedSource
<1> QED BY <1>1, <1>2, <1>4, <1>6, OnlyOrigins

LEMMA DDisconnect ==
    ASSUME DInv, NEW c \in Conns, Disconnect(c) PROVE DInv'
<1> DEFINE imported == From(<<c, spec[c]>>)
<1>1. /\ imported \in SUBSET Loaded
      /\ Removed(imported) /\ override' = override \ imported /\ UNCHANGED <<frame, unwritten, frameUnwritten, failures, importer, cleaner, loads>>
      /\ spec' \in [Conns -> ConnNames \cup {"none"}]
      /\ \A d \in Conns \ {c} : spec'[d] = spec[d]
  BY DEF Disconnect, DInv, DataTyped, From
<1>2. ASSUME NEW n \in Loaded \ imported, data[n].origin # <<>>, ~raced
      PROVE  data[n].origin[1] \in Conns \ {c}
  <2>1. data[n].origin \in Conns \X ConnNames /\ spec[data[n].origin[1]] = data[n].origin[2]
    BY <1>2 DEF DInv, DataTyped, NothingOfADeletedSource
  <2>2. data[n].origin # <<c, spec[c]>>
    BY <1>2 DEF From
  <2> QED BY <2>1, <2>2
<1>3. \A n \in Loaded \ imported :
         data[n].origin # <<>> /\ ~raced => spec'[data[n].origin[1]] = spec[data[n].origin[1]]
  BY <1>1, <1>2
<1> HIDE DEF imported
<1> QED BY <1>1, <1>3, RemovedOnly

LEMMA DImportBegins ==
    ASSUME DInv, NEW c \in Conns, NEW name \in Names, NEW bind \in BOOLEAN,
           ImportBegins(c, name, bind) PROVE DInv'
<1>1. /\ loads' = loads + 1 /\ loads' \in 0..MaxLoads /\ loads' \in 1..loads' /\ loads \in Nat
      /\ 1..loads \subseteq 1..loads' /\ 0..loads \subseteq 0..loads'
      /\ UNCHANGED <<data, activeData, tables, frame, unwritten, frameUnwritten, failures, override, spec, cleaner, raced>>
      /\ importer.at = "none"
  BY DataAssumption DEF ImportBegins, childFiles, DInv, DataTyped
<1>2. /\ DOMAIN importer' = DOMAIN NoImport /\ importer'.at = "reading"
      /\ importer'.name = name /\ name \notin Files /\ importer'.conn = c /\ importer'.label = spec[c] /\ importer'.ver = loads'
      /\ importer'.bind = bind /\ spec[c] \in ConnNames
  BY DEF ImportBegins, NoImport, DInv, DataTyped
<1>3. \A n \in Loaded : data[n].ver # loads'
  BY <1>1 DEF DInv, DataTyped
<1>4. frame # loads' /\ cleaner # loads'
  BY <1>1 DEF DInv, DataTyped, FilesTyped
<1>5. DataTyped' /\ FilesTyped'
  BY <1>1, <1>2 DEF DInv, DataTyped, FilesTyped, Loaded
<1>6. LoadedOnce' /\ ToBeWritten' /\ ToBeCleaned'
  BY <1>1, <1>2, <1>3, <1>4 DEF DInv, LoadedOnce, ToBeWritten, ToBeCleaned, Loaded
<1>7. TablesAreWritten' /\ FrameIsActive' /\ NoPolicyIsInherited' /\ NothingOfADeletedSource'
  BY <1>1, <1>2 DEF DInv, TablesAreWritten, FrameIsActive, NoPolicyIsInherited, NothingOfADeletedSource, Loaded
<1> QED BY <1>5, <1>6, <1>7 DEF DInv

LEMMA DImportLands ==
    ASSUME DInv, ImportLands PROVE DInv'
<1> DEFINE name == importer.name
<1>1. /\ name \in Names \ {RawName} /\ importer.ver \in 1..loads /\ importer.bind \in BOOLEAN
      /\ importer.at = "reading"
      /\ UNCHANGED <<tables, frame, unwritten, frameUnwritten, failures, override, spec, cleaner, loads>>
      /\ loads \in Nat /\ 2 * loads + 1 \in Nat
  BY DataAssumption DEF ImportLands, childFiles, DInv, DataTyped
<1>2. /\ Loaded' = Loaded \cup {name}
      /\ \A n \in Loaded \ {name} : data'[n] = data[n]
      /\ DOMAIN data'[name] = {"ver", "origin", "place"}
      /\ data'[name].ver = importer.ver /\ data'[name].origin = <<>> /\ data'[name].place \in Nat
  BY <1>1, PutIn DEF ImportLands, DInv, DataTyped
<1>3. /\ DOMAIN importer' = DOMAIN NoImport /\ importer'.at = "landed"
      /\ importer'.name = name /\ importer'.conn = importer.conn /\ importer'.label = importer.label
      /\ importer'.ver = importer.ver
      /\ importer'.bind \in BOOLEAN
  BY DEF ImportLands, DInv, DataTyped, NoImport
<1>4. importer'.bind <=> activeData' = name
  BY DEF ImportLands, DInv, DataTyped, NoImport
<1>5. activeData' = activeData \/ activeData' = name
  BY DEF ImportLands
<1>6. \A n \in Loaded : data[n].ver # importer.ver
  BY <1>1 DEF DInv, LoadedOnce
<1>7. /\ raced' \in BOOLEAN
      /\ ~raced' => ~raced /\ (cleaner # 0 => activeData' = activeData)
  BY DEF ImportLands, DInv, DataTyped
<1>8. importer.name \in Names \ Files
  BY <1>1 DEF DInv, DataTyped
<1>9. DataTyped'
  BY <1>1, <1>2, <1>3, <1>5, <1>7, <1>8 DEF DInv, DataTyped
<1>10. LoadedOnce' /\ FilesTyped'
  BY <1>1, <1>2, <1>3, <1>6 DEF DInv, LoadedOnce, FilesTyped
<1> HIDE DEF name
<1>11. ToBeWritten' /\ ToBeCleaned'
  BY <1>1, <1>2, <1>3, <1>4, <1>7 DEF DInv, ToBeWritten, ToBeCleaned
<1>12. TablesAreWritten'
  BY <1>1, <1>2, <1>3, <1>7 DEF DInv, TablesAreWritten
<1>13. FrameIsActive'
  <2> SUFFICES ASSUME ~raced', NEW n \in Loaded', frame' = data'[n].ver, cleaner' = 0
               PROVE  activeData' = n \/ frameUnwritten' \/ (importer'.at = "landed" /\ importer'.bind)
    BY DEF FrameIsActive
  <2>1. n \in Loaded /\ n # name /\ frame = data[n].ver /\ ~raced /\ cleaner = 0
    BY <1>1, <1>2, <1>7 DEF DInv, ToBeWritten, name
  <2>2. activeData = n \/ frameUnwritten
    BY <1>1, <2>1 DEF DInv, FrameIsActive
  <2> QED BY <1>1, <1>3, <1>4, <1>5, <2>2
<1>14. NoPolicyIsInherited' /\ NothingOfADeletedSource'
  BY <1>1, <1>2, <1>7 DEF DInv, NoPolicyIsInherited, NothingOfADeletedSource
<1> QED BY <1>9, <1>10, <1>11, <1>12, <1>13, <1>14 DEF DInv

LEMMA DImportWrites ==
    ASSUME DInv, ImportWrites PROVE DInv'
<1> DEFINE name == importer.name
<1>1. /\ name \in Names \ {RawName} /\ importer.ver \in 0..loads /\ importer.bind \in BOOLEAN
      /\ importer.at = "landed" /\ loads \in Nat
      /\ UNCHANGED <<data, activeData, override, spec, cleaner, raced, loads>>
      /\ Materialized(name, importer.ver, importer.bind)
  BY DataAssumption DEF ImportWrites, DInv, DataTyped
<1>2. /\ DOMAIN importer' = DOMAIN NoImport /\ importer'.at = "written"
      /\ importer'.name = name /\ importer'.conn = importer.conn /\ importer'.label = importer.label
      /\ importer'.ver = importer.ver /\ importer'.bind = importer.bind
  BY DEF ImportWrites, DInv, DataTyped, NoImport
<1>3. /\ FilesTyped'
      /\ tables'[TableKey[name]] = importer.ver \/ TableKey[name] \in unwritten'
      /\ \A n \in Names \ {name} : Alone(n) =>
            /\ tables'[TableKey[n]] = tables[TableKey[n]]
            /\ TableKey[n] \in unwritten => TableKey[n] \in unwritten'
      /\ importer.bind => (frame' = importer.ver) \/ (frame' \in {frame, 0} /\ frameUnwritten')
      /\ ~importer.bind => frame' = frame /\ frameUnwritten' = frameUnwritten
  BY <1>1, Written DEF DInv
<1>4. ~raced => /\ name \in Loaded /\ data[name].ver = importer.ver
                /\ importer.bind <=> activeData = name
  BY <1>1 DEF DInv, ToBeWritten
<1>5. importer.ver # cleaner
  BY <1>1 DEF DInv, LoadedOnce
<1>6. DataTyped' /\ LoadedOnce'
  BY <1>1, <1>2 DEF DInv, DataTyped, LoadedOnce, Loaded
<1>7. ToBeWritten' /\ ToBeCleaned'
  BY <1>1, <1>2, <1>3, <1>5 DEF DInv, ToBeWritten, ToBeCleaned, Loaded
<1>8. TablesAreWritten'
  BY <1>1, <1>2, <1>3, <1>4 DEF DInv, DataTyped, TablesAreWritten, Loaded
<1>9. FrameIsActive'
  BY <1>1, <1>2, <1>3, <1>4 DEF DInv, FrameIsActive, LoadedOnce, Loaded
<1>10. NoPolicyIsInherited' /\ NothingOfADeletedSource'
  BY <1>1 DEF DInv, NoPolicyIsInherited, NothingOfADeletedSource, Loaded
<1> QED BY <1>3, <1>6, <1>7, <1>8, <1>9, <1>10 DEF DInv

LEMMA DImportSigns ==
    ASSUME DInv, ImportSigns PROVE DInv'
<1> DEFINE origin == <<importer.conn, importer.label>>
           its == {n \in Loaded : data[n].ver = importer.ver}
<1>1. /\ importer.at = "written" /\ importer.conn \in Conns /\ importer.label \in ConnNames
      /\ UNCHANGED <<activeData, tables, frame, unwritten, frameUnwritten, failures, override, spec, cleaner, loads>>
      /\ importer' = NoImport
      /\ raced' \in BOOLEAN /\ (~raced' => ~raced /\ spec[importer.conn] = importer.label)
  BY DEF ImportSigns, childFiles, DInv, DataTyped
<1>2. /\ Loaded' = Loaded
      /\ \A n \in Loaded :
            /\ DOMAIN data'[n] = {"ver", "origin", "place"}
            /\ data'[n].ver = data[n].ver /\ data'[n].place = data[n].place
            /\ data'[n].origin = IF n \in its THEN origin ELSE data[n].origin
  BY SignedOnly DEF ImportSigns, DInv
<1>3. origin \in Conns \X ConnNames /\ origin[1] = importer.conn /\ origin[2] = importer.label
  BY <1>1
<1> HIDE DEF origin, its
<1>4. \A n \in Loaded : data'[n].origin = <<>> \/ data'[n].origin \in Conns \X ConnNames
  BY <1>2, <1>3 DEF DInv, DataTyped
<1>5. NothingOfADeletedSource'
  BY <1>1, <1>2, <1>3 DEF DInv, NothingOfADeletedSource
<1>6. spec' \in [Conns -> ConnNames \cup {"none"}]
  BY <1>1 DEF DInv, DataTyped
<1> QED BY <1>1, <1>2, <1>4, <1>5, <1>6, OnlyOrigins

LEMMA DImportFails ==
    ASSUME DInv, ImportFails PROVE DInv'
<1>1. /\ UNCHANGED <<data, activeData, tables, frame, unwritten, frameUnwritten, failures, override, spec, cleaner, raced, loads>>
      /\ importer' = NoImport /\ NoImport.at = "none" /\ importer.at = "reading"
  BY DEF ImportFails, childFiles, NoImport
<1> QED BY <1>1 DEF DInv, DataTyped, FilesTyped, LoadedOnce, ToBeWritten, ToBeCleaned, TablesAreWritten, FrameIsActive, NoPolicyIsInherited,
                    NothingOfADeletedSource, Loaded, Exposed

LEMMA DInitHolds == DataInit => DInv
<1> SUFFICES ASSUME DataInit PROVE DInv
  OBVIOUS
<1>1. Loaded = {}
  BY DEF DataInit, Loaded
<1>2. 0 \in 0..0 /\ 0 \in 0..MaxLoads /\ 0 \in 0..MaxFailures
  BY DataAssumption
<1>3. NoImport.at = "none"
  BY DEF NoImport
<1>4. FilesTyped
  BY <1>2 DEF DataInit, FilesTyped, TableKeys
<1> QED BY <1>1, <1>2, <1>3, <1>4 DEF DataInit, DInv, DataTyped, LoadedOnce, ToBeWritten, ToBeCleaned,
           TablesAreWritten, FrameIsActive, NoPolicyIsInherited, NothingOfADeletedSource

LEMMA DNextHolds == DInv /\ [DataNext]_dataVars => DInv'
<1> SUFFICES ASSUME DInv, [DataNext]_dataVars PROVE DInv'
  OBVIOUS
<1>1. CASE UNCHANGED dataVars
  BY <1>1 DEF dataVars, childFiles, atWork, DInv, DataTyped, FilesTyped, LoadedOnce, ToBeWritten, ToBeCleaned,
     TablesAreWritten, FrameIsActive, NoPolicyIsInherited, NothingOfADeletedSource, Loaded
<1> QED BY <1>1, DUpload, DCleanLands, DCleanWrites, DActivate, DRemoveDataset, DPolicy, DAddConnection, DRename,
           DDisconnect, DImportBegins, DImportLands, DImportWrites, DImportSigns, DImportFails DEF DataNext

\* The strengthening holds in every reachable state.
THEOREM DataInvariance == DataSpec => []DInv
BY DInitHolds, DNextHolds, PTL DEF DataSpec

\* Types: of the datasets, the files, the connections, the import and the cleaning pass.
THEOREM DataTypes == DataSpec => []DataTypeOK
<1>1. DInv => DataTypeOK
  <2> SUFFICES ASSUME DInv PROVE DataTypeOK
    OBVIOUS
  <2>1. loads \in Nat /\ 1..loads \subseteq 1..MaxLoads /\ 0..loads \subseteq 0..MaxLoads
    BY DataAssumption DEF DInv, DataTyped
  <2>2. tables \in [{TableKey[n] : n \in Names} -> 0..MaxLoads] /\ unwritten \subseteq DOMAIN tables
    BY <2>1 DEF DInv, FilesTyped, TableKeys
  <2> QED BY <2>1, <2>2 DEF DInv, DataTyped, FilesTyped, NoPolicyIsInherited, DataTypeOK
<1> QED BY <1>1, DataInvariance, PTL

\* Whatever is uploaded, activated, removed, renamed and deleted beside an
\* import and a cleaning pass, and whichever writes fail: the child has the data
\* of the session but for the files that were not written, no policy is inherited and no
\* table of a deleted connection stays, for any files, tables and connections.
THEOREM DataIsCurrent == DataSpec => []DataHolds
<1>1. DInv => DataHolds
  BY DEF DInv, DataTyped, TablesAreWritten, FrameIsActive, DataHolds, ChildSeesWhatIsLoaded, Handle
<1> QED BY <1>1, DataInvariance, PTL

-----------------------------------------------------------------------------
(* A skill on its way to the agent.                                         *)

Steps == {"idle", "text", "stamp", "install", "record", "unstage", "update", "pin", "forget"}

SkTyped ==
    /\ upstream \in 1..MaxCommits
    /\ stagedSkill \in [text : 0..MaxCommits, sha : 0..MaxCommits]
    /\ skillFile \in [LayerNames -> -1..MaxCommits]
    /\ index \in 0..MaxCommits
    /\ view \in LayerNames \cup {"none", "unread"}
    /\ torn \in BOOLEAN /\ astray \in BOOLEAN
    /\ DOMAIN job = {"at", "sha", "text", "layer"}
    /\ job.at \in Steps /\ job.sha \in 0..MaxCommits /\ job.text \in 0..MaxCommits
    /\ job.layer \in LayerNames \cup {"none"}
    /\ Doing("update") => job.layer \in LayerNames

\* What is staged is one commit, which a preview that is under way has half written.
StagedAsOne ==
    /\ Doing("stamp") => stagedSkill.text = job.sha
    /\ ~torn /\ ~Doing("stamp") => stagedSkill.text = stagedSkill.sha

\* An approval writes what is staged, in its order, and an update one commit.
WrittenInOrder ==
    /\ job.at \in {"install", "record", "unstage"} => job.sha = stagedSkill.sha /\ job.text = stagedSkill.text
    /\ job.at \in {"record", "unstage"} => skillFile["user"] = job.text \/ torn
    /\ Doing("unstage") => index = job.sha
    /\ job.at \in {"update", "pin"} => job.text = job.sha
    /\ Doing("pin") => skillFile["user"] = job.text \/ torn \/ astray

\* The record names what is on disk, but between the writes of one operation.
PinStands ==
    ~torn /\ ~astray /\ index # Absent /\ job.at \notin {"record", "pin", "forget"} =>
        skillFile["user"] \in {Own, index}

SkInv == SkTyped /\ StagedAsOne /\ WrittenInOrder /\ PinStands

LEMMA ThreeLayers ==
    /\ DOMAIN Layers = 1..3 /\ LayerNames = {"builtin", "user", "project"}
    /\ \A i \in 1..3 : Layers[i] \in LayerNames
<1>1. DOMAIN Layers = 1..3 /\ Layers[1] = "builtin" /\ Layers[2] = "user" /\ Layers[3] = "project"
  BY DEF Layers
<1> QED BY <1>1 DEF LayerNames

\* The layer in use is one of the three, or there is none.
LEMMA LayerIsResolved ==
    ASSUME NEW files PROVE ResolveLayer(files) \in LayerNames \cup {"none"}
<1> DEFINE having == {i \in DOMAIN Layers : files[Layers[i]] # Absent}
<1>1. having \subseteq 1..3
  BY ThreeLayers
<1>2. CASE having = {}
  BY <1>2 DEF ResolveLayer
<1>3. CASE having # {}
  <2>1. \E i \in having : \A j \in having : j <= i
    <3>1. CASE 3 \in having
      BY <1>1, <3>1
    <3>2. CASE 3 \notin having /\ 2 \in having
      BY <1>1, <3>2
    <3>3. CASE 3 \notin having /\ 2 \notin having
      BY <1>1, <1>3, <3>3
    <3> QED BY <3>1, <3>2, <3>3
  <2>2. (CHOOSE i \in having : \A j \in having : j <= i) \in 1..3
    BY <1>1, <2>1
  <2> QED BY <1>3, <2>2, ThreeLayers DEF ResolveLayer
<1> QED BY <1>2, <1>3

LEMMA GotIsALayer ==
    ASSUME SkTyped PROVE Got \in LayerNames \cup {"none"}
BY LayerIsResolved DEF Got, SkTyped

LEMMA SkInitHolds == SkInit => SkInv
<1> SUFFICES ASSUME SkInit PROVE SkInv
  OBVIOUS
<1>1. 1 \in 1..MaxCommits /\ 0 \in 0..MaxCommits /\ {Absent, Own} \subseteq -1..MaxCommits
  BY SkillsAssumption DEF Absent, Own
<1>2. skillFile \in [LayerNames -> -1..MaxCommits]
  BY <1>1 DEF SkInit
<1> QED BY <1>1, <1>2 DEF SkInit, SkInv, SkTyped, StagedAsOne, WrittenInOrder, PinStands, Doing, NoJob, Unstaged, Absent, Steps

LEMMA SkNextHolds == SkInv /\ [SkNext]_skillVars => SkInv'
<1> SUFFICES ASSUME SkInv, [SkNext]_skillVars PROVE SkInv'
  OBVIOUS
<1>0. /\ 1..MaxCommits \subseteq 0..MaxCommits /\ 0..MaxCommits \subseteq -1..MaxCommits
      /\ 0 \in 0..MaxCommits /\ Own \in -1..MaxCommits /\ Absent \in 0..MaxCommits
      /\ "user" \in LayerNames /\ "project" \in LayerNames
  BY SkillsAssumption, ThreeLayers DEF Own, Absent
<1> USE <1>0 DEF SkInv, SkTyped, StagedAsOne, WrittenInOrder, PinStands, Doing, Free, NoJob, Steps
<1>1. CASE Preview
  BY <1>1 DEF Preview
<1>2. CASE StageText
  BY <1>2 DEF StageText
<1>3. CASE StageStamp
  BY <1>3 DEF StageStamp
<1>4. CASE Discard
  BY <1>4 DEF Discard, Unstaged
<1>5. CASE Approve
  BY <1>5 DEF Approve
<1>6. CASE InstallFile
  BY <1>6 DEF InstallFile
<1>7. CASE RecordInstall
  <2>1. CASE index' = job.sha /\ job' = [job EXCEPT !.at = "unstage"] /\ UNCHANGED torn
    BY <1>7, <2>1 DEF RecordInstall
  <2>2. CASE torn' = TRUE /\ job' = NoJob /\ UNCHANGED index
    BY <1>7, <2>2 DEF RecordInstall
  <2> QED BY <1>7, <2>1, <2>2 DEF RecordInstall
<1>8. CASE Unstage
  BY <1>8 DEF Unstage, Unstaged
<1>9. CASE CheckUpdate
  BY <1>9, GotIsALayer DEF CheckUpdate
<1>10. CASE ApplyUpdate
  BY <1>10, GotIsALayer DEF ApplyUpdate
<1>11. CASE UpdateFile
  BY <1>11 DEF UpdateFile
<1>12. CASE Pin
  BY <1>12 DEF Pin
<1>13. CASE Uninstall
  <2>1. /\ job.at = "idle" /\ job' = [NoJob EXCEPT !.at = "forget"]
        /\ UNCHANGED <<upstream, stagedSkill, index, torn>>
    BY <1>13 DEF Uninstall
  <2>2. /\ skillFile' \in [LayerNames -> -1..MaxCommits]
        /\ view' \in LayerNames \cup {"none", "unread"} /\ astray' \in BOOLEAN
    BY <1>13, GotIsALayer DEF Uninstall, Absent
  <2> QED BY <2>1, <2>2
<1>14. CASE ForgetInstall
  BY <1>14 DEF ForgetInstall
<1>15. CASE Reload
  BY <1>15, LayerIsResolved DEF Reload
<1>16. CASE Push
  <2>1. upstream' \in 1..MaxCommits
    BY <1>16, SkillsAssumption DEF Push
  <2> QED BY <1>16, <2>1 DEF Push
<1>17. CASE ByHand
  <2>1. UNCHANGED <<upstream, stagedSkill, index, view, job, astray>>
    BY <1>17 DEF ByHand
  <2>2. CASE \E text \in {Absent, Own} : skillFile' = [skillFile EXCEPT !["project"] = text] /\ UNCHANGED torn
    BY <2>1, <2>2, ThreeLayers
  <2>3. CASE skillFile' = [skillFile EXCEPT !["user"] = Absent] /\ torn' = TRUE
    BY <2>1, <2>3
  <2> QED BY <1>17, <2>2, <2>3 DEF ByHand
<1>18. CASE Dies
  BY <1>18 DEF Dies
<1>19. ASSUME NEW layer \in LayerNames, Write(layer) PROVE SkInv'
  BY <1>19, LayerIsResolved, ThreeLayers DEF Write
<1>20. CASE UNCHANGED skillVars
  BY <1>20 DEF skillVars
<1> QED BY <1>1, <1>2, <1>3, <1>4, <1>5, <1>6, <1>7, <1>8, <1>9, <1>10, <1>11, <1>12, <1>13, <1>14, <1>15,
           <1>16, <1>17, <1>18, <1>19, <1>20 DEF SkNext

\* An operation that ends takes away what is staged only when it has written it.
LEMMA ReviewStandsNow ==
    ASSUME SkInv, Doing("unstage") PROVE index = stagedSkill.sha /\ (skillFile["user"] = stagedSkill.text \/ torn)
BY DEF SkInv, WrittenInOrder, Doing

\* The strengthening holds in every reachable state.
THEOREM SkillInvariance == SkSpec => []SkInv
BY SkInitHolds, SkNextHolds, PTL DEF SkSpec

\* Types: of the commits, the layers and the operation under way.
THEOREM SkillsTyped == SkSpec => []SkTypeOK
<1>1. SkInv => SkTypeOK
  BY DEF SkInv, SkTyped, SkTypeOK
<1> QED BY <1>1, SkillInvariance, PTL

\* Whatever fails, dies, is edited or pushed in between: the recorded commit is
\* the one that is installed, and a review stands until it is.
THEOREM InstallsHold == SkSpec => InstallHolds
<1>1. SkInv => PinIsWhatIsThere
  BY DEF SkInv, PinStands, PinIsWhatIsThere, Free
<1>2. SkInv /\ [SkNext]_skillVars =>
        [Doing("unstage") /\ stagedSkill' = Unstaged /\ stagedSkill # Unstaged =>
           index = stagedSkill.sha /\ (skillFile["user"] = stagedSkill.text \/ torn)]_skillVars
  BY ReviewStandsNow
<1> QED BY <1>1, <1>2, SkillInvariance, PTL DEF InstallHolds, ReviewStands, SkSpec

-----------------------------------------------------------------------------
(* An analysis that recurs.                                                 *)

Busy == {t \in Turners : counter[t] # <<"idle">>}

CandidateRow == [occurrences : Nat, settled : BOOLEAN, offers : {0, 1}]

\* A candidate was counted by runs of its own, and offered from the threshold on.
PromInv ==
    /\ newest \in 0..Len(candidates) /\ runs \in 0..MaxRuns
    /\ candidates \in Seq(CandidateRow)
    /\ Len(candidates) + Cardinality(Busy) <= runs
    /\ \A i \in 1..Len(candidates) :
          /\ candidates[i].occurrences + Cardinality(Busy) <= runs
          /\ candidates[i].offers = 1 => candidates[i].occurrences >= Threshold
    /\ counter \in [Turners -> {<<"idle">>} \cup ({"matched"} \X (0..Len(candidates)) \X BOOLEAN)]

LEMMA BusyIsFinite == IsFiniteSet(Busy) /\ Cardinality(Busy) \in Nat
<1>1. Busy \subseteq Turners
  BY DEF Busy
<1> QED BY <1>1, PromotionAssumption, FS_Subset, FS_CardinalityType

\* A turn that begins to count is busy, and one that ends is not.
LEMMA BusyChanges ==
    ASSUME NEW t \in Turners, PromInv
    PROVE  /\ counter[t] = <<"idle">> /\ (\E row, flag : counter' = [counter EXCEPT ![t] = <<"matched", row, flag>>]) =>
                Cardinality(Busy') = Cardinality(Busy) + 1
           /\ counter[t] # <<"idle">> /\ counter' = [counter EXCEPT ![t] = <<"idle">>] =>
                Cardinality(Busy') = Cardinality(Busy) - 1 /\ Cardinality(Busy) >= 1
<1>1. ASSUME counter[t] = <<"idle">>, NEW row, NEW flag, counter' = [counter EXCEPT ![t] = <<"matched", row, flag>>]
      PROVE  Cardinality(Busy') = Cardinality(Busy) + 1
  <2>1. Busy' = Busy \cup {t} /\ t \notin Busy
    BY <1>1 DEF Busy, PromInv
  <2> QED BY <2>1, BusyIsFinite, FS_AddElement
<1>2. ASSUME counter[t] # <<"idle">>, counter' = [counter EXCEPT ![t] = <<"idle">>]
      PROVE  Cardinality(Busy') = Cardinality(Busy) - 1 /\ Cardinality(Busy) >= 1
  <2>1. Busy' = Busy \ {t} /\ t \in Busy
    BY <1>2 DEF Busy, PromInv
  <2>2. Cardinality(Busy') = Cardinality(Busy) - 1
    BY <2>1, BusyIsFinite, FS_RemoveElement
  <2>3. Busy' \subseteq Turners
    BY DEF Busy
  <2>4. Cardinality(Busy') \in Nat
    BY <2>3, PromotionAssumption, FS_Subset, FS_CardinalityType
  <2> QED BY <2>2, <2>4, BusyIsFinite
<1> QED BY <1>1, <1>2

LEMMA RowsAreRows ==
    ASSUME PromInv, NEW i \in 1..Len(candidates)
    PROVE  /\ i \in DOMAIN candidates /\ candidates[i] \in CandidateRow
           /\ candidates[i].occurrences \in Nat /\ candidates[i].offers \in {0, 1} /\ candidates[i].settled \in BOOLEAN
<1>1. candidates \in Seq(CandidateRow) /\ i \in DOMAIN candidates
  BY DEF PromInv
<1>2. candidates \in [1..Len(candidates) -> CandidateRow]
  BY <1>1
<1>3. candidates[i] \in CandidateRow
  BY <1>2
<1> QED BY <1>1, <1>3 DEF CandidateRow

LEMMA PromInitHolds == PromInit => PromInv
<1> SUFFICES ASSUME PromInit PROVE PromInv
  OBVIOUS
<1>1. Busy = {} /\ Cardinality(Busy) = 0
  <2>1. Busy = {}
    BY DEF PromInit, Busy
  <2> QED BY <2>1, FS_EmptySet
<1>2. candidates = <<>> /\ Len(candidates) = 0 /\ candidates \in Seq(CandidateRow)
  BY DEF PromInit
<1> QED BY <1>1, <1>2, PromotionAssumption DEF PromInit, PromInv

LEMMA PMatch ==
    ASSUME PromInv, NEW t \in Turners, Match(t) PROVE PromInv'
<1> DEFINE flag == newest # 0 /\ candidates[newest].settled
<1>1. /\ counter[t] = <<"idle">> /\ runs' = runs + 1 /\ runs' \in 0..MaxRuns
      /\ counter' = [counter EXCEPT ![t] = <<"matched", newest, flag>>]
      /\ UNCHANGED <<candidates, newest>>
  BY PromotionAssumption DEF Match, PromInv
<1>2. flag \in BOOLEAN
  <2>1. CASE newest = 0
    BY <2>1
  <2>2. CASE newest # 0
    <3>1. newest \in 1..Len(candidates)
      BY <2>2 DEF PromInv
    <3> QED BY <3>1, RowsAreRows
  <2> QED BY <2>1, <2>2
<1>3. <<"matched", newest, flag>> \in {"matched"} \X (0..Len(candidates)) \X BOOLEAN
  BY <1>2 DEF PromInv
<1>4. Cardinality(Busy') = Cardinality(Busy) + 1
  BY <1>1, BusyChanges
<1> HIDE DEF flag
<1>5. counter' \in [Turners -> {<<"idle">>} \cup ({"matched"} \X (0..Len(candidates)) \X BOOLEAN)]
  BY <1>1, <1>3 DEF PromInv
<1>6. /\ Len(candidates) + Cardinality(Busy') <= runs'
      /\ \A i \in 1..Len(candidates) : candidates[i].occurrences + Cardinality(Busy') <= runs'
  <2>1. Len(candidates) + Cardinality(Busy') <= runs'
    BY <1>1, <1>4, BusyIsFinite DEF PromInv
  <2>2. ASSUME NEW i \in 1..Len(candidates)
        PROVE  candidates[i].occurrences + Cardinality(Busy') <= runs'
    <3>1. candidates[i].occurrences + Cardinality(Busy) <= runs /\ runs \in Nat
      BY DEF PromInv
    <3> QED BY <1>1, <1>4, <3>1, BusyIsFinite, RowsAreRows
  <2> QED BY <2>1, <2>2
<1> QED BY <1>1, <1>5, <1>6 DEF PromInv

LEMMA PUncounted ==
    ASSUME PromInv, NEW t \in Turners, Uncounted(t) PROVE PromInv'
<1>1. /\ counter[t] # <<"idle">> /\ counter' = [counter EXCEPT ![t] = <<"idle">>]
      /\ UNCHANGED <<candidates, newest, runs>>
  BY DEF Uncounted
<1>2. Cardinality(Busy') = Cardinality(Busy) - 1
  BY <1>1, BusyChanges
<1>3. /\ Len(candidates) + Cardinality(Busy') <= runs
      /\ \A i \in 1..Len(candidates) : candidates[i].occurrences + Cardinality(Busy') <= runs
  <2>1. Len(candidates) + Cardinality(Busy') <= runs
    BY <1>2, BusyIsFinite DEF PromInv
  <2>2. ASSUME NEW i \in 1..Len(candidates)
        PROVE  candidates[i].occurrences + Cardinality(Busy') <= runs
    <3>1. candidates[i].occurrences + Cardinality(Busy) <= runs /\ runs \in Nat
      BY DEF PromInv
    <3> QED BY <1>2, <3>1, BusyIsFinite, RowsAreRows
  <2> QED BY <2>1, <2>2
<1> QED BY <1>1, <1>3 DEF PromInv

\* The row a turn counts, with what it becomes.
LEMMA CountsARow ==
    ASSUME PromInv, NEW t \in Turners, counter[t] # <<"idle">>
    PROVE  /\ counter[t][2] \in 0..Len(candidates) /\ counter[t][3] \in BOOLEAN
           /\ counter[t] = <<"matched", counter[t][2], counter[t][3]>>
<1>1. counter[t] \in {"matched"} \X (0..Len(candidates)) \X BOOLEAN
  BY DEF PromInv
<1> QED BY <1>1

LEMMA PCount ==
    ASSUME PromInv, NEW t \in Turners, Count(t) PROVE PromInv'
<1> DEFINE row == counter[t][2]
           sum == IF row = 0 THEN 1 ELSE candidates[row].occurrences + 1
           offer == IF sum = Threshold /\ ~counter[t][3] THEN 1 ELSE 0
<1>1. /\ counter[t] # <<"idle">> /\ counter' = [counter EXCEPT ![t] = <<"idle">>] /\ runs' = runs
      /\ row \in 0..Len(candidates) /\ candidates \in Seq(CandidateRow) /\ Len(candidates) \in Nat
      /\ offer \in {0, 1} /\ Threshold \in Nat \ {0}
  BY CountsARow, PromotionAssumption DEF Count, PromInv
<1>2. Cardinality(Busy') = Cardinality(Busy) - 1 /\ Cardinality(Busy) \in Nat
  BY <1>1, BusyChanges, BusyIsFinite
<1>3. CASE row = 0
  <2> DEFINE first == [occurrences |-> 1, settled |-> FALSE, offers |-> offer]
  <2>1. candidates' = Append(candidates, first) /\ newest' = Len(candidates')
    BY <1>3 DEF Count
  <2>2. first \in CandidateRow /\ first.occurrences = 1 /\ (first.offers = 1 => 1 = Threshold)
    BY <1>1, <1>3 DEF CandidateRow
  <2> HIDE DEF first
  <2>3. /\ candidates' \in Seq(CandidateRow) /\ Len(candidates') = Len(candidates) + 1
        /\ candidates'[Len(candidates) + 1] = first
        /\ \A i \in 1..Len(candidates) : candidates'[i] = candidates[i]
    BY <1>1, <2>1, <2>2
  <2>4. Len(candidates') + Cardinality(Busy') <= runs' /\ runs' \in 0..MaxRuns /\ newest' \in 0..Len(candidates')
    BY <1>1, <1>2, <2>1, <2>3 DEF PromInv
  <2>5. ASSUME NEW i \in 1..Len(candidates')
        PROVE  /\ candidates'[i].occurrences + Cardinality(Busy') <= runs'
               /\ candidates'[i].offers = 1 => candidates'[i].occurrences >= Threshold
    <3>1. CASE i = Len(candidates) + 1
      BY <1>1, <1>2, <2>2, <2>3, <3>1 DEF PromInv
    <3>2. CASE i # Len(candidates) + 1
      <4>1. i \in 1..Len(candidates) /\ candidates'[i] = candidates[i] /\ candidates[i].occurrences \in Nat
        BY <1>1, <2>3, <3>2, RowsAreRows
      <4> QED BY SMTT(30), <1>1, <1>2, <4>1 DEF PromInv
    <3> QED BY <3>1, <3>2
  <2>6. counter' \in [Turners -> {<<"idle">>} \cup ({"matched"} \X (0..Len(candidates')) \X BOOLEAN)]
    <3>1. 0..Len(candidates) \subseteq 0..Len(candidates')
      BY <1>1, <2>3
    <3>2. {"matched"} \X (0..Len(candidates)) \X BOOLEAN \subseteq {"matched"} \X (0..Len(candidates')) \X BOOLEAN
      BY <3>1
    <3> QED BY <1>1, <3>2 DEF PromInv
  <2> QED BY <2>3, <2>4, <2>5, <2>6 DEF PromInv
<1>4. CASE row # 0
  <2> DEFINE next == [occurrences |-> sum, settled |-> candidates[row].settled, offers |-> candidates[row].offers + offer]
  <2>1. /\ row \in 1..Len(candidates) /\ candidates[row] \in CandidateRow /\ newest' = row
        /\ candidates' = [candidates EXCEPT ![row] = next]
    <3>1. row \in 1..Len(candidates)
      BY <1>1, <1>4
    <3> QED BY <1>4, <3>1, RowsAreRows DEF Count
  <2>2. sum = candidates[row].occurrences + 1 /\ sum \in Nat
    BY <1>4, <2>1, RowsAreRows
  <2>3. offer = 1 => candidates[row].offers = 0
    <3>1. candidates[row].offers = 1 => candidates[row].occurrences >= Threshold
      BY <2>1 DEF PromInv
    <3>2. candidates[row].offers \in {0, 1} /\ candidates[row].occurrences \in Nat
      BY <2>1, RowsAreRows
    <3> HIDE DEF sum
    <3>3. offer = 1 => sum = Threshold
      OBVIOUS
    <3> QED BY <1>1, <2>2, <3>1, <3>2, <3>3
  <2>4. /\ next \in CandidateRow /\ next.occurrences = sum
        /\ next.offers = 1 => sum >= Threshold
    <3>1. candidates[row].offers + offer \in {0, 1}
      BY <1>1, <2>1, <2>3, RowsAreRows
    <3>2. candidates[row].offers = 1 => candidates[row].occurrences >= Threshold
      BY <2>1 DEF PromInv
    <3> HIDE DEF sum
    <3>3. next \in CandidateRow /\ next.occurrences = sum /\ next.offers = candidates[row].offers + offer
      BY <2>1, <2>2, <3>1, RowsAreRows DEF CandidateRow
    <3>4. offer = 1 => sum = Threshold
      OBVIOUS
    <3>5. candidates[row].occurrences \in Nat
      BY <2>1, RowsAreRows
    <3>6. candidates[row].offers \in {0, 1} /\ offer \in {0, 1} /\ Threshold \in Nat
      BY <1>1, <2>1, RowsAreRows
    <3> HIDE DEF offer, next
    <3>7. next.offers = 1 => sum >= Threshold
      BY <2>2, <3>2, <3>3, <3>4, <3>5, <3>6
    <3> QED BY <3>3, <3>7
  <2> HIDE DEF next, sum
  <2>5. /\ candidates' \in Seq(CandidateRow) /\ Len(candidates') = Len(candidates)
        /\ candidates'[row] = next
        /\ \A i \in 1..Len(candidates) : i # row => candidates'[i] = candidates[i]
    BY <1>1, <2>1, <2>4
  <2>6. ASSUME NEW i \in 1..Len(candidates')
        PROVE  /\ candidates'[i].occurrences + Cardinality(Busy') <= runs'
               /\ candidates'[i].offers = 1 => candidates'[i].occurrences >= Threshold
    <3>1. i \in 1..Len(candidates) /\ candidates[i].occurrences \in Nat /\ candidates[row].occurrences \in Nat /\ runs \in Nat
      BY SMTT(60), <1>1, <2>1, <2>5, RowsAreRows DEF PromInv
    <3>2. /\ candidates[i].occurrences + Cardinality(Busy) <= runs
          /\ candidates[i].offers = 1 => candidates[i].occurrences >= Threshold
      BY <3>1 DEF PromInv
    <3>3. CASE i = row
      <4>1. candidates'[i] = next /\ next.occurrences = candidates[i].occurrences + 1 /\ (next.offers = 1 => next.occurrences >= Threshold)
        BY <2>2, <2>4, <2>5, <3>3
      <4>2. next.occurrences + Cardinality(Busy') <= runs
        BY <1>2, <3>1, <3>2, <4>1
      <4> QED BY <1>1, <4>1, <4>2
    <3>4. CASE i # row
      BY <1>1, <1>2, <2>5, <3>1, <3>2, <3>4
    <3> QED BY <3>3, <3>4
  <2>7. /\ Len(candidates') + Cardinality(Busy') <= runs' /\ runs' \in 0..MaxRuns /\ newest' \in 0..Len(candidates')
        /\ counter' \in [Turners -> {<<"idle">>} \cup ({"matched"} \X (0..Len(candidates')) \X BOOLEAN)]
    BY <1>1, <1>2, <2>1, <2>5 DEF PromInv
  <2> QED BY <2>5, <2>6, <2>7 DEF PromInv
<1> QED BY <1>3, <1>4

LEMMA PSettle ==
    ASSUME PromInv, NEW i \in DOMAIN candidates, SettleRow(i) PROVE PromInv'
<1>1. /\ candidates' = [candidates EXCEPT ![i].settled = TRUE] /\ candidates \in Seq(CandidateRow)
      /\ UNCHANGED <<newest, counter, runs>>
  BY DEF SettleRow, PromInv
<1>2. /\ candidates' \in Seq(CandidateRow) /\ Len(candidates') = Len(candidates)
      /\ \A j \in 1..Len(candidates) :
            candidates'[j].occurrences = candidates[j].occurrences /\ candidates'[j].offers = candidates[j].offers
  <2>1. /\ candidates' \in Seq(CandidateRow) /\ Len(candidates') = Len(candidates)
    <3>1. [candidates[i] EXCEPT !.settled = TRUE] \in CandidateRow
      <4>1. i \in 1..Len(candidates)
        BY DEF PromInv
      <4> QED BY <4>1, RowsAreRows DEF CandidateRow
    <3> QED BY <1>1, <3>1
  <2>2. ASSUME NEW j \in 1..Len(candidates)
        PROVE  candidates'[j].occurrences = candidates[j].occurrences /\ candidates'[j].offers = candidates[j].offers
    BY <1>1, RowsAreRows DEF CandidateRow
  <2> QED BY <2>1, <2>2
<1>3. Busy' = Busy
  BY <1>1 DEF Busy
<1> QED BY <1>1, <1>2, <1>3 DEF PromInv

LEMMA PromNextHolds == PromInv /\ [PromNext]_promVars => PromInv'
<1> SUFFICES ASSUME PromInv, [PromNext]_promVars PROVE PromInv'
  OBVIOUS
<1>1. CASE UNCHANGED promVars
  <2>1. Busy' = Busy
    BY <1>1 DEF Busy, promVars
  <2> QED BY <1>1, <2>1 DEF promVars, PromInv
<1> QED BY <1>1, PMatch, PCount, PUncounted, PSettle DEF PromNext

\* The strengthening holds in every reachable state.
THEOREM PromInvariance == PromSpec => []PromInv
BY PromInitHolds, PromNextHolds, PTL DEF PromSpec

\* Types: of the candidates and of what each turn found.
THEOREM CandidatesTyped == PromSpec => []PromTypeOK
<1>1. PromInv => PromTypeOK
  <2> SUFFICES ASSUME PromInv PROVE PromTypeOK
    OBVIOUS
  <2>1. Len(candidates) \in Nat /\ runs \in Nat /\ MaxRuns \in Nat /\ runs <= MaxRuns /\ Len(candidates) <= MaxRuns
    BY BusyIsFinite, PromotionAssumption DEF PromInv
  <2>2. ASSUME NEW i \in 1..Len(candidates)
        PROVE  candidates[i].occurrences \in 0..MaxRuns /\ candidates[i].offers \in 0..MaxRuns
    <3>1. /\ candidates[i].occurrences \in Nat /\ candidates[i].offers \in {0, 1}
          /\ candidates[i].occurrences + Cardinality(Busy) <= runs
          /\ candidates[i].offers = 1 => candidates[i].occurrences >= Threshold
      BY RowsAreRows DEF PromInv
    <3> QED BY <2>1, <3>1, BusyIsFinite, PromotionAssumption
  <2>3. 0..Len(candidates) \subseteq 0..MaxRuns
    BY <2>1
  <2>4. {"matched"} \X (0..Len(candidates)) \X BOOLEAN \subseteq {"matched"} \X (0..MaxRuns) \X BOOLEAN
    BY <2>3
  <2>5. counter \in [Turners -> {<<"idle">>} \cup ({"matched"} \X (0..MaxRuns) \X BOOLEAN)]
    BY <2>4 DEF PromInv
  <2>6. DOMAIN candidates = 1..Len(candidates)
    BY DEF PromInv
  <2> QED BY <2>2, <2>5, <2>6 DEF PromTypeOK, PromInv
<1> QED BY <1>1, PromInvariance, PTL

\* A count offers a candidate that was not offered before, and not to a user who has
\* decided, unless the turn had matched it before.
LEMMA CountOffersOnce ==
    ASSUME PromInv, NEW t \in Turners, Count(t), NEW i \in DOMAIN candidates, candidates'[i].offers > candidates[i].offers
    PROVE  /\ candidates[i].offers = 0
           /\ candidates[i].settled => counter[t] = <<"matched", i, FALSE>>
<1> DEFINE row == counter[t][2]
           sum == candidates[row].occurrences + 1
           offer == IF sum = Threshold /\ ~counter[t][3] THEN 1 ELSE 0
<1>1. /\ counter[t] # <<"idle">> /\ row \in 0..Len(candidates) /\ i \in 1..Len(candidates)
      /\ counter[t] = <<"matched", row, counter[t][3]>> /\ counter[t][3] \in BOOLEAN
      /\ candidates \in Seq(CandidateRow)
      /\ candidates[i].offers \in {0, 1} /\ candidates[i].occurrences \in Nat
  BY CountsARow, RowsAreRows DEF Count, PromInv
<1>2. CASE row = 0
  <2>1. candidates'[i] = candidates[i]
    BY <1>1, <1>2 DEF Count
  <2> QED BY <1>1, <2>1
<1>3. CASE row # 0
  <2>1. candidates' = [candidates EXCEPT ![row] =
                          [occurrences |-> sum, settled |-> candidates[row].settled,
                           offers |-> candidates[row].offers + offer]]
    BY <1>1, <1>3 DEF Count
  <2>2. i = row /\ candidates'[i].offers = candidates[i].offers + offer
    BY <1>1, <1>3, <2>1
  <2>3. offer = 1 /\ sum = Threshold /\ ~counter[t][3]
    BY <1>1, <2>2
  <2>4. candidates[i].offers = 1 => candidates[i].occurrences >= Threshold
    BY <1>1 DEF PromInv
  <2>5. candidates[i].offers = 0
    BY <1>1, <2>2, <2>3, <2>4, PromotionAssumption
  <2>6. counter[t][3] = FALSE
    BY <1>1, <2>3
  <2> QED BY <1>1, <2>2, <2>5, <2>6
<1> QED BY <1>2, <1>3

\* Whatever runs, fails to be counted and is settled in between, for any turns and any
\* threshold: a candidate is offered once.
THEOREM OffersOnce == PromSpec => OfferedOnce
<1> DEFINE A == \A i \in DOMAIN candidates :
                  candidates'[i].offers > candidates[i].offers =>
                      /\ candidates[i].offers = 0
                      /\ candidates[i].settled => \E t \in Turners : counter[t] = <<"matched", i, FALSE>>
<1>1. PromInv /\ [PromNext]_promVars => [A]_promVars
  <2> SUFFICES ASSUME PromInv, PromNext, NEW i \in DOMAIN candidates, candidates'[i].offers > candidates[i].offers
               PROVE  /\ candidates[i].offers = 0
                      /\ candidates[i].settled => \E t \in Turners : counter[t] = <<"matched", i, FALSE>>
    OBVIOUS
  <2>1. candidates[i].offers \in {0, 1} /\ candidates \in Seq(CandidateRow)
    BY RowsAreRows DEF PromInv
  <2>2. ASSUME NEW t \in Turners, Match(t) \/ Uncounted(t) PROVE FALSE
    BY <2>1, <2>2 DEF Match, Uncounted
  <2>3. ASSUME NEW j \in DOMAIN candidates, SettleRow(j) PROVE FALSE
    BY <2>1, <2>3 DEF SettleRow
  <2> QED BY <2>2, <2>3, CountOffersOnce DEF PromNext
<1> QED BY <1>1, PromInvariance, PTL DEF OfferedOnce, PromSpec

\* Both parts of a skill's life.
THEOREM SkillsAreKept == SkSpec /\ PromSpec => SkillsHold
BY InstallsHold, OffersOnce DEF SkillsHold
-----------------------------------------------------------------------------
(* Downloads and the list of what is installed, for any models, threads     *)
(* that list and number of downloads.                                       *)

Row == [status : {"none", "queued", "downloading"} \cup Over, stamped : BOOLEAN, old : BOOLEAN, stop : BOOLEAN]

\* The thread of a download and its row go together; what is over has its stamp.
RowsFollowThreads ==
    \A m \in ModelNames :
        /\ puller[m] = "idle" => dl[m].status \in {"none"} \cup Over
        /\ puller[m] # "idle" => dl[m].status = IF puller[m] = "started" THEN "queued" ELSE "downloading"
        /\ dl[m].status \in Over => dl[m].stamped

\* A download that was, or is about to be, told to be completed.
Told(m) == puller[m] = "completed" \/ dl[m].status = "completed"

\* A whole list, on its way to the cache or there, has what was told to be completed.
ListsHaveTheCompleted ==
    \A m \in installed : Told(m) =>
        /\ listed.fresh /\ listed.whole => m \in listed.names
        /\ \A l \in Listers : lister[l].busy /\ lister[l].whole => m \in lister[l].names

ModelsInv == ModelsTypeOK /\ RowsFollowThreads /\ ListsHaveTheCompleted

LEMMA ModelsInitHolds == ModelsInit => ModelsInv
<1> SUFFICES ASSUME ModelsInit PROVE ModelsInv
  OBVIOUS
<1>1. 0 \in 0..MaxPulls
  BY ModelsAssumption
<1>2. ModelsTypeOK
  BY <1>1 DEF ModelsInit, ModelsTypeOK, NoRow, NoListing
<1> QED BY <1>2 DEF ModelsInit, ModelsInv, RowsFollowThreads, ListsHaveTheCompleted, NoRow, Over

LEMMA ModelsNextHolds == ModelsInv /\ [ModelsNext]_modelVars => ModelsInv'
<1> SUFFICES ASSUME ModelsInv, [ModelsNext]_modelVars PROVE ModelsInv'
  OBVIOUS
<1> USE DEF ModelsInv
<1>0. /\ dl \in [ModelNames -> Row] /\ pulls \in 0..MaxPulls
      /\ installed \subseteq ModelNames
      /\ puller \in [ModelNames -> {"idle", "started", "pulling", "pulled", "raised"} \cup Over]
      /\ listed \in [names : SUBSET ModelNames, fresh : BOOLEAN, whole : BOOLEAN]
      /\ lister \in [Listers -> [names : SUBSET ModelNames, busy : BOOLEAN, whole : BOOLEAN]]
  BY DEF ModelsTypeOK, Row
<1>s. Swept \in [ModelNames -> Row] /\ \A m \in ModelNames : Swept[m] = IF Sweepable(m) THEN NoRow ELSE dl[m]
  BY <1>0 DEF Swept, NoRow, Row
<1>i. Invalidated => /\ listed' \in [names : SUBSET ModelNames, fresh : BOOLEAN, whole : BOOLEAN]
                     /\ lister' \in [Listers -> [names : SUBSET ModelNames, busy : BOOLEAN, whole : BOOLEAN]]
                     /\ ~listed'.fresh /\ \A l \in Listers : ~lister'[l].whole
  <2> SUFFICES ASSUME Invalidated
               PROVE  /\ listed' \in [names : SUBSET ModelNames, fresh : BOOLEAN, whole : BOOLEAN]
                      /\ lister' \in [Listers -> [names : SUBSET ModelNames, busy : BOOLEAN, whole : BOOLEAN]]
                      /\ ~listed'.fresh /\ \A l \in Listers : ~lister'[l].whole
    OBVIOUS
  <2>1. listed' \in [names : SUBSET ModelNames, fresh : BOOLEAN, whole : BOOLEAN] /\ ~listed'.fresh
    BY <1>0 DEF Invalidated
  <2>2. ASSUME NEW l \in Listers
        PROVE  /\ [lister[l] EXCEPT !.whole = FALSE] \in [names : SUBSET ModelNames, busy : BOOLEAN, whole : BOOLEAN]
               /\ ~[lister[l] EXCEPT !.whole = FALSE].whole
    <3>1. lister[l] \in [names : SUBSET ModelNames, busy : BOOLEAN, whole : BOOLEAN]
      BY <1>0
    <3> QED BY <3>1
  <2>3. lister' = [l \in Listers |-> [lister[l] EXCEPT !.whole = FALSE]]
    BY DEF Invalidated
  <2> QED BY <2>1, <2>2, <2>3
<1>1. ASSUME NEW m \in ModelNames, StartPull(m) PROVE ModelsInv'
  <2> DEFINE row == [NoRow EXCEPT !.status = "queued"]
  <2>1. row \in Row /\ row.status = "queued" /\ dl' = [Swept EXCEPT ![m] = row]
    BY <1>1 DEF StartPull, Row, NoRow
  <2>2. pulls' \in 0..MaxPulls
    BY <1>0, <1>1, ModelsAssumption DEF StartPull
  <2> HIDE DEF row
  <2>3. dl' \in [ModelNames -> Row] /\ dl'[m].status = "queued" /\ \A n \in ModelNames \ {m} : dl'[n] = NoRow \/ dl'[n] = dl[n]
    BY <1>s, <2>1
  <2>4. ModelsTypeOK'
    BY <1>0, <1>1, <2>2, <2>3 DEF StartPull, ModelsTypeOK, Row
  <2>5. RowsFollowThreads'
    BY <1>0, <1>1, <2>3 DEF StartPull, RowsFollowThreads, Over, NoRow, Sweepable, Swept, Active
  <2>6. ListsHaveTheCompleted'
    BY <1>0, <1>1, <2>3 DEF StartPull, ListsHaveTheCompleted, Told, NoRow
  <2> QED BY <2>4, <2>5, <2>6
<1>2. ASSUME NEW m \in ModelNames, CancelPull(m) \/ RowAges(m) PROVE ModelsInv'
  <2>1. PICK row \in Row : dl' = [dl EXCEPT ![m] = row] /\ row.status = dl[m].status /\ row.stamped = dl[m].stamped
    <3>1. dl[m] \in Row
      BY <1>0
    <3>2. CASE CancelPull(m)
      <4>1. [dl[m] EXCEPT !.stop = TRUE] \in Row
        BY <3>1 DEF Row
      <4>2. dl' = [dl EXCEPT ![m] = [dl[m] EXCEPT !.stop = TRUE]]
        BY <3>2 DEF CancelPull
      <4> QED BY <3>1, <4>1, <4>2 DEF Row
    <3>3. CASE RowAges(m)
      <4>1. [dl[m] EXCEPT !.old = TRUE] \in Row
        BY <3>1 DEF Row
      <4>2. dl' = [dl EXCEPT ![m] = [dl[m] EXCEPT !.old = TRUE]]
        BY <3>3 DEF RowAges
      <4> QED BY <3>1, <4>1, <4>2 DEF Row
    <3> QED BY <1>2, <3>2, <3>3
  <2>2. UNCHANGED <<installed, puller, listed, lister, pulls>>
    BY <1>2 DEF CancelPull, RowAges
  <2>3. dl' \in [ModelNames -> Row]
    BY <1>0, <2>1
  <2>4. \A n \in ModelNames : dl'[n].status = dl[n].status /\ dl'[n].stamped = dl[n].stamped
    BY <1>0, <2>1
  <2>5. ModelsTypeOK'
    BY <1>0, <2>2, <2>3 DEF ModelsTypeOK, Row
  <2>6. RowsFollowThreads'
    BY <2>2, <2>4 DEF RowsFollowThreads
  <2>7. ListsHaveTheCompleted'
    BY <1>0, <2>2, <2>4 DEF ListsHaveTheCompleted, Told
  <2> QED BY <2>5, <2>6, <2>7
<1>3. ASSUME NEW m \in ModelNames, Downloading(m) PROVE ModelsInv'
  <2>1. dl' \in [ModelNames -> Row] /\ dl'[m].status = "downloading" /\ \A n \in ModelNames \ {m} : dl'[n] = dl[n]
    BY <1>0, <1>3 DEF Downloading, Row
  <2>2. ModelsTypeOK'
    BY <1>0, <1>3, <2>1 DEF Downloading, ModelsTypeOK, Row
  <2> QED BY <1>0, <1>3, <2>1, <2>2 DEF Downloading, RowsFollowThreads, ListsHaveTheCompleted, Told, Over
<1>4. ASSUME NEW m \in ModelNames, Pulled(m) PROVE ModelsInv'
  <2>1. ModelsTypeOK'
    BY <1>0, <1>4 DEF Pulled, ModelsTypeOK, Row
  <2>2. RowsFollowThreads'
    BY <1>0, <1>4 DEF Pulled, RowsFollowThreads, Over
  <2>3. dl[m].status = "downloading"
    BY <1>4 DEF Pulled, RowsFollowThreads
  <2>4. ListsHaveTheCompleted'
    BY <1>0, <1>4, <2>3 DEF Pulled, ListsHaveTheCompleted, Told
  <2> QED BY <2>1, <2>2, <2>4
<1>5. ASSUME NEW m \in ModelNames, Conclude(m) PROVE ModelsInv'
  <2>1. puller' \in [ModelNames -> {"idle", "started", "pulling", "pulled", "raised"} \cup Over] /\ puller'[m] \in Over
        /\ \A n \in ModelNames \ {m} : puller'[n] = puller[n]
    BY <1>0, <1>5 DEF Conclude, Over
  <2>2. puller'[m] = "completed" => Invalidated
    BY <1>5 DEF Conclude
  <2>3. puller'[m] # "completed" => UNCHANGED <<listed, lister>>
    BY <1>5 DEF Conclude
  <2>4. UNCHANGED <<installed, dl, pulls>>
    BY <1>5 DEF Conclude
  <2>5. ModelsTypeOK'
    BY <1>0, <1>i, <2>1, <2>2, <2>3, <2>4 DEF ModelsTypeOK, Row
  <2>6. RowsFollowThreads'
    BY <1>0, <1>5, <2>1, <2>4 DEF Conclude, RowsFollowThreads, Over
  <2>7. ListsHaveTheCompleted'
    BY <1>0, <1>i, <2>1, <2>2, <2>3, <2>4 DEF ListsHaveTheCompleted, Told
  <2> QED BY <2>5, <2>6, <2>7
<1>6. ASSUME NEW m \in ModelNames, FinishPull(m) PROVE ModelsInv'
  <2>0. puller[m] \in Over /\ dl[m] \in Row
    BY <1>0, <1>6 DEF FinishPull
  <2>1. PICK row \in Row : /\ dl' = [dl EXCEPT ![m] = row]
                           /\ \/ row.status = dl[m].status /\ puller' = puller /\ (dl[m].stamped => row.stamped)
                              \/ row.stamped /\ row.status = puller[m] /\ puller' = [puller EXCEPT ![m] = "idle"]
    <3>1. CASE ~dl[m].stamped
      <4>1. [dl[m] EXCEPT !.stamped = TRUE] \in Row
        BY <2>0 DEF Row
      <4>2. dl' = [dl EXCEPT ![m] = [dl[m] EXCEPT !.stamped = TRUE]] /\ puller' = puller
        BY <3>1, <1>6 DEF FinishPull
      <4> QED BY <2>0, <4>1, <4>2 DEF Row
    <3>2. CASE dl[m].stamped
      <4>1. [dl[m] EXCEPT !.status = puller[m]] \in Row
        BY <2>0 DEF Row
      <4>2. dl' = [dl EXCEPT ![m] = [dl[m] EXCEPT !.status = puller[m]]] /\ puller' = [puller EXCEPT ![m] = "idle"]
        BY <3>2, <1>6 DEF FinishPull
      <4> QED BY <2>0, <3>2, <4>1, <4>2 DEF Row
    <3> QED BY <3>1, <3>2
  <2>2. UNCHANGED <<installed, listed, lister, pulls>>
    BY <1>6 DEF FinishPull
  <2>3. dl' \in [ModelNames -> Row] /\ dl'[m] = row /\ \A n \in ModelNames \ {m} : dl'[n] = dl[n]
    BY <1>0, <2>1
  <2>4. puller' \in [ModelNames -> {"idle", "started", "pulling", "pulled", "raised"} \cup Over]
        /\ \A n \in ModelNames \ {m} : puller'[n] = puller[n]
    BY <1>0, <2>1
  <2>5. ModelsTypeOK'
    BY <1>0, <2>2, <2>3, <2>4 DEF ModelsTypeOK, Row
  <2>6. \/ dl'[m].status = dl[m].status /\ puller'[m] = puller[m] /\ (dl[m].stamped => dl'[m].stamped)
        \/ dl'[m].stamped /\ dl'[m].status = puller[m] /\ puller'[m] = "idle"
    BY <1>0, <2>1, <2>3
  <2>7. RowsFollowThreads'
    BY <1>0, <2>0, <2>3, <2>4, <2>6 DEF RowsFollowThreads, Over
  <2>8. ListsHaveTheCompleted'
    BY <1>0, <2>2, <2>3, <2>4, <2>6 DEF ListsHaveTheCompleted, Told
  <2> QED BY <2>5, <2>7, <2>8
<1>7. ASSUME NEW m \in ModelNames, RemoveModel(m) PROVE ModelsInv'
  <2>1. ModelsTypeOK'
    BY <1>0, <1>7, <1>i DEF RemoveModel, ModelsTypeOK, Row
  <2> QED BY <1>7, <1>i, <2>1 DEF RemoveModel, RowsFollowThreads, ListsHaveTheCompleted
<1>8. ASSUME NEW l \in Listers, ListBegin(l) PROVE ModelsInv'
  <2>1. PICK reached \in BOOLEAN : lister' =
          [lister EXCEPT ![l] = [names |-> IF reached THEN installed ELSE {}, busy |-> TRUE, whole |-> reached]]
    BY <1>8 DEF ListBegin
  <2>2. ModelsTypeOK'
    BY <1>0, <1>8, <2>1 DEF ListBegin, ModelsTypeOK, Row
  <2> QED BY <1>0, <1>8, <2>1, <2>2 DEF ListBegin, RowsFollowThreads, ListsHaveTheCompleted, Told
<1>9. ASSUME NEW l \in Listers, ListStore(l) PROVE ModelsInv'
  <2>1. ModelsTypeOK'
    BY <1>0, <1>9 DEF ListStore, ModelsTypeOK, Row, NoListing
  <2>2. ListsHaveTheCompleted'
    BY <1>0, <1>9 DEF ListStore, ListsHaveTheCompleted, Told, NoListing
  <2> QED BY <1>9, <2>1, <2>2 DEF ListStore, RowsFollowThreads
<1>10. CASE Poll
  <2>1. dl' \in [ModelNames -> Row] /\ \A n \in ModelNames : (Sweepable(n) /\ dl'[n] = NoRow) \/ dl'[n] = dl[n]
    BY <1>s, <1>10 DEF Poll
  <2>2. ModelsTypeOK'
    BY <1>0, <1>10, <2>1 DEF Poll, ModelsTypeOK, Row
  <2>3. RowsFollowThreads'
    BY <1>0, <1>10, <2>1 DEF Poll, RowsFollowThreads, NoRow, Sweepable, Over
  <2>4. ListsHaveTheCompleted'
    BY <1>0, <1>10, <2>1 DEF Poll, ListsHaveTheCompleted, Told, NoRow
  <2> QED BY <2>2, <2>3, <2>4
<1>11. CASE ListAges
  <2>1. ModelsTypeOK'
    BY <1>0, <1>11 DEF ListAges, ModelsTypeOK, Row
  <2> QED BY <1>0, <1>11, <2>1 DEF ListAges, RowsFollowThreads, ListsHaveTheCompleted, Told
<1>12. CASE UNCHANGED modelVars
  BY <1>12 DEF modelVars, ModelsTypeOK, RowsFollowThreads, ListsHaveTheCompleted, Told
<1> QED BY <1>1, <1>2, <1>3, <1>4, <1>5, <1>6, <1>7, <1>8, <1>9, <1>10, <1>11, <1>12 DEF ModelsNext

\* The strengthening holds in every reachable state.
THEOREM ModelsInvariance == ModelsSpec => []ModelsInv
BY ModelsInitHolds, ModelsNextHolds, PTL DEF ModelsSpec

\* Types: of the rows and threads of downloads and of the lists.
THEOREM ModelsTyped == ModelsSpec => []ModelsTypeOK
<1>1. ModelsInv => ModelsTypeOK
  BY DEF ModelsInv
<1> QED BY <1>1, ModelsInvariance, PTL

\* A download that ended keeps its row until it is old.
LEMMA RowsStay == ModelsInv /\ ModelsNext =>
    \A m \in ModelNames : (dl[m].status \in Over /\ dl'[m].status = "none") => dl[m].old
<1> SUFFICES ASSUME ModelsInv, ModelsNext, NEW m \in ModelNames, dl[m].status \in Over, dl'[m].status = "none" PROVE dl[m].old
  OBVIOUS
<1>0. dl \in [ModelNames -> Row] /\ dl[m].stamped
  BY DEF ModelsInv, ModelsTypeOK, Row, RowsFollowThreads
<1>s. Swept \in [ModelNames -> Row] /\ \A n \in ModelNames : Swept[n] = IF Sweepable(n) THEN NoRow ELSE dl[n]
  BY <1>0 DEF Swept, NoRow, Row
<1>1. Swept[m].status = "none" => dl[m].old
  BY <1>0, <1>s DEF Sweepable, Over
<1>2. ASSUME NEW n \in ModelNames, StartPull(n) PROVE dl[m].old
  <2>1. dl' = [Swept EXCEPT ![n] = [NoRow EXCEPT !.status = "queued"]]
    BY <1>2 DEF StartPull
  <2>2. dl'[n].status = "queued"
    BY <1>s, <2>1 DEF NoRow
  <2> QED BY <1>s, <1>1, <2>1, <2>2
<1>3. ASSUME NEW n \in ModelNames, CancelPull(n) \/ RowAges(n) PROVE FALSE
  BY <1>0, <1>3 DEF CancelPull, RowAges, Over, Row
<1>4. ASSUME NEW n \in ModelNames, Downloading(n) PROVE FALSE
  BY <1>0, <1>4 DEF Downloading, Over, Row
<1>5. ASSUME NEW n \in ModelNames, FinishPull(n) PROVE FALSE
  BY <1>0, <1>5 DEF FinishPull, Over, Row
<1>6. ASSUME NEW n \in ModelNames, Pulled(n) \/ Conclude(n) \/ RemoveModel(n) PROVE FALSE
  BY <1>6 DEF Pulled, Conclude, RemoveModel, Over
<1>7. ASSUME NEW l \in Listers, ListBegin(l) \/ ListStore(l) PROVE FALSE
  BY <1>7 DEF ListBegin, ListStore, Over
<1>8. CASE Poll
  BY <1>8, <1>1 DEF Poll
<1>9. CASE ListAges
  BY <1>9 DEF ListAges, Over
<1> QED BY <1>2, <1>3, <1>4, <1>5, <1>6, <1>7, <1>8, <1>9 DEF ModelsNext

\* For any models, listings and downloads: a client that polls until a download is completed finds
\* the model in a whole list, and a row outlives its end.
THEOREM DownloadsSeen == ModelsSpec => DownloadsAreSeen
<1>1. ModelsInv => CompletedIsListed
  BY DEF ModelsInv, ListsHaveTheCompleted, Told, CompletedIsListed
<1>2. ModelsInv /\ [ModelsNext]_modelVars =>
        [\A m \in ModelNames : (dl[m].status \in Over /\ dl'[m].status = "none") => dl[m].old]_modelVars
  BY RowsStay
<1> QED BY <1>1, <1>2, ModelsInvariance, PTL DEF ModelsSpec, DownloadsAreSeen, RowsOutliveTheirEnd
-----------------------------------------------------------------------------
(* The lists of models.  What a list holds is computed by folds and sorts,  *)
(* which stay closed here: that each is of its provider and of the key that *)
(* is stored follows from where it goes.                                    *)

ListKeys == ApiKeys \cup {NoApiKey}
PageFields == {"at", "of", "force", "second", "slow", "key", "got", "models", "suggested", "error"}
ListFields == {"models", "fresh", "key", "late"}

\* A request that is under way has its provider, and lists of that provider alone.
PageIsOwn(r) ==
  /\ DOMAIN r = PageFields
  /\ r.slow \in BOOLEAN /\ r.key \in ListKeys
  /\ r.at # "idle" => r.of \in Providers /\ r.models \in CanList(r.of) /\ r.got \in CanList(r.of)
  /\ r.at = "fallback" => Dialect[r.of] = "lmstudio"

\* So has the cache.
KeptIsOwn(p, list) ==
  /\ DOMAIN list = ListFields
  /\ list.fresh \in BOOLEAN /\ list.key \in ListKeys /\ list.late \in BOOLEAN
  /\ list.models \in CanList(p)

ListingsTyped ==
  /\ faults \in [Providers -> {"none", "unreachable", "no key", "no endpoint"}]
  /\ apiKey \in ListKeys /\ keyRoute \in {"idle", "changed"}
  /\ asked \in [pages : 0..MaxAsked, keys : 0..MaxKeyChanges]

\* The inductive invariant.
ListingsInv ==
  /\ ListingsTyped
  /\ DOMAIN lists = Providers /\ \A p \in Providers : KeptIsOwn(p, lists[p])
  /\ DOMAIN page = Pages /\ \A g \in Pages : PageIsOwn(page[g])
  /\ ListsFollowTheKey

LEMMA ListingsInvHolds == ListingsInv => ListingsTypeOK /\ ListsAreOwn /\ ListsFollowTheKey
BY DEF ListingsInv, ListingsTyped, ListingsTypeOK, ListsAreOwn, KeptIsOwn, PageIsOwn, ListKeys

LEMMA FreshPage == PageIsOwn(NoPage) /\ NoPage.at = "idle" /\ NoPage.got = <<>> /\ NoPage.models = <<>> /\ NoPage.slow = FALSE
BY DEF PageIsOwn, NoPage, PageFields, ListKeys

LEMMA NothingIsListed == \A p \in Providers : <<>> \in CanList(p) /\ Native(p) \in CanList(p)
BY DEF CanList

LEMMA ListingsInitHolds == ListingsInit => ListingsInv
<1> SUFFICES ASSUME ListingsInit PROVE ListingsInv
  OBVIOUS
<1>1. ListingsTyped
  BY ListingsAssumption DEF ListingsInit, ListingsTyped, ListKeys
<1>2. DOMAIN lists = Providers /\ \A p \in Providers : KeptIsOwn(p, lists[p])
  BY NothingIsListed DEF ListingsInit, KeptIsOwn, ListFields, ListKeys
<1>3. DOMAIN page = Pages /\ \A g \in Pages : PageIsOwn(page[g])
  BY FreshPage DEF ListingsInit
<1>4. ListsFollowTheKey
  BY DEF ListingsInit, ListsFollowTheKey, Hosted
<1> QED BY <1>1, <1>2, <1>3, <1>4 DEF ListingsInv

\* A step of one request.
LEMMA PageMoves ==
  ASSUME ListingsInv, NEW g \in Pages, NEW r, PageIsOwn(r), page' = [page EXCEPT ![g] = r]
  PROVE  DOMAIN page' = Pages /\ \A h \in Pages : PageIsOwn(page'[h])
<1>1. DOMAIN page = Pages /\ \A h \in Pages : PageIsOwn(page[h])
  BY DEF ListingsInv
<1>2. DOMAIN page' = Pages /\ page'[g] = r /\ \A h \in Pages \ {g} : page'[h] = page[h]
  BY <1>1
<1> QED BY <1>1, <1>2

\* What a request goes on with is its own when the list it was given is.
LEMMA GivenIsOwn ==
  ASSUME NEW r, PageIsOwn(r), r.of \in Providers, r.at # "idle", NEW models \in CanList(r.of)
  PROVE  PageIsOwn(Given(r, models))
<1>1. <<>> \in CanList(r.of) /\ r.models \in CanList(r.of)
  BY NothingIsListed DEF PageIsOwn
<1>2. CASE r.second
  <2> DEFINE s == Suggested(r.of, models)
  <2> HIDE DEF s
  <2>1. Given(r, models) = [NoPage EXCEPT !.at = "reply", !.of = r.of, !.models = r.models, !.suggested = s]
    BY <1>2 DEF Given, s
  <2> DEFINE new == [NoPage EXCEPT !.at = "reply", !.of = r.of, !.models = r.models, !.suggested = s]
  <2>2. /\ DOMAIN new = PageFields /\ new.at = "reply" /\ new.of = r.of /\ new.models = r.models
        /\ new.got = <<>> /\ new.slow = FALSE /\ new.key = NoApiKey
    BY DEF NoPage, PageFields
  <2> HIDE DEF new
  <2>3. PageIsOwn(new)
    BY <1>1, <2>2 DEF PageIsOwn, ListKeys
  <2> QED BY <2>1, <2>3 DEF new
<1>3. CASE ~r.second
  <2>1. Given(r, models) = [NoPage EXCEPT !.at = "look", !.of = r.of, !.second = TRUE, !.models = models]
    BY <1>3 DEF Given
  <2> DEFINE new == [NoPage EXCEPT !.at = "look", !.of = r.of, !.second = TRUE, !.models = models]
  <2>2. /\ DOMAIN new = PageFields /\ new.at = "look" /\ new.of = r.of /\ new.models = models
        /\ new.got = <<>> /\ new.slow = FALSE /\ new.key = NoApiKey
    BY DEF NoPage, PageFields
  <2> HIDE DEF new
  <2>3. PageIsOwn(new)
    BY <1>1, <2>2 DEF PageIsOwn, ListKeys
  <2> QED BY <2>1, <2>3 DEF new
<1> QED BY <1>2, <1>3

\* A request begins or goes on, and the lists stay.
LEMMA PagesKeep ==
  ASSUME ListingsInv, UNCHANGED <<lists, apiKey, keyRoute>>, ListingsTyped',
         DOMAIN page' = Pages, \A h \in Pages : PageIsOwn(page'[h])
  PROVE  ListingsInv'
<1>1. ListsFollowTheKey'
  BY DEF ListingsInv, ListsFollowTheKey
<1> QED BY <1>1 DEF ListingsInv

LEMMA AskPageKeeps ==
  ASSUME ListingsInv, NEW g \in Pages, NEW p \in Providers, NEW force \in BOOLEAN, AskPage(g, p, force)
  PROVE  ListingsInv'
<1> DEFINE new == [NoPage EXCEPT !.at = "look", !.of = p, !.force = force]
<1>1. page' = [page EXCEPT ![g] = new] /\ UNCHANGED <<lists, faults, apiKey, keyRoute>>
  BY DEF AskPage
<1>2. /\ DOMAIN new = PageFields /\ new.at = "look" /\ new.of = p
      /\ new.models = <<>> /\ new.got = <<>> /\ new.slow = FALSE /\ new.key = NoApiKey
  BY DEF NoPage, PageFields
<1> HIDE DEF new
<1>3. PageIsOwn(new)
  BY <1>2, NothingIsListed DEF PageIsOwn, ListKeys
<1>4. ListingsTyped'
  <2>1. asked \in [pages : 0..MaxAsked, keys : 0..MaxKeyChanges] /\ asked.pages < MaxAsked
        /\ asked' = [asked EXCEPT !.pages = @ + 1] /\ MaxAsked \in Nat
    BY ListingsAssumption DEF ListingsInv, ListingsTyped, AskPage
  <2>2. asked' \in [pages : 0..MaxAsked, keys : 0..MaxKeyChanges]
    BY <2>1
  <2> QED BY <1>1, <2>2 DEF ListingsInv, ListingsTyped
<1> QED BY <1>1, <1>3, <1>4, PageMoves, PagesKeep

LEMMA TakeCachedKeeps == ASSUME ListingsInv, NEW g \in Pages, TakeCached(g) PROVE ListingsInv'
<1> DEFINE r == page[g]
<1>1. PageIsOwn(r) /\ r.at = "look" /\ r.of \in Providers /\ lists[r.of].models \in CanList(r.of)
  BY DEF ListingsInv, TakeCached, PageIsOwn, KeptIsOwn
<1>2. page' = [page EXCEPT ![g] = Given(r, lists[r.of].models)] /\ UNCHANGED <<lists, faults, apiKey, keyRoute, asked>>
  BY DEF TakeCached
<1> HIDE DEF r
<1>3. PageIsOwn(Given(r, lists[r.of].models))
  BY <1>1, GivenIsOwn
<1>4. ListingsTyped'
  BY <1>2 DEF ListingsInv, ListingsTyped
<1> QED BY <1>2, <1>3, <1>4, PageMoves, PagesKeep

LEMMA AskProviderKeeps == ASSUME ListingsInv, NEW g \in Pages, AskProvider(g) PROVE ListingsInv'
<1> DEFINE r == page[g]
           p == r.of
           missing == IF Dialect[p] = "unset" THEN "no endpoint" ELSE IF p \in Hosted /\ apiKey = NoApiKey THEN "no key" ELSE "none"
           key == IF p \in Hosted THEN apiKey ELSE NoApiKey
           to == IF missing = "none" THEN "probe" ELSE "store"
           got == IF missing = "no endpoint" THEN PinnedModels ELSE <<>>
           new == [r EXCEPT !.key = key, !.at = to, !.got = got]
<1>1. PageIsOwn(r) /\ r.at = "look" /\ p \in Providers
  BY DEF ListingsInv, AskProvider, PageIsOwn
<1>2. /\ page' = [page EXCEPT ![g] = new]
      /\ faults' = IF missing = "none" THEN faults ELSE [faults EXCEPT ![p] = missing]
      /\ UNCHANGED <<lists, apiKey, keyRoute, asked>>
  BY DEF AskProvider
<1>3. key \in ListKeys /\ missing \in {"none", "no key", "no endpoint"} /\ to \in {"probe", "store"}
  BY DEF ListingsInv, ListingsTyped, ListKeys
<1>4. got \in CanList(p)
  <2>1. missing = "no endpoint" => Native(p) = PinnedModels
    BY DEF Native
  <2> QED BY <1>1, <2>1, NothingIsListed
<1> HIDE DEF missing, key, to, got, r
<1>5. /\ DOMAIN new = PageFields /\ new.at = to /\ new.of = r.of /\ new.models = r.models
      /\ new.got = got /\ new.slow = r.slow /\ new.key = key
  BY <1>1 DEF PageIsOwn, PageFields
<1> HIDE DEF new
<1>6. PageIsOwn(new)
  BY <1>1, <1>3, <1>4, <1>5 DEF PageIsOwn
<1>7. ListingsTyped'
  BY <1>1, <1>2, <1>3 DEF ListingsInv, ListingsTyped
<1> QED BY <1>2, <1>6, <1>7, PageMoves, PagesKeep

\* An answer, or none, is what the provider lists in the dialect it was asked in.
LEMMA AnswerIsOwn ==
  ASSUME NEW r, PageIsOwn(r), r.of \in Providers, r.at # "idle", NEW to \in {"store", "fallback"}, NEW slow \in BOOLEAN,
         NEW got \in CanList(r.of), to = "fallback" => Dialect[r.of] = "lmstudio",
         NEW new, new = [r EXCEPT !.at = to, !.got = got, !.slow = slow]
  PROVE  PageIsOwn(new)
<1>1. /\ DOMAIN new = PageFields /\ new.at = to /\ new.of = r.of /\ new.models = r.models
      /\ new.got = got /\ new.slow = slow /\ new.key = r.key
  BY DEF PageIsOwn, PageFields
<1> QED BY <1>1 DEF PageIsOwn

\* The fields that stay are written as they are.
LEMMA SameFields ==
  ASSUME NEW r, DOMAIN r = PageFields, NEW to, NEW slow, NEW got
  PROVE  /\ [r EXCEPT !.at = to, !.got = got] = [r EXCEPT !.at = to, !.got = got, !.slow = r.slow]
         /\ [r EXCEPT !.at = to, !.slow = slow] = [r EXCEPT !.at = to, !.got = r.got, !.slow = slow]
BY DEF PageFields

LEMMA ProbeKeeps == ASSUME ListingsInv, NEW g \in Pages, Probe(g) PROVE ListingsInv'
<1> DEFINE r == page[g]
           p == r.of
<1>1. PageIsOwn(r) /\ r.at = "probe" /\ p \in Providers /\ r.got \in CanList(p) /\ r.slow \in BOOLEAN /\ DOMAIN r = PageFields
  BY DEF ListingsInv, Probe, PageIsOwn
<1>2. UNCHANGED <<lists, apiKey, keyRoute, asked>> /\ \E what \in {"none", "unreachable"} : faults' = [faults EXCEPT ![p] = what]
  BY ZenonT(60) DEF Probe
<1>3. PICK to \in {"store", "fallback"}, slow \in BOOLEAN, got \in CanList(p) :
        /\ page' = [page EXCEPT ![g] = [r EXCEPT !.at = to, !.got = got, !.slow = slow]]
        /\ to = "fallback" => Dialect[p] = "lmstudio"
  <2>1. ASSUME page' = [page EXCEPT ![g] = [r EXCEPT !.at = "store", !.got = Native(p)]]
        PROVE  \E to \in {"store", "fallback"}, slow \in BOOLEAN, got \in CanList(p) :
                 /\ page' = [page EXCEPT ![g] = [r EXCEPT !.at = to, !.got = got, !.slow = slow]]
                 /\ to = "fallback" => Dialect[p] = "lmstudio"
    <3> DEFINE native == Native(p)
    <3>1. native \in CanList(p)
      BY <1>1, NothingIsListed
    <3>2. page' = [page EXCEPT ![g] = [r EXCEPT !.at = "store", !.got = native]]
      BY Zenon, <2>1
    <3> HIDE DEF native, r
    <3>3. [r EXCEPT !.at = "store", !.got = native] = [r EXCEPT !.at = "store", !.got = native, !.slow = r.slow]
      BY Zenon, <1>1, SameFields
    <3>4. page' = [page EXCEPT ![g] = [r EXCEPT !.at = "store", !.got = native, !.slow = r.slow]]
      BY <3>2, <3>3
    <3> QED BY <1>1, <3>1, <3>4
  <2>2. ASSUME NEW limit \in BOOLEAN,
               page' = [page EXCEPT ![g] = [r EXCEPT !.at = IF Dialect[p] = "lmstudio" THEN "fallback" ELSE "store", !.slow = limit]]
        PROVE  \E to \in {"store", "fallback"}, slow \in BOOLEAN, got \in CanList(p) :
                 /\ page' = [page EXCEPT ![g] = [r EXCEPT !.at = to, !.got = got, !.slow = slow]]
                 /\ to = "fallback" => Dialect[p] = "lmstudio"
    <3> DEFINE to == IF Dialect[p] = "lmstudio" THEN "fallback" ELSE "store"
    <3>1. to \in {"store", "fallback"} /\ (to = "fallback" => Dialect[p] = "lmstudio")
      OBVIOUS
    <3>2. page' = [page EXCEPT ![g] = [r EXCEPT !.at = to, !.slow = limit]]
      BY Zenon, <2>2
    <3> HIDE DEF to, r
    <3>3. [r EXCEPT !.at = to, !.slow = limit] = [r EXCEPT !.at = to, !.got = r.got, !.slow = limit]
      BY Zenon, <1>1, SameFields
    <3>4. page' = [page EXCEPT ![g] = [r EXCEPT !.at = to, !.got = r.got, !.slow = limit]]
      BY <3>2, <3>3
    <3> QED BY <1>1, <3>1, <3>4
  <2> QED BY <2>1, <2>2 DEF Probe
<1> DEFINE new == [r EXCEPT !.at = to, !.got = got, !.slow = slow]
<1>4. page' = [page EXCEPT ![g] = new]
  BY <1>3
<1>5. PageIsOwn(new)
  BY <1>1, <1>3, AnswerIsOwn
<1>6. ListingsTyped'
  BY <1>1, <1>2 DEF ListingsInv, ListingsTyped
<1> HIDE DEF new
<1> QED BY <1>2, <1>4, <1>5, <1>6, PageMoves, PagesKeep

LEMMA ProbeGatewayKeeps == ASSUME ListingsInv, NEW g \in Pages, ProbeGateway(g) PROVE ListingsInv'
<1> DEFINE r == page[g]
           p == r.of
<1>1. PageIsOwn(r) /\ r.at = "fallback" /\ p \in Providers /\ r.got \in CanList(p) /\ r.slow \in BOOLEAN /\ DOMAIN r = PageFields
      /\ Dialect[p] = "lmstudio" /\ DOMAIN page = Pages
  BY DEF ListingsInv, ProbeGateway, PageIsOwn
<1>2. UNCHANGED <<lists, apiKey, keyRoute, asked>> /\ \E what \in {"none", "unreachable"} : faults' = [faults EXCEPT ![p] = what]
  BY DEF ProbeGateway
<1>3. PICK slow \in BOOLEAN, got \in CanList(p) :
        page' = [page EXCEPT ![g] = [r EXCEPT !.at = "store", !.got = got, !.slow = slow]]
  <2> DEFINE other == Gateway(Served[p])
  <2>1. other \in CanList(p)
    BY <1>1 DEF CanList
  <2> HIDE DEF other
  <2>2. CASE page' = [page EXCEPT ![g].at = "store", ![g].got = other]
    <3>1. page' = [page EXCEPT ![g] = [r EXCEPT !.at = "store", !.got = other]]
      BY <1>1, <2>2
    <3> HIDE DEF r
    <3>2. [r EXCEPT !.at = "store", !.got = other] = [r EXCEPT !.at = "store", !.got = other, !.slow = r.slow]
      BY Zenon, <1>1, SameFields
    <3> QED BY <1>1, <2>1, <3>1, <3>2
  <2>3. ASSUME NEW limit \in BOOLEAN, page' = [page EXCEPT ![g].at = "store", ![g].slow = @ \/ limit]
        PROVE  \E slow \in BOOLEAN, got \in CanList(p) :
                 page' = [page EXCEPT ![g] = [r EXCEPT !.at = "store", !.got = got, !.slow = slow]]
    <3> DEFINE slow == r.slow \/ limit
    <3>1. page' = [page EXCEPT ![g] = [r EXCEPT !.at = "store", !.slow = slow]]
      BY <1>1, <2>3 DEF PageFields
    <3>2. slow \in BOOLEAN
      BY <1>1
    <3> HIDE DEF r, slow
    <3>3. [r EXCEPT !.at = "store", !.slow = slow] = [r EXCEPT !.at = "store", !.got = r.got, !.slow = slow]
      BY Zenon, <1>1, SameFields
    <3> QED BY <1>1, <3>1, <3>2, <3>3
  <2>4. \/ page' = [page EXCEPT ![g].at = "store", ![g].got = other]
        \/ \E limit \in BOOLEAN : page' = [page EXCEPT ![g].at = "store", ![g].slow = @ \/ limit]
    BY DEF ProbeGateway, other
  <2> QED BY <2>2, <2>3, <2>4
<1> DEFINE new == [r EXCEPT !.at = "store", !.got = got, !.slow = slow]
<1>4. page' = [page EXCEPT ![g] = new]
  BY <1>3
<1>5. PageIsOwn(new)
  BY <1>1, <1>3, AnswerIsOwn
<1>6. ListingsTyped'
  BY <1>1, <1>2 DEF ListingsInv, ListingsTyped
<1> HIDE DEF new
<1> QED BY <1>2, <1>4, <1>5, <1>6, PageMoves, PagesKeep

\* What a listing leaves in the cache is marked late where its key is no longer the one that is stored.
LEMMA StoreListingKeeps == ASSUME ListingsInv, NEW g \in Pages, StoreListing(g) PROVE ListingsInv'
<1> DEFINE r == page[g]
           p == r.of
           new == Stored(r)
<1>1. PageIsOwn(r) /\ r.at = "store" /\ p \in Providers /\ r.got \in CanList(p) /\ r.key \in ListKeys
  BY DEF ListingsInv, StoreListing, PageIsOwn
<1>2. /\ lists' = [lists EXCEPT ![p] = new] /\ page' = [page EXCEPT ![g] = Given(r, r.got)]
      /\ UNCHANGED <<faults, apiKey, keyRoute, asked>>
  BY DEF StoreListing
<1>3. KeptIsOwn(p, new) /\ (p \in Hosted /\ ~new.late => new.key = apiKey)
  <2>1. /\ DOMAIN new = ListFields /\ new.models = r.got /\ new.key = r.key
        /\ new.fresh = ~(r.slow /\ r.got = <<>>) /\ new.late = (p \in Hosted /\ r.key # apiKey)
    BY DEF Stored, ListFields
  <2> HIDE DEF new, r
  <2>2. new.fresh \in BOOLEAN /\ new.late \in BOOLEAN
    BY <2>1
  <2>3. p \in Hosted /\ ~new.late => new.key = apiKey
    BY <2>1
  <2>4. KeptIsOwn(p, new)
    BY <1>1, <2>1, <2>2 DEF KeptIsOwn
  <2> QED BY <2>3, <2>4
<1> HIDE DEF new, r
<1>4. DOMAIN lists = Providers /\ \A q \in Providers : KeptIsOwn(q, lists[q])
  BY DEF ListingsInv
<1>5. lists'[p] = new /\ DOMAIN lists' = Providers /\ \A q \in Providers \ {p} : lists'[q] = lists[q]
  BY <1>1, <1>2, <1>4
<1>6. \A q \in Providers : KeptIsOwn(q, lists'[q])
  BY <1>3, <1>4, <1>5
<1>7. ListsFollowTheKey'
  BY <1>2, <1>3, <1>5 DEF ListingsInv, ListsFollowTheKey, Hosted
<1>8. DOMAIN page' = Pages /\ \A h \in Pages : PageIsOwn(page'[h])
  <2>1. PageIsOwn(Given(r, r.got))
    BY <1>1, GivenIsOwn
  <2> QED BY <1>2, <2>1, PageMoves
<1>9. ListingsTyped'
  BY <1>2 DEF ListingsInv, ListingsTyped
<1> QED BY <1>5, <1>6, <1>7, <1>8, <1>9 DEF ListingsInv

LEMMA ReplyKeeps == ASSUME ListingsInv, NEW g \in Pages, Reply(g) PROVE ListingsInv'
<1> DEFINE r == page[g]
           told == IF r.models = <<>> THEN faults[r.of] ELSE "none"
           new == [NoPage EXCEPT !.at = "answered", !.of = r.of, !.suggested = r.suggested, !.error = told]
<1>1. PageIsOwn(r) /\ r.of \in Providers
  BY DEF ListingsInv, Reply, PageIsOwn
<1>2. page' = [page EXCEPT ![g] = new] /\ UNCHANGED <<lists, faults, apiKey, keyRoute, asked>>
  BY DEF Reply
<1> HIDE DEF r, told
<1>3. /\ DOMAIN new = PageFields /\ new.at = "answered" /\ new.of = r.of
      /\ new.models = <<>> /\ new.got = <<>> /\ new.slow = FALSE /\ new.key = NoApiKey
  BY DEF NoPage, PageFields
<1> HIDE DEF new
<1>4. PageIsOwn(new)
  BY <1>1, <1>3, NothingIsListed DEF PageIsOwn, ListKeys
<1>5. ListingsTyped'
  BY <1>2 DEF ListingsInv, ListingsTyped
<1> QED BY <1>2, <1>4, <1>5, PageMoves, PagesKeep

\* A list that ages, or is dropped with the key it was asked for with.
LEMMA ListsAge ==
  ASSUME ListingsInv, (\E p \in Providers : ListExpires(p)) \/ InvalidateLists PROVE ListingsInv'
<1>1. DOMAIN lists = Providers /\ \A p \in Providers : KeptIsOwn(p, lists[p])
  BY DEF ListingsInv
<1>2. UNCHANGED <<faults, apiKey, page, asked>> /\ keyRoute' \in {keyRoute, "idle"}
  BY DEF ListExpires, InvalidateLists
<1>3. DOMAIN lists' = Providers
  BY <1>1 DEF ListExpires, InvalidateLists
<1>4. \A p \in Providers : lists'[p] = lists[p] \/ lists'[p] = [lists[p] EXCEPT !.fresh = FALSE]
  BY <1>1 DEF ListExpires, InvalidateLists
<1>5. ASSUME NEW p \in Providers
      PROVE  /\ KeptIsOwn(p, lists'[p]) /\ lists'[p].key = lists[p].key /\ lists'[p].late = lists[p].late
             /\ lists'[p].fresh => lists[p].fresh
  BY <1>1, <1>4 DEF KeptIsOwn, ListFields
<1>6. ListsFollowTheKey'
  <2>1. CASE InvalidateLists
    <3>1. \A p \in Hosted : p \in Providers /\ ~lists'[p].fresh
      BY <1>1, <2>1 DEF InvalidateLists, KeptIsOwn, ListFields, Hosted
    <3> QED BY <3>1 DEF ListsFollowTheKey
  <2>2. CASE \E p \in Providers : ListExpires(p)
    <3>1. keyRoute' = keyRoute
      BY <2>2 DEF ListExpires
    <3> QED BY <1>2, <1>5, <3>1 DEF ListingsInv, ListsFollowTheKey, Hosted
  <2> QED BY <2>1, <2>2
<1>7. ListingsTyped'
  BY <1>2 DEF ListingsInv, ListingsTyped
<1> QED BY <1>2, <1>3, <1>5, <1>6, <1>7 DEF ListingsInv

LEMMA ChangeKeyKeeps == ASSUME ListingsInv, NEW key \in ListKeys, ChangeKey(key) PROVE ListingsInv'
<1>1. apiKey' = key /\ keyRoute' = "changed" /\ UNCHANGED <<lists, faults, page>>
  BY DEF ChangeKey
<1>2. asked' \in [pages : 0..MaxAsked, keys : 0..MaxKeyChanges]
  <2>1. /\ asked \in [pages : 0..MaxAsked, keys : 0..MaxKeyChanges] /\ asked.keys < MaxKeyChanges
        /\ asked' = [asked EXCEPT !.keys = @ + 1] /\ MaxKeyChanges \in Nat
    BY ListingsAssumption DEF ListingsInv, ListingsTyped, ChangeKey
  <2> QED BY <2>1
<1> QED BY <1>1, <1>2 DEF ListingsInv, ListingsTyped, ListsFollowTheKey

\* The lists of models: types, that what is kept and what a request is given is of its own provider, and
\* that once a change of the key is over no list of the key before is taken but one that was on its way.
THEOREM ListsAreKept == ListingsSpec => [](ListingsTypeOK /\ ListsAreOwn /\ ListsFollowTheKey)
<1>1. ASSUME ListingsInv, [ListingsNext]_listingVars PROVE ListingsInv'
  <2>1. CASE UNCHANGED listingVars
    BY <1>1, <2>1 DEF listingVars, ListingsInv, ListingsTyped, ListsFollowTheKey
  <2>2. ASSUME NEW g \in Pages PROVE (\E p \in Providers, force \in BOOLEAN : AskPage(g, p, force)) => ListingsInv'
    BY <1>1, AskPageKeeps
  <2>3. ASSUME NEW g \in Pages,
               TakeCached(g) \/ AskProvider(g) \/ Probe(g) \/ ProbeGateway(g) \/ StoreListing(g) \/ Reply(g)
        PROVE  ListingsInv'
    BY <1>1, <2>3, TakeCachedKeeps, AskProviderKeeps, ProbeKeeps, ProbeGatewayKeeps, StoreListingKeeps, ReplyKeeps
  <2>4. ASSUME NEW key \in ListKeys, ChangeKey(key) PROVE ListingsInv'
    BY <1>1, <2>4, ChangeKeyKeeps
  <2> QED BY <1>1, <2>1, <2>2, <2>3, <2>4, ListsAge DEF ListingsNext, ListKeys
<1> QED BY <1>1, ListingsInitHolds, ListingsInvHolds, PTL DEF ListingsSpec
-----------------------------------------------------------------------------
(* MCStores lets one of them run and the others stand still, so each keeps *)
(* its own specification there.                                            *)

LEMMA EachKeepsItsSpec ==
  MCSpec => ReplaySpec /\ SessSpec /\ DataSpec /\ SkSpec /\ PromSpec /\ ModelsSpec
<1>1. MCInit => ReplayInit /\ SessInit /\ DataInit /\ SkInit /\ PromInit /\ ModelsInit
  BY DEF MCInit
<1>2. ASSUME [MCNext]_<<storeVars, intakeVars, part>>
      PROVE  /\ [ReplayNext]_replayVars /\ [SessNext]_sessVars /\ [DataNext]_dataVars
             /\ [SkNext]_skillVars /\ [PromNext]_promVars /\ [ModelsNext]_modelVars
  BY <1>2 DEF MCNext, storeVars
<1> QED BY <1>1, <1>2, PTL DEF MCSpec, ReplaySpec, SessSpec, DataSpec, SkSpec, PromSpec, ModelsSpec

\* What the run checks of types, for any of its constants: each of the stores keeps its own.
THEOREM StoresTyped == MCSpec => []TypesHold
<1>1. ReplayTypeOK /\ SessTypeOK /\ DataTypeOK /\ SkTypeOK /\ PromTypeOK /\ ModelsTypeOK => TypesHold
  BY DEF TypesHold
<1> QED BY <1>1, EachKeepsItsSpec, TypeCorrect, SessionsTyped, DataTypes, SkillsTyped, CandidatesTyped, ModelsTyped, PTL
=============================================================================
