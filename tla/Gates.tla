------------------------------- MODULE Gates -------------------------------
(***************************************************************************)
(* What an address is let in with.                                         *)
(*                                                                         *)
(* First the slots of the sockets of one address: ConnectionGate           *)
(* (api/deps.py) and the handshake of the chat socket (api/routes/chat.py).*)
(* A socket takes two slots before it is accepted, one of its session id   *)
(* at its address and one of the address, and gives both back when it      *)
(* ends.  A session id is whatever the client says it is: the ceiling of   *)
(* the address is what holds however many ids it claims.                   *)
(***************************************************************************)
EXTENDS Naturals, Sequences, FiniteSets, SequencesExt

CONSTANTS
    Conns,   \* sockets that ask to be let in
    Callers, \* session ids, as the clients of the address say them
    PerKey,  \* WS_MAX_CONCURRENT_PER_IP
    Burst,   \* RATE_LIMIT_IP_BURST_MULTIPLIER
    MaxLost  \* bound: sockets whose client goes while they open, or whose end never comes

ASSUME GatesAssumption == {PerKey, Burst} \subseteq Nat \ {0} /\ MaxLost \in Nat

VARIABLES
    sockets,  \* per socket: where it is, and as whom
    slots,   \* ws_gate._active
    ipSlots, \* ws_ip_gate._active of the address
    lost     \* history: sockets that will never give their slots back

gateVars == <<sockets, slots, ipSlots, lost>>

GatesTypeOK ==
    /\ sockets \in [Conns -> [at : {"away", "accepted", "refused", "greeted", "open", "closing", "gone"}, as : Callers]]
    /\ slots \in [Callers -> 0..PerKey] /\ ipSlots \in Nat
    /\ lost \subseteq Conns

GatesInit ==
    /\ \E as \in [Conns -> Callers] : sockets = [c \in Conns |-> [at |-> "away", as |-> as[c]]]
    /\ slots = [k \in Callers |-> 0] /\ ipSlots = 0 /\ lost = {}

GoesTo(c, at) == sockets' = [sockets EXCEPT ![c].at = at]
Loses(c) == Cardinality(lost) < MaxLost /\ lost' = lost \cup {c}

\* A release ignores a key that has no slot.
Given(n) == IF n = 0 THEN 0 ELSE n - 1
Acquire(k) == slots' = [slots EXCEPT ![k] = @ + 1] /\ ipSlots' = ipSlots + 1
Release(k) == slots' = [slots EXCEPT ![k] = Given(@)] /\ ipSlots' = Given(ipSlots)

KeyHasRoom(k) == slots[k] < PerKey
AddressHasRoom == ipSlots < PerKey * Burst

\* Both slots are taken before the first wait.  Where the address is full, that of
\* the id is given back, and the socket is closed before it was accepted.
Knock(c) ==
    LET k == sockets[c].as IN
    /\ sockets[c].at = "away"
    /\ \/ KeyHasRoom(k) /\ AddressHasRoom /\ Acquire(k) /\ GoesTo(c, "accepted")
       \/ ~(KeyHasRoom(k) /\ AddressHasRoom) /\ GoesTo(c, "gone") /\ UNCHANGED <<slots, ipSlots>>
    /\ UNCHANGED lost

\* What is sent first: the session's id, or that the API key is wrong.
Greet(c) ==
    /\ sockets[c].at = "accepted"
    /\ GoesTo(c, "greeted") \/ GoesTo(c, "refused")
    /\ UNCHANGED <<slots, ipSlots, lost>>

TurnAway(c) == sockets[c].at = "refused" /\ GoesTo(c, "gone") /\ Release(sockets[c].as) /\ UNCHANGED lost

\* The client is gone while the socket opens: the exception leaves the handler above its `try`.
LostOpening(c) ==
    /\ sockets[c].at \in {"accepted", "refused", "greeted"}
    /\ Loses(c) /\ GoesTo(c, "gone") /\ UNCHANGED <<slots, ipSlots>>

ServeFrames(c) == sockets[c].at = "greeted" /\ GoesTo(c, "open") /\ UNCHANGED <<slots, ipSlots, lost>>

\* The client leaves, or the handler fails: its turn is cancelled and awaited, and its queue stopped.
Departs(c) == sockets[c].at = "open" /\ GoesTo(c, "closing") /\ UNCHANGED <<slots, ipSlots, lost>>

\* The queue's stop may wait for ever (FrameQueue).
HangsClosing(c) == sockets[c].at = "closing" /\ Loses(c) /\ GoesTo(c, "gone") /\ UNCHANGED <<slots, ipSlots>>

GivesBack(c) == sockets[c].at = "closing" /\ GoesTo(c, "gone") /\ Release(sockets[c].as) /\ UNCHANGED lost

GatesNext ==
    \E c \in Conns :
        \/ Knock(c) \/ Greet(c) \/ TurnAway(c) \/ LostOpening(c)
        \/ ServeFrames(c) \/ Departs(c) \/ HangsClosing(c) \/ GivesBack(c)

GatesSpec == GatesInit /\ [][GatesNext]_gateVars

-----------------------------------------------------------------------------
(* Properties. *)

\* A socket that holds its slots: one still there, or one that was lost.
Holding(c) == sockets[c].at \notin {"away", "gone"} \/ c \in lost

\* Every slot that is taken is that of a socket still there, or of one that was lost: no way out of
\* the handshake and of the handler gives back one slot of two, both twice, or those of another.
SlotsAreSockets ==
    /\ \A k \in Callers : slots[k] = Cardinality({c \in Conns : sockets[c].as = k /\ Holding(c)})
    /\ ipSlots = Cardinality({c \in Conns : Holding(c)})

\* However many ids its clients claim, an address has no more sockets than its ceiling.
SocketCeiling == Cardinality({c \in Conns : Holding(c)}) <= PerKey * Burst

-----------------------------------------------------------------------------
(***************************************************************************)
(* Then how often an address may ask (SlidingWindowRateLimiter,            *)
(* api/deps.py, and the middleware of api/api.py).  A request is counted   *)
(* for its session id at its address and then for the address, in windows  *)
(* that slide with the clock.  A limiter that has met too many keys        *)
(* forgets those that are idle, and then those that were active least      *)
(* recently.                                                               *)
(***************************************************************************)
CONSTANTS
    Hosts,       \* addresses that send requests
    Tokens,      \* session ids, as clients say them
    PerToken,    \* RATE_LIMIT_MAX_REQUESTS
    IpBurst,     \* RATE_LIMIT_IP_BURST_MULTIPLIER
    Window,      \* RATE_LIMIT_WINDOW_SECONDS
    MaxKeys,     \* keys that a limiter remembers
    MaxClock,    \* bound: the time
    MaxRequests  \* bound: requests

ASSUME RateLimitsAssumption ==
    /\ {PerToken, IpBurst, Window, MaxKeys} \subseteq Nat \ {0}
    /\ {MaxClock, MaxRequests} \subseteq Nat

VARIABLES
    clock,
    hits,     \* rate_limiter._hits, by address and id
    ipHits,   \* ip_rate_limiter._hits, by address
    admitted, \* history: the requests that were let through
    forgotten \* history: <<address>> and <<address, id>> whose hits were dropped inside the window

limitVars == <<clock, hits, ipHits, admitted, forgotten>>

LimitsTypeOK ==
    /\ clock \in 0..MaxClock
    /\ DOMAIN hits \subseteq Hosts \X Tokens /\ DOMAIN ipHits \subseteq Hosts
    /\ admitted \in Seq([host : Hosts, token : Tokens, time : 0..MaxClock])
    /\ forgotten \subseteq {<<h>> : h \in Hosts} \cup (Hosts \X Tokens)

LimitsInit == clock = 0 /\ hits = <<>> /\ ipHits = <<>> /\ admitted = <<>> /\ forgotten = {}

-----------------------------------------------------------------------------
(* One limiter. *)

\* What is left of the hits of a key once those that are too old are taken from their front.
InWindow(times) ==
    LET recent == {i \in DOMAIN times : times[i] + Window >= clock}
    IN IF recent = {} THEN <<>> ELSE SubSeq(times, Min(recent), Len(times))

\* `self._hits[key]`: a key that is asked about is remembered, and loses what is too old.
Looked(log, k) ==
    [x \in DOMAIN log \cup {k} |->
        IF x # k THEN log[x] ELSE IF k \in DOMAIN log THEN InWindow(log[k]) ELSE <<>>]
Counted(log, k) == [Looked(log, k) EXCEPT ![k] = Append(@, clock)]

IsFull(log, k, most) == Len(Looked(log, k)[k]) >= most

Keeps(log, keys) == [k \in keys |-> log[k]]
Idle(log) == {k \in DOMAIN log : InWindow(log[k]) = <<>>}

\* The n keys that were active least recently.  Hits of one moment have an order that the
\* clock of the model does not tell, in which that of the request at hand is the last.
LeastRecent(log, n, asking) ==
    {gone \in SUBSET (DOMAIN log \ {asking}) :
        /\ Cardinality(gone) = n
        /\ \A k \in gone, other \in DOMAIN log \ gone : Last(log[k]) <= Last(log[other])}

\* _evict_idle, for a limiter that has come to remember too many.
Evicted(log, asking) ==
    LET active == Keeps(log, DOMAIN log \ Idle(log))
        over == Cardinality(DOMAIN active)
    IN IF Cardinality(DOMAIN log) <= MaxKeys THEN {log}
       ELSE IF over <= MaxKeys THEN {active}
       ELSE {Keeps(active, DOMAIN active \ gone) : gone \in LeastRecent(active, over - MaxKeys, asking)}

\* The keys with hits in the window that a change of a limiter leaves out.
Dropped(log, after) == (DOMAIN log \ DOMAIN after) \ Idle(log)

-----------------------------------------------------------------------------
(* Requests. *)

\* The id is asked before the address: what the address refuses has been counted for
\* its id.  One that is too large, or comes from another site, meets neither.
Incoming(host, token) ==
    LET key == <<host, token>> IN
    /\ Len(admitted) < MaxRequests
    /\ \/ /\ IsFull(hits, key, PerToken)
          /\ hits' = Looked(hits, key) /\ UNCHANGED <<ipHits, admitted, forgotten>>
       \/ /\ ~IsFull(hits, key, PerToken)
          /\ hits' \in Evicted(Counted(hits, key), key)
          /\ \/ /\ IsFull(ipHits, host, PerToken * IpBurst)
                /\ ipHits' = Looked(ipHits, host) /\ UNCHANGED admitted
             \/ /\ ~IsFull(ipHits, host, PerToken * IpBurst)
                /\ ipHits' \in Evicted(Counted(ipHits, host), host)
                /\ admitted' = Append(admitted, [host |-> host, token |-> token, time |-> clock])
          /\ forgotten' = forgotten \cup Dropped(hits, hits') \cup {<<h>> : h \in Dropped(ipHits, ipHits')}
    /\ UNCHANGED clock

Tick == clock < MaxClock /\ clock' = clock + 1 /\ UNCHANGED <<hits, ipHits, admitted, forgotten>>

LimitsNext == Tick \/ \E host \in Hosts, token \in Tokens : Incoming(host, token)

-----------------------------------------------------------------------------
(* Properties. *)

From(h, time) == {i \in DOMAIN admitted : admitted[i].host = h /\ admitted[i].time \in time..(time + Window)}

\* However many ids it claims, an address is let through no more often in any window than its
\* ceiling, and one id no more often than its share, unless a limiter forgot them inside of one.
CeilingsHold ==
    \A h \in Hosts, time \in 0..clock :
        /\ <<h>> \notin forgotten => Cardinality(From(h, time)) <= PerToken * IpBurst
        /\ \A s \in Tokens : <<h, s>> \notin forgotten =>
               Cardinality({i \in From(h, time) : admitted[i].token = s}) <= PerToken

\* A limiter remembers no more keys than it may, whoever sends.
MemoryIsBounded == Cardinality(DOMAIN hits) <= MaxKeys /\ Cardinality(DOMAIN ipHits) <= MaxKeys

\* Who was let through last is remembered, however many others there are.
LastIsRemembered == admitted # <<>> => Last(admitted).host \in DOMAIN ipHits

LimitsHold == CeilingsHold /\ MemoryIsBounded /\ LastIsRemembered
=============================================================================
