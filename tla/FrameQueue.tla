----------------------------- MODULE FrameQueue -----------------------------
(***************************************************************************)
(* The outbound side of one socket: WebSocketEmitter of api/routes/chat.py *)
(* with the asyncio.Queue it is built on.                                  *)
(*                                                                         *)
(* Producers (a turn, its parallel helpers, the receive loop) offer        *)
(* frames; one sender task takes them from a bounded queue; the handler    *)
(* stops the sender with a sentinel.  asyncio.Queue keeps a first-in       *)
(* first-out line of waiting putters, but a putter that was woken has to   *)
(* find room again when it runs, and joins the end of the line when        *)
(* another took its place.                                                 *)
(***************************************************************************)
EXTENDS Naturals, Sequences, FiniteSets, SequencesExt

CONSTANTS
  Producers,
  Capacity,     \* _HIGH_WATERMARK
  MaxFrames     \* bound: frames a producer offers

Stopper == "stop"            \* the handler inside stop()

ASSUME FrameAssumption == Capacity \in Nat \ {0} /\ MaxFrames \in Nat /\ Stopper \notin Producers

Callers == Producers \cup {Stopper}
Kinds == {"droppable", "critical", "terminal"}   \* _DROPPABLE, the others, _TERMINAL

VARIABLES
  queue,     \* frames [from, n]; the sentinel is from Stopper
  line,      \* Queue._putters: callers that wait for room
  woken,     \* callers whose putter was woken and that have not run since
  offered,   \* frames a producer has offered
  offer,     \* the kind of the frame a producer is waiting to put, or "none"
  closed,    \* WebSocketEmitter.closed
  sender,    \* the drain task
  hand,      \* the frame being sent
  got,       \* the last frame of a producer that reached the client
  stop,      \* where stop() is
  client,    \* "reading", "stalled" or "gone"
  lost,      \* history: producers whose last frame was a terminal one that was given up on
  passed     \* history: waiting producers that room made by the sender did not help

frameVars == << queue, line, woken, offered, offer, closed, sender, hand, got, stop, client, lost, passed >>
line_ == << line, woken >>

Frame == [from : Callers, n : 0..MaxFrames]
Sentinel == [from |-> Stopper, n |-> 0]

Full == Len(queue) >= Capacity
Waiting == ToSet(line) \cup woken
SenderOver == sender \in {"dead", "stopped"}

FrameTypeOK ==
  /\ queue \in Seq(Frame) /\ Len(queue) <= Capacity
  /\ line \in Seq(Callers) /\ IsInjective(line)
  /\ woken \subseteq Callers /\ woken \cap ToSet(line) = {}
  /\ Waiting = { p \in Producers : offer[p] # "none" } \cup (IF stop = "putting" THEN {Stopper} ELSE {})
  /\ offered \in [Producers -> 0..MaxFrames]
  /\ offer \in [Producers -> {"none", "critical", "terminal"}]
  /\ closed \in BOOLEAN /\ lost \subseteq Producers /\ passed \subseteq Producers
  /\ sender \in {"getting", "sending", "dead", "stopped"}
  /\ hand \in Frame
  /\ got \in [Producers -> 0..MaxFrames]
  /\ stop \in {"no", "putting", "joining", "returned"}
  /\ client \in {"reading", "stalled", "gone"}

FrameInit ==
  /\ queue = << >> /\ line = << >> /\ woken = {}
  /\ offered = [p \in Producers |-> 0]
  /\ offer = [p \in Producers |-> "none"]
  /\ closed = FALSE /\ sender = "getting" /\ hand = Sentinel
  /\ got = [p \in Producers |-> 0]
  /\ stop = "no" /\ client = "reading" /\ lost = {} /\ passed = {}

-----------------------------------------------------------------------------
(* asyncio.Queue.                                                          *)

\* _wakeup_next on the line of putters.
WakesNext ==
  IF line = << >> THEN UNCHANGED line_
  ELSE line' = Tail(line) /\ woken' = woken \cup {Head(line)}

-----------------------------------------------------------------------------
(* Producers: WebSocketEmitter.__call__.                                   *)

CanOffer(p) == offer[p] = "none" /\ ~closed /\ offered[p] < MaxFrames

\* A frame that was given up on is remembered until the next.
NewFrame(p) ==
  /\ offered' = [offered EXCEPT ![p] = @ + 1]
  /\ lost' = lost \ {p}

\* A closed emitter returns at once: nothing happens.
OfferQueued(p) ==
  /\ CanOffer(p) /\ ~Full
  /\ NewFrame(p)
  /\ queue' = Append(queue, [from |-> p, n |-> offered'[p]])
  /\ UNCHANGED << line_, offer, closed, sender, hand, got, stop, client, passed >>

\* A status or progress frame is dropped under backpressure.
OfferDropped(p) ==
  /\ CanOffer(p) /\ Full
  /\ NewFrame(p)
  /\ UNCHANGED << queue, line_, offer, closed, sender, hand, got, stop, client, passed >>

OfferWaits(p, kind) ==
  /\ CanOffer(p) /\ Full
  /\ NewFrame(p)
  /\ offer' = [offer EXCEPT ![p] = kind]
  /\ line' = Append(line, p)
  /\ UNCHANGED << queue, woken, closed, sender, hand, got, stop, client, passed >>

\* Faulty variant: a waiter that finds the queue full again gives up its turn but puts a new frame.
PutAgainOutOfOrder(p) ==
  /\ p \in woken /\ offer[p] # "none"
  /\ woken' = woken \ {p}
  /\ offer' = [offer EXCEPT ![p] = "none"]
  /\ queue' = << [from |-> p, n |-> offered[p]] >> \o queue
  /\ passed' = passed \ {p}
  /\ UNCHANGED << line, offered, closed, sender, hand, got, stop, client, lost >>

PutAgain(p) ==
  /\ p \in woken
  /\ woken' = woken \ {p}
  /\ IF Full THEN /\ line' = Append(line, p) /\ passed' = passed \cup {p}
                  /\ UNCHANGED << queue, offer >>
             ELSE /\ queue' = Append(queue, [from |-> p, n |-> offered[p]])
                  /\ offer' = [offer EXCEPT ![p] = "none"]
                  /\ passed' = passed \ {p}
                  /\ UNCHANGED line
  /\ UNCHANGED << offered, closed, sender, hand, got, stop, client, lost >>

\* Faulty variant: a putter that leaves keeps to itself the place it was given.
LeavesWithItsPlace(c) ==
  IF c \in woken
  THEN woken' = woken \ {c} /\ UNCHANGED line
  ELSE /\ \E i \in DOMAIN line : line[i] = c /\ line' = RemoveAt(line, i)
       /\ UNCHANGED woken

\* A putter that leaves hands a place it was given to the next in line.
Leaves(c) ==
  IF c \in woken
  THEN IF Full \/ line = << >>
       THEN woken' = woken \ {c} /\ UNCHANGED line
       ELSE woken' = (woken \ {c}) \cup {Head(line)} /\ line' = Tail(line)
  ELSE /\ \E i \in DOMAIN line : line[i] = c /\ line' = RemoveAt(line, i)
       /\ UNCHANGED woken

\* wait_for gives up after one second, or thirty for a terminal frame, whether the client reads or not.
PatienceEnds(p) ==
  /\ offer[p] # "none"
  /\ Leaves(p)
  /\ offer' = [offer EXCEPT ![p] = "none"]
  /\ lost' = IF offer[p] = "terminal" THEN lost \cup {p} ELSE lost
  /\ passed' = passed \ {p}
  /\ UNCHANGED << queue, offered, closed, sender, hand, got, stop, client >>

-----------------------------------------------------------------------------
(* The sender: WebSocketEmitter._drain.                                    *)

SenderGets ==
  /\ sender = "getting" /\ queue # << >>
  /\ queue' = Tail(queue)
  /\ hand' = Head(queue)
  /\ sender' = IF Head(queue) = Sentinel THEN "stopped" ELSE "sending"
  /\ WakesNext
  /\ passed' = passed \cup (ToSet(line') \cap Producers)
  /\ UNCHANGED << offered, offer, closed, got, stop, client, lost >>

SendDone ==
  /\ sender = "sending" /\ client = "reading"
  /\ sender' = "getting"
  /\ got' = [got EXCEPT ![hand.from] = hand.n]
  /\ UNCHANGED << queue, line_, offered, offer, closed, hand, stop, client, lost, passed >>

SendFails ==
  /\ sender = "sending" /\ client = "gone"
  /\ sender' = "dead" /\ closed' = TRUE
  /\ UNCHANGED << queue, line_, offered, offer, hand, got, stop, client, lost, passed >>

-----------------------------------------------------------------------------
(* The handler: WebSocketEmitter.stop, once its receive loop is over.      *)

Stop ==
  /\ stop = "no" /\ closed' = TRUE
  /\ IF Full THEN stop' = "putting" /\ line' = Append(line, Stopper) /\ UNCHANGED queue
             ELSE stop' = "joining" /\ queue' = Append(queue, Sentinel) /\ UNCHANGED line
  /\ UNCHANGED << woken, offered, offer, sender, hand, got, client, lost, passed >>

StopAgain ==
  /\ Stopper \in woken
  /\ woken' = woken \ {Stopper}
  /\ IF Full THEN line' = Append(line, Stopper) /\ UNCHANGED << queue, stop >>
             ELSE queue' = Append(queue, Sentinel) /\ stop' = "joining" /\ UNCHANGED line
  /\ UNCHANGED << offered, offer, closed, sender, hand, got, client, lost, passed >>

StopReturned ==
  /\ stop = "joining" /\ SenderOver
  /\ stop' = "returned"
  /\ UNCHANGED << queue, line_, offered, offer, closed, sender, hand, got, client, lost, passed >>

\* The client stops reading, comes back to it, or goes.
ClientChanges ==
  /\ client # "gone" /\ client' \in {"reading", "stalled", "gone"} \ {client}
  /\ UNCHANGED << queue, line_, offered, offer, closed, sender, hand, got, stop, lost, passed >>

FrameNext ==
  \/ \E p \in Producers : \/ OfferQueued(p) \/ OfferDropped(p) \/ PutAgain(p) \/ PatienceEnds(p)
                          \/ \E kind \in {"critical", "terminal"} : OfferWaits(p, kind)
  \/ SenderGets \/ SendDone \/ SendFails
  \/ Stop \/ StopAgain \/ StopReturned
  \/ ClientChanges

\* Tasks that are ready run; timers fire; a send to a client
\* that keeps reading, or keeps coming back to it, succeeds and one to a client that is gone fails.
\* Nobody owes the socket a client that reads.
FrameFairness ==
  /\ \A p \in Producers : WF_frameVars(PutAgain(p)) /\ WF_frameVars(PatienceEnds(p))
  /\ WF_frameVars(SenderGets) /\ SF_frameVars(SendDone) /\ WF_frameVars(SendFails)
  /\ WF_frameVars(StopAgain) /\ WF_frameVars(StopReturned)

FrameSpec == FrameInit /\ [][FrameNext]_frameVars /\ FrameFairness

-----------------------------------------------------------------------------
(* Properties.                                                             *)

\* A client gets the frames of one producer in the order they were offered, although waiters are
\* overtaken, time out and rejoin the line (WebSocketEmitter, asyncio.Queue).
FramesInOrder == [][\A p \in Producers : got'[p] # got[p] => got'[p] > got[p]]_frameVars

\* Nobody sleeps in line beside free room: there are at least as many woken as there are places,
\* whoever was overtaken, gave up after it was woken or rejoined the line (asyncio.Queue.put, and the
\* wait_for of __call__ that breaks it off).
RoomIsHandedOn == line # << >> => Capacity - Len(queue) <= Cardinality(woken)

\* What the comment in __call__ says of a terminal frame: "it is only given up on when the socket has
\* stopped draining altogether".  So no room was made while it waited.
OnlyGivenUpWhenStuck ==
  [][\A p \in lost' \ lost : client = "reading" /\ ~closed => p \notin passed]_frameVars

\* What is offered while the client goes on reading reaches it, is given up on, or the socket closes:
\* a terminal frame that got its place is not passed over for ever (__call__, _drain).
TerminalArrives ==
  \A p \in Producers : \A n \in 1..MaxFrames :
    offer[p] = "terminal" /\ offered[p] = n ~>
      got[p] >= n \/ p \in lost \/ closed \/ client # "reading"

\* No emit blocks a turn for ever, whatever the client, the sender and the other producers do.
EmitReturns == \A p \in Producers : offer[p] # "none" ~> offer[p] = "none"

\* What is offered arrives in order, a terminal frame unless it is given up on, and blocks nobody for
\* ever.
FramesArrive == FramesInOrder /\ TerminalArrives /\ EmitReturns

\* WebSocketEmitter.stop: "Signal the sender to flush and stop."  Once the client is gone it returns.
StopReturns == stop # "no" /\ client = "gone" ~> stop = "returned"
=============================================================================
