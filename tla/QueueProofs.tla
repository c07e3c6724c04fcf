---------------------------- MODULE QueueProofs ----------------------------
(***************************************************************************)
(* What TLAPS proves about what waits in line: the frames of a socket      *)
(* (FrameQueue), for any producers, any capacity and any number of frames, *)
(* and background jobs (JobQueue), for any jobs, slots and retries of one  *)
(* server, and for any jobs of any servers that pop from one list.         *)
(***************************************************************************)
EXTENDS FrameQueue, JobQueue, SequenceTheorems, FiniteSetTheorems, TLAPS

\* Frames of one producer are in the order they were offered, from what the client has over what is
\* being sent to what is queued, and none is newer than what the producer offered last, nor as new
\* as the frame it waits to put.
Bound == [p \in Producers |-> IF offer[p] = "none" THEN offered[p] ELSE offered[p] - 1]

Ordered ==
  /\ \A p \in Producers : got[p] <= Bound[p]
  /\ \A i \in 1..Len(queue) : queue[i].from # Stopper =>
       got[queue[i].from] < queue[i].n /\ queue[i].n <= Bound[queue[i].from]
  /\ \A i, j \in 1..Len(queue) :
       i < j /\ queue[i].from = queue[j].from /\ queue[i].from # Stopper => queue[i].n < queue[j].n
  /\ sender = "sending" =>
       /\ hand.from # Stopper /\ got[hand.from] < hand.n /\ hand.n <= Bound[hand.from]
       /\ \A i \in 1..Len(queue) : queue[i].from = hand.from => hand.n < queue[i].n

\* The sentinel is the handler's, and the emitter is closed before it is put; so it is closed when
\* the sender is over.
Ending ==
  /\ \A i \in 1..Len(queue) : queue[i].from = Stopper => queue[i] = Sentinel /\ closed
  /\ SenderOver => closed
  /\ stop # "no" => closed

\* Who waits is in the line once, or was woken, and has something to put.
Lined ==
  /\ line \in Seq(Callers) /\ IsInjective(line)
  /\ woken \subseteq Callers /\ woken \cap ToSet(line) = {}
  /\ Waiting = { p \in Producers : offer[p] # "none" } \cup (IF stop = "putting" THEN {Stopper} ELSE {})

Typed ==
  /\ queue \in Seq(Frame) /\ Len(queue) <= Capacity
  /\ offered \in [Producers -> 0..MaxFrames]
  /\ offer \in [Producers -> {"none", "critical", "terminal"}]
  /\ closed \in BOOLEAN /\ lost \subseteq Producers /\ passed \subseteq Producers
  /\ sender \in {"getting", "sending", "dead", "stopped"}
  /\ hand \in Frame
  /\ got \in [Producers -> 0..MaxFrames]
  /\ stop \in {"no", "putting", "joining", "returned"}
  /\ client \in {"reading", "stalled", "gone"}

\* Finitely many are woken at a time, so that they can be counted.
Handed == IsFiniteSet(woken) /\ RoomIsHandedOn

IInv == Typed /\ Lined /\ Ordered /\ Ending /\ Handed

-----------------------------------------------------------------------------
(* Lines of waiters.                                                       *)

\* The first leaves a line.
LEMMA TailOfLine ==
  ASSUME NEW S, NEW s \in Seq(S), s # << >>, IsInjective(s)
  PROVE  /\ Tail(s) \in Seq(S) /\ IsInjective(Tail(s))
         /\ Head(s) \in ToSet(s) /\ Head(s) \in S
         /\ ToSet(Tail(s)) = ToSet(s) \ {Head(s)}
<1>1. /\ Tail(s) \in Seq(S) /\ Len(Tail(s)) = Len(s) - 1 /\ Len(s) \in Nat \ {0}
      /\ DOMAIN s = 1..Len(s) /\ DOMAIN Tail(s) = 1..Len(s) - 1
      /\ Head(s) = s[1] /\ \A i \in 1..Len(s) - 1 : Tail(s)[i] = s[i + 1]
  OBVIOUS
<1>2. IsInjective(Tail(s))
  BY <1>1 DEF IsInjective
<1>3. Head(s) \in ToSet(s) /\ Head(s) \in S
  BY <1>1 DEF ToSet
<1>4. ASSUME NEW x PROVE x \in ToSet(Tail(s)) <=> x \in ToSet(s) \ {Head(s)}
  <2>1. ASSUME x \in ToSet(Tail(s)) PROVE x \in ToSet(s) \ {Head(s)}
    <3>1. PICK i \in 1..Len(s) - 1 : x = s[i + 1]
      BY <1>1, <2>1 DEF ToSet
    <3>2. i + 1 \in 1..Len(s) /\ 1 \in 1..Len(s) /\ i + 1 # 1
      BY <1>1
    <3> QED
      BY <1>1, <3>1, <3>2 DEF ToSet, IsInjective
  <2>2. ASSUME x \in ToSet(s) \ {Head(s)} PROVE x \in ToSet(Tail(s))
    <3>1. PICK j \in 1..Len(s) : x = s[j]
      BY <1>1, <2>2 DEF ToSet
    <3>2. j # 1 /\ j - 1 \in 1..Len(s) - 1 /\ (j - 1) + 1 = j
      BY <1>1, <2>2, <3>1
    <3>3. Tail(s)[j - 1] = x
      BY <1>1, <3>1, <3>2
    <3> QED
      BY <1>1, <3>2, <3>3 DEF ToSet
  <2> QED
    BY <2>1, <2>2
<1> QED
  BY <1>1, <1>2, <1>3, <1>4

\* One who is not in a line joins it.
LEMMA AppendToLine ==
  ASSUME NEW S, NEW s \in Seq(S), IsInjective(s), NEW c \in S, c \notin ToSet(s)
  PROVE  /\ Append(s, c) \in Seq(S) /\ IsInjective(Append(s, c))
         /\ ToSet(Append(s, c)) = ToSet(s) \cup {c}
<1>1. /\ Append(s, c) \in Seq(S) /\ Len(s) \in Nat
      /\ DOMAIN s = 1..Len(s) /\ DOMAIN Append(s, c) = 1..Len(s) + 1
      /\ Append(s, c)[Len(s) + 1] = c /\ \A i \in 1..Len(s) : Append(s, c)[i] = s[i]
  OBVIOUS
<1>2. \A i \in 1..Len(s) + 1 : i \in 1..Len(s) \/ i = Len(s) + 1
  BY <1>1
<1>3. IsInjective(Append(s, c))
  BY <1>1, <1>2 DEF IsInjective, ToSet
<1>4. ASSUME NEW x PROVE x \in ToSet(Append(s, c)) <=> x \in ToSet(s) \cup {c}
  <2>1. x \in ToSet(Append(s, c)) => x \in ToSet(s) \cup {c}
    BY <1>1, <1>2 DEF ToSet
  <2>2. Len(s) + 1 \in 1..Len(s) + 1 /\ 1..Len(s) \subseteq 1..Len(s) + 1
    BY <1>1
  <2>3. x \in ToSet(s) \cup {c} => x \in ToSet(Append(s, c))
    BY <1>1, <2>2 DEF ToSet
  <2> QED
    BY <2>1, <2>3
<1> QED
  BY <1>1, <1>3, <1>4

\* One leaves from anywhere in a line.
LEMMA RemoveFromLine ==
  ASSUME NEW S, NEW s \in Seq(S), IsInjective(s), NEW k \in DOMAIN s
  PROVE  /\ RemoveAt(s, k) \in Seq(S) /\ IsInjective(RemoveAt(s, k))
         /\ ToSet(RemoveAt(s, k)) = ToSet(s) \ {s[k]}
<1> DEFINE r == RemoveAt(s, k)
           n == Len(s)
<1>1. n \in Nat \ {0} /\ DOMAIN s = 1..n /\ k \in 1..n
  OBVIOUS
<1>2. /\ SubSeq(s, 1, k - 1) \in Seq(S) /\ Len(SubSeq(s, 1, k - 1)) = k - 1
      /\ \A i \in 1..k - 1 : SubSeq(s, 1, k - 1)[i] = s[i]
      /\ SubSeq(s, k + 1, n) \in Seq(S) /\ Len(SubSeq(s, k + 1, n)) = n - k
      /\ \A i \in 1..n - k : SubSeq(s, k + 1, n)[i] = s[k + i]
  BY SMTT(30), <1>1
<1>3. /\ r \in Seq(S) /\ DOMAIN r = 1..n - 1
      /\ \A i \in 1..n - 1 : r[i] = IF i < k THEN s[i] ELSE s[i + 1]
  <2> DEFINE u == SubSeq(s, 1, k - 1)
             v == SubSeq(s, k + 1, n)
  <2>1. r = u \o v
    BY DEF RemoveAt
  <2>2. u \in Seq(S) /\ v \in Seq(S) /\ Len(u) = k - 1 /\ Len(v) = n - k
    BY <1>2
  <2>3. \A i \in 1..k - 1 : u[i] = s[i]
    BY <1>2
  <2>4. \A i \in 1..n - k : v[i] = s[k + i]
    BY <1>2
  <2> HIDE DEF r, u, v
  <2>5. u \o v \in Seq(S) /\ Len(u \o v) = n - 1 /\ DOMAIN (u \o v) = 1..n - 1
    <3>1. u \o v \in Seq(S) /\ Len(u \o v) = Len(u) + Len(v)
      BY <2>2, ConcatProperties
    <3>2. Len(u) + Len(v) = n - 1
      BY <1>1, <2>2
    <3>3. DOMAIN (u \o v) = 1..Len(u \o v)
      BY <3>1
    <3> QED
      BY <3>1, <3>2, <3>3
  <2>6. ASSUME NEW i \in 1..n - 1 PROVE (u \o v)[i] = IF i < k THEN s[i] ELSE s[i + 1]
    <3>1. CASE i < k
      <4>1. i \in 1..Len(u)
        BY <1>1, <2>2, <3>1
      <4>2. (u \o v)[i] = u[i]
        BY <2>2, <4>1
      <4> QED
        BY <2>2, <2>3, <3>1, <4>1, <4>2
    <3>2. CASE ~(i < k)
      <4>1. i - (k - 1) \in 1..n - k /\ k + (i - (k - 1)) = i + 1
        BY <1>1, <3>2
      <4>2. (u \o v)[i] = v[i - (k - 1)]
        BY <1>1, <2>2, <3>2
      <4> QED
        BY <2>4, <3>2, <4>1, <4>2
    <3> QED
      BY <3>1, <3>2
  <2> QED
    BY <2>1, <2>5, <2>6
<1> HIDE DEF r
<1>4. IsInjective(r)
  <2> SUFFICES ASSUME NEW i \in 1..n - 1, NEW j \in 1..n - 1, r[i] = r[j] PROVE i = j
    BY <1>3 DEF IsInjective
  <2> DEFINE at(m) == IF m < k THEN m ELSE m + 1
  <2>1. at(i) \in 1..n /\ at(j) \in 1..n /\ (at(i) = at(j) => i = j)
    BY <1>1
  <2>2. r[i] = s[at(i)] /\ r[j] = s[at(j)]
    BY <1>3
  <2> QED
    BY <1>1, <2>1, <2>2 DEF IsInjective
<1>5. ASSUME NEW x PROVE x \in ToSet(r) <=> x \in ToSet(s) \ {s[k]}
  <2>1. ASSUME x \in ToSet(r) PROVE x \in ToSet(s) \ {s[k]}
    <3>1. PICK i \in 1..n - 1 : x = IF i < k THEN s[i] ELSE s[i + 1]
      BY <1>3, <2>1 DEF ToSet
    <3>2. i \in 1..n /\ i + 1 \in 1..n /\ (i < k => i # k) /\ (~(i < k) => i + 1 # k)
      BY <1>1
    <3> QED
      BY <1>1, <3>1, <3>2 DEF ToSet, IsInjective
  <2>2. ASSUME x \in ToSet(s) \ {s[k]} PROVE x \in ToSet(r)
    <3>1. PICK j \in 1..n : x = s[j] /\ j # k
      BY <1>1, <2>2 DEF ToSet
    <3>2. CASE j < k
      <4>1. j \in 1..n - 1 /\ r[j] = x
        BY <1>1, <1>3, <3>1, <3>2
      <4> QED
        BY <1>3, <4>1 DEF ToSet
    <3>3. CASE j > k
      <4>1. j - 1 \in 1..n - 1 /\ ~(j - 1 < k) /\ (j - 1) + 1 = j
        BY <1>1, <3>1, <3>3
      <4>2. r[j - 1] = x
        BY <1>3, <3>1, <4>1
      <4> QED
        BY <1>3, <4>1, <4>2 DEF ToSet
    <3> QED
      BY <1>1, <3>1, <3>2, <3>3
  <2> QED
    BY <2>1, <2>2
<1> QED
  BY <1>3, <1>4, <1>5 DEF r

-----------------------------------------------------------------------------
(* Invariance.                                                             *)

LEMMA InitHolds == FrameInit => IInv
<1> SUFFICES ASSUME FrameInit PROVE IInv
  OBVIOUS
<1>1. Typed
  <2>1. queue \in Seq(Frame) /\ Len(queue) <= Capacity
    BY FrameAssumption DEF FrameInit
  <2>2. hand \in Frame
    BY FrameAssumption DEF FrameInit, Frame, Sentinel, Callers
  <2>3. 0 \in 0..MaxFrames
    BY FrameAssumption
  <2>4. offered \in [Producers -> 0..MaxFrames] /\ got \in [Producers -> 0..MaxFrames]
    BY <2>3 DEF FrameInit
  <2> QED
    BY <2>1, <2>2, <2>4 DEF FrameInit, Typed
<1>2. Lined
  BY DEF FrameInit, Lined, IsInjective, Waiting, ToSet
<1>3. Ordered
  BY DEF FrameInit, Ordered, Bound
<1>4. Ending /\ Handed
  BY FS_EmptySet DEF FrameInit, Ending, SenderOver, Handed, RoomIsHandedOn
<1> QED
  BY <1>1, <1>2, <1>3, <1>4 DEF IInv

\* The lines of waiters, step by step.
LEMMA LinedStep ==
  ASSUME IInv, FrameNext
  PROVE  Lined'
<1> USE DEF IInv, Lined
<1>0. Stopper \notin Producers /\ Stopper \in Callers /\ Producers \subseteq Callers
  BY FrameAssumption DEF Callers
<1>a. \A p \in Producers : p \in Waiting <=> offer[p] # "none"
  BY <1>0
<1>b. Stopper \in Waiting <=> stop = "putting"
  BY <1>0
<1>1. ASSUME NEW p \in Producers, OfferQueued(p) \/ OfferDropped(p) PROVE Lined'
  BY <1>1 DEF OfferQueued, OfferDropped, NewFrame, line_, Waiting
<1>2. ASSUME NEW p \in Producers, NEW kind \in {"critical", "terminal"}, OfferWaits(p, kind) PROVE Lined'
  <2>1. p \notin Waiting /\ line' = Append(line, p) /\ woken' = woken /\ stop' = stop
        /\ offer' = [offer EXCEPT ![p] = kind]
    BY <1>2, <1>a DEF OfferWaits, NewFrame, CanOffer
  <2>2. line' \in Seq(Callers) /\ IsInjective(line') /\ ToSet(line') = ToSet(line) \cup {p}
    BY <2>1, <1>0, AppendToLine DEF Waiting
  <2>3. Waiting' = Waiting \cup {p}
    BY <2>1, <2>2 DEF Waiting
  <2>4. { q \in Producers : offer[q] # "none" }' = { q \in Producers : offer[q] # "none" } \cup {p}
    BY <2>1 DEF Typed
  <2> QED
    BY <2>1, <2>2, <2>3, <2>4 DEF Waiting
<1>3. ASSUME NEW p \in Producers, PutAgain(p) PROVE Lined'
  <2>1. p \in woken /\ p \notin ToSet(line) /\ woken' = woken \ {p} /\ stop' = stop /\ offer[p] # "none"
    BY <1>3, <1>a DEF PutAgain, Waiting
  <2>2. CASE Full
    <3>1. line' = Append(line, p) /\ offer' = offer
      BY <1>3, <2>2 DEF PutAgain
    <3>2. line' \in Seq(Callers) /\ IsInjective(line') /\ ToSet(line') = ToSet(line) \cup {p}
      BY <2>1, <3>1, <1>0, AppendToLine
    <3>3. Waiting' = Waiting
      BY <2>1, <3>2 DEF Waiting
    <3> QED
      BY <2>1, <3>1, <3>2, <3>3
  <2>3. CASE ~Full
    <3>1. line' = line /\ offer' = [offer EXCEPT ![p] = "none"]
      BY <1>3, <2>3 DEF PutAgain
    <3>2. Waiting' = Waiting \ {p}
      BY <2>1, <3>1 DEF Waiting
    <3>3. { q \in Producers : offer[q] # "none" }' = { q \in Producers : offer[q] # "none" } \ {p}
      BY <3>1 DEF Typed
    <3>4. Waiting' = { q \in Producers : offer'[q] # "none" } \cup (IF stop' = "putting" THEN {Stopper} ELSE {})
      BY <1>0, <2>1, <3>2, <3>3
    <3> QED
      BY <2>1, <3>1, <3>4
  <2> QED
    BY <2>2, <2>3
<1>4. ASSUME NEW p \in Producers, PatienceEnds(p) PROVE Lined'
  <2>1. offer[p] # "none" /\ Leaves(p) /\ offer' = [offer EXCEPT ![p] = "none"] /\ stop' = stop /\ p \in Waiting
    BY <1>4, <1>a DEF PatienceEnds
  <2>2. /\ line' \in Seq(Callers) /\ IsInjective(line')
        /\ woken' \subseteq Callers /\ woken' \cap ToSet(line') = {}
        /\ Waiting' = Waiting \ {p}
    <3>1. CASE p \in woken /\ (Full \/ line = << >>)
      <4>1. woken' = woken \ {p} /\ line' = line
        BY <2>1, <3>1 DEF Leaves
      <4> QED
        BY <3>1, <4>1 DEF Waiting
    <3>2. CASE p \in woken /\ ~(Full \/ line = << >>)
      <4>1. woken' = (woken \ {p}) \cup {Head(line)} /\ line' = Tail(line)
        BY <2>1, <3>2 DEF Leaves
      <4>2. /\ line' \in Seq(Callers) /\ IsInjective(line') /\ Head(line) \in ToSet(line)
            /\ Head(line) \in Callers /\ ToSet(line') = ToSet(line) \ {Head(line)}
        BY <3>2, <4>1, TailOfLine
      <4> QED
        BY <3>2, <4>1, <4>2 DEF Waiting
    <3>3. CASE p \notin woken
      <4>1. PICK i \in DOMAIN line : line[i] = p /\ line' = RemoveAt(line, i)
        BY <2>1, <3>3 DEF Leaves
      <4>2. woken' = woken
        BY <2>1, <3>3 DEF Leaves
      <4>3. line' \in Seq(Callers) /\ IsInjective(line') /\ ToSet(line') = ToSet(line) \ {p}
        BY <4>1, RemoveFromLine
      <4> QED
        BY <3>3, <4>2, <4>3 DEF Waiting
    <3> QED
      BY <3>1, <3>2, <3>3
  <2>3. { q \in Producers : offer[q] # "none" }' = { q \in Producers : offer[q] # "none" } \ {p}
    BY <2>1 DEF Typed
  <2>4. Waiting' = { q \in Producers : offer'[q] # "none" } \cup (IF stop' = "putting" THEN {Stopper} ELSE {})
    BY <1>0, <2>1, <2>2, <2>3
  <2> QED
    BY <2>2, <2>4
<1>5. CASE SenderGets
  <2>1. WakesNext /\ offer' = offer /\ stop' = stop
    BY <1>5 DEF SenderGets
  <2>2. CASE line = << >>
    BY <2>1, <2>2 DEF WakesNext, line_, Waiting
  <2>3. CASE line # << >>
    <3>1. line' = Tail(line) /\ woken' = woken \cup {Head(line)}
      BY <2>1, <2>3 DEF WakesNext
    <3>2. /\ line' \in Seq(Callers) /\ IsInjective(line') /\ Head(line) \in ToSet(line)
          /\ Head(line) \in Callers /\ ToSet(line') = ToSet(line) \ {Head(line)}
      BY <2>3, <3>1, TailOfLine
    <3>3. Waiting' = Waiting
      BY <3>1, <3>2 DEF Waiting
    <3> QED
      BY <2>1, <3>1, <3>2, <3>3
  <2> QED
    BY <2>2, <2>3
<1>6. CASE Stop
  <2>1. Stopper \notin Waiting /\ woken' = woken /\ offer' = offer
    BY <1>6, <1>b DEF Stop
  <2>2. CASE Full
    <3>1. line' = Append(line, Stopper) /\ stop' = "putting"
      BY <1>6, <2>2 DEF Stop
    <3>2. line' \in Seq(Callers) /\ IsInjective(line') /\ ToSet(line') = ToSet(line) \cup {Stopper}
      BY <2>1, <3>1, <1>0, AppendToLine DEF Waiting
    <3>3. Waiting' = Waiting \cup {Stopper}
      BY <2>1, <3>2 DEF Waiting
    <3> QED
      BY <1>6, <2>1, <3>1, <3>2, <3>3 DEF Stop, Waiting
  <2>3. CASE ~Full
    BY <1>6, <2>1, <2>3 DEF Stop, Waiting
  <2> QED
    BY <2>2, <2>3
<1>7. CASE StopAgain
  <2>1. Stopper \in woken /\ Stopper \notin ToSet(line) /\ woken' = woken \ {Stopper} /\ offer' = offer /\ stop = "putting"
    BY <1>7, <1>b DEF StopAgain, Waiting
  <2>2. CASE Full
    <3>1. line' = Append(line, Stopper) /\ stop' = stop
      BY <1>7, <2>2 DEF StopAgain
    <3>2. line' \in Seq(Callers) /\ IsInjective(line') /\ ToSet(line') = ToSet(line) \cup {Stopper}
      BY <2>1, <3>1, <1>0, AppendToLine
    <3>3. Waiting' = Waiting
      BY <2>1, <3>2 DEF Waiting
    <3> QED
      BY <2>1, <3>1, <3>2, <3>3
  <2>3. CASE ~Full
    <3>1. line' = line /\ stop' = "joining"
      BY <1>7, <2>3 DEF StopAgain
    <3>2. Waiting' = Waiting \ {Stopper}
      BY <2>1, <3>1 DEF Waiting
    <3>3. Waiting' = { q \in Producers : offer'[q] # "none" }
      BY <1>0, <2>1, <3>2
    <3> QED
      BY <2>1, <3>1, <3>3
  <2> QED
    BY <2>2, <2>3
<1>8. CASE SendDone \/ SendFails \/ StopReturned \/ ClientChanges
  BY <1>8 DEF SendDone, SendFails, StopReturned, ClientChanges, line_, Waiting
<1> QED
  BY <1>1, <1>2, <1>3, <1>4, <1>5, <1>6, <1>7, <1>8 DEF FrameNext

\* A frame at the end of the queue.
LEMMA QueueGrows ==
  ASSUME NEW q \in Seq(Frame), NEW f \in Frame
  PROVE  /\ Append(q, f) \in Seq(Frame) /\ Len(Append(q, f)) = Len(q) + 1 /\ Len(q) \in Nat
         /\ Append(q, f)[Len(q) + 1] = f
         /\ \A i \in 1..Len(q) : Append(q, f)[i] = q[i] /\ q[i] \in Frame
         /\ \A i \in 1..Len(q) + 1 : i \in 1..Len(q) \/ i = Len(q) + 1
<1>1. Len(q) \in Nat
  OBVIOUS
<1>2. \A i \in 1..Len(q) + 1 : i \in 1..Len(q) \/ i = Len(q) + 1
  BY <1>1
<1> QED
  BY <1>1, <1>2

\* The first frame is taken.
LEMMA QueueShrinks ==
  ASSUME NEW q \in Seq(Frame), q # << >>
  PROVE  /\ Tail(q) \in Seq(Frame) /\ Len(Tail(q)) = Len(q) - 1 /\ Len(q) \in Nat \ {0}
         /\ Head(q) = q[1] /\ Head(q) \in Frame
         /\ \A i \in 1..Len(q) - 1 : Tail(q)[i] = q[i + 1] /\ i + 1 \in 1..Len(q) /\ 1 < i + 1
<1>1. Len(q) \in Nat \ {0}
  OBVIOUS
<1>2. \A i \in 1..Len(q) - 1 : i + 1 \in 1..Len(q) /\ 1 < i + 1
  BY <1>1
<1> QED
  BY <1>1, <1>2

LEMMA TypedStep ==
  ASSUME IInv, FrameNext
  PROVE  Typed'
<1> USE DEF IInv, Typed
<1>0. /\ MaxFrames \in Nat /\ Capacity \in Nat \ {0}
      /\ Stopper \notin Producers /\ Sentinel \in Frame
      /\ \A p \in Producers, n \in 0..MaxFrames : [from |-> p, n |-> n] \in Frame
  BY FrameAssumption DEF Frame, Sentinel, Callers
<1>1. ASSUME NEW p \in Producers, OfferQueued(p) PROVE Typed'
  <2>1. offered[p] \in 0..MaxFrames /\ offered[p] < MaxFrames
    BY <1>1 DEF OfferQueued, NewFrame, CanOffer
  <2>2. offered[p] + 1 \in 0..MaxFrames
    BY <2>1, <1>0
  <2>3. offered' \in [Producers -> 0..MaxFrames] /\ offered'[p] = offered[p] + 1
    BY <1>1, <2>2 DEF OfferQueued, NewFrame
  <2>4. Len(queue) < Capacity
    BY <1>1, <1>0 DEF OfferQueued, NewFrame, Full
  <2>5. queue' \in Seq(Frame) /\ Len(queue') <= Capacity
    BY <1>0, <1>1, <2>2, <2>3, <2>4, QueueGrows DEF OfferQueued, NewFrame
  <2> QED
    BY <1>1, <2>3, <2>5 DEF OfferQueued, NewFrame
<1>2. ASSUME NEW p \in Producers, OfferDropped(p) PROVE Typed'
  <2>1. offered[p] + 1 \in 0..MaxFrames
    BY <1>0, <1>2 DEF OfferDropped, NewFrame, CanOffer
  <2> QED
    BY <1>2, <2>1 DEF OfferDropped, NewFrame
<1>3. ASSUME NEW p \in Producers, NEW kind \in {"critical", "terminal"}, OfferWaits(p, kind) PROVE Typed'
  <2>1. offered[p] + 1 \in 0..MaxFrames
    BY <1>0, <1>3 DEF OfferWaits, NewFrame, CanOffer
  <2> QED
    BY <1>3, <2>1 DEF OfferWaits, NewFrame
<1>4. ASSUME NEW p \in Producers, PutAgain(p) PROVE Typed'
  <2>1. CASE Full
    BY <1>4, <2>1 DEF PutAgain
  <2>2. CASE ~Full
    <3>1. queue' = Append(queue, [from |-> p, n |-> offered[p]]) /\ offer' = [offer EXCEPT ![p] = "none"]
      BY <1>4, <2>2 DEF PutAgain
    <3>2. Len(queue) < Capacity
      BY <1>0, <2>2 DEF Full
    <3>3. queue' \in Seq(Frame) /\ Len(queue') <= Capacity
      BY <1>0, <3>1, <3>2, QueueGrows
    <3> QED
      BY <1>4, <3>1, <3>3 DEF PutAgain
  <2> QED
    BY <2>1, <2>2
<1>5. ASSUME NEW p \in Producers, PatienceEnds(p) PROVE Typed'
  BY <1>5 DEF PatienceEnds
<1>6. CASE SenderGets
  <2>1. queue' = Tail(queue) /\ hand' = Head(queue) /\ queue # << >>
    BY <1>6 DEF SenderGets
  <2>2. queue' \in Seq(Frame) /\ Len(queue') <= Capacity /\ hand' \in Frame
    BY <1>0, <2>1, QueueShrinks
  <2> QED
    BY <1>6, <2>2 DEF SenderGets
<1>7. CASE SendDone
  <2>1. hand.n \in 0..MaxFrames
    BY DEF Frame
  <2> QED
    BY <1>7, <2>1 DEF SendDone
<1>8. CASE Stop \/ StopAgain
  <2>1. CASE Full
    BY <1>8, <2>1 DEF Stop, StopAgain
  <2>2. CASE ~Full
    <3>1. queue' = Append(queue, Sentinel)
      BY <1>8, <2>2 DEF Stop, StopAgain
    <3>2. Len(queue) < Capacity
      BY <1>0, <2>2 DEF Full
    <3>3. queue' \in Seq(Frame) /\ Len(queue') <= Capacity
      BY <1>0, <3>1, <3>2, QueueGrows
    <3> QED
      BY <1>8, <2>2, <3>3 DEF Stop, StopAgain
  <2> QED
    BY <2>1, <2>2
<1>9. CASE SendFails \/ StopReturned \/ ClientChanges
  BY <1>9 DEF SendFails, StopReturned, ClientChanges
<1> QED
  BY <1>1, <1>2, <1>3, <1>4, <1>5, <1>6, <1>7, <1>8, <1>9 DEF FrameNext

\* The emitter is closed before the sentinel is put.
LEMMA EndingStep ==
  ASSUME IInv, FrameNext
  PROVE  Ending'
<1> USE DEF IInv, Ending
<1>0. /\ Stopper \notin Producers /\ Sentinel \in Frame
      /\ \A p \in Producers, n \in 0..MaxFrames : [from |-> p, n |-> n] \in Frame /\ [from |-> p, n |-> n].from # Stopper
  BY FrameAssumption DEF Frame, Sentinel, Callers
<1>1. ASSUME NEW f \in Frame, queue' = Append(queue, f), f.from = Stopper => f = Sentinel /\ closed', closed => closed'
      PROVE  \A i \in 1..Len(queue') : queue'[i].from = Stopper => queue'[i] = Sentinel /\ closed'
  BY <1>1, QueueGrows DEF Typed
<1>2. ASSUME NEW p \in Producers, OfferQueued(p) PROVE Ending'
  <2>1. offered'[p] \in 0..MaxFrames /\ queue' = Append(queue, [from |-> p, n |-> offered'[p]])
    BY <1>2, TypedStep DEF OfferQueued, NewFrame, Typed
  <2> QED
    BY <1>0, <1>1, <1>2, <2>1 DEF OfferQueued, NewFrame, SenderOver
<1>3. ASSUME NEW p \in Producers, PutAgain(p) PROVE Ending'
  <2>1. CASE Full
    BY <1>3, <2>1 DEF PutAgain, SenderOver
  <2>2. CASE ~Full
    <3>1. offered[p] \in 0..MaxFrames /\ queue' = Append(queue, [from |-> p, n |-> offered[p]])
      BY <1>3, <2>2 DEF PutAgain, Typed
    <3> QED
      BY <1>0, <1>1, <1>3, <3>1 DEF PutAgain, SenderOver
  <2> QED
    BY <2>1, <2>2
<1>4. ASSUME NEW p \in Producers, PatienceEnds(p) PROVE Ending'
  BY <1>4 DEF PatienceEnds, SenderOver
<1>5. CASE SenderGets
  <2>1. queue' = Tail(queue) /\ queue # << >> /\ closed' = closed /\ stop' = stop
        /\ sender' = IF Head(queue) = Sentinel THEN "stopped" ELSE "sending"
    BY <1>5 DEF SenderGets
  <2>2. \A i \in 1..Len(queue') : queue'[i].from = Stopper => queue'[i] = Sentinel /\ closed'
    BY <2>1, QueueShrinks DEF Typed
  <2>3. Head(queue) = Sentinel => closed
    <3>1. Head(queue) = queue[1] /\ 1 \in 1..Len(queue)
      BY <2>1, QueueShrinks DEF Typed
    <3>2. Sentinel.from = Stopper
      BY DEF Sentinel
    <3> QED
      BY <3>1, <3>2
  <2> QED
    BY <2>1, <2>2, <2>3 DEF SenderOver
<1>6. CASE Stop \/ StopAgain
  <2>0. closed' /\ lost' = lost /\ sender' = sender
    <3>1. CASE Stop
      BY <3>1 DEF Stop
    <3>2. CASE StopAgain
      <4>1. Stopper \in Waiting /\ Stopper \notin Producers
        BY <3>2, FrameAssumption DEF StopAgain, Waiting
      <4>2. stop = "putting"
        BY <4>1 DEF Lined
      <4> QED
        BY <3>2, <4>2 DEF StopAgain
    <3> QED
      BY <1>6, <3>1, <3>2
  <2>1. CASE Full
    BY <1>6, <2>0, <2>1 DEF Stop, StopAgain, SenderOver
  <2>2. CASE ~Full
    <3>1. queue' = Append(queue, Sentinel)
      BY <1>6, <2>2 DEF Stop, StopAgain
    <3> QED
      BY <1>0, <1>1, <2>0, <3>1
  <2> QED
    BY <2>1, <2>2
<1>7. CASE \/ SendDone \/ SendFails \/ StopReturned \/ ClientChanges
           \/ \E p \in Producers : OfferDropped(p) \/ \E kind \in {"critical", "terminal"} : OfferWaits(p, kind)
  BY <1>7 DEF SendDone, SendFails, StopReturned, ClientChanges, OfferDropped, OfferWaits, NewFrame, SenderOver
<1> QED
  BY <1>2, <1>3, <1>4, <1>5, <1>6, <1>7 DEF FrameNext

\* Room for a step of the order: what is bounded stays so when a producer has offered one more, and
\* a frame that is put is newer than all that were.
LEMMA OrderedStep ==
  ASSUME IInv, FrameNext
  PROVE  Ordered' /\ \A p \in Producers : got'[p] # got[p] => got'[p] > got[p]
<1> USE DEF IInv
<1>a. Typed' /\ MaxFrames \in Nat /\ \A n \in 0..MaxFrames : n \in Nat
  BY TypedStep, FrameAssumption
<1>b. \A p \in Producers : offered[p] \in Nat /\ got[p] \in Nat /\ offered'[p] \in Nat /\ got'[p] \in Nat
  BY <1>a DEF Typed
<1>c. \A p \in Producers : Bound[p] \in Int /\ Bound'[p] \in Int
  BY <1>b DEF Bound
<1>d. \A f \in Frame : f.n \in Nat /\ (f.from # Stopper => f.from \in Producers)
  BY <1>a DEF Frame, Callers
<1>e. Len(queue) \in Nat /\ (\A i \in 1..Len(queue) : queue[i] \in Frame) /\ hand \in Frame
  BY DEF Typed
<1>0. /\ \A p \in Producers : offered[p] \in Nat /\ got[p] \in Nat /\ Bound[p] \in Int
      /\ \A p \in Producers : offered'[p] \in Nat /\ got'[p] \in Nat /\ Bound'[p] \in Int
      /\ \A f \in Frame : f.n \in Nat /\ (f.from # Stopper => f.from \in Producers)
      /\ Len(queue) \in Nat /\ \A i \in 1..Len(queue) : queue[i] \in Frame
      /\ hand \in Frame
  BY <1>b, <1>c, <1>d, <1>e
<1>1. ASSUME UNCHANGED << queue, sender, hand, got >>, \A p \in Producers : Bound[p] <= Bound'[p]
      PROVE  Ordered'
  BY SMTT(60), <1>0, <1>1 DEF Ordered
<1>2. ASSUME NEW p \in Producers, queue' = Append(queue, [from |-> p, n |-> Bound'[p]]),
             Bound[p] < Bound'[p], \A q \in Producers : Bound[q] <= Bound'[q],
             UNCHANGED << sender, hand, got >>
      PROVE  Ordered'
  <2> DEFINE f == [from |-> p, n |-> Bound'[p]]
  <2>1. /\ Len(queue') = Len(queue) + 1 /\ queue'[Len(queue) + 1] = f
        /\ \A i \in 1..Len(queue) : queue'[i] = queue[i]
        /\ \A i \in 1..Len(queue) + 1 : i \in 1..Len(queue) \/ i = Len(queue) + 1
    <3>1. Bound'[p] \in 0..MaxFrames
      <4>1. Bound'[p] <= offered'[p] /\ offered'[p] \in 0..MaxFrames
        BY <1>0, <1>a DEF Bound, Typed
      <4>2. 0 <= Bound[p]
        BY <1>0 DEF Ordered
      <4> QED
        BY <1>0, <1>2, <1>a, <4>1, <4>2
    <3>2. f \in Frame
      BY <3>1 DEF Frame, Callers
    <3> QED
      BY <1>2, <3>2, QueueGrows DEF Typed
  <2>2. f.from = p /\ f.n = Bound'[p] /\ p # Stopper
    BY FrameAssumption
  <2> HIDE DEF f
  <2>3. \A q \in Producers : got'[q] <= Bound'[q]
    BY SMTT(30), <1>0, <1>2 DEF Ordered
  <2>4. \A i \in 1..Len(queue') : queue'[i].from # Stopper =>
          got'[queue'[i].from] < queue'[i].n /\ queue'[i].n <= Bound'[queue'[i].from]
    BY SMTT(30), <1>0, <1>2, <2>1, <2>2 DEF Ordered
  <2>5. \A i, j \in 1..Len(queue') :
          i < j /\ queue'[i].from = queue'[j].from /\ queue'[i].from # Stopper => queue'[i].n < queue'[j].n
    <3> SUFFICES ASSUME NEW i \in 1..Len(queue'), NEW j \in 1..Len(queue'), i < j,
                        queue'[i].from = queue'[j].from, queue'[i].from # Stopper
                 PROVE  queue'[i].n < queue'[j].n
      OBVIOUS
    <3>1. i \in 1..Len(queue)
      BY <1>0, <2>1
    <3>2. CASE j \in 1..Len(queue)
      BY <2>1, <3>1, <3>2 DEF Ordered
    <3>3. CASE j = Len(queue) + 1
      <4>1. queue[i].n <= Bound[p] /\ queue'[i] = queue[i]
        BY <2>1, <2>2, <3>1, <3>3 DEF Ordered
      <4> QED
        BY <1>0, <1>2, <2>1, <2>2, <3>1, <3>3, <4>1
    <3> QED
      BY <2>1, <3>2, <3>3
  <2>6. sender' = "sending" =>
          /\ hand'.from # Stopper /\ got'[hand'.from] < hand'.n /\ hand'.n <= Bound'[hand'.from]
          /\ \A i \in 1..Len(queue') : queue'[i].from = hand'.from => hand'.n < queue'[i].n
    <3> SUFFICES ASSUME sender = "sending"
                 PROVE  /\ hand.from # Stopper /\ got[hand.from] < hand.n /\ hand.n <= Bound'[hand.from]
                        /\ \A i \in 1..Len(queue') : queue'[i].from = hand.from => hand.n < queue'[i].n
      BY <1>2
    <3>1. /\ hand.from # Stopper /\ hand.from \in Producers /\ got[hand.from] < hand.n
          /\ hand.n <= Bound[hand.from] /\ hand.n <= Bound'[hand.from]
      BY <1>0, <1>2 DEF Ordered
    <3>2. ASSUME NEW i \in 1..Len(queue'), queue'[i].from = hand.from PROVE hand.n < queue'[i].n
      <4>1. CASE i \in 1..Len(queue)
        BY <2>1, <3>2, <4>1 DEF Ordered
      <4>2. CASE i = Len(queue) + 1
        BY <1>0, <1>2, <2>1, <2>2, <3>1, <3>2, <4>2
      <4> QED
        BY <2>1, <4>1, <4>2
    <3> QED
      BY <3>1, <3>2
  <2> QED
    BY <2>3, <2>4, <2>5, <2>6 DEF Ordered
<1>3. ASSUME NEW p \in Producers, OfferQueued(p) PROVE Ordered' /\ got' = got
  <2>1. /\ offer[p] = "none" /\ offer' = offer /\ offered' = [offered EXCEPT ![p] = @ + 1]
        /\ queue' = Append(queue, [from |-> p, n |-> offered'[p]]) /\ UNCHANGED << sender, hand, got >>
    BY <1>3 DEF OfferQueued, NewFrame, CanOffer
  <2>2. /\ Bound'[p] = offered'[p] /\ Bound[p] < Bound'[p]
        /\ \A q \in Producers : Bound[q] <= Bound'[q]
    BY <1>0, <2>1 DEF Bound, Typed
  <2> QED
    BY <1>2, <2>1, <2>2
<1>4. ASSUME NEW p \in Producers, \/ OfferDropped(p) \/ PatienceEnds(p)
                                  \/ \E kind \in {"critical", "terminal"} : OfferWaits(p, kind)
      PROVE  Ordered' /\ got' = got
  <2>1. UNCHANGED << queue, sender, hand, got >>
    BY <1>4 DEF OfferDropped, OfferWaits, NewFrame, PatienceEnds
  <2>2. \A q \in Producers : Bound[q] <= Bound'[q]
    <3>1. CASE OfferDropped(p)
      BY <1>0, <3>1 DEF OfferDropped, NewFrame, Bound, Typed
    <3>2. CASE PatienceEnds(p)
      BY <1>0, <3>2 DEF PatienceEnds, Bound, Typed
    <3>3. CASE \E kind \in {"critical", "terminal"} : OfferWaits(p, kind)
      BY <1>0, <3>3 DEF OfferWaits, NewFrame, CanOffer, Bound, Typed
    <3> QED
      BY <1>4, <3>1, <3>2, <3>3
  <2> QED
    BY <1>1, <2>1, <2>2
<1>5. ASSUME NEW p \in Producers, PutAgain(p) PROVE Ordered' /\ got' = got
  <2>1. offer[p] # "none" /\ offered' = offered /\ UNCHANGED << sender, hand, got >>
    BY <1>5, FrameAssumption DEF PutAgain, Lined, Waiting
  <2>2. CASE Full
    <3>1. queue' = queue /\ offer' = offer
      BY <1>5, <2>2 DEF PutAgain
    <3>2. \A q \in Producers : Bound[q] <= Bound'[q]
      BY <1>0, <2>1, <3>1 DEF Bound
    <3> QED
      BY <1>1, <2>1, <3>1, <3>2
  <2>3. CASE ~Full
    <3>1. queue' = Append(queue, [from |-> p, n |-> offered[p]]) /\ offer' = [offer EXCEPT ![p] = "none"]
      BY <1>5, <2>3 DEF PutAgain
    <3>2. /\ Bound'[p] = offered[p] /\ Bound[p] < Bound'[p]
          /\ \A q \in Producers : Bound[q] <= Bound'[q]
      BY <1>0, <2>1, <3>1 DEF Bound, Typed
    <3> QED
      BY <1>2, <2>1, <3>1, <3>2
  <2> QED
    BY <2>2, <2>3
<1>6. CASE SenderGets
  <2>1. /\ queue # << >> /\ queue' = Tail(queue) /\ hand' = Head(queue)
        /\ sender' = IF Head(queue) = Sentinel THEN "stopped" ELSE "sending"
        /\ UNCHANGED << offered, offer, got >>
    BY <1>6 DEF SenderGets
  <2>2. /\ Len(queue') = Len(queue) - 1 /\ hand' = queue[1] /\ 1 \in 1..Len(queue)
        /\ \A i \in 1..Len(queue') : queue'[i] = queue[i + 1] /\ i + 1 \in 1..Len(queue) /\ 1 < i + 1
    BY <2>1, QueueShrinks DEF Typed
  <2>3. Bound' = Bound
    BY <2>1 DEF Bound
  <2>4. sender' = "sending" =>
          /\ hand'.from # Stopper /\ got'[hand'.from] < hand'.n /\ hand'.n <= Bound'[hand'.from]
          /\ \A i \in 1..Len(queue') : queue'[i].from = hand'.from => hand'.n < queue'[i].n
    <3> SUFFICES ASSUME sender' = "sending"
                 PROVE  /\ queue[1].from # Stopper /\ got[queue[1].from] < queue[1].n
                        /\ queue[1].n <= Bound[queue[1].from]
                        /\ \A i \in 1..Len(queue') : queue'[i].from = queue[1].from => queue[1].n < queue'[i].n
      BY <2>1, <2>2, <2>3
    <3>1. queue[1].from # Stopper
      BY <2>1, <2>2 DEF Ending
    <3> QED
      BY <2>2, <3>1 DEF Ordered
  <2>5. \A i, j \in 1..Len(queue') :
          i < j /\ queue'[i].from = queue'[j].from /\ queue'[i].from # Stopper => queue'[i].n < queue'[j].n
    <3> SUFFICES ASSUME NEW i \in 1..Len(queue'), NEW j \in 1..Len(queue'), i < j,
                        queue'[i].from = queue'[j].from, queue'[i].from # Stopper
                 PROVE  queue'[i].n < queue'[j].n
      OBVIOUS
    <3>1. i + 1 \in 1..Len(queue) /\ j + 1 \in 1..Len(queue) /\ i + 1 < j + 1
      BY <1>0, <2>2
    <3> QED
      BY <2>2, <3>1 DEF Ordered
  <2>6. \A i \in 1..Len(queue') : queue'[i].from # Stopper =>
          got'[queue'[i].from] < queue'[i].n /\ queue'[i].n <= Bound'[queue'[i].from]
    BY <2>1, <2>2, <2>3 DEF Ordered
  <2>7. \A p \in Producers : got'[p] <= Bound'[p]
    BY <2>1, <2>3 DEF Ordered
  <2> QED
    BY <2>1, <2>4, <2>5, <2>6, <2>7 DEF Ordered
<1>7. CASE SendDone
  <2>1. /\ sender = "sending" /\ sender' = "getting" /\ got' = [got EXCEPT ![hand.from] = hand.n]
        /\ UNCHANGED << queue, offered, offer, hand >>
    BY <1>7 DEF SendDone
  <2>2. /\ hand.from \in Producers /\ got[hand.from] < hand.n /\ hand.n <= Bound[hand.from]
        /\ \A i \in 1..Len(queue) : queue[i].from = hand.from => hand.n < queue[i].n
    BY <1>0, <2>1 DEF Ordered
  <2>3. \A p \in Producers : got'[p] = IF p = hand.from THEN hand.n ELSE got[p]
    BY <2>1 DEF Typed
  <2>4. Bound' = Bound
    BY <2>1 DEF Bound
  <2>5. \A i \in 1..Len(queue') : queue'[i].from # Stopper =>
          got'[queue'[i].from] < queue'[i].n /\ queue'[i].n <= Bound'[queue'[i].from]
    BY <1>0, <2>1, <2>2, <2>3, <2>4 DEF Ordered
  <2>6. \A p \in Producers : got'[p] <= Bound'[p]
    BY <2>2, <2>3, <2>4 DEF Ordered
  <2> QED
    BY <1>0, <2>1, <2>2, <2>3, <2>5, <2>6 DEF Ordered
<1>8. CASE Stop \/ StopAgain
  <2>1. UNCHANGED << offered, offer, sender, hand, got >> /\ Bound' = Bound
    BY <1>8 DEF Stop, StopAgain, Bound
  <2>2. CASE Full
    <3>1. queue' = queue
      BY <1>8, <2>2 DEF Stop, StopAgain
    <3> QED
      BY <1>0, <1>1, <2>1, <3>1
  <2>3. CASE ~Full
    <3>1. queue' = Append(queue, Sentinel) /\ Sentinel \in Frame /\ Sentinel.from = Stopper
      BY <1>8, <2>3, FrameAssumption DEF Stop, StopAgain, Sentinel, Frame, Callers
    <3>2. /\ Len(queue') = Len(queue) + 1 /\ queue'[Len(queue) + 1].from = Stopper
          /\ \A i \in 1..Len(queue) : queue'[i] = queue[i]
          /\ \A i \in 1..Len(queue) + 1 : i \in 1..Len(queue) \/ i = Len(queue) + 1
      BY <3>1, QueueGrows DEF Typed
    <3>3. \A i \in 1..Len(queue') : queue'[i].from # Stopper => i \in 1..Len(queue) /\ queue'[i] = queue[i]
      BY <3>2
    <3>4. \A i \in 1..Len(queue') : queue'[i].from # Stopper =>
            got'[queue'[i].from] < queue'[i].n /\ queue'[i].n <= Bound'[queue'[i].from]
      BY <2>1, <3>3 DEF Ordered
    <3>5. \A i, j \in 1..Len(queue') :
            i < j /\ queue'[i].from = queue'[j].from /\ queue'[i].from # Stopper => queue'[i].n < queue'[j].n
      BY <3>3 DEF Ordered
    <3>6. sender' = "sending" =>
            /\ hand'.from # Stopper /\ got'[hand'.from] < hand'.n /\ hand'.n <= Bound'[hand'.from]
            /\ \A i \in 1..Len(queue') : queue'[i].from = hand'.from => hand'.n < queue'[i].n
      BY <2>1, <3>3 DEF Ordered
    <3>7. \A p \in Producers : got'[p] <= Bound'[p]
      BY <2>1 DEF Ordered
    <3> QED
      BY <2>1, <3>4, <3>5, <3>6, <3>7 DEF Ordered
  <2> QED
    BY <2>1, <2>2, <2>3
<1>9. CASE SendFails \/ StopReturned \/ ClientChanges
  <2>1. UNCHANGED << queue, hand, got, offered, offer >> /\ (sender' = "sending" => sender = "sending")
    BY <1>9 DEF SendFails, StopReturned, ClientChanges
  <2>2. Bound' = Bound
    BY <2>1 DEF Bound
  <2> QED
    BY <2>1, <2>2 DEF Ordered
<1>10. CASE \E p \in Producers : \/ OfferQueued(p) \/ OfferDropped(p) \/ PutAgain(p) \/ PatienceEnds(p)
                                 \/ \E kind \in {"critical", "terminal"} : OfferWaits(p, kind)
  <2>1. Ordered' /\ got' = got
    BY <1>3, <1>4, <1>5, <1>10
  <2> QED
    BY <2>1
<1>11. CASE SenderGets \/ SendDone \/ SendFails \/ Stop \/ StopAgain \/ StopReturned \/ ClientChanges
  <2>1. Ordered'
    BY <1>6, <1>7, <1>8, <1>9, <1>11
  <2>2. \A p \in Producers : got'[p] # got[p] => got'[p] > got[p]
    <3>1. CASE SendDone
      <4>1. got' = [got EXCEPT ![hand.from] = hand.n] /\ got[hand.from] < hand.n
        BY <3>1 DEF SendDone, Ordered
      <4> QED
        BY <1>0, <4>1 DEF Typed
    <3>2. CASE ~SendDone
      BY <1>11, <3>2 DEF SenderGets, SendFails, Stop, StopAgain, StopReturned, ClientChanges
    <3> QED
      BY <3>1, <3>2
  <2> QED
    BY <2>1, <2>2
<1> QED
  BY <1>10, <1>11 DEF FrameNext

\* One more or one less is woken.
LEMMA WokenCounted ==
  ASSUME NEW S, IsFiniteSet(S), NEW c
  PROVE  /\ IsFiniteSet(S \cup {c}) /\ IsFiniteSet(S \ {c}) /\ Cardinality(S) \in Nat
         /\ c \notin S => Cardinality(S \cup {c}) = Cardinality(S) + 1
         /\ c \in S => Cardinality(S \ {c}) = Cardinality(S) - 1
BY FS_AddElement, FS_RemoveElement, FS_CardinalityType

\* Room that is made wakes one, room that is taken was given or nobody waits for it.
LEMMA HandedStep ==
  ASSUME IInv, FrameNext
  PROVE  Handed'
<1> USE DEF IInv, Handed, RoomIsHandedOn
<1>0. /\ Capacity \in Nat \ {0} /\ Len(queue) \in Nat /\ Len(queue) <= Capacity
      /\ Cardinality(woken) \in Nat
      /\ Full <=> Len(queue) = Capacity
  BY FrameAssumption, FS_CardinalityType DEF Typed, Full
<1>1. ASSUME UNCHANGED << queue, line, woken >> PROVE Handed'
  BY <1>1
<1>2. ASSUME NEW f \in Frame, queue' = Append(queue, f), ~Full, UNCHANGED << line, woken >> PROVE Handed'
  <2>1. Len(queue') = Len(queue) + 1
    BY <1>2 DEF Typed
  <2> QED
    BY <1>0, <1>2, <2>1
<1>3. ASSUME UNCHANGED queue, Full, IsFiniteSet(woken') PROVE Handed'
  <2>1. Cardinality(woken') \in Nat
    BY <1>3, FS_CardinalityType
  <2> QED
    BY <1>0, <1>3, <2>1
<1>4. ASSUME NEW c \in woken, NEW f \in Frame, queue' = Append(queue, f), ~Full,
             woken' = woken \ {c}, UNCHANGED line
      PROVE  Handed'
  <2>1. Len(queue') = Len(queue) + 1
    BY <1>4 DEF Typed
  <2>2. IsFiniteSet(woken') /\ Cardinality(woken') = Cardinality(woken) - 1
    BY <1>4, WokenCounted
  <2> QED
    BY <1>0, <1>4, <2>1, <2>2
<1>5. ASSUME NEW p \in Producers, OfferQueued(p) PROVE Handed'
  <2>1. [from |-> p, n |-> offered'[p]] \in Frame
    BY <1>5, TypedStep DEF Typed, Frame, Callers
  <2> QED
    BY <1>2, <1>5, <2>1 DEF OfferQueued, NewFrame, line_
<1>6. ASSUME NEW p \in Producers, PutAgain(p) PROVE Handed'
  <2>1. [from |-> p, n |-> offered[p]] \in Frame
    BY DEF Typed, Frame, Callers
  <2>2. IsFiniteSet(woken \ {p})
    BY WokenCounted
  <2>3. CASE Full
    BY <1>3, <1>6, <2>2, <2>3 DEF PutAgain
  <2>4. CASE ~Full
    BY <1>4, <1>6, <2>1, <2>4 DEF PutAgain
  <2> QED
    BY <2>3, <2>4
<1>7. ASSUME NEW p \in Producers, PatienceEnds(p) PROVE Handed'
  <2>1. queue' = queue /\ Leaves(p)
    BY <1>7 DEF PatienceEnds
  <2>2. CASE p \notin woken
    <3>1. PICK i \in DOMAIN line : line' = RemoveAt(line, i) /\ woken' = woken
      BY <2>1, <2>2 DEF Leaves
    <3>2. line # << >>
      BY <3>1 DEF Lined
    <3> QED
      BY <2>1, <3>1, <3>2
  <2>3. CASE p \in woken /\ Full
    <3>1. woken' = woken \ {p}
      BY <2>1, <2>3 DEF Leaves
    <3> QED
      BY <1>3, <2>1, <2>3, <3>1, WokenCounted
  <2>4. CASE p \in woken /\ line = << >>
    <3>1. woken' = woken \ {p} /\ line' = line
      BY <2>1, <2>4 DEF Leaves
    <3> QED
      BY <2>1, <2>4, <3>1, WokenCounted
  <2>5. CASE p \in woken /\ ~Full /\ line # << >>
    <3>1. woken' = (woken \ {p}) \cup {Head(line)}
      BY <2>1, <2>5 DEF Leaves
    <3>2. Head(line) \notin woken
      BY <2>5, TailOfLine DEF Lined
    <3>3. IsFiniteSet(woken \ {p}) /\ Cardinality(woken \ {p}) = Cardinality(woken) - 1
      BY <2>5, WokenCounted
    <3>4. IsFiniteSet(woken') /\ Cardinality(woken') = (Cardinality(woken) - 1) + 1
      BY <3>1, <3>2, <3>3, WokenCounted
    <3> QED
      BY <1>0, <2>1, <2>5, <3>4
  <2> QED
    BY <2>2, <2>3, <2>4, <2>5
<1>8. CASE SenderGets
  <2>1. queue' = Tail(queue) /\ queue # << >> /\ WakesNext
    BY <1>8 DEF SenderGets
  <2>2. Len(queue') = Len(queue) - 1
    BY <2>1, QueueShrinks DEF Typed
  <2>3. CASE line = << >>
    BY <2>1, <2>3 DEF WakesNext, line_
  <2>4. CASE line # << >>
    <3>1. woken' = woken \cup {Head(line)} /\ Head(line) \notin woken
      BY <2>1, <2>4, TailOfLine DEF WakesNext, Lined
    <3>2. IsFiniteSet(woken') /\ Cardinality(woken') = Cardinality(woken) + 1
      BY <3>1, WokenCounted
    <3> QED
      BY <1>0, <2>2, <2>4, <3>2
  <2> QED
    BY <2>3, <2>4
<1>9. CASE Stop \/ StopAgain
  <2>0. Sentinel \in Frame
    BY FrameAssumption DEF Frame, Sentinel, Callers
  <2>1. Sentinel \in Frame /\ IsFiniteSet(woken \ {Stopper})
    BY <2>0, WokenCounted
  <2>2. CASE Stop
    BY <1>2, <1>3, <2>1, <2>2 DEF Stop
  <2>3. CASE StopAgain
    BY <1>3, <1>4, <2>1, <2>3 DEF StopAgain
  <2> QED
    BY <1>9, <2>2, <2>3
<1>10. ASSUME NEW p \in Producers, NEW kind \in {"critical", "terminal"}, OfferWaits(p, kind) PROVE Handed'
  BY <1>3, <1>10 DEF OfferWaits, NewFrame
<1>11. ASSUME NEW p \in Producers, OfferDropped(p) PROVE Handed'
  BY <1>1, <1>11 DEF OfferDropped, NewFrame, line_
<1>12. CASE SendDone \/ SendFails \/ StopReturned \/ ClientChanges
  BY <1>1, <1>12 DEF SendDone, SendFails, StopReturned, ClientChanges, line_
<1> QED
  BY <1>5, <1>6, <1>7, <1>8, <1>9, <1>10, <1>11, <1>12 DEF FrameNext

LEMMA Stutters ==
  ASSUME IInv, UNCHANGED frameVars
  PROVE  IInv'
<1>1. Lined'
  BY DEF IInv, Lined, frameVars, Waiting
<1>2. Typed' /\ Ending' /\ Handed'
  BY DEF IInv, Typed, Ending, Handed, RoomIsHandedOn, SenderOver, frameVars
<1>3. Ordered'
  BY DEF IInv, Ordered, Bound, frameVars
<1> QED
  BY <1>1, <1>2, <1>3 DEF IInv

\* The invariant of the frames of a socket stands.
THEOREM Invariance == FrameSpec => []IInv
<1>1. IInv /\ [FrameNext]_frameVars => IInv'
  BY LinedStep, TypedStep, EndingStep, OrderedStep, HandedStep, Stutters DEF IInv
<1> QED
  BY InitHolds, <1>1, PTL DEF FrameSpec

-----------------------------------------------------------------------------
(* Theorems.                                                               *)

\* Every variable of the queue keeps its type; who waits is in the line once or was woken, and has
\* a frame to put (asyncio.Queue, WebSocketEmitter).
THEOREM TypeCorrect == FrameSpec => []FrameTypeOK
<1>1. IInv => FrameTypeOK
  BY DEF IInv, Typed, Lined, FrameTypeOK
<1> QED
  BY <1>1, Invariance, PTL

\* Nobody waits in line beside free room: as many are woken as there are places, although those that
\* were woken are overtaken, give up and rejoin the line (asyncio.Queue, wait_for in __call__).
THEOREM RoomHandedOn == FrameSpec => []RoomIsHandedOn
<1>1. IInv => RoomIsHandedOn
  BY DEF IInv, Handed
<1> QED
  BY <1>1, Invariance, PTL

\* The client gets the frames of one producer in the order they were offered, although those that
\* wait are overtaken, give up and rejoin the line.
THEOREM InOrder == FrameSpec => FramesInOrder
<1>1. IInv /\ [FrameNext]_frameVars =>
        [\A p \in Producers : got'[p] # got[p] => got'[p] > got[p]]_frameVars
  BY OrderedStep
<1> QED
  BY <1>1, Invariance, PTL DEF FrameSpec, FramesInOrder
-----------------------------------------------------------------------------
(* Background jobs: the record of a job and its task, for any jobs, slots  *)
(* and retries.                                                            *)

\* Where the task of a job is tells what its record says and how often it was tried.
RecordsFollowTasks ==
  \A j \in Jobs :
    /\ status[j] = "none" <=> task[j] = "none"
    /\ task[j] \in {"none", "waiting"} => retries[j] = 0
    /\ task[j] = "waiting" => status[j] = "pending"
    /\ task[j] \in {"handler", "backoff"} => status[j] = "running" /\ retries[j] <= MaxRetries

\* A slot is held by a job that runs or pauses before its next try.
SlotsAreBounded == Cardinality(Holding) <= MaxWorkers

JobInv == JobTypeOK /\ RecordsFollowTasks /\ LettersAreFailures /\ SlotsAreBounded

LEMMA JobInitHolds == JobInit => JobInv
<1> SUFFICES ASSUME JobInit PROVE JobInv
  OBVIOUS
<1>1. JobTypeOK
  BY JobQueueAssumption DEF JobInit, JobTypeOK
<1>2. RecordsFollowTasks /\ LettersAreFailures
  BY JobQueueAssumption DEF JobInit, RecordsFollowTasks, LettersAreFailures
<1>3. Holding = {}
  BY DEF JobInit, Holding
<1> QED BY <1>1, <1>2, <1>3, FS_EmptySet, JobQueueAssumption DEF JobInv, SlotsAreBounded

\* Slots are taken one at a time, by a job that starts while one is free; nothing else takes any.
LEMMA SlotsStep == JobInv /\ [JobNext]_jobVars => SlotsAreBounded'
<1> SUFFICES ASSUME JobInv, [JobNext]_jobVars PROVE SlotsAreBounded'
  OBVIOUS
<1>0. IsFiniteSet(Holding) /\ Cardinality(Holding) \in Nat
  BY JobQueueAssumption, FS_Subset, FS_CardinalityType DEF Holding
<1>1. ASSUME NEW j \in Jobs, StartJob(j) PROVE SlotsAreBounded'
  <2>1. Holding' = Holding \cup {j} /\ j \notin Holding
    BY <1>1 DEF StartJob, Holding, JobInv, JobTypeOK
  <2>2. Cardinality(Holding') = Cardinality(Holding) + 1
    BY <2>1, <1>0, FS_AddElement
  <2> QED BY <1>1, <2>2, <1>0, JobQueueAssumption DEF StartJob, SlotsAreBounded
<1>2. ASSUME Holding' \subseteq Holding PROVE SlotsAreBounded'
  <2>1. Cardinality(Holding') <= Cardinality(Holding) /\ Cardinality(Holding') \in Nat
    BY <1>0, <1>2, FS_Subset, FS_CardinalityType
  <2> QED BY <2>1, <1>0, JobQueueAssumption DEF JobInv, SlotsAreBounded
<1>3. ASSUME NEW j \in Jobs, Submit(j) \/ Succeed(j) \/ Fail(j) \/ Retry(j) \/ JobCancelled(j) \/ Cancel(j) \/ Prune(j)
      PROVE  Holding' \subseteq Holding
  BY <1>3 DEF Submit, Succeed, Fail, Retry, JobCancelled, Cancel, Prune, Holding, JobInv, JobTypeOK
<1>4. ASSUME ShutdownJobs \/ UNCHANGED jobVars PROVE Holding' \subseteq Holding
  BY <1>4 DEF ShutdownJobs, jobVars, Holding
<1> QED BY <1>1, <1>2, <1>3, <1>4 DEF JobNext, Advance

LEMMA JobStep == JobInv /\ [JobNext]_jobVars => (JobTypeOK /\ RecordsFollowTasks /\ LettersAreFailures)'
<1> SUFFICES ASSUME JobInv, [JobNext]_jobVars
             PROVE  (JobTypeOK /\ RecordsFollowTasks /\ LettersAreFailures)'
  OBVIOUS
<1> USE JobQueueAssumption DEF JobInv
<1>1. ASSUME NEW j \in Jobs, Submit(j) PROVE (JobTypeOK /\ RecordsFollowTasks /\ LettersAreFailures)'
  <2>1. JobTypeOK'
    BY <1>1 DEF Submit, JobTypeOK
  <2>2. RecordsFollowTasks'
    BY <1>1 DEF Submit, JobTypeOK, RecordsFollowTasks
  <2>3. LettersAreFailures'
    BY <1>1 DEF Submit, JobTypeOK, LettersAreFailures
  <2> QED BY <2>1, <2>2, <2>3
<1>2. ASSUME NEW j \in Jobs, StartJob(j) PROVE (JobTypeOK /\ RecordsFollowTasks /\ LettersAreFailures)'
  <2>1. JobTypeOK'
    BY <1>2 DEF StartJob, JobTypeOK
  <2>2. RecordsFollowTasks'
    BY <1>2 DEF StartJob, JobTypeOK, RecordsFollowTasks
  <2>3. LettersAreFailures'
    BY <1>2 DEF StartJob, JobTypeOK, LettersAreFailures
  <2> QED BY <2>1, <2>2, <2>3
<1>3. ASSUME NEW j \in Jobs, Succeed(j) PROVE (JobTypeOK /\ RecordsFollowTasks /\ LettersAreFailures)'
  <2>1. JobTypeOK'
    BY <1>3 DEF Succeed, JobTypeOK, Terminal
  <2>2. RecordsFollowTasks'
    BY <1>3 DEF Succeed, JobTypeOK, RecordsFollowTasks
  <2>3. LettersAreFailures'
    BY <1>3 DEF Succeed, JobTypeOK, LettersAreFailures
  <2> QED BY <2>1, <2>2, <2>3
<1>4. ASSUME NEW j \in Jobs, Fail(j) PROVE (JobTypeOK /\ RecordsFollowTasks /\ LettersAreFailures)'
  <2>1. retries[j] \in 0..MaxRetries /\ retries[j] + 1 \in 0..(MaxRetries + 1) /\ letters[j] = 0
    <3>1. retries[j] \in 0..(MaxRetries + 1) /\ retries[j] <= MaxRetries
      BY <1>4 DEF Fail, JobTypeOK, RecordsFollowTasks
    <3>2. letters[j] = 0
      BY <1>4 DEF Fail, JobTypeOK, LettersAreFailures
    <3> QED BY <3>1, <3>2
  <2>2. CASE retries[j] < MaxRetries
    <3>1. JobTypeOK'
      BY <1>4, <2>1, <2>2 DEF Fail, JobTypeOK
    <3>2. RecordsFollowTasks'
      BY <1>4, <2>1, <2>2 DEF Fail, JobTypeOK, RecordsFollowTasks
    <3>3. LettersAreFailures'
      BY <1>4, <2>1, <2>2 DEF Fail, JobTypeOK, LettersAreFailures
    <3> QED BY <3>1, <3>2, <3>3
  <2>3. CASE ~(retries[j] < MaxRetries)
    <3>0. retries[j] = MaxRetries
      BY <2>1, <2>3
    <3>4. PICK written \in {0, 1} : letters' = [letters EXCEPT ![j] = @ + written]
      BY <1>4, <2>3 DEF Fail
    <3>5. letters' \in [Jobs -> Nat]
      BY <2>1, <3>4 DEF JobTypeOK
    <3>1. JobTypeOK'
      BY <1>4, <2>1, <2>3, <3>5 DEF Fail, JobTypeOK, Terminal
    <3>2. RecordsFollowTasks'
      BY <1>4, <2>1, <2>3 DEF Fail, JobTypeOK, RecordsFollowTasks
    <3>3. LettersAreFailures'
      BY <1>4, <2>1, <2>3, <3>0, <3>4 DEF Fail, JobTypeOK, LettersAreFailures
    <3> QED BY <3>1, <3>2, <3>3
  <2> QED BY <2>2, <2>3
<1>5. ASSUME NEW j \in Jobs, Retry(j) PROVE (JobTypeOK /\ RecordsFollowTasks /\ LettersAreFailures)'
  <2>1. JobTypeOK'
    BY <1>5 DEF Retry, JobTypeOK
  <2>2. RecordsFollowTasks'
    BY <1>5 DEF Retry, JobTypeOK, RecordsFollowTasks
  <2>3. LettersAreFailures'
    BY <1>5 DEF Retry, JobTypeOK, LettersAreFailures
  <2> QED BY <2>1, <2>2, <2>3
<1>6. ASSUME NEW j \in Jobs, JobCancelled(j) PROVE (JobTypeOK /\ RecordsFollowTasks /\ LettersAreFailures)'
  <2>1. JobTypeOK'
    BY <1>6 DEF JobCancelled, JobTypeOK, Terminal
  <2>2. RecordsFollowTasks'
    BY <1>6 DEF JobCancelled, JobTypeOK, RecordsFollowTasks
  <2>3. LettersAreFailures'
    BY <1>6 DEF JobCancelled, JobTypeOK, LettersAreFailures
  <2> QED BY <2>1, <2>2, <2>3
<1>7. ASSUME NEW j \in Jobs, Prune(j) PROVE (JobTypeOK /\ RecordsFollowTasks /\ LettersAreFailures)'
  <2>1. JobTypeOK'
    BY <1>7 DEF Prune, JobTypeOK, Terminal
  <2>2. RecordsFollowTasks'
    BY <1>7 DEF Prune, JobTypeOK, RecordsFollowTasks, Terminal
  <2>3. LettersAreFailures'
    BY <1>7 DEF Prune, JobTypeOK, LettersAreFailures
  <2> QED BY <2>1, <2>2, <2>3
<1>8. ASSUME (\E j \in Jobs : Cancel(j)) \/ ShutdownJobs \/ UNCHANGED jobVars
      PROVE  (JobTypeOK /\ RecordsFollowTasks /\ LettersAreFailures)'
  BY <1>8 DEF Cancel, ShutdownJobs, jobVars, JobTypeOK, RecordsFollowTasks, LettersAreFailures
<1> QED BY <1>1, <1>2, <1>3, <1>4, <1>5, <1>6, <1>7, <1>8 DEF JobNext, Advance

\* The invariant of the jobs of one server stands.
THEOREM JobInvariance == JobSpec => []JobInv
<1>1. JobInv /\ [JobNext]_jobVars => JobInv'
  BY JobStep, SlotsStep DEF JobInv
<1> QED BY <1>1, JobInitHolds, PTL DEF JobSpec

\* Types: of the records of jobs, their tasks and their letters.
THEOREM JobsTyped == JobSpec => []JobTypeOK
<1>1. JobInv => JobTypeOK
  BY DEF JobInv
<1> QED BY <1>1, JobInvariance, PTL

\* No more jobs run, or pause between two tries, than there are slots.
THEOREM SlotsSuffice == JobSpec => []SlotsAreBounded
<1>1. JobInv => SlotsAreBounded
  BY DEF JobInv
<1> QED BY <1>1, JobInvariance, PTL

\* A dead letter is of a job that used up its retries, one each; and a job whose end was told
\* stays as it ended until it is pruned, which it is not before.
THEOREM JobsEndOnce == JobSpec => []LettersAreFailures /\ FinalIsFinal
<1>1. JobInv => LettersAreFailures
  BY DEF JobInv
<1>2. JobInv /\ [JobNext]_jobVars =>
        [\A j \in Jobs :
          /\ status[j] \in Terminal => status'[j] \in {status[j], "pruned"}
          /\ status'[j] = "pruned" => status[j] \in Terminal \cup {"pruned"}]_jobVars
  <2> SUFFICES ASSUME JobInv, JobNext, NEW k \in Jobs
               PROVE  /\ status[k] \in Terminal => status'[k] \in {status[k], "pruned"}
                      /\ status'[k] = "pruned" => status[k] \in Terminal \cup {"pruned"}
    OBVIOUS
  <2>1. ASSUME NEW j \in Jobs, Submit(j) \/ StartJob(j) \/ Succeed(j) \/ JobCancelled(j) \/ Prune(j)
        PROVE  /\ status[k] \in Terminal => status'[k] \in {status[k], "pruned"}
               /\ status'[k] = "pruned" => status[k] \in Terminal \cup {"pruned"}
    BY <2>1 DEF Submit, StartJob, Succeed, JobCancelled, Prune, JobInv, JobTypeOK, RecordsFollowTasks, Terminal
  <2>2. ASSUME NEW j \in Jobs, Fail(j)
        PROVE  /\ status[k] \in Terminal => status'[k] \in {status[k], "pruned"}
               /\ status'[k] = "pruned" => status[k] \in Terminal \cup {"pruned"}
    BY <2>2 DEF Fail, JobInv, JobTypeOK, RecordsFollowTasks, Terminal
  <2>3. ASSUME NEW j \in Jobs, Retry(j) \/ Cancel(j) PROVE UNCHANGED status
    BY <2>3 DEF Retry, Cancel
  <2>4. ASSUME ShutdownJobs PROVE UNCHANGED status
    BY <2>4 DEF ShutdownJobs
  <2> QED BY <2>1, <2>2, <2>3, <2>4 DEF JobNext, Advance
<1> QED BY <1>1, <1>2, JobInvariance, PTL DEF JobSpec, FinalIsFinal

-----------------------------------------------------------------------------
(* Background jobs of several servers that pop from one list, for any      *)
(* servers, workers, jobs and losses.                                      *)

\* Two lines that have nobody in common are joined.
LEMMA JoinLines ==
  ASSUME NEW S, NEW s \in Seq(S), NEW t \in Seq(S), IsInjective(s), IsInjective(t),
         ToSet(s) \cap ToSet(t) = {}
  PROVE  /\ s \o t \in Seq(S) /\ IsInjective(s \o t)
         /\ ToSet(s \o t) = ToSet(s) \cup ToSet(t)
<1> DEFINE u == s \o t
           m == Len(s)
           n == Len(t)
<1>1. /\ u \in Seq(S) /\ m \in Nat /\ n \in Nat /\ Len(u) = m + n
      /\ DOMAIN s = 1..m /\ DOMAIN t = 1..n /\ DOMAIN u = 1..m + n
  OBVIOUS
<1>2. /\ \A i \in 1..m : u[i] = s[i]
      /\ \A i \in 1..n : u[m + i] = t[i]
  BY <1>1
<1>3. \A i \in 1..m + n : i \in 1..m \/ (i - m \in 1..n /\ u[i] = t[i - m])
  <2> TAKE i \in 1..m + n
  <2>1. i \in 1..m \/ (i - m \in 1..n /\ m + (i - m) = i)
    BY <1>1
  <2> HIDE DEF u, m, n
  <2> QED BY <2>1, <1>2
<1> HIDE DEF u, m, n
<1>4. ASSUME NEW i \in 1..m + n, NEW k \in 1..m + n, u[i] = u[k] PROVE i = k
  <2>1. CASE i \in 1..m /\ k \in 1..m
    BY <2>1, <1>1, <1>2, <1>4 DEF IsInjective
  <2>2. CASE i \in 1..m /\ k \notin 1..m
    <3>1. u[i] \in ToSet(s) /\ u[k] \in ToSet(t)
      BY <2>2, <1>1, <1>2, <1>3 DEF ToSet
    <3> QED BY <3>1, <1>4
  <2>3. CASE i \notin 1..m /\ k \in 1..m
    <3>1. u[i] \in ToSet(t) /\ u[k] \in ToSet(s)
      BY <2>3, <1>1, <1>2, <1>3 DEF ToSet
    <3> QED BY <3>1, <1>4
  <2>4. CASE i \notin 1..m /\ k \notin 1..m
    <3>1. i - m = k - m
      BY <2>4, <1>1, <1>3, <1>4 DEF IsInjective
    <3> QED BY <3>1, <1>1
  <2> QED BY <2>1, <2>2, <2>3, <2>4
<1>5. IsInjective(u)
  BY <1>1, <1>4 DEF IsInjective
<1>6. ASSUME NEW x PROVE x \in ToSet(u) <=> x \in ToSet(s) \/ x \in ToSet(t)
  <2>1. ASSUME NEW i \in 1..m + n, x = u[i] PROVE x \in ToSet(s) \/ x \in ToSet(t)
    <3>1. CASE i \in 1..m
      BY <3>1, <2>1, <1>1, <1>2 DEF ToSet
    <3>2. CASE i - m \in 1..n /\ u[i] = t[i - m]
      BY <3>2, <2>1, <1>1 DEF ToSet
    <3> QED BY <3>1, <3>2, <1>3
  <2>2. x \in ToSet(s) => x \in ToSet(u)
    <3>1. 1..m \subseteq 1..m + n
      BY <1>1
    <3> QED BY <3>1, <1>1, <1>2 DEF ToSet
  <2>3. x \in ToSet(t) => x \in ToSet(u)
    <3>1. \A i \in 1..n : m + i \in 1..m + n
      BY <1>1
    <3> QED BY <3>1, <1>1, <1>2 DEF ToSet
  <2> QED BY <2>1, <2>2, <2>3, <1>1 DEF ToSet
<1> QED BY <1>1, <1>5, <1>6 DEF u

\* The last one leaves a line.
LEMMA FrontOfLine ==
  ASSUME NEW S, NEW s \in Seq(S), s # << >>, IsInjective(s)
  PROVE  /\ Front(s) \in Seq(S) /\ IsInjective(Front(s))
         /\ Last(s) \in ToSet(s) /\ Last(s) \in S
         /\ ToSet(Front(s)) = ToSet(s) \ {Last(s)}
<1> DEFINE f == Front(s)
           n == Len(s)
<1>1. n \in Nat \ {0} /\ DOMAIN s = 1..n /\ n \in 1..n
  OBVIOUS
<1>2. /\ f \in Seq(S) /\ DOMAIN f = 1..n - 1
      /\ \A i \in 1..n - 1 : f[i] = s[i]
  <2>1. f = SubSeq(s, 1, n - 1)
    BY DEF Front
  <2>2. SubSeq(s, 1, n - 1) \in Seq(S) /\ Len(SubSeq(s, 1, n - 1)) = n - 1
    BY <1>1
  <2>3. \A i \in 1..n - 1 : SubSeq(s, 1, n - 1)[i] = s[i]
    BY <1>1
  <2> HIDE DEF f, n
  <2>4. f \in Seq(S) /\ Len(f) = n - 1
    BY <2>1, <2>2
  <2> QED BY <2>1, <2>3, <2>4
<1>3. Last(s) = s[n] /\ Last(s) \in S
  BY <1>1 DEF Last
<1> HIDE DEF f, n
<1>4. \A i \in 1..n : i \in 1..n - 1 \/ i = n
  BY <1>1
<1>5. 1..n - 1 \subseteq 1..n /\ n \notin 1..n - 1
  BY <1>1
<1>6. IsInjective(f)
  BY <1>1, <1>2, <1>5 DEF IsInjective
<1>7. ASSUME NEW x PROVE x \in ToSet(f) <=> x \in ToSet(s) /\ x # Last(s)
  BY <1>1, <1>2, <1>4, <1>5, <1>3 DEF IsInjective, ToSet
<1>8. Last(s) \in ToSet(s)
  BY <1>1, <1>3 DEF ToSet
<1> QED BY <1>2, <1>3, <1>6, <1>7, <1>8 DEF f

\* A finite set in a line.
LEMMA LineOfSet ==
  ASSUME NEW S, NEW T \in SUBSET S, IsFiniteSet(T)
  PROVE  SetToSeq(T) \in Seq(S) /\ IsInjective(SetToSeq(T)) /\ ToSet(SetToSeq(T)) = T
<1> DEFINE n == Cardinality(T)
<1>1. n \in Nat /\ ExistsBijection(1..n, T)
  BY FS_CardinalityType
<1>2. PICK b : b \in Bijection(1..n, T)
  BY <1>1 DEF ExistsBijection
<1>3. b \in [1..n -> T] /\ IsInjective(b)
  BY <1>2 DEF Bijection, Injection, IsInjective, Surjection
<1>4. SetToSeq(T) \in [1..n -> T] /\ IsInjective(SetToSeq(T))
  BY <1>3 DEF SetToSeq
<1> DEFINE f == SetToSeq(T)
<1>5. f \in Injection(1..n, T)
  BY <1>4 DEF Injection, IsInjective
<1>6. IsFiniteSet(1..n) /\ Cardinality(1..n) = n
  BY <1>1, FS_Interval
<1>7. f \in Surjection(1..n, T)
  BY <1>4, <1>5, <1>6, FS_Injection
<1>8. ToSet(f) = T
  BY <1>4, <1>7 DEF ToSet, Surjection
<1>9. f \in Seq(S)
  BY <1>1, <1>4
<1> QED BY <1>4, <1>8, <1>9

-----------------------------------------------------------------------------
(* The invariant of the jobs of several servers.                           *)

\* What may be known of a job.
Entries == [at : Servers \cup {NoServer}, status : {"none", "pending", "running"} \cup Ended,
            push : {"none", "sending", "over"}]

RedisTyped ==
  /\ waitingIds \in Seq(RedisJobs)
  /\ entry \in [RedisJobs -> [at : Servers \cup {NoServer}, status : {"none", "pending", "running"} \cup Ended,
                              push : {"none", "sending", "over"}]]
  /\ copied \in [RedisJobs -> {"none", "pending", "running"} \cup Ended]
  /\ handlers \in [Servers -> SUBSET RedisJobs]
  /\ worker \in [Servers -> [Slots -> RedisJobs \cup {"unstarted", "pops", "ended"}]]
  /\ serving \in [Servers -> {"up", "stopping", "gone"}]
  /\ ran \in [RedisJobs -> Nat]
  /\ missed \in [jobs : SUBSET RedisJobs, losses : 0..MaxLosses]

\* An id is in the list once, and only when its push is over.
ListedOnce == IsInjective(waitingIds) /\ \A j \in ToSet(waitingIds) : entry[j].push = "over"

\* Of a job that no server has, nothing is known.
UnknownBefore == \A j \in RedisJobs : entry[j].at = NoServer => entry[j] = Unsubmitted /\ ran[j] = 0

\* A server that is there has the handlers of jobs that were submitted to it and never begun.
HandlersWait ==
  \A s \in Servers, j \in RedisJobs :
    j \in handlers[s] => entry[j].at = s /\ entry[j].status = "pending" /\ ran[j] = 0 /\ serving[s] # "gone"

\* What a worker has is a job of its server that runs, and that no other worker has.
WorkersRun ==
  \A s \in Servers, k \in Slots, j \in RedisJobs :
    worker[s][k] = j =>
      /\ entry[j].at = s /\ entry[j].status = "running" /\ serving[s] # "gone"
      /\ \A l \in Slots : worker[s][l] = j => l = k

\* A job that runs where its server is still there is in the hands of a worker.
RunningIsHeld ==
  \A j \in RedisJobs :
    entry[j].status = "running" /\ serving[entry[j].at] # "gone" => \E k \in Slots : worker[entry[j].at][k] = j

\* A job that waits, of a server that stays up, has its handler, and its id is on its way or listed.
PendingIsListed ==
  \A j \in RedisJobs :
    entry[j].status = "pending" /\ StaysUp(j) /\ j \notin missed.jobs =>
      /\ j \in handlers[entry[j].at]
      /\ entry[j].push # "sending" => j \in ToSet(waitingIds)

RedisInv ==
  /\ RedisTyped /\ ListedOnce /\ UnknownBefore /\ HandlersWait /\ WorkersRun /\ RunningIsHeld
  /\ PendingIsListed /\ BegunOnce /\ CopiesTellThePast

LEMMA RedisInvHolds == RedisInv => RedisTypeOK /\ RedisJobsHold
<1> SUFFICES ASSUME RedisInv PROVE RedisTypeOK /\ RedisJobsHold
  OBVIOUS
<1> USE RedisQueueAssumption DEF RedisInv
<1>1. RedisTypeOK
  BY DEF RedisTyped, RedisTypeOK
<1>2. RunningIsAttended
  <2> SUFFICES ASSUME NEW j \in RedisJobs
               PROVE  LET having == {sk \in Servers \X Slots : worker[sk[1]][sk[2]] = j} IN
                      /\ \A sk \in having : sk[1] = entry[j].at /\ entry[j].status = "running"
                      /\ entry[j].status = "running" /\ serving[entry[j].at] # "gone" => Cardinality(having) = 1
    BY DEF RunningIsAttended
  <2> DEFINE having == {sk \in Servers \X Slots : worker[sk[1]][sk[2]] = j}
  <2>1. \A sk \in having : sk[1] = entry[j].at /\ entry[j].status = "running"
    BY DEF WorkersRun
  <2>2. ASSUME entry[j].status = "running", serving[entry[j].at] # "gone" PROVE Cardinality(having) = 1
    <3>1. entry[j].at \in Servers
      BY <2>2 DEF UnknownBefore, Unsubmitted, RedisTyped
    <3>2. PICK k \in Slots : worker[entry[j].at][k] = j
      BY <2>2 DEF RunningIsHeld
    <3>3. having = {<<entry[j].at, k>>}
      BY <3>1, <3>2 DEF WorkersRun
    <3> QED BY <3>3, FS_Singleton
  <2> QED BY <2>1, <2>2
<1>3. PendingIsQueued
  <2> SUFFICES ASSUME NEW j \in RedisJobs, entry[j].status = "pending", StaysUp(j), j \notin missed.jobs
               PROVE  /\ j \in handlers[entry[j].at]
                      /\ entry[j].push # "sending" => Cardinality({i \in DOMAIN waitingIds : waitingIds[i] = j}) = 1
    BY DEF PendingIsQueued
  <2>1. j \in handlers[entry[j].at]
    BY DEF PendingIsListed
  <2>2. ASSUME entry[j].push # "sending"
        PROVE  Cardinality({i \in DOMAIN waitingIds : waitingIds[i] = j}) = 1
    <3>1. PICK i \in DOMAIN waitingIds : waitingIds[i] = j
      BY <2>2 DEF PendingIsListed, ToSet
    <3>2. {k \in DOMAIN waitingIds : waitingIds[k] = j} = {i}
      BY <3>1 DEF ListedOnce, IsInjective
    <3> QED BY <3>2, FS_Singleton
  <2> QED BY <2>1, <2>2
<1> QED BY <1>1, <1>2, <1>3 DEF RedisJobsHold

LEMMA RedisInitHolds == RedisInit => RedisInv
<1> SUFFICES ASSUME RedisInit PROVE RedisInv
  OBVIOUS
<1> USE RedisQueueAssumption DEF RedisInit
<1>1. RedisTyped
  BY DEF RedisTyped, Unsubmitted
<1>2. ToSet(waitingIds) = {} /\ IsInjective(waitingIds)
  BY DEF ToSet, IsInjective
<1>3. ListedOnce /\ UnknownBefore /\ HandlersWait /\ BegunOnce
  BY <1>2 DEF ListedOnce, UnknownBefore, HandlersWait, BegunOnce
<1>4. WorkersRun
  BY DEF WorkersRun
<1>5. RunningIsHeld /\ PendingIsListed /\ CopiesTellThePast
  BY DEF RunningIsHeld, PendingIsListed, CopiesTellThePast, Unsubmitted, Past
<1> QED BY <1>1, <1>3, <1>4, <1>5 DEF RedisInv

\* A change of a job's status, or of its push, leaves records of jobs.
LEMMA StatusTyped ==
  ASSUME RedisTyped, NEW j \in RedisJobs, NEW what \in {"pending", "running"} \cup Ended,
         entry' = [entry EXCEPT ![j].status = what]
  PROVE  entry' \in [RedisJobs -> Entries]
<1>1. entry \in [RedisJobs -> Entries] /\ entry[j] \in Entries
  BY DEF RedisTyped, Entries
<1> DEFINE new == [entry[j] EXCEPT !.status = what]
<1>2. new \in Entries
  BY <1>1 DEF Entries
<1>3. entry' = [entry EXCEPT ![j] = new]
  OBVIOUS
<1> HIDE DEF new
<1> QED BY <1>1, <1>2, <1>3

\* A copy that follows its record, or stays behind it, tells the past.
LEMMA MirrorKeeps ==
  ASSUME RedisTyped, CopiesTellThePast, NEW j \in RedisJobs, NEW what \in {"pending", "running"} \cup Ended,
         Mirrored(j, what), entry'[j].status = what, copied[j] \in Past(what),
         \A i \in RedisJobs \ {j} : entry'[i] = entry[i]
  PROVE  copied' \in [RedisJobs -> {"none", "pending", "running"} \cup Ended] /\ CopiesTellThePast'
<1>1. copied' = copied \/ copied' = [copied EXCEPT ![j] = what]
  BY DEF Mirrored
<1>2. copied' \in [RedisJobs -> {"none", "pending", "running"} \cup Ended]
  BY <1>1 DEF RedisTyped
<1>3. ASSUME NEW i \in RedisJobs PROVE copied'[i] \in Past(entry'[i].status)
  <2>1. CASE i = j
    <3>1. copied'[j] \in {copied[j], what} /\ what \in Past(what)
      BY <1>1 DEF RedisTyped, Past
    <3> QED BY <2>1, <3>1
  <2>2. CASE i # j
    <3>1. copied'[i] = copied[i] /\ entry'[i] = entry[i]
      BY <1>1, <2>2 DEF RedisTyped
    <3> QED BY <3>1 DEF CopiesTellThePast
  <2> QED BY <2>1, <2>2
<1> QED BY <1>2, <1>3 DEF CopiesTellThePast

LEMMA PushTyped ==
  ASSUME RedisTyped, NEW j \in RedisJobs, entry' = [entry EXCEPT ![j].push = "over"]
  PROVE  entry' \in [RedisJobs -> Entries]
<1>1. entry \in [RedisJobs -> Entries] /\ entry[j] \in Entries
  BY DEF RedisTyped, Entries
<1> DEFINE new == [entry[j] EXCEPT !.push = "over"]
<1>2. new \in Entries
  BY <1>1 DEF Entries
<1>3. entry' = [entry EXCEPT ![j] = new]
  OBVIOUS
<1> HIDE DEF new
<1> QED BY <1>1, <1>2, <1>3

\* A job is submitted: its server has its handler, and its workers begin.
LEMMA SubmitKeeps == ASSUME RedisInv, NEW s \in Servers, NEW j \in RedisJobs, SubmitTo(s, j) PROVE RedisInv'
<1> USE RedisQueueAssumption DEF RedisInv
<1>1. /\ s # NoServer /\ serving[s] = "up" /\ entry[j] = Unsubmitted /\ entry[j].at = NoServer /\ entry[j].push = "none"
      /\ ran[j] = 0 /\ j \notin ToSet(waitingIds)
  BY DEF SubmitTo, Unsubmitted, UnknownBefore, ListedOnce
<1>2. /\ entry'[j] = [at |-> s, status |-> "pending", push |-> "sending"]
      /\ \A i \in RedisJobs \ {j} : entry'[i] = entry[i]
  BY DEF SubmitTo, RedisTyped
<1>3. copied' \in [RedisJobs -> {"none", "pending", "running"} \cup Ended] /\ CopiesTellThePast'
  <2>1. copied[j] \in Past("none")
    BY <1>1 DEF CopiesTellThePast, Unsubmitted
  <2>2. copied[j] \in Past("pending") /\ Mirrored(j, "pending") /\ entry'[j].status = "pending"
    BY <1>2, <2>1 DEF SubmitTo, Past, Ended
  <2> QED BY <1>2, <2>2, MirrorKeeps
<1>4. handlers'[s] = handlers[s] \cup {j} /\ \A t \in Servers \ {s} : handlers'[t] = handlers[t]
  BY DEF SubmitTo, RedisTyped
<1>5. \A t \in Servers, k \in Slots, i \in RedisJobs : worker'[t][k] = i <=> worker[t][k] = i
  BY DEF SubmitTo, RedisTyped
<1>6. UNCHANGED <<waitingIds, serving, ran, missed>>
  BY DEF SubmitTo
<1>7. RedisTyped'
  BY <1>3, <1>6 DEF SubmitTo, RedisTyped
<1>8. ListedOnce'
  BY <1>1, <1>2, <1>6 DEF ListedOnce, RedisTyped, ToSet
<1>9. UnknownBefore'
  BY <1>1, <1>2, <1>6 DEF UnknownBefore
<1>10. HandlersWait'
  BY <1>1, <1>2, <1>4, <1>6 DEF HandlersWait
<1>11. WorkersRun'
  BY <1>1, <1>2, <1>5, <1>6 DEF WorkersRun
<1>12. RunningIsHeld'
  <2> SUFFICES ASSUME NEW i \in RedisJobs, entry'[i].status = "running", serving'[entry'[i].at] # "gone"
               PROVE  \E k \in Slots : worker'[entry'[i].at][k] = i
    BY DEF RunningIsHeld
  <2>1. i # j /\ entry'[i] = entry[i] /\ entry[i].at \in Servers
    BY <1>2 DEF UnknownBefore, Unsubmitted, RedisTyped
  <2> QED BY <2>1, <1>5, <1>6 DEF RunningIsHeld
<1>13. PendingIsListed'
  <2> SUFFICES ASSUME NEW i \in RedisJobs, entry'[i].status = "pending", StaysUp(i)', i \notin missed'.jobs
               PROVE  /\ i \in handlers'[entry'[i].at]
                      /\ entry'[i].push # "sending" => i \in ToSet(waitingIds')
    BY DEF PendingIsListed
  <2>1. CASE i = j
    BY <2>1, <1>2, <1>4
  <2>2. CASE i # j
    <3>1. entry'[i] = entry[i] /\ entry[i].at \in Servers /\ StaysUp(i)
      BY <2>2, <1>2, <1>6 DEF StaysUp, RedisTyped
    <3>2. i \in handlers[entry[i].at] /\ (entry[i].push # "sending" => i \in ToSet(waitingIds))
      BY <3>1, <1>6 DEF PendingIsListed
    <3> QED BY <3>1, <3>2, <1>4, <1>6
  <2> QED BY <2>1, <2>2
<1>14. BegunOnce' /\ CopiesTellThePast'
  BY <1>1, <1>2, <1>3, <1>6 DEF BegunOnce
<1> QED BY <1>7, <1>8, <1>9, <1>10, <1>11, <1>12, <1>13, <1>14

\* A push ends: its id is in the list, or it is lost.
LEMMA PushKeeps ==
  ASSUME RedisInv, NEW j \in RedisJobs, PushLands(j) \/ PushFails(j) \/ CancelJob(j)
  PROVE  RedisInv'
<1> USE RedisQueueAssumption DEF RedisInv
<1>1. entry[j].push = "sending" /\ entry[j].at # NoServer /\ j \notin ToSet(waitingIds)
  BY DEF PushLands, PushFails, CancelJob, Sending, UnknownBefore, Unsubmitted, ListedOnce
<1>2. entry' = [entry EXCEPT ![j].push = "over"] /\ UNCHANGED <<copied, handlers, worker, serving, ran>>
  BY DEF PushLands, PushFails, CancelJob
<1>3. /\ entry'[j].push = "over" /\ entry'[j].at = entry[j].at /\ entry'[j].status = entry[j].status
      /\ \A i \in RedisJobs \ {j} : entry'[i] = entry[i]
  BY <1>2 DEF RedisTyped
<1>4. /\ \/ waitingIds' = <<j>> \o waitingIds /\ missed'.jobs = missed.jobs
         \/ waitingIds' = waitingIds /\ missed'.jobs = missed.jobs \cup {j}
      /\ missed' \in [jobs : SUBSET RedisJobs, losses : 0..MaxLosses]
  <2>1. missed.losses \in 0..MaxLosses /\ missed.jobs \in SUBSET RedisJobs /\ MaxLosses \in Nat
    BY DEF RedisTyped
  <2>2. CASE PushLands(j)
    BY <2>2 DEF PushLands, RedisTyped
  <2>3. CASE PushFails(j)
    <3>1. /\ missed.losses < MaxLosses /\ waitingIds' = waitingIds
          /\ missed' = [jobs |-> missed.jobs \cup {j}, losses |-> missed.losses + 1]
      BY <2>3 DEF PushFails, Loses
    <3>2. missed.losses + 1 \in 0..MaxLosses /\ missed.jobs \cup {j} \in SUBSET RedisJobs
      BY <3>1, <2>1
    <3> QED BY <3>1, <3>2
  <2>4. CASE CancelJob(j)
    BY <2>4 DEF CancelJob, Misses, RedisTyped
  <2> QED BY <2>2, <2>3, <2>4
<1>5. /\ <<j>> \in Seq(RedisJobs) /\ IsInjective(<<j>>) /\ ToSet(<<j>>) = {j}
  BY DEF IsInjective, ToSet
<1>6. /\ waitingIds' \in Seq(RedisJobs) /\ IsInjective(waitingIds')
      /\ ToSet(waitingIds) \subseteq ToSet(waitingIds') /\ ToSet(waitingIds') \subseteq ToSet(waitingIds) \cup {j}
      /\ j \in ToSet(waitingIds') \/ j \in missed'.jobs
      /\ missed.jobs \subseteq missed'.jobs
  <2>1. CASE waitingIds' = <<j>> \o waitingIds /\ missed'.jobs = missed.jobs
    <3>1. /\ <<j>> \o waitingIds \in Seq(RedisJobs) /\ IsInjective(<<j>> \o waitingIds)
          /\ ToSet(<<j>> \o waitingIds) = {j} \cup ToSet(waitingIds)
      <4>1. /\ waitingIds \in Seq(RedisJobs) /\ IsInjective(waitingIds)
            /\ ToSet(<<j>>) \cap ToSet(waitingIds) = {}
        BY <1>1, <1>5 DEF RedisTyped, ListedOnce
      <4> DEFINE one == <<j>>
      <4>2. /\ one \in Seq(RedisJobs) /\ IsInjective(one) /\ ToSet(one) = {j}
            /\ ToSet(one) \cap ToSet(waitingIds) = {}
        BY <1>5, <4>1
      <4> HIDE DEF one
      <4>3. /\ one \o waitingIds \in Seq(RedisJobs) /\ IsInjective(one \o waitingIds)
            /\ ToSet(one \o waitingIds) = {j} \cup ToSet(waitingIds)
        BY <4>1, <4>2, JoinLines
      <4> QED BY <4>3 DEF one
    <3> QED BY <3>1, <2>1
  <2>2. CASE waitingIds' = waitingIds /\ missed'.jobs = missed.jobs \cup {j}
    BY <2>2 DEF RedisTyped, ListedOnce
  <2> QED BY <2>1, <2>2, <1>4
<1>7. entry' \in [RedisJobs -> [at : Servers \cup {NoServer}, status : {"none", "pending", "running"} \cup Ended,
                                push : {"none", "sending", "over"}]]
  BY <1>2, PushTyped DEF Entries
<1>8. RedisTyped'
  BY <1>2, <1>4, <1>6, <1>7 DEF RedisTyped
<1>9. ToSet(waitingIds) \subseteq RedisJobs
  BY DEF RedisTyped, ToSet
<1>10. ListedOnce'
  BY <1>3, <1>6, <1>9 DEF ListedOnce
<1>11. UnknownBefore'
  BY <1>1, <1>2, <1>3 DEF UnknownBefore
<1>12. HandlersWait'
  BY <1>2, <1>3 DEF HandlersWait
<1>13. WorkersRun'
  BY <1>2, <1>3 DEF WorkersRun
<1>14. RunningIsHeld'
  BY <1>2, <1>3 DEF RunningIsHeld
<1>15. PendingIsListed'
  BY <1>2, <1>3, <1>6 DEF PendingIsListed, StaysUp
<1>16. BegunOnce' /\ CopiesTellThePast'
  BY <1>2, <1>3 DEF BegunOnce, CopiesTellThePast
<1> QED BY <1>8, <1>10, <1>11, <1>12, <1>13, <1>14, <1>15, <1>16

\* The oldest id leaves the list: its job begins where its handler is, and is lost elsewhere.
LEMMA PopKeeps == ASSUME RedisInv, NEW s \in Servers, NEW k \in Slots, Pop(s, k) PROVE RedisInv'
<1> USE RedisQueueAssumption DEF RedisInv
<1> DEFINE j == Last(waitingIds)
<1>1. /\ worker[s][k] = "pops" /\ waitingIds # << >> /\ waitingIds' = Front(waitingIds)
      /\ handlers' = [handlers EXCEPT ![s] = @ \ {j}] /\ serving' = serving
  BY DEF Pop
<1>2. /\ waitingIds' \in Seq(RedisJobs) /\ IsInjective(waitingIds')
      /\ j \in RedisJobs /\ ToSet(waitingIds') = ToSet(waitingIds) \ {j}
  BY <1>1, FrontOfLine DEF RedisTyped, ListedOnce
<1>3. IF j \in handlers[s]
      THEN /\ worker' = [worker EXCEPT ![s][k] = j] /\ entry' = [entry EXCEPT ![j].status = "running"]
           /\ Mirrored(j, "running") /\ ran' = [ran EXCEPT ![j] = @ + 1] /\ missed' = missed
      ELSE missed' = [missed EXCEPT !.jobs = @ \cup {j}] /\ UNCHANGED <<worker, entry, copied, ran>>
  BY DEF Pop, Becomes, Misses
<1>7. waitingIds \in Seq(RedisJobs) /\ ToSet(waitingIds) \subseteq RedisJobs
  BY DEF RedisTyped, ToSet
<1> HIDE DEF j
<1>4. /\ handlers'[s] = handlers[s] \ {j} /\ \A t \in Servers \ {s} : handlers'[t] = handlers[t]
      /\ handlers' \in [Servers -> SUBSET RedisJobs]
  BY <1>1 DEF RedisTyped
<1>5. CASE j \in handlers[s]
  <2>0. /\ worker' = [worker EXCEPT ![s][k] = j] /\ entry' = [entry EXCEPT ![j].status = "running"]
        /\ Mirrored(j, "running") /\ ran' = [ran EXCEPT ![j] = @ + 1] /\ missed' = missed
    BY <1>3, <1>5
  <2>1. entry[j].at = s /\ entry[j].status = "pending" /\ ran[j] = 0 /\ serving[s] # "gone" /\ s # NoServer
    BY <1>2, <1>5 DEF HandlersWait
  <2>2. /\ entry'[j].at = s /\ entry'[j].status = "running" /\ entry'[j].push = entry[j].push
        /\ \A i \in RedisJobs \ {j} : entry'[i] = entry[i]
    BY <1>2, <2>0, <2>1 DEF RedisTyped
  <2>3. copied' \in [RedisJobs -> {"none", "pending", "running"} \cup Ended] /\ CopiesTellThePast'
    <3>1. copied[j] \in Past("pending")
      BY <1>2, <2>1 DEF CopiesTellThePast
    <3>2. copied[j] \in Past("running")
      BY <3>1 DEF Past, Ended
    <3> QED BY <1>2, <2>0, <2>2, <3>2, MirrorKeeps
  <2>4. ran'[j] = 1 /\ \A i \in RedisJobs \ {j} : ran'[i] = ran[i]
    BY <1>2, <2>0, <2>1 DEF RedisTyped
  <2>5. worker'[s][k] = j /\ \A t \in Servers, l \in Slots : t # s \/ l # k => worker'[t][l] = worker[t][l]
    BY <2>0 DEF RedisTyped
  <2>6. \A t \in Servers, l \in Slots : worker[t][l] # j
    BY <1>2, <2>1 DEF WorkersRun
  <2>7. entry' \in [RedisJobs -> [at : Servers \cup {NoServer}, status : {"none", "pending", "running"} \cup Ended,
                                  push : {"none", "sending", "over"}]]
    BY <1>2, <2>0, StatusTyped DEF Entries
  <2>8. worker' \in [Servers -> [Slots -> RedisJobs \cup {"unstarted", "pops", "ended"}]]
    BY <1>2, <2>0 DEF RedisTyped
  <2>9. ran' \in [RedisJobs -> Nat]
    BY <1>2, <2>0 DEF RedisTyped
  <2>10. RedisTyped'
    BY <1>1, <1>2, <1>4, <2>0, <2>3, <2>7, <2>8, <2>9 DEF RedisTyped
  <2>12. ListedOnce'
    BY <1>2, <1>7, <2>2 DEF ListedOnce
  <2>13. UnknownBefore'
    BY <2>1, <2>2, <2>4 DEF UnknownBefore
  <2>14. HandlersWait'
    BY <1>1, <1>4, <2>1, <2>2, <2>4 DEF HandlersWait
  <2>15. WorkersRun'
    BY <1>1, <1>2, <2>1, <2>2, <2>5, <2>6 DEF WorkersRun
  <2>16. RunningIsHeld'
    <3> SUFFICES ASSUME NEW i \in RedisJobs, entry'[i].status = "running", serving'[entry'[i].at] # "gone"
                 PROVE  \E l \in Slots : worker'[entry'[i].at][l] = i
      BY DEF RunningIsHeld
    <3>1. CASE i = j
      BY <3>1, <2>2, <2>5
    <3>2. CASE i # j
      <4>1. entry'[i] = entry[i] /\ entry[i].at \in Servers
        BY <3>2, <2>2 DEF UnknownBefore, Unsubmitted, RedisTyped
      <4>2. PICK l \in Slots : worker[entry[i].at][l] = i
        BY <4>1, <1>1 DEF RunningIsHeld
      <4>3. entry[i].at # s \/ l # k
        BY <4>2, <1>1
      <4> QED BY <4>1, <4>2, <4>3, <2>5
    <3> QED BY <3>1, <3>2
  <2>17. PendingIsListed'
    <3> SUFFICES ASSUME NEW i \in RedisJobs, entry'[i].status = "pending", StaysUp(i)', i \notin missed'.jobs
                 PROVE  /\ i \in handlers'[entry'[i].at]
                        /\ entry'[i].push # "sending" => i \in ToSet(waitingIds')
      BY DEF PendingIsListed
    <3>1. i # j /\ entry'[i] = entry[i] /\ entry[i].at \in Servers /\ missed' = missed
      BY <1>3, <1>5, <2>2 DEF StaysUp, RedisTyped
    <3>2. StaysUp(i)
      BY <3>1, <1>1 DEF StaysUp
    <3>3. i \in handlers[entry[i].at] /\ (entry[i].push # "sending" => i \in ToSet(waitingIds))
      BY <3>1, <3>2 DEF PendingIsListed
    <3> QED BY <3>1, <3>3, <1>2, <1>4
  <2>18. BegunOnce' /\ CopiesTellThePast'
    BY <2>3, <2>4 DEF BegunOnce
  <2> QED BY <2>10, <2>12, <2>13, <2>14, <2>15, <2>16, <2>17, <2>18
<1>6. CASE j \notin handlers[s]
  <2>1. /\ missed'.jobs = missed.jobs \cup {j} /\ missed' \in [jobs : SUBSET RedisJobs, losses : 0..MaxLosses]
        /\ UNCHANGED <<worker, entry, copied, ran, serving>> /\ handlers' = handlers
    <3>1. handlers[s] \ {j} = handlers[s]
      BY <1>6
    <3>2. handlers' = handlers
      BY <3>1, <1>1 DEF RedisTyped
    <3>3. missed' = [missed EXCEPT !.jobs = @ \cup {j}] /\ UNCHANGED <<worker, entry, copied, ran>>
      BY <1>3, <1>6
    <3>4. missed'.jobs = missed.jobs \cup {j} /\ missed' \in [jobs : SUBSET RedisJobs, losses : 0..MaxLosses]
      BY <3>3, <1>2 DEF RedisTyped
    <3> QED BY <3>2, <3>3, <3>4, <1>1
  <2>2. RedisTyped'
    BY <1>2, <2>1 DEF RedisTyped
  <2>3. ListedOnce'
    BY <1>2, <2>1 DEF ListedOnce
  <2>4. PendingIsListed'
    BY <1>2, <2>1 DEF PendingIsListed, StaysUp
  <2>5. UnknownBefore' /\ HandlersWait' /\ WorkersRun' /\ RunningIsHeld' /\ BegunOnce' /\ CopiesTellThePast'
    BY <2>1 DEF UnknownBefore, HandlersWait, WorkersRun, RunningIsHeld, BegunOnce, CopiesTellThePast
  <2> QED BY <2>2, <2>3, <2>4, <2>5
<1> QED BY <1>5, <1>6


\* The handler of a job comes back, and its worker pops the next.
LEMMA FinishKeeps == ASSUME RedisInv, NEW s \in Servers, NEW k \in Slots, Finishes(s, k) PROVE RedisInv'
<1> USE RedisQueueAssumption DEF RedisInv
<1> DEFINE j == worker[s][k]
<1>1. PICK outcome \in {"succeeded", "failed"} :
         entry' = [entry EXCEPT ![j].status = outcome] /\ Mirrored(j, outcome)
  BY DEF Finishes, Becomes
<1>2. /\ j \in RedisJobs /\ worker' = [worker EXCEPT ![s][k] = "pops"]
      /\ UNCHANGED <<waitingIds, handlers, serving, ran, missed>>
  BY DEF Finishes
<1>3. /\ entry[j].at = s /\ entry[j].status = "running" /\ serving[s] # "gone"
      /\ \A l \in Slots : worker[s][l] = j => l = k
  BY <1>2 DEF WorkersRun
<1>4. \A t \in Servers, l \in Slots : t # s => worker[t][l] # j
  BY <1>2, <1>3 DEF WorkersRun
<1>5. worker'[s][k] = "pops" /\ \A t \in Servers, l \in Slots : t # s \/ l # k => worker'[t][l] = worker[t][l]
  BY <1>2 DEF RedisTyped
<1>6. worker' \in [Servers -> [Slots -> RedisJobs \cup {"unstarted", "pops", "ended"}]]
  BY <1>2 DEF RedisTyped
<1> HIDE DEF j
<1>7. /\ entry'[j].at = s /\ entry'[j].status = outcome /\ entry'[j].push = entry[j].push
      /\ \A i \in RedisJobs \ {j} : entry'[i] = entry[i]
  BY <1>1, <1>2, <1>3 DEF RedisTyped
<1>8. /\ entry' \in [RedisJobs -> [at : Servers \cup {NoServer}, status : {"none", "pending", "running"} \cup Ended,
                                   push : {"none", "sending", "over"}]]
      /\ copied' \in [RedisJobs -> {"none", "pending", "running"} \cup Ended] /\ CopiesTellThePast'
  <2>1. copied[j] \in Past("running")
    BY <1>2, <1>3 DEF CopiesTellThePast
  <2>2. outcome \in {"pending", "running"} \cup Ended /\ copied[j] \in Past(outcome)
    BY <2>1 DEF Past, Ended
  <2>3. copied' \in [RedisJobs -> {"none", "pending", "running"} \cup Ended] /\ CopiesTellThePast'
    BY <1>1, <1>2, <1>7, <2>2, MirrorKeeps
  <2> QED BY <1>1, <1>2, <2>2, <2>3, StatusTyped DEF Entries
<1>9. RedisTyped'
  BY <1>2, <1>6, <1>8 DEF RedisTyped
<1>10. ToSet(waitingIds) \subseteq RedisJobs
  BY DEF RedisTyped, ToSet
<1>11. ListedOnce'
  BY <1>2, <1>7, <1>10 DEF ListedOnce
<1>12. UnknownBefore'
  BY <1>2, <1>3, <1>7 DEF UnknownBefore
<1>13. HandlersWait'
  <2>1. \A t \in Servers : j \notin handlers[t]
    BY <1>2, <1>3 DEF HandlersWait
  <2> QED BY <2>1, <1>2, <1>7 DEF HandlersWait
<1>14. WorkersRun'
  <2> SUFFICES ASSUME NEW t \in Servers, NEW l \in Slots, NEW i \in RedisJobs, worker'[t][l] = i
               PROVE  /\ entry'[i].at = t /\ entry'[i].status = "running" /\ serving'[t] # "gone"
                      /\ \A m \in Slots : worker'[t][m] = i => m = l
    BY DEF WorkersRun
  <2>1. (t # s \/ l # k) /\ worker[t][l] = i
    BY <1>5
  <2>2. i # j
    BY <2>1, <1>3, <1>4
  <2>3. /\ entry[i].at = t /\ entry[i].status = "running" /\ serving[t] # "gone"
        /\ \A m \in Slots : worker[t][m] = i => m = l
    BY <2>1 DEF WorkersRun
  <2>4. \A m \in Slots : worker'[t][m] = i => worker[t][m] = i
    BY <1>5
  <2> QED BY <2>2, <2>3, <2>4, <1>2, <1>7
<1>15. RunningIsHeld'
  <2> SUFFICES ASSUME NEW i \in RedisJobs, entry'[i].status = "running", serving'[entry'[i].at] # "gone"
               PROVE  \E l \in Slots : worker'[entry'[i].at][l] = i
    BY DEF RunningIsHeld
  <2>1. i # j /\ entry'[i] = entry[i] /\ entry[i].at \in Servers
    BY <1>7 DEF UnknownBefore, Unsubmitted, RedisTyped
  <2>2. PICK l \in Slots : worker[entry[i].at][l] = i
    BY <2>1, <1>2 DEF RunningIsHeld
  <2>3. entry[i].at # s \/ l # k
    BY <2>1, <2>2 DEF j
  <2> QED BY <2>1, <2>2, <2>3, <1>5
<1>16. PendingIsListed'
  BY <1>2, <1>7 DEF PendingIsListed, StaysUp
<1>17. BegunOnce' /\ CopiesTellThePast'
  BY <1>2, <1>8 DEF BegunOnce
<1> QED BY <1>9, <1>11, <1>12, <1>13, <1>14, <1>15, <1>16, <1>17

LEMMA EntryShape ==
  ASSUME NEW e \in Entries, NEW mine, NEW held
  PROVE  LET new == [e EXCEPT !.push = IF mine THEN "over" ELSE @, !.status = IF held THEN "cancelled" ELSE @] IN
         /\ new.at = e.at /\ new.push = (IF mine THEN "over" ELSE e.push)
         /\ new.status = (IF held THEN "cancelled" ELSE e.status)
         /\ new \in Entries
<1> DEFINE new == [e EXCEPT !.push = IF mine THEN "over" ELSE @, !.status = IF held THEN "cancelled" ELSE @]
<1>1. /\ new.at = e.at /\ new.push = (IF mine THEN "over" ELSE e.push)
      /\ new.status = (IF held THEN "cancelled" ELSE e.status)
  BY DEF Entries
<1>2. new \in Entries
  BY DEF Entries, Ended
<1> QED BY <1>1, <1>2

\* A server shuts down: its pushes end, its jobs are cancelled, and an id may go with a worker that pops.
LEMMA ShutdownKeeps == ASSUME RedisInv, NEW s \in Servers, ShutdownRedis(s) PROVE RedisInv'
<1> USE RedisQueueAssumption DEF RedisInv
<1>1. /\ serving[s] = "up" /\ serving' = [serving EXCEPT ![s] = "stopping"] /\ UNCHANGED <<handlers, ran>>
      /\ s # NoServer
  BY DEF ShutdownRedis
<1>2. entry' = [j \in RedisJobs |->
                  [entry[j] EXCEPT !.push = IF j \in OfServer(s) THEN "over" ELSE @,
                                   !.status = IF j \in Busy(s) THEN "cancelled" ELSE @]]
  BY DEF ShutdownRedis
<1>3. PICK told \in SUBSET Busy(s) : copied' = [j \in RedisJobs |-> IF j \in told THEN "cancelled" ELSE copied[j]]
  BY DEF ShutdownRedis
<1>4. worker' = [worker EXCEPT ![s] = [k \in Slots |-> IF @[k] \in RedisJobs THEN "pops" ELSE "ended"]]
  BY DEF ShutdownRedis
<1> DEFINE pushes == {j \in OfServer(s) : Sending(j)}
<1>5. PICK landed \in SUBSET pushes, taken \in BOOLEAN :
        LET listed == SetToSeq(landed) \o waitingIds IN
        /\ taken => listed # << >>
        /\ waitingIds' = IF taken THEN Front(listed) ELSE listed
        /\ missed' = [missed EXCEPT !.jobs = @ \cup ((pushes \ landed) \cup (IF taken THEN {Last(listed)} ELSE {}))]
  BY DEF ShutdownRedis, Misses
<1> DEFINE listed == SetToSeq(landed) \o waitingIds
<1>6. /\ listed \in Seq(RedisJobs) /\ IsInjective(listed)
      /\ ToSet(listed) = landed \cup ToSet(waitingIds)
  <2>1. landed \in SUBSET RedisJobs /\ IsFiniteSet(landed)
    BY FS_Subset DEF OfServer
  <2>2. SetToSeq(landed) \in Seq(RedisJobs) /\ IsInjective(SetToSeq(landed)) /\ ToSet(SetToSeq(landed)) = landed
    BY <2>1, LineOfSet
  <2>3. landed \cap ToSet(waitingIds) = {}
    BY DEF Sending, ListedOnce
  <2>4. waitingIds \in Seq(RedisJobs) /\ IsInjective(waitingIds)
    BY DEF RedisTyped, ListedOnce
  <2> QED BY <2>2, <2>3, <2>4, JoinLines
<1>7. pushes \subseteq RedisJobs /\ \A j \in pushes : entry[j].at = s
  BY DEF OfServer
<1>8. /\ (taken => listed # << >>) /\ waitingIds' = (IF taken THEN Front(listed) ELSE listed)
      /\ missed' = [missed EXCEPT !.jobs = @ \cup ((pushes \ landed) \cup (IF taken THEN {Last(listed)} ELSE {}))]
  BY <1>5
<1> HIDE DEF listed, pushes
<1>9. /\ waitingIds' \in Seq(RedisJobs) /\ IsInjective(waitingIds')
      /\ ToSet(waitingIds') \subseteq ToSet(listed) /\ ToSet(listed) \subseteq ToSet(waitingIds') \cup missed'.jobs
      /\ missed' \in [jobs : SUBSET RedisJobs, losses : 0..MaxLosses] /\ missed.jobs \subseteq missed'.jobs
  <2>1. CASE taken
    <3>1. /\ Front(listed) \in Seq(RedisJobs) /\ IsInjective(Front(listed)) /\ Last(listed) \in RedisJobs
          /\ ToSet(Front(listed)) = ToSet(listed) \ {Last(listed)}
      BY <2>1, <1>6, <1>8, FrontOfLine
    <3>2. missed' = [missed EXCEPT !.jobs = @ \cup ((pushes \ landed) \cup {Last(listed)})]
      BY <2>1, <1>8
    <3>3. /\ missed'.jobs = missed.jobs \cup ((pushes \ landed) \cup {Last(listed)})
          /\ missed' \in [jobs : SUBSET RedisJobs, losses : 0..MaxLosses]
      BY <3>1, <3>2, <1>7 DEF RedisTyped
    <3> QED BY <3>1, <3>3, <2>1, <1>8
  <2>2. CASE ~taken
    <3>1. waitingIds' = listed
      BY <2>2, <1>8
    <3>2. missed' = [missed EXCEPT !.jobs = @ \cup ((pushes \ landed) \cup {})]
      BY <2>2, <1>8
    <3>3. missed.jobs \subseteq missed'.jobs /\ missed' \in [jobs : SUBSET RedisJobs, losses : 0..MaxLosses]
      BY <3>2, <1>7 DEF RedisTyped
    <3> QED BY <3>1, <3>3, <1>6
  <2> QED BY <2>1, <2>2
<1>10. \A j \in RedisJobs :
         /\ entry'[j].at = entry[j].at
         /\ entry'[j].push = (IF entry[j].at = s THEN "over" ELSE entry[j].push)
         /\ entry'[j].status = (IF j \in Busy(s) THEN "cancelled" ELSE entry[j].status)
         /\ copied'[j] = (IF j \in told THEN "cancelled" ELSE copied[j])
  <2> SUFFICES ASSUME NEW j \in RedisJobs
               PROVE  /\ entry'[j].at = entry[j].at
                      /\ entry'[j].push = (IF entry[j].at = s THEN "over" ELSE entry[j].push)
                      /\ entry'[j].status = (IF j \in Busy(s) THEN "cancelled" ELSE entry[j].status)
                      /\ copied'[j] = (IF j \in told THEN "cancelled" ELSE copied[j])
    OBVIOUS
  <2>1. entry[j] \in Entries
    BY DEF RedisTyped, Entries
  <2>2. j \in OfServer(s) <=> entry[j].at = s
    BY DEF OfServer
  <2>3. entry'[j] = [entry[j] EXCEPT !.push = IF j \in OfServer(s) THEN "over" ELSE @,
                                     !.status = IF j \in Busy(s) THEN "cancelled" ELSE @]
    BY <1>2
  <2>4. copied'[j] = (IF j \in told THEN "cancelled" ELSE copied[j])
    BY <1>3
  <2> DEFINE new == [entry[j] EXCEPT !.push = IF j \in OfServer(s) THEN "over" ELSE @,
                                     !.status = IF j \in Busy(s) THEN "cancelled" ELSE @]
  <2>5. /\ new.at = entry[j].at /\ new.push = (IF j \in OfServer(s) THEN "over" ELSE entry[j].push)
        /\ new.status = (IF j \in Busy(s) THEN "cancelled" ELSE entry[j].status)
    BY ONLY <2>1 DEF Entries
  <2>6. entry'[j] = new
    BY <2>3
  <2> HIDE DEF new
  <2> QED BY <2>2, <2>4, <2>5, <2>6
<1>11. \A j \in RedisJobs : j \in Busy(s) => entry[j].at = s /\ entry[j].status = "running"
  BY DEF Busy, WorkersRun
<1>12. /\ entry' \in [RedisJobs -> [at : Servers \cup {NoServer}, status : {"none", "pending", "running"} \cup Ended,
                                    push : {"none", "sending", "over"}]]
       /\ copied' \in [RedisJobs -> {"none", "pending", "running"} \cup Ended]
  <2>1. ASSUME NEW j \in RedisJobs
        PROVE  [entry[j] EXCEPT !.push = IF j \in OfServer(s) THEN "over" ELSE @,
                                !.status = IF j \in Busy(s) THEN "cancelled" ELSE @]
                 \in [at : Servers \cup {NoServer}, status : {"none", "pending", "running"} \cup Ended,
                      push : {"none", "sending", "over"}]
    <3>1. entry[j] \in Entries
      BY DEF RedisTyped, Entries
    <3> QED BY <3>1, EntryShape DEF Entries
  <2> QED BY <2>1, <1>2, <1>3 DEF RedisTyped, Ended
<1>13. /\ worker' \in [Servers -> [Slots -> RedisJobs \cup {"unstarted", "pops", "ended"}]]
       /\ \A t \in Servers, k \in Slots :
            worker'[t][k] = IF t = s THEN (IF worker[s][k] \in RedisJobs THEN "pops" ELSE "ended") ELSE worker[t][k]
  BY <1>4 DEF RedisTyped
<1>14. serving' \in [Servers -> {"up", "stopping", "gone"}] /\ serving'[s] = "stopping"
       /\ \A t \in Servers \ {s} : serving'[t] = serving[t]
  BY <1>1 DEF RedisTyped
<1>15. RedisTyped'
  BY <1>1, <1>9, <1>12, <1>13, <1>14 DEF RedisTyped
<1>16. ListedOnce'
  <2>1. \A j \in ToSet(waitingIds) : j \in RedisJobs /\ entry[j].push = "over"
    BY DEF RedisTyped, ListedOnce, ToSet
  <2>2. \A j \in landed : j \in RedisJobs /\ entry[j].at = s
    BY <1>5, <1>7
  <2> QED BY <2>1, <2>2, <1>6, <1>9, <1>10 DEF ListedOnce
<1>17. UnknownBefore'
  <2> SUFFICES ASSUME NEW j \in RedisJobs, entry'[j].at = NoServer PROVE entry'[j] = Unsubmitted /\ ran'[j] = 0
    BY DEF UnknownBefore
  <2>1. entry[j].at = NoServer /\ j \notin OfServer(s) /\ j \notin Busy(s)
    BY <1>1, <1>10, <1>11 DEF OfServer
  <2>2. entry'[j] = entry[j]
    BY <2>1, <1>2 DEF RedisTyped
  <2> QED BY <2>1, <2>2, <1>1 DEF UnknownBefore
<1>18. HandlersWait'
  <2>1. \A t \in Servers : serving'[t] = "gone" => serving[t] = "gone"
    BY <1>14
  <2> QED BY <2>1, <1>1, <1>10, <1>11 DEF HandlersWait
<1>19. WorkersRun'
  <2> SUFFICES ASSUME NEW t \in Servers, NEW l \in Slots, NEW i \in RedisJobs, worker'[t][l] = i
               PROVE  /\ entry'[i].at = t /\ entry'[i].status = "running" /\ serving'[t] # "gone"
                      /\ \A m \in Slots : worker'[t][m] = i => m = l
    BY DEF WorkersRun
  <2>1. t # s /\ \A m \in Slots : worker'[t][m] = worker[t][m]
    BY <1>13
  <2>2. /\ entry[i].at = t /\ entry[i].status = "running" /\ serving[t] # "gone"
        /\ \A m \in Slots : worker[t][m] = i => m = l
    BY <2>1 DEF WorkersRun
  <2>3. i \notin Busy(s)
    BY <2>1, <2>2, <1>11
  <2> QED BY <2>1, <2>2, <2>3, <1>10, <1>14
<1>20. RunningIsHeld'
  <2> SUFFICES ASSUME NEW i \in RedisJobs, entry'[i].status = "running", serving'[entry'[i].at] # "gone"
               PROVE  \E l \in Slots : worker'[entry'[i].at][l] = i
    BY DEF RunningIsHeld
  <2>1. i \notin Busy(s) /\ entry[i].status = "running" /\ entry'[i].at = entry[i].at /\ entry[i].at \in Servers
    BY <1>10 DEF UnknownBefore, Unsubmitted, RedisTyped
  <2>2. serving[entry[i].at] # "gone"
    BY <2>1, <1>1, <1>14
  <2>3. PICK l \in Slots : worker[entry[i].at][l] = i
    BY <2>1, <2>2 DEF RunningIsHeld
  <2>4. entry[i].at # s
    BY <2>1, <2>3 DEF Busy
  <2> QED BY <2>1, <2>3, <2>4, <1>13
<1>21. PendingIsListed'
  <2> SUFFICES ASSUME NEW i \in RedisJobs, entry'[i].status = "pending", StaysUp(i)', i \notin missed'.jobs
               PROVE  /\ i \in handlers'[entry'[i].at]
                      /\ entry'[i].push # "sending" => i \in ToSet(waitingIds')
    BY DEF PendingIsListed
  <2>1. /\ i \notin Busy(s) /\ entry[i].status = "pending" /\ entry'[i].at = entry[i].at
        /\ entry[i].at \in Servers /\ i \notin missed.jobs
    BY <1>9, <1>10 DEF StaysUp, RedisTyped
  <2>2. entry[i].at # s /\ StaysUp(i)
    BY <2>1, <1>1, <1>14 DEF StaysUp
  <2>3. i \in handlers[entry[i].at] /\ (entry[i].push # "sending" => i \in ToSet(waitingIds))
    BY <2>1, <2>2 DEF PendingIsListed
  <2>4. entry'[i].push = entry[i].push
    BY <2>2, <1>10
  <2> QED BY <2>1, <2>3, <2>4, <1>1, <1>6, <1>9
<1>22. BegunOnce' /\ CopiesTellThePast'
  <2> SUFFICES ASSUME NEW j \in RedisJobs PROVE copied'[j] \in Past(entry'[j].status)
    BY <1>1 DEF BegunOnce, CopiesTellThePast
  <2>1. copied[j] \in Past(entry[j].status)
    BY DEF CopiesTellThePast
  <2>2. CASE j \in Busy(s)
    <3>1. copied[j] \in Past("running") /\ entry'[j].status = "cancelled"
      BY <1>10, <1>11, <2>1, <2>2
    <3>2. copied'[j] \in {copied[j], "cancelled"}
      BY <1>10
    <3> QED BY <3>1, <3>2 DEF Past, Ended
  <2>3. CASE j \notin Busy(s)
    <3>1. copied'[j] = copied[j] /\ entry'[j].status = entry[j].status
      BY <1>10, <2>3
    <3> QED BY <2>1, <3>1
  <2> QED BY <2>2, <2>3
<1> QED BY <1>15, <1>16, <1>17, <1>18, <1>19, <1>20, <1>21, <1>22

\* A server ends, and what it knew of its jobs is gone.
LEMMA ExitKeeps == ASSUME RedisInv, NEW s \in Servers, Exits(s) PROVE RedisInv'
<1> USE RedisQueueAssumption DEF RedisInv
<1>1. /\ serving' = [serving EXCEPT ![s] = "gone"] /\ handlers' = [handlers EXCEPT ![s] = {}]
      /\ worker' = [worker EXCEPT ![s] = [k \in Slots |-> "ended"]]
      /\ UNCHANGED <<waitingIds, entry, copied, ran>>
  BY DEF Exits
<1>2. missed'.jobs = missed.jobs /\ missed' \in [jobs : SUBSET RedisJobs, losses : 0..MaxLosses]
  <2>1. missed.losses \in 0..MaxLosses /\ missed.jobs \in SUBSET RedisJobs /\ MaxLosses \in Nat
    BY DEF RedisTyped
  <2>2. CASE missed' = missed
    BY <2>2 DEF RedisTyped
  <2>3. CASE Loses({})
    <3>1. missed.losses < MaxLosses /\ missed' = [jobs |-> missed.jobs, losses |-> missed.losses + 1]
      BY <2>3 DEF Loses
    <3>2. missed.losses + 1 \in 0..MaxLosses
      BY <3>1, <2>1
    <3> QED BY <3>1, <3>2, <2>1
  <2> QED BY <2>2, <2>3 DEF Exits
<1>3. /\ serving' \in [Servers -> {"up", "stopping", "gone"}] /\ serving'[s] = "gone"
      /\ \A t \in Servers \ {s} : serving'[t] = serving[t]
  BY <1>1 DEF RedisTyped
<1>4. /\ handlers' \in [Servers -> SUBSET RedisJobs] /\ handlers'[s] = {}
      /\ \A t \in Servers \ {s} : handlers'[t] = handlers[t]
  BY <1>1 DEF RedisTyped
<1>5. /\ worker' \in [Servers -> [Slots -> RedisJobs \cup {"unstarted", "pops", "ended"}]]
      /\ \A t \in Servers, k \in Slots : worker'[t][k] = IF t = s THEN "ended" ELSE worker[t][k]
  BY <1>1 DEF RedisTyped
<1>6. RedisTyped'
  BY <1>1, <1>2, <1>3, <1>4, <1>5 DEF RedisTyped
<1>7. ListedOnce' /\ UnknownBefore' /\ BegunOnce'
  BY <1>1 DEF ListedOnce, UnknownBefore, BegunOnce
<1>8. HandlersWait'
  BY <1>1, <1>3, <1>4 DEF HandlersWait
<1>9. WorkersRun'
  BY <1>1, <1>3, <1>5 DEF WorkersRun
<1>10. \A j \in RedisJobs : entry[j].at # NoServer => entry[j].at \in Servers
  BY DEF RedisTyped
<1>11. RunningIsHeld'
  <2> SUFFICES ASSUME NEW i \in RedisJobs, entry[i].status = "running", serving'[entry[i].at] # "gone"
               PROVE  \E l \in Slots : worker'[entry[i].at][l] = i
    BY <1>1 DEF RunningIsHeld
  <2>1. entry[i].at \in Servers
    BY <1>10 DEF UnknownBefore, Unsubmitted
  <2>2. entry[i].at # s /\ serving[entry[i].at] # "gone"
    BY <2>1, <1>3
  <2> QED BY <2>1, <2>2, <1>5 DEF RunningIsHeld
<1>12. PendingIsListed'
  <2> SUFFICES ASSUME NEW i \in RedisJobs, entry[i].status = "pending", StaysUp(i)', i \notin missed.jobs
               PROVE  /\ i \in handlers'[entry[i].at]
                      /\ entry[i].push # "sending" => i \in ToSet(waitingIds)
    BY <1>1, <1>2 DEF PendingIsListed
  <2>1. entry[i].at \in Servers /\ entry[i].at # s /\ StaysUp(i)
    BY <1>1, <1>3, <1>10 DEF StaysUp
  <2> QED BY <2>1, <1>4 DEF PendingIsListed
<1>13. CopiesTellThePast'
  BY <1>1 DEF CopiesTellThePast
<1> QED BY <1>6, <1>7, <1>8, <1>9, <1>11, <1>12, <1>13

\* Redis restarts with an empty list and an empty cache.
LEMMA ForgetKeeps == ASSUME RedisInv, RedisForgets PROVE RedisInv'
<1> USE RedisQueueAssumption DEF RedisInv
<1>1. /\ waitingIds' = << >> /\ UNCHANGED <<entry, handlers, worker, serving, ran>>
      /\ copied' = [j \in RedisJobs |-> "none"]
      /\ missed.losses < MaxLosses
      /\ missed' = [jobs |-> missed.jobs \cup ToSet(waitingIds), losses |-> missed.losses + 1]
  BY DEF RedisForgets, Loses, Range, ToSet
<1>2. missed'.jobs = missed.jobs \cup ToSet(waitingIds) /\ missed' \in [jobs : SUBSET RedisJobs, losses : 0..MaxLosses]
  <2>1. missed.losses \in 0..MaxLosses /\ missed.jobs \in SUBSET RedisJobs /\ MaxLosses \in Nat
    BY DEF RedisTyped
  <2>2. missed.losses + 1 \in 0..MaxLosses /\ ToSet(waitingIds) \subseteq RedisJobs
    BY <2>1, <1>1 DEF RedisTyped, ToSet
  <2> QED BY <2>1, <2>2, <1>1
<1>3. waitingIds' \in Seq(RedisJobs) /\ ToSet(waitingIds') = {} /\ IsInjective(waitingIds')
  BY <1>1 DEF ToSet, IsInjective
<1>4. RedisTyped'
  BY <1>1, <1>2, <1>3 DEF RedisTyped
<1>5. ListedOnce'
  BY <1>3 DEF ListedOnce
<1>6. PendingIsListed'
  BY <1>1, <1>2 DEF PendingIsListed, StaysUp
<1>7. UnknownBefore' /\ HandlersWait' /\ WorkersRun' /\ RunningIsHeld' /\ BegunOnce' /\ CopiesTellThePast'
  BY <1>1 DEF UnknownBefore, HandlersWait, WorkersRun, RunningIsHeld, BegunOnce, CopiesTellThePast, Past
<1> QED BY <1>4, <1>5, <1>6, <1>7

\* The copy of a job goes when its time is over.
LEMMA ExpiryKeeps == ASSUME RedisInv, NEW j \in RedisJobs, CopyExpires(j) PROVE RedisInv'
<1> USE DEF RedisInv
<1>1. /\ copied' = [copied EXCEPT ![j] = "none"]
      /\ UNCHANGED <<waitingIds, entry, handlers, worker, serving, ran, missed>>
  BY DEF CopyExpires
<1>2. RedisTyped' /\ ListedOnce' /\ UnknownBefore' /\ HandlersWait' /\ WorkersRun'
  BY <1>1 DEF RedisTyped, ListedOnce, UnknownBefore, HandlersWait, WorkersRun
<1>3. RunningIsHeld' /\ PendingIsListed' /\ BegunOnce'
  BY <1>1 DEF RunningIsHeld, PendingIsListed, StaysUp, BegunOnce
<1>4. \A i \in RedisJobs : copied'[i] \in {"none", copied[i]}
  BY <1>1 DEF RedisTyped
<1>5. CopiesTellThePast'
  BY <1>1, <1>4 DEF CopiesTellThePast, Past
<1> QED BY <1>2, <1>3, <1>5

LEMMA RedisStands == ASSUME RedisInv, UNCHANGED redisVars PROVE RedisInv'
<1> USE DEF RedisInv
<1>1. UNCHANGED <<waitingIds, entry, copied, handlers, worker, serving, ran, missed>>
  BY DEF redisVars
<1>2. RedisTyped' /\ ListedOnce' /\ UnknownBefore' /\ HandlersWait' /\ WorkersRun'
  BY <1>1 DEF RedisTyped, ListedOnce, UnknownBefore, HandlersWait, WorkersRun
<1>3. RunningIsHeld' /\ PendingIsListed' /\ BegunOnce' /\ CopiesTellThePast'
  BY <1>1 DEF RunningIsHeld, PendingIsListed, StaysUp, BegunOnce, CopiesTellThePast
<1> QED BY <1>2, <1>3

LEMMA RedisStep == RedisInv /\ [RedisNext]_redisVars => RedisInv'
<1> SUFFICES ASSUME RedisInv, [RedisNext]_redisVars PROVE RedisInv'
  OBVIOUS
<1>1. ASSUME NEW j \in RedisJobs, PushLands(j) \/ PushFails(j) \/ CancelJob(j) PROVE RedisInv'
  BY <1>1, PushKeeps
<1>2. ASSUME NEW j \in RedisJobs, NEW s \in Servers, SubmitTo(s, j) PROVE RedisInv'
  BY <1>2, SubmitKeeps
<1>3. ASSUME NEW s \in Servers, NEW k \in Slots, Pop(s, k) \/ Finishes(s, k) PROVE RedisInv'
  BY <1>3, PopKeeps, FinishKeeps
<1>4. ASSUME NEW s \in Servers, ShutdownRedis(s) \/ Exits(s) PROVE RedisInv'
  BY <1>4, ShutdownKeeps, ExitKeeps
<1>5. CASE RedisForgets
  BY <1>5, ForgetKeeps
<1>6. CASE UNCHANGED redisVars
  BY <1>6, RedisStands
<1>7. ASSUME NEW j \in RedisJobs, CopyExpires(j) PROVE RedisInv'
  BY <1>7, ExpiryKeeps
<1> QED BY <1>1, <1>2, <1>3, <1>4, <1>5, <1>6, <1>7 DEF RedisNext

\* The invariant of the jobs of several servers stands.
THEOREM RedisInvariance == RedisSpec => []RedisInv
<1> QED BY RedisInitHolds, RedisStep, PTL DEF RedisSpec

\* For any servers, workers, jobs and losses: a job is begun once at most, one that runs is in the
\* hands of one worker of its own server, one that waits can still be found unless its id got lost,
\* and the copy others read of it, whatever writes were lost, is true of it or was, an end only when it
\* is its end.
THEOREM RedisJobsAreKept == RedisSpec => [](RedisTypeOK /\ RedisJobsHold)
<1> QED BY RedisInvariance, RedisInvHolds, PTL
=============================================================================
