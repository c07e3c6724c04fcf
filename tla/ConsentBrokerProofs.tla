------------------------ MODULE ConsentBrokerProofs ------------------------
(***************************************************************************)
(* What TLAPS proves about ConsentBroker, for every set of branches,       *)
(* topics and custom matrices.                                             *)
(***************************************************************************)
EXTENDS ConsentBroker, TLAPS

\* A parked branch has a topic; an approval in a future is the user's; a request that can still be
\* answered is registered, and a registered one belongs to a parked branch.
Parked(b) ==
  /\ gate[b] # "working" => topic[b] \in Topics
  /\ b \in pending => gate[b] # "working"
  /\ future[b] = "open" => b \in pending
  /\ future[b] = "yes" => answer[b] = "yes" /\ topic[b] \in consented

Questions == \A b \in Branches : Parked(b)

\* Reachable only through ordinary topics, or with the user's yes.
LastOK ==
  /\ last.decision \in Acts /\ last.topic \in AlwaysAsk => last.topic \in consented
  /\ last.decision = "approved" => last.answer = "yes"

IInv == BrokerTypeOK /\ Questions /\ GrantsAreConsents /\ LastOK

\* What the profile says is a ruling.
LEMMA RulingType ==
  ASSUME BrokerTypeOK, NEW t \in Topics
  PROVE  /\ RulingFor(t) \in Rulings
         /\ RulingFor(t) = "allow" => t \notin AlwaysAsk
<1>1. ProfileRuling(t) \in Rulings
  BY DEF BrokerTypeOK, ProfileRuling, Profiles, Rulings
<1> QED
  BY <1>1 DEF RulingFor, Rulings

\* A recorded decision is well typed.
LEMMA RecordedType ==
  ASSUME NEW t \in Topics, NEW d \in Decisions, NEW s \in Answers,
         Recorded(t, d, s)
  PROVE  /\ last' \in [topic : Topics \cup {NoTopic}, decision : Decisions, answer : Answers]
         /\ last'.topic = t /\ last'.decision = d /\ last'.answer = s
<1> QED
  BY DEF Recorded

LEMMA InitHolds == BrokerInit => IInv
<1> SUFFICES ASSUME BrokerInit PROVE IInv
  OBVIOUS
<1>1. custom \in [Topics -> Rulings] /\ \A t \in AlwaysAsk : custom[t] # "allow"
  BY ConsentAssumption DEF BrokerInit, Matrices
<1>2. BrokerTypeOK
  BY <1>1 DEF BrokerInit, BrokerTypeOK, Rulings, Answers, Decisions
<1>3. Questions
  BY DEF BrokerInit, Questions, Parked
<1>4. GrantsAreConsents /\ LastOK
  BY DEF BrokerInit, GrantsAreConsents, LastOK, Acts
<1> QED
  BY <1>2, <1>3, <1>4 DEF IInv

\* The gate decides at once: nothing is parked or unparked.
LEMMA PermitStep ==
  ASSUME IInv, NEW b \in Branches, NEW t \in Topics,
         PermitGranted(b, t) \/ PermitAllowed(b, t) \/ PermitDenied(b, t) \/ PermitUnattended(b, t)
  PROVE  IInv'
<1> USE DEF IInv, rules, asking
<1>1. UNCHANGED << profile, custom, grants, gate, topic, pending, future, answer, consented >>
  BY DEF PermitGranted, PermitAllowed, PermitDenied, PermitUnattended
<1>2. Questions' /\ GrantsAreConsents'
  BY <1>1 DEF Questions, Parked, GrantsAreConsents
<1>3. CASE PermitGranted(b, t)
  <2>1. Recorded(t, "previously_granted", "none") /\ t \in consented
    BY <1>3 DEF PermitGranted, GrantsAreConsents
  <2>2. BrokerTypeOK' /\ last'.topic = t /\ last'.decision = "previously_granted"
    BY <1>1, <2>1, RecordedType DEF BrokerTypeOK, Decisions, Answers
  <2> QED
    BY <1>1, <1>2, <2>1, <2>2 DEF LastOK
<1>4. CASE PermitAllowed(b, t)
  <2>1. Recorded(t, "allowed", "none") /\ t \notin AlwaysAsk
    BY <1>4, RulingType DEF PermitAllowed
  <2>2. BrokerTypeOK' /\ last'.topic = t /\ last'.decision = "allowed"
    BY <1>1, <2>1, RecordedType DEF BrokerTypeOK, Decisions, Answers
  <2> QED
    BY <1>1, <1>2, <2>1, <2>2 DEF LastOK
<1>5. CASE PermitDenied(b, t)
  <2>1. Recorded(t, "denied", "none")
    BY <1>5 DEF PermitDenied
  <2>2. BrokerTypeOK' /\ last'.decision = "denied"
    BY <1>1, <2>1, RecordedType DEF BrokerTypeOK, Decisions, Answers
  <2> QED
    BY <1>2, <2>2 DEF LastOK, Acts
<1>6. CASE PermitUnattended(b, t)
  <2>1. Recorded(t, "unattended_denial", "none")
    BY <1>6 DEF PermitUnattended
  <2>2. BrokerTypeOK' /\ last'.decision = "unattended_denial"
    BY <1>1, <2>1, RecordedType DEF BrokerTypeOK, Decisions, Answers
  <2> QED
    BY <1>2, <2>2 DEF LastOK, Acts
<1> QED
  BY <1>3, <1>4, <1>5, <1>6

\* The end of ask leaves the other branches' questions alone.
LEMMA DiscardedStep ==
  ASSUME IInv, NEW b \in Branches, Discarded(b), consented' = consented
  PROVE  /\ Questions'
         /\ gate' \in [Branches -> {"working", "emitting", "waiting", "expired"}]
         /\ topic' \in [Branches -> Topics \cup {NoTopic}]
         /\ pending' \subseteq Branches
         /\ future' \in [Branches -> {"none", "open", "yes", "no", "cancelled"}]
         /\ answer' \in [Branches -> Answers]
<1> USE DEF IInv
<1>1. ASSUME NEW c \in Branches PROVE Parked(c)'
  BY DEF Discarded, Questions, Parked, BrokerTypeOK
<1>2. Questions'
  BY <1>1 DEF Questions
<1> QED
  BY <1>2 DEF Discarded, BrokerTypeOK, Answers

\* A branch is resumed after its question.
LEMMA ResumedStep ==
  ASSUME IInv, NEW b \in Branches, Approved(b) \/ Declined(b) \/ TimedOut(b) \/ Cancelled(b)
  PROVE  IInv'
<1> USE DEF IInv, rules
<1>1. Discarded(b) /\ UNCHANGED << profile, custom, consented >> /\ gate[b] # "working"
  BY DEF Approved, Declined, TimedOut, Cancelled
<1>2. topic[b] \in Topics /\ answer[b] \in Answers
  BY <1>1 DEF Questions, Parked, BrokerTypeOK
<1>3. CASE Approved(b)
  <2>1. Recorded(topic[b], "approved", answer[b]) /\ grants' = grants \cup {topic[b]}
    BY <1>3 DEF Approved
  <2>2. answer[b] = "yes" /\ topic[b] \in consented
    BY <1>3 DEF Approved, Questions, Parked
  <2>3. /\ last' \in [topic : Topics \cup {NoTopic}, decision : Decisions, answer : Answers]
        /\ last'.topic = topic[b] /\ last'.answer = answer[b]
    BY <1>2, <2>1, RecordedType DEF Decisions, Answers
  <2>4. BrokerTypeOK'
    BY <1>1, <1>2, <2>1, <2>3, DiscardedStep DEF BrokerTypeOK
  <2> QED
    BY <1>1, <2>1, <2>2, <2>3, <2>4, DiscardedStep DEF LastOK, GrantsAreConsents
<1>4. CASE Declined(b)
  <2>1. Recorded(topic[b], "denied", "none") /\ grants' = grants
    BY <1>4 DEF Declined
  <2>2. /\ last' \in [topic : Topics \cup {NoTopic}, decision : Decisions, answer : Answers]
        /\ last'.decision = "denied"
    BY <1>2, <2>1, RecordedType DEF Decisions, Answers
  <2>3. BrokerTypeOK'
    BY <1>1, <2>1, <2>2, DiscardedStep DEF BrokerTypeOK
  <2> QED
    BY <1>1, <2>1, <2>2, <2>3, DiscardedStep DEF LastOK, GrantsAreConsents, Acts
<1>5. CASE TimedOut(b)
  <2>1. Recorded(topic[b], "denied", "none") /\ grants' = grants
    BY <1>5 DEF TimedOut
  <2>2. /\ last' \in [topic : Topics \cup {NoTopic}, decision : Decisions, answer : Answers]
        /\ last'.decision = "denied"
    BY <1>2, <2>1, RecordedType DEF Decisions, Answers
  <2>3. BrokerTypeOK'
    BY <1>1, <2>1, <2>2, DiscardedStep DEF BrokerTypeOK
  <2> QED
    BY <1>1, <2>1, <2>2, <2>3, DiscardedStep DEF LastOK, GrantsAreConsents, Acts
<1>6. CASE Cancelled(b)
  <2>1. UNCHANGED << grants, last >>
    BY <1>6 DEF Cancelled
  <2>2. BrokerTypeOK'
    BY <1>1, <2>1, DiscardedStep DEF BrokerTypeOK
  <2> QED
    BY <1>1, <2>1, <2>2, DiscardedStep DEF LastOK, GrantsAreConsents
<1> QED
  BY <1>3, <1>4, <1>5, <1>6

\* A question is asked, emitted, answered, abandoned or times out.
LEMMA QuestionStep ==
  ASSUME IInv, Abandon \/ \E b \in Branches : \/ \E t \in Topics : Ask(b, t)
                                              \/ Emitted(b) \/ TimerFires(b)
                                              \/ \E s \in {"yes", "no"} : Answer(b, s)
  PROVE  IInv'
<1> USE DEF IInv, rules
<1>1. UNCHANGED << profile, custom, grants, last >>
  BY DEF Abandon, Ask, Emitted, TimerFires, Answer
<1>2. consented \subseteq consented'
  BY DEF Abandon, Ask, Emitted, TimerFires, Answer
<1>3. GrantsAreConsents' /\ LastOK'
  BY <1>1, <1>2 DEF GrantsAreConsents, LastOK
<1>4. CASE Abandon
  <2>1. BrokerTypeOK'
    BY <1>4 DEF Abandon, BrokerTypeOK, rules
  <2>2. ASSUME NEW c \in Branches PROVE Parked(c)'
    BY <1>4 DEF Abandon, Questions, Parked, BrokerTypeOK
  <2> QED
    BY <1>3, <2>1, <2>2 DEF Questions
<1>5. ASSUME NEW b \in Branches, NEW t \in Topics, Ask(b, t) PROVE IInv'
  <2>1. BrokerTypeOK'
    BY <1>5 DEF Ask, BrokerTypeOK, Answers
  <2>2. ASSUME NEW c \in Branches PROVE Parked(c)'
    BY <1>5 DEF Ask, Questions, Parked, BrokerTypeOK
  <2> QED
    BY <1>3, <2>1, <2>2 DEF Questions
<1>6. ASSUME NEW b \in Branches, Emitted(b) PROVE IInv'
  <2>1. BrokerTypeOK'
    BY <1>6 DEF Emitted, BrokerTypeOK
  <2>2. ASSUME NEW c \in Branches PROVE Parked(c)'
    BY <1>6 DEF Emitted, Questions, Parked, BrokerTypeOK
  <2> QED
    BY <1>3, <2>1, <2>2 DEF Questions
<1>7. ASSUME NEW b \in Branches, TimerFires(b) PROVE IInv'
  <2>1. BrokerTypeOK'
    BY <1>7 DEF TimerFires, BrokerTypeOK
  <2>2. ASSUME NEW c \in Branches PROVE Parked(c)'
    BY <1>7 DEF TimerFires, Questions, Parked, BrokerTypeOK
  <2> QED
    BY <1>3, <2>1, <2>2 DEF Questions
<1>8. ASSUME NEW b \in Branches, NEW s \in {"yes", "no"}, Answer(b, s) PROVE IInv'
  <2>1. topic[b] \in Topics
    BY <1>8 DEF Answer, Questions, Parked
  <2>2. BrokerTypeOK'
    BY <1>8, <2>1 DEF Answer, BrokerTypeOK, Answers
  <2>3. ASSUME NEW c \in Branches PROVE Parked(c)'
    BY <1>8, <2>1 DEF Answer, Questions, Parked, BrokerTypeOK
  <2> QED
    BY <1>3, <2>2, <2>3 DEF Questions
<1> QED
  BY <1>4, <1>5, <1>6, <1>7, <1>8

\* A request over HTTP authorizes a topic or changes the rules.
LEMMA RequestStep ==
  ASSUME IInv, \/ \E t \in Topics : Authorize(t)
               \/ \E c \in Matrices, p \in Profiles : SetPermissions(c, p)
  PROVE  IInv'
<1> USE DEF IInv, rules, asking
<1>1. ASSUME NEW t \in Topics, Authorize(t) PROVE IInv'
  <2>1. BrokerTypeOK'
    BY <1>1 DEF Authorize, BrokerTypeOK
  <2>2. ASSUME NEW b \in Branches PROVE Parked(b)'
    BY <1>1 DEF Authorize, Questions, Parked
  <2> QED
    BY <1>1, <2>1, <2>2 DEF Authorize, Questions, GrantsAreConsents, LastOK
<1>2. ASSUME NEW c \in Matrices, NEW p \in Profiles, SetPermissions(c, p) PROVE IInv'
  <2>1. c \in [Topics -> Rulings] /\ \A t \in AlwaysAsk : c[t] # "allow"
    BY ConsentAssumption DEF Matrices
  <2>2. BrokerTypeOK'
    BY <1>2, <2>1 DEF SetPermissions, BrokerTypeOK
  <2>3. ASSUME NEW b \in Branches PROVE Parked(b)'
    BY <1>2 DEF SetPermissions, Questions, Parked
  <2> QED
    BY <1>2, <2>2, <2>3 DEF SetPermissions, Questions, GrantsAreConsents, LastOK
<1> QED
  BY <1>1, <1>2

LEMMA InductiveStep == IInv /\ [BrokerNext]_brokerVars => IInv'
<1> SUFFICES ASSUME IInv, [BrokerNext]_brokerVars PROVE IInv'
  OBVIOUS
<1>1. CASE UNCHANGED brokerVars
  <2>1. ASSUME NEW b \in Branches PROVE Parked(b)'
    BY <1>1 DEF IInv, Questions, Parked, brokerVars
  <2> QED
    BY <1>1, <2>1 DEF IInv, BrokerTypeOK, Questions, GrantsAreConsents, LastOK, brokerVars
<1>2. CASE BrokerNext
  BY <1>2, PermitStep, ResumedStep, QuestionStep, RequestStep DEF BrokerNext
<1> QED
  BY <1>1, <1>2

LEMMA Invariance == BrokerSpec => []IInv
<1> QED
  BY InitHolds, InductiveStep, PTL DEF BrokerSpec

\* Every variable of the broker and the permissions keeps its type; in particular no custom matrix
\* ever allows a topic that always asks.
THEOREM TypeCorrect == BrokerSpec => []BrokerTypeOK
<1>1. IInv => BrokerTypeOK
  BY DEF IInv
<1> QED
  BY <1>1, Invariance, PTL

\* A topic is granted only by a yes of the user to that topic, whatever the branches, windows,
\* timeouts and profile changes do.
THEOREM GrantsCorrect == BrokerSpec => []GrantsAreConsents
<1>1. IInv => GrantsAreConsents
  BY DEF IInv
<1> QED
  BY <1>1, Invariance, PTL

\* No profile makes the agent act on a topic that always asks, and an approved action was approved
\* by the user.
THEOREM ActsCorrect == BrokerSpec => []ActsByConsent
<1>1. IInv => ActsByConsent
  BY DEF IInv, LastOK, ActsByConsent
<1> QED
  BY <1>1, Invariance, PTL

\* No request outlives its branch's question, and no branch waits for an answer that can no longer
\* reach it.
THEOREM QuestionsCorrect == BrokerSpec => []RegisteredWhileAsking
<1>1. IInv => RegisteredWhileAsking
  BY DEF IInv, Questions, Parked, RegisteredWhileAsking
<1> QED
  BY <1>1, Invariance, PTL
=============================================================================
