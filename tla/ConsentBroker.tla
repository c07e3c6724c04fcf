--------------------------- MODULE ConsentBroker ---------------------------
(***************************************************************************)
(* Consent for actions inside a run of one session: the permission profile *)
(* and the grants (core/permissions.py), the gate every gated action goes  *)
(* through (orchestrator._permit), the broker that parks the turn on a     *)
(* future (core/agent/consent.py), and the HTTP requests that authorize an *)
(* action or change the rules meanwhile.                                   *)
(*                                                                         *)
(* Several branches of a session ask at once (a turn and its parallel      *)
(* helpers share the session's permissions).  A branch has at most one     *)
(* request, so a request id is the branch that made it; an answer with the *)
(* id of an earlier request finds nothing and changes nothing.  A topic is *)
(* a (category, subject) pair.  A step is what the event loop runs between *)
(* two suspension points.                                                  *)
(***************************************************************************)
EXTENDS FiniteSets

CONSTANTS
  Branches,    \* concurrent askers of the session
  Topics,      \* things that need consent
  AlwaysAsk,   \* topics no profile may allow (db_write)
  Attended,    \* branches with a reply channel (RunState.can_prompt)
  Requested    \* custom matrices the user asks for

Rulings == {"allow", "ask", "deny"}
Profiles == {"auto-approve", "ask-always", "custom"}

ASSUME ConsentAssumption ==
  /\ AlwaysAsk \subseteq Topics /\ Attended \subseteq Branches
  /\ Requested \subseteq [Topics -> Rulings]

\* Those set_ruling accepts.
Matrices == { c \in Requested : \A t \in AlwaysAsk : c[t] # "allow" }

VARIABLES
  profile, custom,   \* PermissionState: the profile in force, the custom matrix
  grants,            \* PermissionState.grants
  gate,              \* where a branch is: "working", or at an await of ask
  topic,             \* what it asks about, while it asks
  pending,           \* ConsentBroker._pending: branches whose request is registered
  future,            \* the future of the branch's request
  answer,            \* what the user said to that request
  last,              \* how the session's latest gated action ended
  consented          \* topics the user said yes to

brokerVars == << profile, custom, grants, gate, topic, pending, future, answer, last, consented >>
rules == << profile, custom >>
asking == << gate, topic, pending, future, answer >>

NoTopic == "no topic"
Answers == {"none", "yes", "no"}
Decisions == {"none", "previously_granted", "allowed", "denied", "unattended_denial", "approved"}
Acts == {"previously_granted", "allowed", "approved"}

BrokerTypeOK ==
  /\ profile \in Profiles
  /\ custom \in [Topics -> Rulings] /\ \A t \in AlwaysAsk : custom[t] # "allow"
  /\ grants \subseteq Topics
  /\ gate \in [Branches -> {"working", "emitting", "waiting", "expired"}]
  /\ topic \in [Branches -> Topics \cup {NoTopic}]
  /\ pending \subseteq Branches
  /\ future \in [Branches -> {"none", "open", "yes", "no", "cancelled"}]
  /\ answer \in [Branches -> Answers]
  /\ last \in [topic : Topics \cup {NoTopic}, decision : Decisions, answer : Answers]
  /\ consented \subseteq Topics

BrokerInit ==
  /\ profile \in Profiles   \* AGENT_PERMISSION_PROFILE
  /\ custom \in Matrices
  /\ grants = {} /\ consented = {} /\ pending = {}
  /\ gate = [b \in Branches |-> "working"]
  /\ future = [b \in Branches |-> "none"]
  /\ answer = [b \in Branches |-> "none"]
  /\ topic = [b \in Branches |-> NoTopic]
  /\ last = [topic |-> NoTopic, decision |-> "none", answer |-> "none"]

\* PermissionState.ruling_for: the profile's ruling, never "allow" for a topic that always asks.
ProfileRuling(t) ==
  CASE profile = "custom"       -> custom[t]
    [] profile = "auto-approve" -> "allow"
    [] profile = "ask-always"   -> "ask"

\* Faulty variant: the profile's "allow" stands for every category.
RulingForUnclamped(t) == ProfileRuling(t)

RulingFor(t) == IF t \in AlwaysAsk /\ ProfileRuling(t) = "allow" THEN "ask" ELSE ProfileRuling(t)

\* The gate recorded how an action on t ended; an approval, with what the user had said.
Recorded(t, decision, said) ==
  last' = [topic |-> t, decision |-> decision, answer |-> said]

-----------------------------------------------------------------------------
(* The gate: orchestrator._permit up to its first await.                   *)

PermitGranted(b, t) ==
  /\ gate[b] = "working" /\ t \in grants
  /\ Recorded(t, "previously_granted", "none")
  /\ UNCHANGED << rules, grants, consented, asking >>

PermitAllowed(b, t) ==
  /\ gate[b] = "working" /\ t \notin grants /\ RulingFor(t) = "allow"
  /\ Recorded(t, "allowed", "none")
  /\ UNCHANGED << rules, grants, consented, asking >>

PermitDenied(b, t) ==
  /\ gate[b] = "working" /\ t \notin grants /\ RulingFor(t) = "deny"
  /\ Recorded(t, "denied", "none")
  /\ UNCHANGED << rules, grants, consented, asking >>

PermitUnattended(b, t) ==
  /\ gate[b] = "working" /\ t \notin grants /\ RulingFor(t) = "ask" /\ b \notin Attended
  /\ Recorded(t, "unattended_denial", "none")
  /\ UNCHANGED << rules, grants, consented, asking >>

\* The request is registered before it is emitted, so that no answer can miss it.
Ask(b, t) ==
  /\ gate[b] = "working" /\ t \notin grants /\ RulingFor(t) = "ask" /\ b \in Attended
  /\ gate' = [gate EXCEPT ![b] = "emitting"]
  /\ topic' = [topic EXCEPT ![b] = t]
  /\ pending' = pending \cup {b}
  /\ future' = [future EXCEPT ![b] = "open"]
  /\ answer' = [answer EXCEPT ![b] = "none"]
  /\ UNCHANGED << rules, grants, last, consented >>

-----------------------------------------------------------------------------
(* ConsentBroker.ask and those who resolve its futures.                    *)

\* emit returns: the frame is queued, or dropped because the socket is gone.
Emitted(b) ==
  /\ gate[b] = "emitting"
  /\ gate' = [gate EXCEPT ![b] = "waiting"]
  /\ UNCHANGED << rules, grants, topic, pending, future, answer, last, consented >>

\* ConsentBroker.resolve, for an answer that finds its request.
Answer(b, said) ==
  /\ b \in pending /\ gate[b] = "waiting" /\ future[b] = "open"
  /\ future' = [future EXCEPT ![b] = said]
  /\ answer' = [answer EXCEPT ![b] = said]
  /\ consented' = IF said = "yes" THEN consented \cup {topic[b]} ELSE consented
  /\ UNCHANGED << rules, grants, gate, topic, pending, last >>

\* Faulty variant: closing a window approves what is outstanding.
AbandonApproves ==
  /\ pending # {} /\ pending' = {}
  /\ future' = [b \in Branches |-> IF b \in pending /\ future[b] = "open" THEN "yes" ELSE future[b]]
  /\ UNCHANGED << rules, grants, gate, topic, answer, last, consented >>

\* A window of the session closes, or its turn is cancelled: every outstanding request of the
\* session, whoever made it, is resolved with False and unregistered.
Abandon ==
  /\ pending # {} /\ pending' = {}
  /\ future' = [b \in Branches |-> IF b \in pending /\ future[b] = "open" THEN "no" ELSE future[b]]
  /\ UNCHANGED << rules, grants, gate, topic, answer, last, consented >>

\* Faulty variant: the wait has no timeout.
TimerMissing(b) == gate[b] = "waiting" /\ FALSE /\ UNCHANGED brokerVars

\* The timer of wait_for.  When the answer has come but the branch has not been resumed yet, the
\* branch is cancelled all the same and the answer is lost.
TimerFires(b) ==
  /\ gate[b] = "waiting"
  /\ gate' = [gate EXCEPT ![b] = "expired"]
  /\ future' = [future EXCEPT ![b] = IF @ = "open" THEN "cancelled" ELSE @]
  /\ UNCHANGED << rules, grants, topic, pending, answer, last, consented >>

\* The `finally` of ask: the request is unregistered, whatever happened.
Discarded(b) ==
  /\ pending' = pending \ {b}
  /\ future' = [future EXCEPT ![b] = "none"]
  /\ gate' = [gate EXCEPT ![b] = "working"]
  /\ topic' = [topic EXCEPT ![b] = NoTopic]
  /\ answer' = [answer EXCEPT ![b] = "none"]

Approved(b) ==
  /\ gate[b] = "waiting" /\ future[b] = "yes"
  /\ Discarded(b)
  /\ grants' = grants \cup {topic[b]}
  /\ Recorded(topic[b], "approved", answer[b])
  /\ UNCHANGED << rules, consented >>

\* Declined by the user, or abandoned with a window: the decision carries no reason in either case.
Declined(b) ==
  /\ gate[b] = "waiting" /\ future[b] = "no"
  /\ Discarded(b)
  /\ Recorded(topic[b], "denied", "none")
  /\ UNCHANGED << rules, grants, consented >>

TimedOut(b) ==
  /\ gate[b] = "expired"
  /\ Discarded(b)
  /\ Recorded(topic[b], "denied", "none")
  /\ UNCHANGED << rules, grants, consented >>

\* CancelledError at an await of ask: the gate records nothing.
Cancelled(b) ==
  /\ gate[b] # "working"
  /\ Discarded(b)
  /\ UNCHANGED << rules, grants, last, consented >>

-----------------------------------------------------------------------------
(* HTTP requests of the session.                                           *)

\* permissions.authorize: the user's own request is the answer to an "ask".
Authorize(t) ==
  /\ t \in grants \/ RulingFor(t) # "deny"
  /\ grants' = grants \cup {t}
  /\ consented' = consented \cup {t}
  /\ UNCHANGED << rules, asking, last >>

\* set_permissions: rulings first (one that is refused ends the request with those before it in
\* place), then the profile; leaving auto-approve drops the grants.
SetPermissions(c, p) ==
  /\ custom' = c
  /\ profile' = p
  /\ grants' = IF profile = "auto-approve" /\ p # "auto-approve" THEN {} ELSE grants
  /\ UNCHANGED << asking, last, consented >>

-----------------------------------------------------------------------------
BrokerNext ==
  \/ \E b \in Branches, t \in Topics :
       PermitGranted(b, t) \/ PermitAllowed(b, t) \/ PermitDenied(b, t)
         \/ PermitUnattended(b, t) \/ Ask(b, t)
  \/ \E b \in Branches : Emitted(b) \/ TimerFires(b) \/ Approved(b) \/ Declined(b)
                           \/ TimedOut(b) \/ Cancelled(b)
  \/ \E b \in Branches, said \in {"yes", "no"} : Answer(b, said)
  \/ Abandon
  \/ \E t \in Topics : Authorize(t)
  \/ \E c \in Matrices, p \in Profiles : SetPermissions(c, p)

\* The event loop runs what is ready, emit gives up on a socket that does not take the frame, and
\* the timer of wait_for fires.  Users owe nothing.
BrokerFairness ==
  \A b \in Branches : /\ WF_brokerVars(Emitted(b)) /\ WF_brokerVars(TimerFires(b))
                      /\ WF_brokerVars(Approved(b) \/ Declined(b)) /\ WF_brokerVars(TimedOut(b))

BrokerSpec == BrokerInit /\ [][BrokerNext]_brokerVars /\ BrokerFairness

-----------------------------------------------------------------------------
(* Properties.                                                             *)

\* What is granted was said yes to by the user, to this very topic, in an answer or by a request
\* of their own: no window that closes, no timeout, no cancellation and no answer to another
\* branch's question ever grants (ConsentBroker, _permit, authorize).
GrantsAreConsents == grants \subseteq consented

\* What was done about a topic that always asks, by any branch in any order of profile changes,
\* was consented to; and an action recorded as approved had its own question answered with yes
\* (ruling_for, _permit).
ActsByConsent ==
  /\ last.decision \in Acts /\ last.topic \in AlwaysAsk => last.topic \in consented
  /\ last.decision = "approved" => last.answer = "yes"

\* Nothing stays registered for a branch that no longer asks, where it would swallow an answer,
\* and no branch waits on a question that an answer can no longer reach, although other branches
\* ask, finish and are abandoned in between (ask's finally, _discard, abandon).
RegisteredWhileAsking ==
  \A b \in Branches : /\ b \in pending => gate[b] # "working"
                      /\ future[b] = "open" => b \in pending

\* A branch parked on a question always goes on: an answer, a closed window, a cancellation or the
\* timeout frees it ("nothing here waits indefinitely").
NoTurnHangs == \A b \in Branches : gate[b] # "working" ~> gate[b] = "working"
=============================================================================
