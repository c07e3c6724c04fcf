-------------------------- MODULE AgentTurnProofs --------------------------
(***************************************************************************)
(* Proofs about AgentTurn, for every budget, set of messages and datasets: *)
(* a plan is seen before code runs, the semantic cache keeps what ran, the *)
(* answer is built from what ran, and a rollback goes to what was verified.*)
(*                                                                         *)
(* None of the four is inductive.  The strengthening Inv says where the    *)
(* code in hand comes from at each point of the turn (CodeInv), that an    *)
(* error outlives neither a success nor the step that made it (ErrorInv),  *)
(* that the newest checkpoint is the code in hand (BestInv), and that an   *)
(* unapproved turn of the planning mode stays on one of three paths on     *)
(* which nothing is executed (PlanInv).                                    *)
(***************************************************************************)
EXTENDS AgentTurn, TLAPS

-----------------------------------------------------------------------------
(* The strengthening.                                                       *)

Marks == {"none"} \cup Statuses

Checklists == UNION {[1..n -> Marks] : n \in 1..99}

StopReasons == {"none", "continue", "evidence_threshold_met", "budget_exhausted",
                "validation_complete", "low_expected_value"}

\* Where the turn works on code, and where it uses what the loop left.
WithCode == {"code", "install", "execute", "paths"}
After == {"verify", "recompute", "review", "answer"}

\* What outlives the turn.
SessionTyped ==
    /\ late \in BOOLEAN
    /\ DOMAIN session = {"data", "waiting", "offered", "turns", "cache"}
    /\ session.waiting \in BOOLEAN
    /\ session.offered \in {"none", "plan", "search"}
    /\ session.cache \in [{"direct", "agentic"} -> {"none", "ran", "draft"}]
    /\ asked \in [by : {"message", "plan", "search"}, mode : Modes]

RunFields == {"route", "mode", "tier", "budget", "iter", "forced", "code", "cached", "error",
              "blocked", "retry", "last", "lastcode", "good", "point", "best", "fanned",
              "checked", "open", "routes", "stop"}

RunTyped ==
    /\ DOMAIN run = RunFields
    /\ run.route \in [workflow : Workflows, plan : Plans, verify : BOOLEAN, escalate : BOOLEAN]
    /\ run.mode \in Modes
    /\ run.tier \in DOMAIN Iterations
    /\ run.budget \in [iterations : 1..99, reflection : BOOLEAN, verification : BOOLEAN,
                       decisions : BOOLEAN, subagents : {0, 2, 3}]
    /\ run.forced \in BOOLEAN /\ run.cached \in BOOLEAN /\ run.error \in BOOLEAN
    /\ run.blocked \in BOOLEAN /\ run.fanned \in BOOLEAN
    /\ run.retry \in 0..(Retries + 1)
    /\ run.last \in {"none", "ok", "failed", "silent"}
    /\ run.lastcode \in {"none", "ok", "failed"}
    /\ run.open \in 0..3
    /\ run.routes \in {"none", "agree", "disagree", "incomparable"}
    /\ run.stop \in StopReasons
    /\ run.checked \in [1..run.budget.iterations -> Marks]

\* An iteration is named only after it began.
Counted ==
    /\ pc \in Phases
    /\ run.iter \in 0..run.budget.iterations
    /\ run.code \in -2..run.iter
    /\ run.good \in 0..run.iter /\ run.point \in 0..run.iter /\ run.best \in 0..run.iter
    /\ pc \in WithCode => run.retry <= Retries
    /\ pc \in WithCode \cup {"decide", "parallel", "verify", "recompute"} => run.iter >= 1

\* What the turn goes on with when something ran: the last code that did, or
\* after a verdict the checkpoint it went back to.
CodeInv ==
    /\ run.lastcode = "ok" => run.good # Nothing
    /\ pc \in {"verify", "recompute"} /\ run.good # Nothing => run.code = run.good
    /\ (pc \in After \/ (pc = "finalize" /\ ~run.blocked)) /\ run.good # Nothing
            => run.code \in 1..run.iter

\* An error of the code in hand is gone with the success that corrected it.
ErrorInv ==
    pc \notin WithCode \cup {"idle"} /\ run.lastcode = "ok" /\ ~run.fanned /\ ~run.blocked => ~run.error

\* Without a fan-out the newest checkpoint is the code a verdict is about.
BestInv ==
    /\ ~run.fanned => run.point = run.good
    /\ ~run.fanned /\ run.best # Nothing => run.checked[run.best] = "verified"

\* The paths of a turn nobody approved, where a plan must be seen first: a
\* reply, a plan that is only shown, a look at the frame in one iteration.
Conversing == run.route.workflow = "converse" /\ pc \in {"routed", "converse"}

Planning ==
    /\ run.route.plan \in {"gated", "only"}
    /\ pc \in {"routed", "orient", "planned", "search", "gate"}

Inspecting ==
    /\ run.route.workflow = "inspect" /\ run.route.plan = "none"
    /\ run.budget.iterations = 1 /\ ~run.budget.verification /\ ~run.forced
    /\ pc \in {"routed", "orient", "loop", "decide", "inspect", "verify", "review", "answer",
               "finalize"}

Unapproved == (asked.mode = "planning" \/ RequireApproval) /\ asked.by = "message"

PlanInv ==
    /\ pc # "idle" => run.mode = asked.mode
    /\ pc # "idle" /\ Unapproved => Conversing \/ Planning \/ Inspecting

\* The inductive invariant.
Inv == SessionTyped /\ RunTyped /\ Counted /\ CodeInv /\ ErrorInv /\ BestInv /\ PlanInv /\ CacheHoldsWhatRan
-----------------------------------------------------------------------------
(* Routes.                                                                  *)

Complexities == {"trivial", "simple", "moderate", "complex"}

\* A route, and what the router may answer: an inspection is never planned, a plan asked
\* for is only made, and nothing passes for approved but the confirmation.
Routed(i) ==
    /\ DOMAIN i = {"workflow", "complexity", "plan", "verify", "escalate", "deep", "needs_data", "source"}
    /\ i.workflow \in Workflows /\ i.complexity \in Complexities /\ i.plan \in Plans
    /\ i.verify \in BOOLEAN /\ i.escalate \in BOOLEAN /\ i.deep \in BOOLEAN
    /\ i.source \in {"rules", "mode", "escalation", "approval"}

Intent(i) ==
    /\ Routed(i)
    /\ i.workflow # "execute_plan" => i.source # "approval"
    /\ i.workflow = "inspect" => i.plan = "none"
    /\ i.workflow = "plan_only" => i.plan = "only"

Unconfirmed(i) == Intent(i) /\ i.workflow # "execute_plan"

LEMMA PlainIntent ==
    ASSUME NEW w \in Workflows \ {"plan_only", "execute_plan"}, NEW c \in Complexities
    PROVE  Unconfirmed(Plain(w, c))
BY DEF Unconfirmed, Intent, Routed, Plain, Plans

LEMMA TaskIntent ==
    ASSUME NEW sig PROVE Unconfirmed(Task(sig))
<1>1. CASE Task(sig) = Plain("inspect", "trivial")
  BY <1>1, PlainIntent DEF Workflows, Complexities
<1>2. CASE Task(sig) = Plain("direct", "simple")
  BY <1>2, PlainIntent DEF Workflows, Complexities
<1>3. CASE Task(sig) = [Plain("agentic", "complex") EXCEPT
                           !.plan = "self", !.verify = TRUE, !.deep = MultiStep(sig)]
  <2>1. MultiStep(sig) \in BOOLEAN
    BY DEF MultiStep
  <2> QED BY <1>3, <2>1 DEF Unconfirmed, Intent, Routed, Plain, Plans, Workflows, Complexities
<1>4. CASE Task(sig) = [Plain("agentic", "moderate") EXCEPT !.verify = TRUE]
  BY <1>4 DEF Unconfirmed, Intent, Routed, Plain, Plans, Workflows, Complexities
<1> QED BY <1>1, <1>2, <1>3, <1>4 DEF Task

LEMMA ChatterIntent ==
    ASSUME NEW sig PROVE Unconfirmed(Chatter(sig))
<1>1. ASSUME NEW b \in BOOLEAN PROVE Unconfirmed(Converse(b))
  BY DEF Converse, Unconfirmed, Intent, Routed, Plain, Plans, Workflows, Complexities
<1>2. Unconfirmed([Plain("plan_only", "complex") EXCEPT !.plan = "only"])
  BY DEF Unconfirmed, Intent, Routed, Plain, Plans, Workflows, Complexities
<1> QED BY <1>1, <1>2 DEF Chatter

LEMMA RouterIntent ==
    ASSUME NEW sig, NEW d \in BOOLEAN PROVE Intent(RouteIntent(sig, d))
<1>1. ASSUME NEW i, Unconfirmed(i) PROVE Intent(NeedsDataset(i, d))
  <2>1. Intent([Plain("converse", i.complexity) EXCEPT !.needs_data = TRUE, !.source = i.source])
    BY <1>1 DEF Unconfirmed, Intent, Routed, Plain, Plans, Workflows
  <2> QED BY <1>1, <2>1 DEF NeedsDataset, Unconfirmed
<1>2. Intent([Plain("execute_plan", "moderate") EXCEPT !.source = "approval"])
  BY DEF Intent, Routed, Plain, Plans, Workflows, Complexities
<1> QED BY <1>1, <1>2, TaskIntent, ChatterIntent DEF RouteIntent, Unconfirmed

\* Under the planning mode, or where the deployment asks for approval, a
\* route computes nothing, or shows a plan first, or was approved.
Planful(r) ==
    \/ r.workflow = "converse" \/ (r.workflow = "inspect" /\ r.plan = "none")
    \/ r.plan \in {"gated", "only"}

LEMMA ModeKeeps ==
    ASSUME NEW i, Intent(i), NEW mode \in Modes PROVE Intent(ApplyMode(i, mode))
<1> DEFINE fast == [i EXCEPT !.plan = "none", !.verify = FALSE, !.deep = FALSE, !.source = "mode"]
           deep(p) == [i EXCEPT !.workflow = "agentic", !.verify = TRUE, !.deep = TRUE,
                                !.source = "mode", !.plan = p]
           planned == [i EXCEPT !.workflow = "agentic", !.plan = "gated", !.source = "mode"]
<1>1. CASE ApplyMode(i, mode) = i
  BY <1>1
<1>2. CASE i.workflow \notin {"converse", "inspect", "plan_only", "execute_plan"}
  <2>1. \/ ApplyMode(i, mode) \in {i, fast, planned}
        \/ \E p \in {i.plan, "self"} : ApplyMode(i, mode) = deep(p)
    BY <1>2 DEF ApplyMode
  <2>2. Intent(fast)
    BY <1>2 DEF Intent, Routed, Plans
  <2>3. Intent(planned)
    BY <1>2 DEF Intent, Routed, Plans, Workflows
  <2>4. ASSUME NEW p \in {i.plan, "self"} PROVE Intent(deep(p))
    BY <1>2, <2>4 DEF Intent, Routed, Plans, Workflows
  <2> QED BY <2>1, <2>2, <2>3, <2>4
<1> QED BY <1>1, <1>2 DEF ApplyMode

LEMMA PlanningGates ==
    ASSUME NEW i, Intent(i), i.workflow # "execute_plan"
    PROVE  Planful(ApplyMode(i, "planning"))
BY DEF ApplyMode, Intent, Routed, Planful, Complexities, Plans, Workflows

LEMMA PolicyGates ==
    ASSUME NEW i, Intent(i), i.workflow # "execute_plan", NEW mode \in Modes
    PROVE  LET r == DeploymentPolicy(ApplyMode(i, mode), RequireApproval)
           IN  Intent(r) /\ (mode = "planning" \/ RequireApproval => Planful(r))
<1> DEFINE j == ApplyMode(i, mode)
<1>1. Intent(j)
  BY ModeKeeps
<1>2. j.workflow # "execute_plan"
  BY DEF ApplyMode, Intent, Routed, Workflows, Modes
<1>3. RequireApproval \in BOOLEAN
  BY AgentAssumption
<1> QED BY <1>1, <1>2, <1>3, ModeKeeps, PlanningGates DEF DeploymentPolicy, Intent, Routed, Modes

-----------------------------------------------------------------------------
(* The step.                                                                *)

LEMMA Shape == RunTyped => DOMAIN run = RunFields
BY DEF RunTyped

LEMMA RetriesNat == Retries \in Nat
BY AgentAssumption

LEMMA LEnd ==
    ASSUME Inv, NEW offer \in {"none", "plan", "search"}, EndTurn(offer),
           UNCHANGED <<run, late, asked>>
    PROVE  Inv'
<1> USE DEF Inv, EndTurn, Goto
<1>1. SessionTyped' BY DEF SessionTyped
<1>2. RunTyped' BY DEF RunTyped
<1>3. Counted' BY DEF Counted, Phases, WithCode
<1>4. CodeInv' BY DEF CodeInv, After
<1>5. ErrorInv' BY DEF ErrorInv, WithCode
<1>6. BestInv' BY DEF BestInv
<1>7. PlanInv' BY DEF RunTyped, RunFields, Counted, PlanInv, Conversing, Planning, Inspecting, Unapproved
<1>8. CacheHoldsWhatRan' BY DEF CacheHoldsWhatRan
<1> QED BY <1>1, <1>2, <1>3, <1>4, <1>5, <1>6, <1>7, <1>8

LEMMA LAbort ==
    ASSUME Inv, Abort \/ Reply PROVE Inv'
BY LEnd DEF Abort, Reply

LEMMA LSearch ==
    ASSUME Inv, Search PROVE Inv'
<1> USE DEF Inv, Search, Goto
<1>1. SessionTyped' BY DEF SessionTyped
<1>2. RunTyped' BY DEF RunTyped
<1>3. Counted' BY DEF Counted, Phases, WithCode
<1>4. CodeInv' BY DEF CodeInv, After
<1>5. ErrorInv' BY DEF ErrorInv, WithCode
<1>6. BestInv' BY DEF BestInv
<1>7. PlanInv' BY DEF RunTyped, RunFields, Counted, PlanInv, Conversing, Planning, Inspecting, Unapproved
<1>8. CacheHoldsWhatRan' BY DEF CacheHoldsWhatRan
<1> QED BY <1>1, <1>2, <1>3, <1>4, <1>5, <1>6, <1>7, <1>8

LEMMA LBeginVerification ==
    ASSUME Inv, BeginVerification PROVE Inv'
<1> USE DEF Inv, BeginVerification, Goto, NotVerified
<1>1. SessionTyped' BY DEF SessionTyped
<1>2. RunTyped' BY DEF RunTyped
<1>3. Counted' BY DEF Counted, Phases, WithCode
<1>4. CodeInv' BY DEF CodeInv, After
<1>5. ErrorInv' BY DEF ErrorInv, WithCode
<1>6. BestInv' BY DEF BestInv
<1>7. PlanInv' BY DEF RunTyped, RunFields, Counted, PlanInv, Conversing, Planning, Inspecting, Unapproved
<1>8. CacheHoldsWhatRan' BY DEF CacheHoldsWhatRan
<1> QED BY <1>1, <1>2, <1>3, <1>4, <1>5, <1>6, <1>7, <1>8

LEMMA LReview ==
    ASSUME Inv, Review PROVE Inv'
<1> USE DEF Inv, Review, Goto
<1>1. SessionTyped' BY DEF SessionTyped
<1>2. RunTyped' BY DEF RunTyped
<1>3. Counted' BY DEF Counted, Phases, WithCode
<1>4. CodeInv' BY DEF CodeInv, After
<1>5. ErrorInv' BY DEF ErrorInv, WithCode
<1>6. BestInv' BY DEF BestInv
<1>7. PlanInv' BY DEF RunTyped, RunFields, Counted, PlanInv, Conversing, Planning, Inspecting, Unapproved
<1>8. CacheHoldsWhatRan' BY DEF CacheHoldsWhatRan
<1> QED BY <1>1, <1>2, <1>3, <1>4, <1>5, <1>6, <1>7, <1>8

LEMMA LAnswer ==
    ASSUME Inv, Answer PROVE Inv'
<1> USE DEF Inv, Answer, Goto
<1>1. SessionTyped' BY DEF SessionTyped
<1>2. RunTyped' BY DEF RunTyped
<1>3. Counted' BY DEF Counted, Phases, WithCode
<1>4. CodeInv' BY DEF CodeInv, After
<1>5. ErrorInv' BY DEF ErrorInv, WithCode
<1>6. BestInv' BY DEF BestInv
<1>7. PlanInv' BY DEF RunTyped, RunFields, Counted, PlanInv, Conversing, Planning, Inspecting, Unapproved
<1>8. CacheHoldsWhatRan' BY DEF CacheHoldsWhatRan
<1> QED BY <1>1, <1>2, <1>3, <1>4, <1>5, <1>6, <1>7, <1>8

LEMMA LDeadline ==
    ASSUME Inv, Deadline PROVE Inv'
<1> USE DEF Inv, Deadline, Goto
<1>1. SessionTyped' BY DEF SessionTyped
<1>2. RunTyped' BY DEF RunTyped
<1>3. Counted' BY DEF Counted, Phases, WithCode
<1>4. CodeInv' BY DEF CodeInv, After
<1>5. ErrorInv' BY DEF ErrorInv, WithCode
<1>6. BestInv' BY DEF BestInv
<1>7. PlanInv' BY DEF RunTyped, RunFields, Counted, PlanInv, Conversing, Planning, Inspecting, Unapproved
<1>8. CacheHoldsWhatRan' BY DEF CacheHoldsWhatRan
<1> QED BY <1>1, <1>2, <1>3, <1>4, <1>5, <1>6, <1>7, <1>8

LEMMA LDispatch ==
    ASSUME Inv, Dispatch PROVE Inv'
<1> USE DEF Inv
<1>a. CASE EndTurn("none")
  BY <1>a, LEnd DEF Dispatch
<1>b. CASE UNCHANGED session /\ pc' \in {"converse", "search", "loop", "orient"}
  <2>b. pc' = IF run.route.workflow = "converse" THEN "converse"
              ELSE IF asked.by = "search" THEN "search"
              ELSE IF asked.by = "plan" THEN "loop" ELSE "orient"
    BY <1>b DEF Dispatch, Goto, EndTurn
  <2>c. UNCHANGED <<run, late, asked>>
    BY DEF Dispatch
  <2>a. pc = "routed" BY DEF Dispatch
  <2> USE <1>b, <2>a, <2>b, <2>c
  <2>1. SessionTyped' BY DEF SessionTyped
  <2>2. RunTyped' BY DEF RunTyped
  <2>3. Counted' BY DEF Counted, Phases, WithCode
  <2>4. CodeInv' BY DEF CodeInv, After
  <2>5. ErrorInv' BY DEF ErrorInv, WithCode
  <2>6. BestInv' BY DEF BestInv
  <2>7. PlanInv' BY DEF RunTyped, RunFields, Counted, PlanInv, Conversing, Planning, Inspecting, Unapproved
  <2>8. CacheHoldsWhatRan' BY DEF CacheHoldsWhatRan
  <2> QED BY <2>1, <2>2, <2>3, <2>4, <2>5, <2>6, <2>7, <2>8
<1> QED BY <1>a, <1>b DEF Dispatch, Goto

LEMMA LPlanned ==
    ASSUME Inv, Planned PROVE Inv'
<1> USE DEF Inv
<1>a. CASE EndTurn("search")
  BY <1>a, LEnd DEF Planned
<1>b. CASE UNCHANGED session /\ pc' \in {"gate", "search"}
  <2> USE <1>b DEF Planned
  <2>1. SessionTyped' BY DEF SessionTyped
  <2>2. RunTyped' BY DEF RunTyped
  <2>3. Counted' BY DEF Counted, Phases, WithCode
  <2>4. CodeInv' BY DEF CodeInv, After
  <2>5. ErrorInv' BY DEF ErrorInv, WithCode
  <2>6. BestInv' BY DEF BestInv
  <2>7. PlanInv' BY DEF RunTyped, RunFields, Counted, PlanInv, Conversing, Planning, Inspecting, Unapproved
  <2>8. CacheHoldsWhatRan' BY DEF CacheHoldsWhatRan
  <2> QED BY <2>1, <2>2, <2>3, <2>4, <2>5, <2>6, <2>7, <2>8
<1> QED BY <1>a, <1>b DEF Planned, Goto

LEMMA LGate ==
    ASSUME Inv, Gate PROVE Inv'
<1> USE DEF Inv
<1>a. CASE EndTurn("plan")
  BY <1>a, LEnd DEF Gate
<1>b. CASE run.route.plan \notin {"gated", "only"} /\ pc' = "loop" /\ UNCHANGED session
  <2> USE <1>b DEF Gate
  <2>1. SessionTyped' BY DEF SessionTyped
  <2>2. RunTyped' BY DEF RunTyped
  <2>3. Counted' BY DEF Counted, Phases, WithCode
  <2>4. CodeInv' BY DEF CodeInv, After
  <2>5. ErrorInv' BY DEF ErrorInv, WithCode
  <2>6. BestInv' BY DEF BestInv
  <2>7. PlanInv' BY DEF RunTyped, RunFields, Counted, PlanInv, Conversing, Planning, Inspecting, Unapproved
  <2>8. CacheHoldsWhatRan' BY DEF CacheHoldsWhatRan
  <2> QED BY <2>1, <2>2, <2>3, <2>4, <2>5, <2>6, <2>7, <2>8
<1> QED BY <1>a, <1>b DEF Gate, Goto

LEMMA LOrient ==
    ASSUME Inv, Orient PROVE Inv'
<1> USE DEF Inv
<1>a. CASE /\ run' = [run EXCEPT !.code = Replayed, !.cached = TRUE] /\ Goto("loop")
           /\ run.route.plan \notin {"gated", "only"}
  <2> USE <1>a DEF Orient, Goto, Replayed
  <2>1. SessionTyped' BY DEF SessionTyped
  <2>2. RunTyped' BY DEF RunTyped, RunFields
  <2>3. Counted' BY DEF RunTyped, RunFields, Counted, Phases, WithCode
  <2>4. CodeInv' BY DEF RunTyped, RunFields, Counted, CodeInv, After, WithCode
  <2>5. ErrorInv' BY DEF RunTyped, RunFields, ErrorInv, WithCode
  <2>6. BestInv' BY DEF RunTyped, RunFields, BestInv
  <2>7. PlanInv' BY DEF RunTyped, RunFields, Counted, PlanInv, Conversing, Planning, Inspecting, Unapproved
  <2>8. CacheHoldsWhatRan' BY DEF CacheHoldsWhatRan
  <2> QED BY <2>1, <2>2, <2>3, <2>4, <2>5, <2>6, <2>7, <2>8
<1>b. CASE run' = run /\ Goto(IF run.route.plan = "none" THEN "loop" ELSE "planned")
  <2> USE <1>b DEF Orient, Goto
  <2>1. SessionTyped' BY DEF SessionTyped
  <2>2. RunTyped' BY DEF RunTyped
  <2>3. Counted' BY DEF Counted, Phases, WithCode
  <2>4. CodeInv' BY DEF CodeInv, After
  <2>5. ErrorInv' BY DEF ErrorInv, WithCode
  <2>6. BestInv' BY DEF BestInv
  <2>7. PlanInv' BY DEF RunTyped, RunFields, Counted, PlanInv, Conversing, Planning, Inspecting, Unapproved
  <2>8. CacheHoldsWhatRan' BY DEF CacheHoldsWhatRan
  <2> QED BY <2>1, <2>2, <2>3, <2>4, <2>5, <2>6, <2>7, <2>8
<1> QED BY <1>a, <1>b DEF Orient

LEMMA LIterate ==
    ASSUME Inv, Iterate PROVE Inv'
<1> USE DEF Inv
<1>a. CASE Leave /\ (run.iter = run.budget.iterations \/ run.iter >= 1)
  <2>j. run.budget.iterations \in 1..99
    BY DEF RunTyped
  <2>i. run.iter \in 0..run.budget.iterations /\ run.iter >= 1
    BY <1>a, <2>j DEF Counted
  <2>k. /\ run'.iter = run.iter /\ run'.budget = run.budget /\ run'.good = run.good
        /\ run'.code = IF run.good # 0 THEN run.good ELSE run.code
        /\ run'.point = run.point /\ run'.best = run.best /\ run'.retry = run.retry
    BY <1>a, Shape DEF Leave, RunFields, Nothing
  <2> USE <1>a, <2>i DEF Leave, Iterate, Goto, Nothing
  <2>1. SessionTyped' BY DEF SessionTyped
  <2>2. RunTyped' BY DEF RunTyped, RunFields
  <2>3. Counted' BY <2>j, <2>i, <2>k DEF Counted, Phases, WithCode
  <2>4. CodeInv' BY DEF RunTyped, RunFields, Counted, CodeInv, After
  <2>5. ErrorInv' BY DEF RunTyped, RunFields, ErrorInv, WithCode
  <2>6. BestInv' BY DEF RunTyped, RunFields, BestInv
  <2>7. PlanInv' BY DEF RunTyped, RunFields, PlanInv, Conversing, Planning, Inspecting, Unapproved
  <2>8. CacheHoldsWhatRan' BY DEF CacheHoldsWhatRan
  <2> QED BY <2>1, <2>2, <2>3, <2>4, <2>5, <2>6, <2>7, <2>8
<1>b. CASE run.iter # run.budget.iterations /\ run' = [run EXCEPT !.iter = @ + 1] /\ Goto("decide")
  <2> USE <1>b DEF Iterate, Goto, Nothing
  <2>1. SessionTyped' BY DEF SessionTyped
  <2>2. RunTyped' BY DEF RunTyped, RunFields
  <2>a. run.budget.iterations \in 1..99 /\ run.iter \in 0..run.budget.iterations
    BY DEF RunTyped, Counted
  <2>b. /\ run'.iter = run.iter + 1 /\ run'.budget = run.budget /\ run'.code = run.code
        /\ run'.good = run.good /\ run'.point = run.point /\ run'.best = run.best
        /\ run'.retry = run.retry
    BY DEF RunTyped, RunFields
  <2>c. run'.iter \in 0..run.budget.iterations /\ run'.iter >= 1 BY <2>a, <2>b
  <2>3. Counted' BY <2>a, <2>b, <2>c DEF Counted, Phases, WithCode
  <2>4. CodeInv' BY DEF RunTyped, RunFields, Counted, CodeInv, After
  <2>5. ErrorInv' BY DEF RunTyped, RunFields, ErrorInv, WithCode
  <2>6. BestInv' BY DEF RunTyped, RunFields, BestInv
  <2>7. PlanInv' BY DEF RunTyped, RunFields, PlanInv, Conversing, Planning, Inspecting, Unapproved
  <2>8. CacheHoldsWhatRan' BY DEF CacheHoldsWhatRan
  <2> QED BY <2>1, <2>2, <2>3, <2>4, <2>5, <2>6, <2>7, <2>8
<1> QED BY <1>a, <1>b DEF Iterate

LEMMA LDecide ==
    ASSUME Inv, Decide PROVE Inv'
<1> USE DEF Inv
<1>0. PICK choice \in Choices :
          LET chosen == [run EXCEPT !.forced = FALSE]
          IN  IF choice = "answer"
              THEN /\ run' = [chosen EXCEPT !.code = IF run.good # Nothing THEN run.good ELSE @]
                   /\ Goto("verify")
              ELSE /\ run' = IF choice = "code" THEN Coding(chosen) ELSE chosen
                   /\ Goto(choice)
  BY DEF Decide
<1>1. choice \in {"inspect", "consult", "code", "answer", "reflect", "parallel"}
  BY DEF Choices, Deterministic
<1>2. Inspecting => choice = "inspect"
  BY DEF Choices, Inspecting, Counted, Decide
<1> USE DEF Decide, Goto
<1>a. CASE /\ choice = "answer" /\ pc' = "verify"
           /\ run' = [[run EXCEPT !.forced = FALSE] EXCEPT
                        !.code = IF run.good # Nothing THEN run.good ELSE run.code]
  <2> USE <1>a, <1>2 DEF Nothing
  <2>1. SessionTyped' BY DEF SessionTyped
  <2>2. RunTyped' BY DEF RunTyped, RunFields
  <2>3. Counted' BY DEF RunTyped, RunFields, Counted, Phases, WithCode
  <2>4. CodeInv' BY DEF RunTyped, RunFields, Counted, CodeInv, After, WithCode
  <2>5. ErrorInv' BY DEF RunTyped, RunFields, ErrorInv, WithCode
  <2>6. BestInv' BY DEF RunTyped, RunFields, BestInv
  <2>7. PlanInv' BY DEF RunTyped, RunFields, Counted, PlanInv, Conversing, Planning, Inspecting, Unapproved
  <2>8. CacheHoldsWhatRan' BY DEF CacheHoldsWhatRan
  <2> QED BY <2>1, <2>2, <2>3, <2>4, <2>5, <2>6, <2>7, <2>8
<1>b. CASE choice = "code" /\ run' = Coding([run EXCEPT !.forced = FALSE]) /\ pc' = choice
  <2> USE RetriesNat, <1>b, <1>2 DEF Coding
  <2>1. SessionTyped' BY DEF SessionTyped
  <2>2. RunTyped' BY DEF RunTyped, RunFields
  <2>3. Counted' BY DEF RunTyped, RunFields, Counted, Phases, WithCode
  <2>4. CodeInv' BY DEF RunTyped, RunFields, Counted, CodeInv, After, WithCode
  <2>5. ErrorInv' BY DEF RunTyped, RunFields, ErrorInv, WithCode
  <2>6. BestInv' BY DEF RunTyped, RunFields, BestInv
  <2>7. PlanInv' BY DEF RunTyped, RunFields, Counted, PlanInv, Conversing, Planning, Inspecting, Unapproved
  <2>8. CacheHoldsWhatRan' BY DEF CacheHoldsWhatRan
  <2> QED BY <2>1, <2>2, <2>3, <2>4, <2>5, <2>6, <2>7, <2>8
<1>c. CASE choice \notin {"answer", "code"} /\ run' = [run EXCEPT !.forced = FALSE] /\ pc' = choice
  <2> USE <1>c, <1>1, <1>2
  <2>1. SessionTyped' BY DEF SessionTyped
  <2>2. RunTyped' BY DEF RunTyped, RunFields
  <2>3. Counted' BY DEF RunTyped, RunFields, Counted, Phases, WithCode
  <2>4. CodeInv' BY DEF RunTyped, RunFields, Counted, CodeInv, After, WithCode
  <2>5. ErrorInv' BY DEF RunTyped, RunFields, ErrorInv, WithCode
  <2>6. BestInv' BY DEF RunTyped, RunFields, BestInv
  <2>7. PlanInv' BY DEF RunTyped, RunFields, Counted, PlanInv, Conversing, Planning, Inspecting, Unapproved
  <2>8. CacheHoldsWhatRan' BY DEF CacheHoldsWhatRan
  <2> QED BY <2>1, <2>2, <2>3, <2>4, <2>5, <2>6, <2>7, <2>8
<1> QED BY <1>0, <1>a, <1>b, <1>c

LEMMA LLook ==
    ASSUME Inv, Inspect \/ Consult \/ Reflect PROVE Inv'
<1> USE DEF Inv
<1>0. PICK l \in {"ok", "failed", run.last} : run' = [run EXCEPT !.last = l]
  BY DEF Inspect, Consult, Reflect
<1> USE <1>0 DEF Inspect, Consult, Reflect, Goto
<1>1. SessionTyped' BY DEF SessionTyped
<1>2. RunTyped' BY DEF RunTyped, RunFields
<1>3. Counted' BY DEF RunTyped, RunFields, Counted, Phases, WithCode
<1>4. CodeInv' BY DEF RunTyped, RunFields, Counted, CodeInv, After, WithCode
<1>5. ErrorInv' BY DEF RunTyped, RunFields, ErrorInv, WithCode
<1>6. BestInv' BY DEF RunTyped, RunFields, BestInv
<1>7. PlanInv' BY DEF RunTyped, RunFields, Counted, PlanInv, Conversing, Planning, Inspecting, Unapproved
<1>8. CacheHoldsWhatRan' BY DEF CacheHoldsWhatRan
<1> QED BY <1>1, <1>2, <1>3, <1>4, <1>5, <1>6, <1>7, <1>8

LEMMA LParallel ==
    ASSUME Inv, Parallel PROVE Inv'
<1> USE DEF Inv
<1>a. CASE run' = Coding(run) /\ pc' = "code"
  <2> USE RetriesNat, <1>a DEF Coding, Parallel
  <2>1. SessionTyped' BY DEF SessionTyped
  <2>2. RunTyped' BY DEF RunTyped, RunFields
  <2>3. Counted' BY DEF RunTyped, RunFields, Counted, Phases, WithCode
  <2>4. CodeInv' BY DEF RunTyped, RunFields, Counted, CodeInv, After, WithCode
  <2>5. ErrorInv' BY DEF RunTyped, RunFields, ErrorInv, WithCode
  <2>6. BestInv' BY DEF RunTyped, RunFields, BestInv
  <2>7. PlanInv' BY DEF RunTyped, RunFields, Counted, PlanInv, Conversing, Planning, Inspecting, Unapproved
  <2>8. CacheHoldsWhatRan' BY DEF CacheHoldsWhatRan
  <2> QED BY <2>1, <2>2, <2>3, <2>4, <2>5, <2>6, <2>7, <2>8
<1>b. CASE \E good \in {run.good, run.iter}, last \in {"ok", "failed", run.last},
               routes \in {"agree", "disagree", "incomparable"} :
                /\ last = "ok" /\ run.last # "ok" => good = run.iter
                /\ run' = [run EXCEPT
                     !.last = last, !.lastcode = IF last = run.last THEN @ ELSE last,
                     !.fanned = TRUE, !.good = good,
                     !.routes = IF run.tier = "full" THEN routes ELSE @]
                /\ pc' = "loop"
  <2>0. PICK good \in {run.good, run.iter}, last \in {"ok", "failed", run.last},
               routes \in {"agree", "disagree", "incomparable"} :
                /\ last = "ok" /\ run.last # "ok" => good = run.iter
                /\ run' = [run EXCEPT
                     !.last = last, !.lastcode = IF last = run.last THEN @ ELSE last,
                     !.fanned = TRUE, !.good = good,
                     !.routes = IF run.tier = "full" THEN routes ELSE @]
                /\ pc' = "loop"
    BY <1>b
  <2>p. pc = "parallel" /\ pc' = "loop" /\ UNCHANGED <<late, session, asked>>
    BY <2>0 DEF Parallel
  <2>g. last = "ok" /\ run.last # "ok" => good = run.iter
    BY <2>0
  <2> USE <2>0, <2>p, <2>g DEF Nothing
  <2>1. SessionTyped' BY DEF SessionTyped
  <2>2. RunTyped' BY DEF RunTyped, RunFields
  <2>3. Counted' BY DEF RunTyped, RunFields, Counted, Phases, WithCode
  <2>4. CodeInv' BY DEF RunTyped, RunFields, Counted, CodeInv, After, WithCode
  <2>5. ErrorInv' BY DEF RunTyped, RunFields, ErrorInv, WithCode
  <2>6. BestInv' BY DEF RunTyped, RunFields, BestInv
  <2>7. PlanInv' BY DEF RunTyped, RunFields, Counted, PlanInv, Conversing, Planning, Inspecting, Unapproved
  <2>8. CacheHoldsWhatRan' BY DEF CacheHoldsWhatRan
  <2> QED BY <2>1, <2>2, <2>3, <2>4, <2>5, <2>6, <2>7, <2>8
<1> QED BY <1>a, <1>b DEF Parallel, Goto

LEMMA LGenerate ==
    ASSUME Inv, Generate PROVE Inv'
<1> USE DEF Inv
<1>0. pc = "code" /\ UNCHANGED <<late, session, asked>>
  BY DEF Generate
<1> USE <1>0
<1>a. CASE UNCHANGED run /\ pc' = "install"
  <2> USE <1>a
  <2>1. SessionTyped' BY DEF SessionTyped
  <2>2. RunTyped' BY DEF RunTyped
  <2>3. Counted' BY DEF Counted, Phases, WithCode
  <2>4. CodeInv' BY DEF CodeInv, After
  <2>5. ErrorInv' BY DEF ErrorInv, WithCode
  <2>6. BestInv' BY DEF BestInv
  <2>7. PlanInv' BY DEF RunTyped, RunFields, Counted, PlanInv, Conversing, Planning, Inspecting, Unapproved
  <2>8. CacheHoldsWhatRan' BY DEF CacheHoldsWhatRan
  <2> QED BY <2>1, <2>2, <2>3, <2>4, <2>5, <2>6, <2>7, <2>8
<1>b. CASE run' = [run EXCEPT !.code = Draft] /\ pc' = "install"
  <2> USE <1>b DEF Draft
  <2>1. SessionTyped' BY DEF SessionTyped
  <2>2. RunTyped' BY DEF RunTyped, RunFields
  <2>3. Counted' BY DEF RunTyped, RunFields, Counted, Phases, WithCode
  <2>4. CodeInv' BY DEF RunTyped, RunFields, Counted, CodeInv, After, WithCode
  <2>5. ErrorInv' BY DEF RunTyped, RunFields, ErrorInv, WithCode
  <2>6. BestInv' BY DEF RunTyped, RunFields, BestInv
  <2>7. PlanInv' BY DEF RunTyped, RunFields, Counted, PlanInv, Conversing, Planning, Inspecting, Unapproved
  <2>8. CacheHoldsWhatRan' BY DEF CacheHoldsWhatRan
  <2> QED BY <2>1, <2>2, <2>3, <2>4, <2>5, <2>6, <2>7, <2>8
<1>c. CASE run' = Failed([run EXCEPT !.code = Nothing, !.error = TRUE]) /\ pc' = "loop"
  <2> USE <1>c DEF Failed, Nothing
  <2>1. SessionTyped' BY DEF SessionTyped
  <2>2. RunTyped' BY DEF RunTyped, RunFields
  <2>3. Counted' BY DEF RunTyped, RunFields, Counted, Phases, WithCode
  <2>4. CodeInv' BY DEF RunTyped, RunFields, Counted, CodeInv, After, WithCode
  <2>5. ErrorInv' BY DEF RunTyped, RunFields, ErrorInv, WithCode
  <2>6. BestInv' BY DEF RunTyped, RunFields, BestInv
  <2>7. PlanInv' BY DEF RunTyped, RunFields, Counted, PlanInv, Conversing, Planning, Inspecting, Unapproved
  <2>8. CacheHoldsWhatRan' BY DEF CacheHoldsWhatRan
  <2> QED BY <2>1, <2>2, <2>3, <2>4, <2>5, <2>6, <2>7, <2>8
<1> QED BY <1>a, <1>b, <1>c DEF Generate, Goto

LEMMA LInstall ==
    ASSUME Inv, Install PROVE Inv'
<1> USE DEF Inv
<1> USE DEF Install, Goto
<1>a. CASE run' = run /\ pc' = "execute"
  <2> USE <1>a
  <2>1. SessionTyped' BY DEF SessionTyped
  <2>2. RunTyped' BY DEF RunTyped
  <2>3. Counted' BY DEF Counted, Phases, WithCode
  <2>4. CodeInv' BY DEF CodeInv, After
  <2>5. ErrorInv' BY DEF ErrorInv, WithCode
  <2>6. BestInv' BY DEF BestInv
  <2>7. PlanInv' BY DEF RunTyped, RunFields, Counted, PlanInv, Conversing, Planning, Inspecting, Unapproved
  <2>8. CacheHoldsWhatRan' BY DEF CacheHoldsWhatRan
  <2> QED BY <2>1, <2>2, <2>3, <2>4, <2>5, <2>6, <2>7, <2>8
<1>b. CASE run' = Failed(run) /\ pc' = "loop"
  <2> USE <1>b DEF Failed
  <2>1. SessionTyped' BY DEF SessionTyped
  <2>2. RunTyped' BY DEF RunTyped, RunFields
  <2>3. Counted' BY DEF RunTyped, RunFields, Counted, Phases, WithCode
  <2>4. CodeInv' BY DEF RunTyped, RunFields, Counted, CodeInv, After, WithCode
  <2>5. ErrorInv' BY DEF RunTyped, RunFields, ErrorInv, WithCode
  <2>6. BestInv' BY DEF RunTyped, RunFields, BestInv
  <2>7. PlanInv' BY DEF RunTyped, RunFields, Counted, PlanInv, Conversing, Planning, Inspecting, Unapproved
  <2>8. CacheHoldsWhatRan' BY DEF CacheHoldsWhatRan
  <2> QED BY <2>1, <2>2, <2>3, <2>4, <2>5, <2>6, <2>7, <2>8
<1> QED BY <1>a, <1>b

LEMMA LRun ==
    ASSUME Inv, Execute \/ PermitPaths PROVE Inv'
<1> USE DEF Inv
<1>0. pc \in {"execute", "paths"} /\ UNCHANGED <<late, session, asked>>
  BY DEF Execute, PermitPaths
<1> USE <1>0 DEF Goto
<1>a. CASE Success
  <2>0. PICK l \in {"silent", "ok"} :
          run' = [run EXCEPT !.error = FALSE, !.code = run.iter, !.good = run.iter, !.point = run.iter,
                             !.last = l, !.lastcode = "ok"]
    BY <1>a DEF Success
  <2> USE <1>a, <2>0 DEF Success, Nothing
  <2>1. SessionTyped' BY DEF SessionTyped
  <2>2. RunTyped' BY DEF RunTyped, RunFields
  <2>3. Counted' BY DEF RunTyped, RunFields, Counted, Phases, WithCode
  <2>4. CodeInv' BY DEF RunTyped, RunFields, Counted, CodeInv, After, WithCode
  <2>5. ErrorInv' BY DEF RunTyped, RunFields, ErrorInv, WithCode
  <2>6. BestInv' BY DEF RunTyped, RunFields, BestInv
  <2>7. PlanInv' BY DEF RunTyped, RunFields, Counted, PlanInv, Conversing, Planning, Inspecting, Unapproved
  <2>8. CacheHoldsWhatRan' BY DEF CacheHoldsWhatRan
  <2> QED BY <2>1, <2>2, <2>3, <2>4, <2>5, <2>6, <2>7, <2>8
<1>b. CASE Blocked
  <2> USE <1>b DEF Blocked
  <2>1. SessionTyped' BY DEF SessionTyped
  <2>2. RunTyped' BY DEF RunTyped, RunFields
  <2>3. Counted' BY DEF RunTyped, RunFields, Counted, Phases, WithCode
  <2>4. CodeInv' BY DEF RunTyped, RunFields, Counted, CodeInv, After, WithCode
  <2>5. ErrorInv' BY DEF RunTyped, RunFields, ErrorInv, WithCode
  <2>6. BestInv' BY DEF RunTyped, RunFields, BestInv
  <2>7. PlanInv' BY DEF RunTyped, RunFields, Counted, PlanInv, Conversing, Planning, Inspecting, Unapproved
  <2>8. CacheHoldsWhatRan' BY DEF CacheHoldsWhatRan
  <2> QED BY <2>1, <2>2, <2>3, <2>4, <2>5, <2>6, <2>7, <2>8
<1>c. CASE Failure
  <2> DEFINE failed == [run EXCEPT !.error = TRUE, !.retry = @ + 1, !.cached = FALSE]
  <2>a. CASE run.retry >= Retries /\ run' = Failed(failed) /\ pc' = "loop"
    <3>r. run.retry + 1 \in 0..(Retries + 1)
      BY RetriesNat DEF RunTyped, Counted, WithCode
    <3>f. /\ run' = [run EXCEPT !.error = TRUE, !.retry = run.retry + 1, !.cached = FALSE,
                               !.last = "failed", !.lastcode = "failed"]
          /\ pc' = "loop"
      BY <2>a DEF Failed
    <3> USE <3>f, <3>r
    <3>1. SessionTyped' BY DEF SessionTyped
    <3>2. RunTyped' BY DEF RunTyped, RunFields, Counted, WithCode
    <3>3. Counted' BY DEF RunTyped, RunFields, Counted, Phases, WithCode
    <3>4. CodeInv' BY DEF RunTyped, RunFields, Counted, CodeInv, After, WithCode
    <3>5. ErrorInv' BY DEF RunTyped, RunFields, ErrorInv, WithCode
    <3>6. BestInv' BY DEF RunTyped, RunFields, BestInv
    <3>7. PlanInv' BY DEF RunTyped, RunFields, Counted, PlanInv, Conversing, Planning, Inspecting, Unapproved
    <3>8. CacheHoldsWhatRan' BY DEF CacheHoldsWhatRan
    <3> QED BY <3>1, <3>2, <3>3, <3>4, <3>5, <3>6, <3>7, <3>8
  <2>b. CASE run.retry < Retries /\ run' = failed /\ pc' = "code"
    <3> USE RetriesNat, <2>b
    <3>1. SessionTyped' BY DEF SessionTyped
    <3>2. RunTyped' BY DEF RunTyped, RunFields, Counted, WithCode
    <3>3. Counted' BY DEF RunTyped, RunFields, Counted, Phases, WithCode
    <3>4. CodeInv' BY DEF RunTyped, RunFields, Counted, CodeInv, After, WithCode
    <3>5. ErrorInv' BY DEF RunTyped, RunFields, ErrorInv, WithCode
    <3>6. BestInv' BY DEF RunTyped, RunFields, BestInv
    <3>7. PlanInv' BY DEF RunTyped, RunFields, Counted, PlanInv, Conversing, Planning, Inspecting, Unapproved
    <3>8. CacheHoldsWhatRan' BY DEF CacheHoldsWhatRan
    <3> QED BY <3>1, <3>2, <3>3, <3>4, <3>5, <3>6, <3>7, <3>8
  <2> QED BY <1>c, <2>a, <2>b, AgentAssumption DEF Failure, RunTyped
<1>d. CASE pc' = "paths" /\ run' = run
  <2> USE <1>d
  <2>1. SessionTyped' BY DEF SessionTyped
  <2>2. RunTyped' BY DEF RunTyped
  <2>3. Counted' BY DEF Counted, Phases, WithCode
  <2>4. CodeInv' BY DEF CodeInv, After
  <2>5. ErrorInv' BY DEF ErrorInv, WithCode
  <2>6. BestInv' BY DEF BestInv
  <2>7. PlanInv' BY DEF RunTyped, RunFields, Counted, PlanInv, Conversing, Planning, Inspecting, Unapproved
  <2>8. CacheHoldsWhatRan' BY DEF CacheHoldsWhatRan
  <2> QED BY <2>1, <2>2, <2>3, <2>4, <2>5, <2>6, <2>7, <2>8
<1> QED BY <1>a, <1>b, <1>c, <1>d DEF Execute, PermitPaths

LEMMA LSkip ==
    ASSUME Inv, SkipVerification \/ NoRecomputation PROVE Inv'
<1> USE DEF Inv
<1>0. pc \in {"verify", "recompute"} /\ UNCHANGED <<late, session, asked>> /\ Settle(run)
  BY DEF SkipVerification, NoRecomputation
<1>m. PICK more \in BOOLEAN : /\ more => run.iter < run.budget.iterations
                             /\ run' = [run EXCEPT !.forced = more]
                             /\ pc' = IF more THEN "loop" ELSE "review"
  BY <1>0 DEF Settle, Goto
<1> USE <1>0, <1>m
<1>1. SessionTyped' BY DEF SessionTyped
<1>2. RunTyped' BY DEF RunTyped, RunFields
<1>3. Counted' BY DEF RunTyped, RunFields, Counted, Phases, WithCode
<1>4. CodeInv' BY DEF RunTyped, RunFields, Counted, CodeInv, After, WithCode
<1>5. ErrorInv' BY DEF RunTyped, RunFields, ErrorInv, WithCode
<1>6. BestInv' BY DEF RunTyped, RunFields, BestInv
<1>7. PlanInv' BY DEF RunTyped, RunFields, Counted, PlanInv, Conversing, Planning, Inspecting, Unapproved
<1>8. CacheHoldsWhatRan' BY DEF CacheHoldsWhatRan
<1> QED BY <1>1, <1>2, <1>3, <1>4, <1>5, <1>6, <1>7, <1>8

LEMMA LFinalize ==
    ASSUME Inv, Finalize PROVE Inv'
<1> USE DEF Inv
<1> USE DEF Finalize, Goto
<1>1. SessionTyped' BY DEF SessionTyped
<1>2. RunTyped' BY DEF RunTyped
<1>3. Counted' BY DEF Counted, Phases, WithCode
<1>4. CodeInv' BY DEF CodeInv, After
<1>5. ErrorInv' BY DEF ErrorInv, WithCode
<1>6. BestInv' BY DEF BestInv
<1>7. PlanInv' BY DEF RunTyped, RunFields, Counted, PlanInv, Conversing, Planning, Inspecting, Unapproved
<1>8. CacheHoldsWhatRan' BY DEF CacheHoldsWhatRan, SessionTyped, CodeInv, Nothing, Family
<1> QED BY <1>1, <1>2, <1>3, <1>4, <1>5, <1>6, <1>7, <1>8

LEMMA Budgets ==
    ASSUME NEW r, NEW mode \in Modes, NEW tier \in DOMAIN Iterations
    PROVE  /\ BudgetMode(r, mode) \in {"fast", "auto", "deep"}
           /\ Iterations[tier][BudgetMode(r, mode)] \in 1..99
           /\ r.workflow = "inspect" => /\ BudgetMode(r, mode) = "fast"
                                        /\ Iterations[tier]["fast"] = 1
<1>1. BudgetMode(r, mode) \in {"fast", "auto", "deep"}
  BY DEF BudgetMode
<1>2. r.workflow = "inspect" => BudgetMode(r, mode) = "fast"
  BY DEF BudgetMode
<1> QED BY <1>1, <1>2, AgentAssumption

LEMMA BudgetType ==
    ASSUME NEW m \in {"fast", "auto", "deep"}, NEW tier \in DOMAIN Iterations
    PROVE  LET b == BudgetFor(m, tier, Iterations)
           IN  /\ b \in [iterations : 1..99, reflection : BOOLEAN, verification : BOOLEAN,
                          decisions : BOOLEAN, subagents : {0, 2, 3}]
               /\ b.iterations = Iterations[tier][m]
               /\ m = "fast" => ~b.verification
<1>1. tier \in Tiers /\ Iterations[tier][m] \in 1..99
  BY AgentAssumption
<1> QED BY <1>1 DEF BudgetFor, Tiers

\* A turn that begins with a route the policy allows.
LEMMA FreshTurn ==
    ASSUME NEW r, Routed(r), NEW mode \in Modes, NEW tier \in DOMAIN Iterations,
           run' = Fresh(r, mode, tier), pc' = "routed", SessionTyped', CacheHoldsWhatRan',
           asked'.mode = mode, Unapproved' => Planful(r)
    PROVE  Inv'
<1> DEFINE m == BudgetMode(r, mode)
           b == BudgetFor(m, tier, Iterations)
<1>1. m \in {"fast", "auto", "deep"} /\ Iterations[tier][m] \in 1..99
  BY Budgets
<1>2. /\ b \in [iterations : 1..99, reflection : BOOLEAN, verification : BOOLEAN,
                 decisions : BOOLEAN, subagents : {0, 2, 3}]
      /\ b.iterations = Iterations[tier][m]
      /\ m = "fast" => ~b.verification
  BY <1>1, BudgetType
<1>3. r.workflow = "inspect" => b.iterations = 1 /\ ~b.verification
  BY <1>2, Budgets
<1>4. /\ run'.budget = b /\ run'.iter = 0 /\ run'.code = 0 /\ run'.good = 0 /\ run'.point = 0
      /\ run'.best = 0 /\ run'.lastcode = "none" /\ run'.forced = FALSE /\ run'.mode = mode
      /\ run'.error = FALSE /\ run'.retry = 0
      /\ run'.route.workflow = r.workflow /\ run'.route.plan = r.plan
  BY DEF Fresh, Nothing
<1>5. RunTyped'
  <2> HIDE DEF b, m
  <2>1. run'.checked = [i \in 1..Iterations[tier][m] |-> "none"]
    BY DEF Fresh, m
  <2>2. run'.checked \in [1..run'.budget.iterations -> Marks]
    BY <1>2, <1>4, <2>1 DEF Marks
  <2>3. run'.route \in [workflow : Workflows, plan : Plans, verify : BOOLEAN, escalate : BOOLEAN]
    BY DEF Fresh, Routed
  <2>4. run'.tier = tier /\ DOMAIN run' = RunFields
    BY DEF Fresh, RunFields
  <2>5. /\ run'.forced \in BOOLEAN /\ run'.cached \in BOOLEAN /\ run'.error \in BOOLEAN
        /\ run'.blocked \in BOOLEAN /\ run'.fanned \in BOOLEAN
    BY DEF Fresh
  <2>6. /\ run'.retry \in 0..(Retries + 1) /\ run'.open \in 0..3
        /\ run'.last = "none" /\ run'.lastcode = "none" /\ run'.routes = "none" /\ run'.stop = "none"
    BY RetriesNat DEF Fresh
  <2>7. run'.mode \in Modes /\ run'.budget = b
    BY <1>4
  <2> QED BY <1>2, <2>2, <2>3, <2>4, <2>5, <2>6, <2>7 DEF RunTyped, StopReasons
<1> HIDE DEF b, m
<1>6. Counted'
  BY <1>2, <1>4 DEF Counted, Phases, WithCode
<1>7. CodeInv' /\ ErrorInv' /\ BestInv'
  BY <1>4, <1>5 DEF CodeInv, ErrorInv, BestInv, Nothing, After, RunTyped
<1>8. PlanInv'
  BY <1>3, <1>4 DEF PlanInv, Planful, Conversing, Planning, Inspecting
<1> QED BY <1>5, <1>6, <1>7, <1>8 DEF Inv

LEMMA BeginTurn ==
    ASSUME Inv, NEW r, Routed(r), NEW mode \in Modes, NEW by \in {"message", "plan", "search"},
           Begin(r, mode, by),
           (mode = "planning" \/ RequireApproval) /\ by = "message" => Planful(r)
    PROVE  Inv'
<1>1. PICK tier \in DOMAIN Iterations : run' = Fresh(r, mode, tier)
  BY DEF Begin
<1>2. SessionTyped' /\ CacheHoldsWhatRan'
  BY DEF Begin, Inv, SessionTyped, CacheHoldsWhatRan
<1>3. asked'.mode = mode /\ asked'.by = by /\ pc' = "routed"
  BY DEF Begin, Goto
<1>4. Unapproved' => Planful(r)
  BY <1>3 DEF Unapproved
<1> QED BY <1>1, <1>2, <1>3, <1>4, FreshTurn

LEMMA LMessage ==
    ASSUME Inv, Message PROVE Inv'
<1>1. PICK intent \in Reachable[HasData], mode \in Modes :
        /\ intent.workflow = "execute_plan" => session.waiting
        /\ Begin(DeploymentPolicy(ApplyMode(intent, mode), RequireApproval), mode,
                 IF intent.workflow = "execute_plan" THEN "plan" ELSE "message")
  BY DEF Message
<1>2. Intent(intent)
  <2>1. HasData \in BOOLEAN
    BY DEF HasData
  <2> QED BY <2>1, RouterIntent DEF Reachable
<1> DEFINE r == DeploymentPolicy(ApplyMode(intent, mode), RequireApproval)
<1>3. CASE intent.workflow = "execute_plan"
  <2>1. Intent(r)
    BY <1>2, ModeKeeps DEF DeploymentPolicy, Modes
  <2> HIDE DEF r
  <2> QED BY <1>1, <1>3, <2>1, BeginTurn DEF r, Intent
<1>4. CASE intent.workflow # "execute_plan"
  <2>1. Intent(r) /\ (mode = "planning" \/ RequireApproval => Planful(r))
    BY <1>2, <1>4, PolicyGates
  <2> HIDE DEF r
  <2> QED BY <1>1, <1>4, <2>1, BeginTurn DEF r, Intent
<1> QED BY <1>3, <1>4

LEMMA LApprove ==
    ASSUME Inv, Approve PROVE Inv'
<1>1. Routed(Approved)
  BY DEF Approved, Plain, Routed, Plans, Workflows, Complexities
<1>2. asked.mode \in Modes /\ session.offered \in {"plan", "search"}
  BY DEF Approve, Inv, SessionTyped
<1>3. Begin(Approved, asked.mode, session.offered)
  BY DEF Approve
<1> QED BY <1>1, <1>2, <1>3, BeginTurn

LEMMA LHandOver ==
    ASSUME Inv, HandOver PROVE Inv'
<1> DEFINE i == [Plain("agentic", "moderate") EXCEPT !.verify = TRUE, !.source = "escalation"]
           r == EscalateUnder(run.route, HasData, run.mode, RequireApproval)
<1>1. Unconfirmed(i)
  BY DEF Unconfirmed, Intent, Routed, Plain, Plans, Workflows, Complexities
<1>2. run.mode \in Modes /\ run.tier \in DOMAIN Iterations /\ run.mode = asked.mode
  BY DEF HandOver, Inv, RunTyped, PlanInv
<1>3. r = DeploymentPolicy(ApplyMode(i, run.mode), RequireApproval)
  BY DEF HandOver, EscalateUnder, Escalate
<1>4. Intent(r) /\ (run.mode = "planning" \/ RequireApproval => Planful(r))
  <2> HIDE DEF i, r
  <2> QED BY <1>1, <1>2, <1>3, PolicyGates DEF Unconfirmed
<1>5. SessionTyped' /\ CacheHoldsWhatRan' /\ asked' = asked
  BY DEF HandOver, Inv, SessionTyped, CacheHoldsWhatRan
<1>6. run' = Fresh(r, run.mode, run.tier) /\ pc' = "routed"
  BY DEF HandOver, Goto
<1>7. Unapproved' => Planful(r)
  BY <1>2, <1>4, <1>5 DEF Unapproved
<1> HIDE DEF r, i
<1> QED BY <1>2, <1>4, <1>5, <1>6, <1>7, FreshTurn DEF Intent

-----------------------------------------------------------------------------
(* The verdict of a recomputation.                                          *)

\* What a verdict leaves of the run: its marks, the checkpoint to go back to
\* and the code in hand.
Sound(r) ==
    /\ DOMAIN r = RunFields
    /\ \A f \in RunFields \ {"code", "checked", "best", "open"} : r[f] = run[f]
    /\ r.open \in 0..3
    /\ r.checked \in [1..run.budget.iterations -> Marks]
    /\ r.best \in 0..run.iter
    /\ r.code \in -2..run.iter
    /\ run.good # Nothing => r.code \in 1..run.iter
    /\ ~run.fanned /\ r.best # Nothing => r.checked[r.best] = "verified"

LEMMA JudgedSound ==
    ASSUME Inv, pc = "recompute", NEW status \in Statuses,
           KnownStatus # "none" => status = KnownStatus
    PROVE  Sound(Judged(status))
<1> DEFINE seen == IF status = "inconclusive" \/ run.code \notin 1..99 THEN run
                   ELSE [run EXCEPT !.checked[run.code] = status]
<1>a. /\ run.budget.iterations \in 1..99 /\ run.iter \in 1..run.budget.iterations
      /\ run.code \in -2..run.iter /\ run.best \in 0..run.iter /\ run.point \in 0..run.iter
      /\ run.good \in 0..run.iter
  <2>1. run.budget.iterations \in 1..99
    BY DEF Inv, RunTyped
  <2>2. /\ run.iter \in 0..run.budget.iterations /\ run.iter >= 1
        /\ run.code \in -2..run.iter /\ run.best \in 0..run.iter /\ run.point \in 0..run.iter
        /\ run.good \in 0..run.iter
    BY DEF Inv, Counted
  <2> QED BY <2>1, <2>2
<1>b. /\ run.code \in 1..99 => run.code \in 1..run.budget.iterations
      /\ run.best # 0 => run.best \in 1..run.budget.iterations /\ run.best \in 1..99
      /\ run.point # 0 => run.point \in 1..run.budget.iterations /\ run.point \in 1..99
  BY SMTT(60), <1>a
<1>0. /\ run.checked \in [1..run.budget.iterations -> Marks] /\ DOMAIN run = RunFields
      /\ run.open \in 0..3
      /\ run.good # 0 => run.code = run.good
      /\ ~run.fanned => run.point = run.good
      /\ ~run.fanned /\ run.best # 0 => run.checked[run.best] = "verified"
  <2>4. run.checked \in [1..run.budget.iterations -> Marks] /\ DOMAIN run = RunFields /\ run.open \in 0..3
    BY DEF Inv, RunTyped
  <2>5. run.good # 0 => run.code = run.good
    BY DEF Inv, CodeInv, Nothing
  <2>6. /\ ~run.fanned => run.point = run.good
        /\ ~run.fanned /\ run.best # 0 => run.checked[run.best] = "verified"
    BY DEF Inv, BestInv, Nothing
  <2> QED BY <2>4, <2>5, <2>6
<1>1. /\ DOMAIN seen = RunFields
      /\ \A f \in RunFields \ {"checked"} : seen[f] = run[f]
  BY <1>0 DEF RunFields
<1>2. seen.checked = IF status = "inconclusive" \/ run.code \notin 1..99 THEN run.checked
                     ELSE [run.checked EXCEPT ![run.code] = status]
  BY <1>0 DEF RunFields
<1>3. seen.checked \in [1..run.budget.iterations -> Marks]
  <2>1. status \in Marks
    BY DEF Marks
  <2>2. CASE status = "inconclusive" \/ run.code \notin 1..99
    <3>1. seen.checked = run.checked
      BY <1>2, <2>2
    <3> QED BY <1>0, <3>1
  <2>3. CASE ~(status = "inconclusive" \/ run.code \notin 1..99)
    <3>1. seen.checked = [run.checked EXCEPT ![run.code] = status]
      BY <1>2, <2>3
    <3> QED BY ZenonT(60), <1>0, <2>1, <3>1
  <2> QED BY <2>2, <2>3
<1>4. ~run.fanned /\ run.best # 0 => seen.checked[run.best] = "verified"
  <2>1. run.code = run.best /\ run.best # 0 /\ ~run.fanned => status = "verified"
    <3> SUFFICES ASSUME run.code = run.best, run.best # 0, ~run.fanned PROVE status = "verified"
      OBVIOUS
    <3>1. run.code \in 1..99
      BY <1>b
    <3>2. run.checked[run.code] = "verified"
      BY <1>0
    <3> QED BY <3>1, <3>2 DEF KnownStatus
  <2> QED BY <1>0, <1>b, <1>2, <2>1
<1>5. ~run.fanned /\ status = "verified" /\ run.point # 0 => seen.checked[run.point] = "verified"
  <2> SUFFICES ASSUME ~run.fanned, status = "verified", run.point # 0
               PROVE  seen.checked[run.point] = "verified"
    OBVIOUS
  <2>1. run.code = run.point
    BY <1>0
  <2>2. run.code \in 1..99 /\ run.code \in 1..run.budget.iterations
    BY <2>1, <1>b
  <2>3. seen.checked = [run.checked EXCEPT ![run.code] = status]
    BY <1>2, <2>2
  <2> QED BY <1>0, <2>1, <2>2, <2>3
<1> HIDE DEF seen
<1>6. CASE Judged(status) = [seen EXCEPT !.code = run.best] /\ run.best # 0
  <2> DEFINE j == Judged(status)
  <2>1. j = [seen EXCEPT !.code = run.best]
    BY <1>6
  <2>2. DOMAIN j = RunFields /\ j.code = run.best
    BY <1>1, <2>1 DEF RunFields
  <2>3. j.checked = seen.checked /\ j.best = run.best /\ j.open = run.open
    BY <1>1, <2>1 DEF RunFields
  <2>4. \A f \in RunFields \ {"code", "checked", "best", "open"} : j[f] = run[f]
    BY <1>1, <2>1
  <2> HIDE DEF j
  <2>5. /\ j.code \in -2..run.iter /\ j.best \in 0..run.iter
        /\ run.good # 0 => j.code \in 1..run.iter
    BY <1>a, <1>0, <1>6, <2>2, <2>3
  <2>6. Sound(j)
    BY <1>0, <1>3, <1>4, <1>6, <2>2, <2>3, <2>4, <2>5 DEF Sound, Nothing
  <2> QED BY <2>6 DEF j
<1>7. CASE Judged(status) = [seen EXCEPT !.best = run.point] /\ status = "verified" /\ run.point # 0
  <2> DEFINE j == Judged(status)
  <2>1. j = [seen EXCEPT !.best = run.point]
    BY <1>7
  <2>2. DOMAIN j = RunFields /\ j.best = run.point
    BY <1>1, <2>1 DEF RunFields
  <2>3. j.checked = seen.checked /\ j.code = run.code /\ j.open = run.open
    BY <1>1, <2>1 DEF RunFields
  <2>4. \A f \in RunFields \ {"code", "checked", "best", "open"} : j[f] = run[f]
    BY <1>1, <2>1
  <2> HIDE DEF j
  <2>5. /\ j.code \in -2..run.iter /\ j.best \in 0..run.iter
        /\ run.good # 0 => j.code \in 1..run.iter
    BY <1>a, <1>0, <1>7, <2>2, <2>3
  <2>6. Sound(j)
    BY <1>0, <1>3, <1>5, <1>7, <2>2, <2>3, <2>4, <2>5 DEF Sound, Nothing
  <2> QED BY <2>6 DEF j
<1>8. CASE Judged(status) = seen
  <2>1. seen.code = run.code /\ seen.best = run.best /\ seen.open = run.open
    BY <1>1 DEF RunFields
  <2>2. run.good # 0 => run.code \in 1..run.iter
    BY <1>a, <1>0
  <2>3. Sound(seen)
    BY <1>0, <1>a, <1>1, <1>3, <1>4, <2>1, <2>2 DEF Sound, Nothing
  <2> QED BY <1>8, <2>3
<1> QED BY <1>6, <1>7, <1>8 DEF Judged, seen, Nothing

LEMMA CriticSound ==
    ASSUME NEW r, Sound(r), NEW found \in BOOLEAN PROVE Sound(Critic(r, found))
<1>1. CASE ~found
  BY <1>1 DEF Critic
<1>2. CASE found
  <2>1. Critic(r, found) = [r EXCEPT !.open = IF r.open = 0 THEN 2 ELSE 3,
                                     !.code = IF r.best # Nothing THEN r.best ELSE r.code]
    BY <1>2 DEF Critic
  <2> DEFINE c == Critic(r, found)
  <2>2. /\ DOMAIN c = RunFields
        /\ c.open \in 0..3
        /\ c.code = IF r.best # 0 THEN r.best ELSE r.code
    BY <2>1 DEF Sound, RunFields, Nothing
  <2>7. \A f \in RunFields \ {"open", "code"} : c[f] = r[f]
    BY <2>1 DEF Sound
  <2> HIDE DEF c
  <2>3. c.checked = r.checked /\ c.best = r.best
    BY <2>7 DEF RunFields
  <2>4. c.code \in -2..run.iter /\ (run.good # 0 => c.code \in 1..run.iter)
    BY <2>2 DEF Sound, Nothing
  <2>5. \A f \in RunFields \ {"code", "checked", "best", "open"} : c[f] = run[f]
    BY <2>7 DEF Sound
  <2>6. Sound(c)
    BY <2>2, <2>3, <2>4, <2>5 DEF Sound, Nothing
  <2> QED BY <2>6 DEF c
<1> QED BY <1>1, <1>2

LEMMA LJudge ==
    ASSUME Inv, Judge PROVE Inv'
<1>0. pc = "recompute" /\ UNCHANGED <<late, session, asked>>
  BY DEF Judge
<1>1. PICK status \in IF KnownStatus = "none" THEN Statuses ELSE {KnownStatus}, found \in BOOLEAN :
          LET r == Critic(Judged(status), found)
              components == Components(Evidence(r, status))
          IN  Settle([r EXCEPT
                 !.stop = StopReason(components, r.iter, r.budget.iterations, status = "verified")])
  BY DEF Judge
<1>2. status \in Statuses /\ (KnownStatus # "none" => status = KnownStatus)
  <2>1. run.code \in 1..99 => run.checked[run.code] \in Marks
    <3>1. run.budget.iterations \in 1..99
      BY DEF Inv, RunTyped
    <3>4. run.checked \in [1..run.budget.iterations -> Marks]
      BY DEF Inv, RunTyped
    <3>2. run.code \in -2..run.iter /\ run.iter \in 0..run.budget.iterations
      BY DEF Inv, Counted
    <3>3. run.code \in 1..99 => run.code \in 1..run.budget.iterations
      BY <3>1, <3>2
    <3> QED BY <3>4, <3>3
  <2>2. KnownStatus \in {"none"} \cup Statuses
    BY <2>1 DEF KnownStatus, Marks
  <2> QED BY <1>1, <2>2
<1> DEFINE r == Critic(Judged(status), found)
           stop == StopReason(Components(Evidence(r, status)), r.iter, r.budget.iterations,
                              status = "verified")
           settled == [r EXCEPT !.stop = stop]
<1>3. Sound(r)
  BY <1>0, <1>2, JudgedSound, CriticSound
<1>4. stop \in StopReasons
  BY DEF StopReason, StopReasons
<1>5. Settle(settled)
  BY <1>1
<1> HIDE DEF r, stop
<1>6. PICK more \in BOOLEAN : run' = [settled EXCEPT !.forced = more]
                             /\ pc' = IF more THEN "loop" ELSE "review"
  BY <1>5 DEF Settle, Goto
<1>7. /\ DOMAIN run' = RunFields /\ run'.stop = stop /\ run'.forced = more
      /\ \A f \in RunFields \ {"stop", "forced"} : run'[f] = r[f]
  BY <1>3, <1>6 DEF Sound, RunFields
<1>8. /\ \A f \in RunFields \ {"stop", "forced", "code", "checked", "best", "open"} : run'[f] = run[f]
      /\ run'.open \in 0..3
      /\ run'.checked \in [1..run.budget.iterations -> Marks]
      /\ run'.best \in 0..run.iter
      /\ run'.code \in -2..run.iter
      /\ run.good # Nothing => run'.code \in 1..run.iter
      /\ ~run.fanned /\ run'.best # Nothing => run'.checked[run'.best] = "verified"
  BY <1>3, <1>7 DEF Sound, RunFields
<1> HIDE DEF settled
<1>a. SessionTyped' /\ CacheHoldsWhatRan'
  BY <1>0 DEF Inv, SessionTyped, CacheHoldsWhatRan
<1>b. RunTyped'
  BY ZenonT(60), <1>4, <1>7, <1>8 DEF Inv, RunTyped, RunFields
<1>c. Counted'
  BY <1>0, <1>6, <1>8 DEF Inv, Counted, RunFields, Phases, WithCode
<1>d. CodeInv'
  BY <1>0, <1>6, <1>8 DEF Inv, CodeInv, RunFields, After
<1>e. ErrorInv' /\ BestInv'
  BY <1>0, <1>6, <1>8 DEF Inv, ErrorInv, BestInv, RunFields, WithCode
<1>f. PlanInv'
  BY <1>0, <1>6, <1>8 DEF Inv, PlanInv, RunFields, Unapproved, Conversing, Planning, Inspecting
<1> QED BY <1>a, <1>b, <1>c, <1>d, <1>e, <1>f DEF Inv

-----------------------------------------------------------------------------
(* The theorems.                                                            *)

LEMMA LInit == Init => Inv
<1> SUFFICES ASSUME Init PROVE Inv
  OBVIOUS
<1> DEFINE m == BudgetMode(Converse(TRUE), "auto")
           b == BudgetFor(m, "full", Iterations)
<1>1. m \in {"fast", "auto", "deep"} /\ "full" \in DOMAIN Iterations /\ Iterations["full"][m] \in 1..99
  BY Budgets, AgentAssumption DEF Modes
<1>2. /\ b \in [iterations : 1..99, reflection : BOOLEAN, verification : BOOLEAN,
                 decisions : BOOLEAN, subagents : {0, 2, 3}]
      /\ b.iterations = Iterations["full"][m]
  BY <1>1, BudgetType
<1>3. /\ run.budget = b /\ run.iter = 0 /\ run.code = 0 /\ run.good = 0 /\ run.point = 0
      /\ run.best = 0 /\ run.lastcode = "none" /\ run.mode = "auto" /\ run.retry = 0
  BY DEF Init, Fresh, Nothing
<1>4. /\ DOMAIN run = RunFields /\ run.tier = "full"
      /\ run.route \in [workflow : Workflows, plan : Plans, verify : BOOLEAN, escalate : BOOLEAN]
      /\ run.forced \in BOOLEAN /\ run.cached \in BOOLEAN /\ run.error \in BOOLEAN
      /\ run.blocked \in BOOLEAN /\ run.fanned \in BOOLEAN
      /\ run.open \in 0..3
      /\ run.last = "none" /\ run.lastcode = "none" /\ run.routes = "none" /\ run.stop = "none"
  BY DEF Init, Fresh, RunFields, Converse, Plain, Workflows, Plans
<1>5. run.checked = [i \in 1..Iterations["full"][m] |-> "none"]
  BY DEF Init, Fresh
<1> HIDE DEF b, m
<1>6. run.checked \in [1..run.budget.iterations -> Marks]
  BY <1>2, <1>3, <1>5 DEF Marks
<1>7. run.retry \in 0..(Retries + 1) /\ run.mode \in Modes
  BY <1>3, RetriesNat DEF Modes
<1>8. RunTyped
  BY <1>1, <1>2, <1>3, <1>4, <1>6, <1>7 DEF RunTyped, StopReasons
<1>9. SessionTyped /\ CacheHoldsWhatRan /\ pc = "idle"
  <2>1. PICK data : session = [data |-> data, waiting |-> FALSE, offered |-> "none", turns |-> 0,
                               cache |-> [f \in {"direct", "agentic"} |-> "none"]]
    BY DEF Init
  <2>2. session.cache = [f \in {"direct", "agentic"} |-> "none"]
    BY <2>1
  <2>3. session.cache \in [{"direct", "agentic"} -> {"none", "ran", "draft"}] /\ CacheHoldsWhatRan
    BY <2>2 DEF CacheHoldsWhatRan
  <2>4. /\ DOMAIN session = {"data", "waiting", "offered", "turns", "cache"}
        /\ session.waiting \in BOOLEAN /\ session.offered \in {"none", "plan", "search"}
    BY <2>1
  <2> QED BY <2>3, <2>4 DEF Init, SessionTyped, Modes
<1>10. Counted
  BY <1>2, <1>3, <1>9 DEF Counted, Phases, WithCode
<1>11. CodeInv /\ ErrorInv /\ BestInv /\ PlanInv
  BY <1>3, <1>9 DEF CodeInv, ErrorInv, BestInv, PlanInv, Nothing, After
<1> QED BY <1>8, <1>9, <1>10, <1>11 DEF Inv

LEMMA LNext == Inv /\ [Next]_vars => Inv'
<1> SUFFICES ASSUME Inv, [Next]_vars PROVE Inv'
  OBVIOUS
<1>1. CASE Step
  BY <1>1, LDispatch, LAbort, LHandOver, LOrient, LPlanned, LSearch, LGate, LIterate, LDecide, LLook,
     LParallel, LGenerate, LInstall, LRun, LSkip, LBeginVerification, LJudge, LReview, LAnswer,
     LFinalize DEF Step
<1>2. CASE UNCHANGED vars
  BY <1>2 DEF vars, Inv, SessionTyped, RunTyped, Counted, CodeInv, ErrorInv, BestInv, PlanInv,
     CacheHoldsWhatRan, Conversing, Planning, Inspecting, Unapproved
<1> QED BY <1>1, <1>2, LMessage, LApprove, LAbort, LDeadline DEF Next

\* The strengthening is inductive.
THEOREM Invariance == Spec => []Inv
BY LInit, LNext, PTL DEF Spec

\* Every variable keeps its type, and no code in hand, checkpoint or verified
\* checkpoint names an iteration that did not begin (RunState).
THEOREM TypeCorrect == Spec => []TypeOK
<1>1. Inv => TypeOK
  <2> SUFFICES ASSUME Inv PROVE TypeOK
    OBVIOUS
  <2>1. run.budget.iterations \in 1..99 /\ run.iter \in 0..run.budget.iterations
    BY DEF Inv, RunTyped, Counted
  <2>2. run.code \in -2..run.iter
    BY DEF Inv, Counted
  <2>3. run.iter \in 0..99 /\ run.iter <= run.budget.iterations
    BY <2>1
  <2>4. run.code \in {Nothing, Draft, Replayed} \cup 1..run.iter
    BY <2>2, <2>3 DEF Nothing, Draft, Replayed
  <2>5. run.retry \in 0..(Retries + 1)
    BY DEF Inv, RunTyped
  <2> QED BY <2>3, <2>4, <2>5 DEF Inv, Counted, SessionTyped, TypeOK
<1> QED BY <1>1, Invariance, PTL

\* In the planning mode, and under AGENT_REQUIRE_APPROVAL in every mode, no
\* message makes code run: not by its route, not by what a reply hands over,
\* and not by a stored solution (_decide_route, _orient).
THEOREM PlansAreSeen == Spec => []PlanSeenBeforeRun
<1>1. Inv => PlanSeenBeforeRun
  BY DEF Inv, PlanInv, PlanSeenBeforeRun, Unapproved, Conversing, Planning, Inspecting
<1> QED BY <1>1, Invariance, PTL

\* The semantic cache never takes code that was written and did not run, or
\* failed (_finalize).
THEOREM CacheIsEarned == Spec => []CacheHoldsWhatRan
<1>1. Inv => CacheHoldsWhatRan
  BY DEF Inv
<1> QED BY <1>1, Invariance, PTL

\* When anything ran, the answer is built from code that ran, and no corrected
\* failure marks it (_act_code, _verify).
THEOREM AnswersAreGrounded == Spec => []AnswersFromWhatRan
<1>1. Inv => AnswersFromWhatRan
  BY DEF Inv, CodeInv, ErrorInv, After, WithCode, AnswersFromWhatRan, SuccessClearsTheError
<1> QED BY <1>1, Invariance, PTL

\* Nothing that did not run is kept for later turns or answered from.
THEOREM OnlyWhatRanIsUsed == Spec => []OnlyWhatRan
<1>1. CacheHoldsWhatRan /\ AnswersFromWhatRan => OnlyWhatRan
  BY DEF OnlyWhatRan
<1> QED BY <1>1, CacheIsEarned, AnswersAreGrounded, PTL

\* Without a fan-out, the checkpoint a mismatch goes back to is one that an
\* independent recomputation agreed with (_verify).
THEOREM RollbacksAreVerified == Spec => []RollsBackToVerified
<1>1. Inv => RollsBackToVerified
  BY DEF Inv, BestInv, RollsBackToVerified
<1> QED BY <1>1, Invariance, PTL

=============================================================================
