----------------------------- MODULE AgentTurn -----------------------------
(***************************************************************************)
(* One turn of the analysis agent, and the next one: AnalysisOrchestrator  *)
(* of core/agent/orchestrator.py.                                          *)
(*                                                                         *)
(* The turn is one coroutine: an action is what it does between two model  *)
(* calls, executions or questions, and takes in what came of the last one. *)
(* The wall clock runs beside it, and a cancellation may come at any await.*)
(*                                                                         *)
(* A piece of code is the iteration whose execution it survived; Draft is  *)
(* code that was written and has not run.  The turns of a model run ask    *)
(* one question of one dataset.                                            *)
(***************************************************************************)
EXTENDS Routing

CONSTANTS
    Iterations,  \* per tier and budget mode: TIER_BUDGETS, capped
    Retries,     \* MAX_CORRECTION_RETRIES
    Verify,      \* AGENT_VERIFY
    RequireApproval,  \* AGENT_REQUIRE_APPROVAL
    Datasets,    \* completeness and rows of the frames a session may hold
    Turns        \* bound: the turns of a behaviour

\* TIER_BUDGETS has the full tier; budget_for makes the fast mode one shot in
\* every tier.
ASSUME AgentAssumption ==
    /\ DOMAIN Iterations \subseteq Tiers /\ "full" \in DOMAIN Iterations
    /\ \A tier \in DOMAIN Iterations :
          /\ Iterations[tier] \in [{"fast", "auto", "deep"} -> 1..99]
          /\ Iterations[tier]["fast"] = 1
    /\ Retries \in Nat
    /\ Verify \in BOOLEAN /\ RequireApproval \in BOOLEAN
    /\ Turns \in Nat

Nothing == 0
Draft == -1
Replayed == -2

NoData == [completeness |-> -2, rows |-> -2]

VARIABLES
    pc,       \* where the turn is
    run,      \* RunState, and the route and the budget it is run with
    late,     \* AGENT_TURN_TIMEOUT has passed
    session,  \* what outlives the turn: the waiting plan, the semantic cache
    asked     \* how the request of this turn came about

vars == <<pc, run, late, session, asked>>

Phases == {"idle", "routed", "converse", "orient", "planned", "gate", "search", "loop", "decide",
           "code", "install", "execute", "paths", "parallel", "verify", "recompute", "review",
           "answer", "finalize", "inspect", "consult", "reflect"}

\* What a fresh RunState holds, of the route what the turn still asks of it.
Fresh(route, mode, tier) ==
    [route |-> [workflow |-> route.workflow, plan |-> route.plan, verify |-> route.verify,
                escalate |-> route.escalate],
     mode |-> mode, tier |-> tier,
     budget |-> BudgetFor(BudgetMode(route, mode), tier, Iterations),
     iter |-> 0, forced |-> FALSE, code |-> Nothing, cached |-> FALSE,
     error |-> FALSE, blocked |-> FALSE, retry |-> 0, last |-> "none", lastcode |-> "none",
     good |-> Nothing, point |-> Nothing, best |-> Nothing, fanned |-> FALSE,
     checked |-> [i \in 1..Iterations[tier][BudgetMode(route, mode)] |-> "none"], open |-> 0, routes |-> "none", stop |-> "none"]

TypeOK ==
    /\ pc \in Phases
    /\ run.iter \in 0..99 /\ run.iter <= run.budget.iterations
    /\ run.code \in {Nothing, Draft, Replayed} \cup 1..run.iter
    /\ run.good \in 0..run.iter /\ run.best \in 0..run.iter /\ run.point \in 0..run.iter
    /\ run.retry \in 0..(Retries + 1)
    /\ late \in BOOLEAN
    /\ session.waiting \in BOOLEAN
    /\ session.cache \in [{"direct", "agentic"} -> {"none", "ran", "draft"}]
    /\ asked \in [by : {"message", "plan", "search"}, mode : Modes]

\* The session keeps the plan that waits for the user and, per family of
\* routes, what the semantic cache has for the question: code that ran, or
\* code that was only written.
Init ==
    /\ pc = "idle"
    /\ run = Fresh(Converse(TRUE), "auto", "full")
    /\ late = FALSE
    /\ \E data \in {NoData} \cup Datasets :
          session = [data |-> data, waiting |-> FALSE, offered |-> "none", turns |-> 0,
                     cache |-> [f \in {"direct", "agentic"} |-> "none"]]
    /\ asked = [by |-> "message", mode |-> "auto"]

HasData == session.data # NoData

Family(route) == IF route.workflow \in {"direct", "inspect"} THEN "direct" ELSE "agentic"

Goto(where) == pc' = where

-----------------------------------------------------------------------------
(* run: the route, then the workflow.                                       *)

\* end_turn: a waiting plan survives only the turn that asks for it.  The
\* client sees what is offered for approval in the result.
EndTurn(offer) ==
    /\ session' = [session EXCEPT !.waiting = (offer = "plan"), !.offered = offer]
    /\ Goto("idle")

Begin(route, mode, by) ==
    /\ pc = "idle" /\ session.turns < Turns
    /\ \E tier \in DOMAIN Iterations : run' = Fresh(route, mode, tier)
    /\ asked' = [by |-> by, mode |-> mode]
    /\ session' = [session EXCEPT !.turns = @ + 1]
    /\ late' = FALSE
    /\ Goto("routed")

\* _decide_route for a message.  Typed words that confirm the waiting plan
\* run it; the router reads them so only while one waits.
Message ==
    \E intent \in Reachable[HasData], mode \in Modes :
        /\ intent.workflow = "execute_plan" => session.waiting
        /\ Begin(DeploymentPolicy(ApplyMode(intent, mode), RequireApproval), mode,
                 IF intent.workflow = "execute_plan" THEN "plan" ELSE "message")

\* A button approves the plan or the search the last turn asked about.
Approve ==
    /\ session.offered # "none"
    /\ Begin(Approved, asked.mode, session.offered)

\* _run up to the loop.  Without a dataset it is an error.
Dispatch ==
    /\ pc = "routed"
    /\ IF run.route.workflow # "converse" /\ ~HasData
       THEN EndTurn("none")
       ELSE /\ Goto(CASE run.route.workflow = "converse" -> "converse"
                      [] run.route.workflow # "converse" /\ asked.by = "search" -> "search"
                      [] run.route.workflow # "converse" /\ asked.by = "plan" -> "loop"
                      [] OTHER -> "orient")
            /\ UNCHANGED session
    /\ UNCHANGED <<run, late, asked>>

\* _converse: a reply; a fixed one when the model cannot be reached.
Reply ==
    /\ pc = "converse"
    /\ EndTurn("none")
    /\ UNCHANGED <<run, late, asked>>

\* The reply was the sentinel: the same turn becomes an analysis.
HandOver ==
    /\ pc = "converse"
    /\ run.route.escalate /\ HasData
    /\ run' = Fresh(EscalateUnder(run.route, HasData, run.mode, RequireApproval), run.mode, run.tier)
    /\ Goto("routed")
    /\ UNCHANGED <<late, session, asked>>

\* A model that cannot be reached where nothing stands in for it, a refusal
\* by the data mode, an error nobody expected, a cancellation.
Abort ==
    /\ pc # "idle"
    /\ EndTurn("none")
    /\ UNCHANGED <<run, late, asked>>

Deadline ==
    /\ pc # "idle" /\ ~late
    /\ late' = TRUE
    /\ UNCHANGED <<pc, run, session, asked>>

-----------------------------------------------------------------------------
(* _orient: the opening plan.                                               *)

\* Faulty variant: a stored solution is run although a plan was asked for.
OrientReplaying ==
    /\ pc = "orient"
    /\ \/ /\ session.cache[Family(run.route)] # "none"
          /\ run' = [run EXCEPT !.code = Replayed, !.cached = TRUE]
          /\ Goto("loop")
       \/ /\ Goto(IF run.route.plan = "none" THEN "loop" ELSE "planned")
          /\ UNCHANGED run
    /\ UNCHANGED <<late, session, asked>>

\* The semantic cache has a solution of this question, unless the user is to
\* see a plan first; otherwise the route says whether a plan is made.
Orient ==
    /\ pc = "orient"
    /\ \/ /\ run.route.plan \notin {"gated", "only"}
          /\ session.cache[Family(run.route)] # "none"
          /\ run' = [run EXCEPT !.code = Replayed, !.cached = TRUE]
          /\ Goto("loop")
       \/ /\ Goto(IF run.route.plan = "none" THEN "loop" ELSE "planned")
          /\ UNCHANGED run
    /\ UNCHANGED <<late, session, asked>>

\* The plan may ask for a web search.  It is dropped, done, or, where the
\* transport cannot ask, the turn ends with the question.
Planned ==
    /\ pc = "planned"
    /\ \/ Goto("gate") /\ UNCHANGED session
       \/ Goto("search") /\ UNCHANGED session
       \/ EndTurn("search")
    /\ UNCHANGED <<run, late, asked>>

\* _run_search plans again from what it found.
Search ==
    /\ pc = "search"
    /\ Goto(IF asked.by = "search" THEN "loop" ELSE "gate")
    /\ UNCHANGED <<run, late, session, asked>>

\* The plan is shown and the turn ends, or the loop runs it.
Gate ==
    /\ pc = "gate"
    /\ IF run.route.plan \in {"gated", "only"}
       THEN EndTurn("plan")
       ELSE Goto("loop") /\ UNCHANGED session
    /\ UNCHANGED <<run, late, asked>>

-----------------------------------------------------------------------------
(* _investigate: claim an iteration, decide, act.                           *)

\* Faulty variant: the last attempt stands, even when it failed.
LeaveAsIs ==
    /\ run' = [run EXCEPT !.forced = FALSE]
    /\ Goto("verify")

\* Whatever the loop produced is what the answer is built from.
Leave ==
    /\ run' = [run EXCEPT !.code = IF run.good # Nothing THEN run.good ELSE @, !.forced = FALSE]
    /\ Goto("verify")

Iterate ==
    /\ pc = "loop"
    /\ IF run.iter = run.budget.iterations \/ (run.iter >= 1 /\ late)
       THEN Leave
       ELSE /\ run' = [run EXCEPT !.iter = @ + 1]
            /\ Goto("decide")
    /\ UNCHANGED <<late, session, asked>>

\* _decide_deterministically: success is the signal to stop.
Deterministic == IF run.last = "ok" THEN "answer" ELSE "code"

\* _decide: what may be chosen.  A fallback is noted in the confidence only.
Choices ==
    CASE run.forced -> {"code"}
      [] ~run.forced /\ run.iter = 1 -> {IF run.route.workflow = "inspect" THEN "inspect" ELSE "code"}
      [] ~run.forced /\ run.iter > 1 /\ run.cached /\ ~run.error -> {"answer"}
      [] ~run.forced /\ run.iter > 1 /\ ~(run.cached /\ ~run.error) /\ ~run.budget.decisions ->
            {Deterministic}
      [] OTHER ->
            IF run.iter = run.budget.iterations
            THEN {"answer"}
            ELSE {"inspect", "consult", "code", "answer"}
                    \cup (IF run.budget.reflection THEN {"reflect"} ELSE {})
                    \cup (IF run.budget.subagents >= 2 THEN {"parallel"} ELSE {})

\* _act_code begins with a clean slate.
Coding(r) == [r EXCEPT !.error = FALSE, !.retry = 0]

Decide ==
    /\ pc = "decide"
    /\ \E choice \in Choices :
          LET chosen == [run EXCEPT !.forced = FALSE]
          IN  IF choice = "answer"
              THEN /\ run' = [chosen EXCEPT !.code = IF run.good # Nothing THEN run.good ELSE @]
                   /\ Goto("verify")
              ELSE /\ run' = IF choice = "code" THEN Coding(chosen) ELSE chosen
                   /\ Goto(choice)
    /\ UNCHANGED <<late, session, asked>>

\* _act_inspect: the frame answers.
Inspect ==
    /\ pc = "inspect"
    /\ run' = [run EXCEPT !.last = "ok"]
    /\ Goto("loop")
    /\ UNCHANGED <<late, session, asked>>

\* _act_consult: passages, or none.
Consult ==
    /\ pc = "consult"
    /\ \E found \in BOOLEAN : run' = [run EXCEPT !.last = IF found THEN "ok" ELSE "failed"]
    /\ Goto("loop")
    /\ UNCHANGED <<late, session, asked>>

\* _act_reflect: a new plan, or nothing when the manager says nothing.
Reflect ==
    /\ pc = "reflect"
    /\ \E revised \in BOOLEAN : run' = [run EXCEPT !.last = IF revised THEN "ok" ELSE @]
    /\ Goto("loop")
    /\ UNCHANGED <<late, session, asked>>

\* _act_parallel: the branches that finished are folded in as code steps, in
\* their order; a goal that does not split is a plain code step.  What the
\* turn's own code left in `error` stays.
Parallel ==
    /\ pc = "parallel"
    /\ \/ run' = Coding(run) /\ Goto("code")
       \/ /\ \E good \in {run.good, run.iter}, last \in {"ok", "failed", run.last},
               routes \in {"agree", "disagree", "incomparable"} :
                /\ last = "ok" /\ run.last # "ok" => good = run.iter
                /\ run' = [run EXCEPT
                     !.last = last, !.lastcode = IF last = run.last THEN @ ELSE last,
                     !.fanned = TRUE, !.good = good,
                     !.routes = IF run.tier = "full" THEN routes ELSE @]
          /\ Goto("loop")
    /\ UNCHANGED <<late, session, asked>>

-----------------------------------------------------------------------------
(* _act_code: write, permit, execute, correct.                              *)

Failed(r) == [r EXCEPT !.last = "failed", !.lastcode = "failed"]

\* _generate: a stored solution is taken as it is.  A reply without code
\* fails the step.
Generate ==
    /\ pc = "code"
    /\ \/ /\ run.cached /\ ~run.error
          /\ UNCHANGED run
          /\ Goto("install")
       \/ /\ ~(run.cached /\ ~run.error)
          /\ run' = [run EXCEPT !.code = Draft]
          /\ Goto("install")
       \/ /\ ~(run.cached /\ ~run.error)
          /\ run' = Failed([run EXCEPT !.code = Nothing, !.error = TRUE])
          /\ Goto("loop")
    /\ UNCHANGED <<late, session, asked>>

\* _permit_install: declined, the step fails and the turn goes on.
Install ==
    /\ pc = "install"
    /\ \/ Goto("execute") /\ UNCHANGED run
       \/ run' = Failed(run) /\ Goto("loop")
    /\ UNCHANGED <<late, session, asked>>

Success ==
    /\ \E silent \in BOOLEAN :
          run' = [run EXCEPT !.error = FALSE, !.code = run.iter, !.good = run.iter, !.point = run.iter,
                             !.last = IF silent THEN "silent" ELSE "ok", !.lastcode = "ok"]
    /\ Goto("loop")

\* The guard refuses for good: the turn ends with that.
Blocked ==
    /\ run' = [run EXCEPT !.blocked = TRUE]
    /\ Goto("finalize")

\* Corrected up to Retries times; then the failure is what the step found.
Failure ==
    LET failed == [run EXCEPT !.error = TRUE, !.retry = @ + 1, !.cached = FALSE]
    IN  IF run.retry >= Retries
        THEN run' = Failed(failed) /\ Goto("loop")
        ELSE run' = failed /\ Goto("code")

Execute ==
    /\ pc = "execute"
    /\ Success \/ Failure \/ Blocked \/ (Goto("paths") /\ UNCHANGED run)
    /\ UNCHANGED <<late, session, asked>>

\* _permit_paths: granted, it runs once more; declined, it is blocked.
PermitPaths ==
    /\ pc = "paths"
    /\ Success \/ Failure \/ Blocked
    /\ UNCHANGED <<late, session, asked>>

-----------------------------------------------------------------------------
(* _verify, and whether to go on.                                           *)

\* Faulty variant: more work is asked for when no iteration is left.
SettleRegardless(r) ==
    LET more == r.stop # "none" /\ r.open > 0
    IN  /\ run' = [r EXCEPT !.forced = more]
        /\ Goto(IF more THEN "loop" ELSE "review")

\* _confidence_requires_more_work: the policy says to go on, something named
\* is open, and iterations remain.
Settle(r) ==
    LET more == r.stop = "continue" /\ r.open > 0 /\ r.iter < r.budget.iterations
    IN  /\ run' = [r EXCEPT !.forced = more]
        /\ Goto(IF more THEN "loop" ELSE "review")

NotVerified ==
    \/ ~Verify \/ ~run.budget.verification \/ ~run.route.verify
    \/ run.error \/ run.code = Nothing \/ run.cached

KnownStatus == IF run.code \in 1..99 THEN run.checked[run.code] ELSE "none"

SkipVerification ==
    /\ pc = "verify"
    /\ NotVerified \/ (KnownStatus = "none" /\ late)
    /\ Settle(run)
    /\ UNCHANGED <<late, session, asked>>

BeginVerification ==
    /\ pc = "verify"
    /\ ~(NotVerified \/ (KnownStatus = "none" /\ late))
    /\ Goto("recompute")
    /\ UNCHANGED <<run, late, session, asked>>

\* The model is not reached, writes no code, or its code wants a library that
\* is declined.
NoRecomputation ==
    /\ pc = "recompute" /\ KnownStatus = "none"
    /\ Settle(run)
    /\ UNCHANGED <<late, session, asked>>

Evidence(r, status) ==
    [completeness |-> session.data.completeness, rows |-> session.data.rows, wrong_test |-> FALSE,
     status |-> status, routes |-> r.routes, sensitive |-> FALSE, unresolved |-> r.open,
     inferred |-> FALSE]

\* Faulty variant: an inconclusive recomputation makes a checkpoint good too.
JudgedLenient(status) ==
    LET seen == IF status = "inconclusive" \/ run.code \notin 1..99 THEN run
                ELSE [run EXCEPT !.checked[run.code] = status]
    IN  CASE KnownStatus = "none" /\ status = "mismatch" /\ run.best # Nothing -> [seen EXCEPT !.code = run.best]
          [] KnownStatus = "none" /\ status # "mismatch" /\ run.point # Nothing -> [seen EXCEPT !.best = run.point]
          [] OTHER -> seen

\* The status is remembered with the code; a mismatch goes back to the last
\* checkpoint that was verified, a match makes the newest checkpoint that.
Judged(status) ==
    LET seen == IF status = "inconclusive" \/ run.code \notin 1..99 THEN run
                ELSE [run EXCEPT !.checked[run.code] = status]
    IN  CASE KnownStatus = "none" /\ status = "mismatch" /\ run.best # Nothing -> [seen EXCEPT !.code = run.best]
          [] KnownStatus = "none" /\ status = "verified" /\ run.point # Nothing -> [seen EXCEPT !.best = run.point]
          [] OTHER -> seen

\* The critic names an error: once more in its findings and, when it is new,
\* as an open question; it too goes back to a verified checkpoint.  More than
\* three open items are three to the rubric.
Critic(r, found) ==
    IF ~found THEN r
    ELSE [r EXCEPT !.open = IF @ = 0 THEN 2 ELSE 3,
                   !.code = IF r.best # Nothing THEN r.best ELSE @]

Judge ==
    /\ pc = "recompute"
    /\ \E status \in IF KnownStatus = "none" THEN Statuses ELSE {KnownStatus}, found \in BOOLEAN :
          LET r == Critic(Judged(status), found)
              components == Components(Evidence(r, status))
          IN  Settle([r EXCEPT
                 !.stop = StopReason(components, r.iter, r.budget.iterations, status = "verified")])
    /\ UNCHANGED <<late, session, asked>>

-----------------------------------------------------------------------------
(* _review, _answer, _finalize.                                             *)

\* Advisory, with a time limit of its own.
Review ==
    /\ pc = "review"
    /\ Goto("answer")
    /\ UNCHANGED <<run, late, session, asked>>

\* Refused on the verdict, streamed, or the raw output.
Answer ==
    /\ pc = "answer"
    /\ Goto("finalize")
    /\ UNCHANGED <<run, late, session, asked>>

\* Faulty variant: "has code and no error" counts as worked.
FinalizeWritten ==
    /\ pc = "finalize"
    /\ session' = [session EXCEPT
          !.waiting = FALSE, !.offered = "none",
          !.cache[Family(run.route)] =
              IF run.code # Nothing /\ ~run.error /\ ~run.blocked
              THEN (IF run.code \in 1..run.iter THEN "ran" ELSE "draft") ELSE @]
    /\ Goto("idle")
    /\ UNCHANGED <<run, late, asked>>

\* Code that worked goes into the semantic cache.
Finalize ==
    /\ pc = "finalize"
    /\ session' = [session EXCEPT
          !.waiting = FALSE, !.offered = "none",
          !.cache[Family(run.route)] =
              IF run.code # Nothing /\ ~run.error /\ ~run.blocked /\ run.lastcode = "ok"
              THEN (IF run.code \in 1..run.iter THEN "ran" ELSE "draft") ELSE @]
    /\ Goto("idle")
    /\ UNCHANGED <<run, late, asked>>

-----------------------------------------------------------------------------
Step ==
    \/ Dispatch \/ Reply \/ HandOver \/ Orient \/ Planned \/ Search \/ Gate
    \/ Iterate \/ Decide \/ Inspect \/ Consult \/ Reflect \/ Parallel
    \/ Generate \/ Install \/ Execute \/ PermitPaths
    \/ SkipVerification \/ BeginVerification \/ NoRecomputation \/ Judge
    \/ Review \/ Answer \/ Finalize

Next == Message \/ Approve \/ Step \/ Abort \/ Deadline

Spec == Init /\ [][Next]_vars

\* A turn goes on by itself: every call it waits for has a time limit.
FairSpec == Spec /\ WF_vars(Step)
-----------------------------------------------------------------------------
(* Properties.                                                              *)

\* routing.py: "analytic work is planned and shown to the user before it runs"
\* in the planning mode, and under AGENT_REQUIRE_APPROVAL in every mode: code
\* runs only in a turn the user began by approving something.
PlanSeenBeforeRun ==
    (asked.mode = "planning" \/ RequireApproval) /\ pc \in {"execute", "paths", "parallel"}
        => asked.by # "message"

\* Only what ran is worth replaying: the semantic cache never gets code that
\* was written and not run, or that failed.
CacheHoldsWhatRan == \A f \in DOMAIN session.cache : session.cache[f] # "draft"

\* A self-heal clears the error it corrected, so what was learned is kept.
SuccessClearsTheError ==
    pc = "finalize" /\ run.lastcode = "ok" /\ ~run.blocked /\ ~run.fanned => ~run.error

\* The answer is built from code that ran when any did, whatever was
\* declined, failed or rolled back since, and not marked by a failure that was
\* corrected.
AnswersFromWhatRan ==
    /\ pc = "answer" /\ run.good # Nothing => run.code \in 1..run.iter
    /\ SuccessClearsTheError

\* What a turn keeps for later ones and what it answers from has run.
OnlyWhatRan == CacheHoldsWhatRan /\ AnswersFromWhatRan

\* A rollback goes to code that an independent recomputation agreed with.
\* Not so after a fan-out, whose result is verified in the name of the code
\* before it.
RollsBackToVerified ==
    run.best # Nothing /\ ~run.fanned => run.checked[run.best] = "verified"

\* A turn whose deadline does not pass comes to an end.
EndsUnlessLate == pc # "idle" ~> pc = "idle" \/ late

\* README.md: AGENT_TURN_TIMEOUT "bounds a turn regardless: on reaching it the
\* agent stops exploring and answers from what it has".
TurnEnds == pc # "idle" ~> pc = "idle"
=============================================================================
