------------------------------ MODULE Routing ------------------------------
(***************************************************************************)
(* How much machinery a message gets: core/agent/routing.py, with the      *)
(* budget that config.py gives the route and the policy the orchestrator   *)
(* applies over it.  Pure: a message is the evidence extract_signals reads *)
(* from it, counted as far as a threshold looks.                           *)
(***************************************************************************)
EXTENDS Integers, FiniteSets

Workflows == {"converse", "inspect", "direct", "agentic", "plan_only", "execute_plan"}
Plans == {"none", "self", "gated", "only"}
Modes == {"auto", "fast", "deep", "planning"}
Tiers == {"compact", "balanced", "full"}

Route == [workflow : Workflows, complexity : {"trivial", "simple", "moderate", "complex"},
          plan : Plans, verify : BOOLEAN, escalate : BOOLEAN, deep : BOOLEAN,
          needs_data : BOOLEAN, source : {"rules", "mode", "escalation", "approval"}]

-----------------------------------------------------------------------------
(* Evidence.                                                                *)

\* What extract_signals can return, as far as the rules tell it apart: the
\* number of tokens up to 5, 8, 30 or beyond, the operation families and
\* whether one of them computes, the heavy words and whether "why" is all
\* there is of them.  The models take the combinations a run is about.
CONSTANT Signals

SignalType ==
    [tokens : {5, 8, 30, 31}, clauses : 1..7, question : BOOLEAN, names_data : BOOLEAN,
     families : 0..5, computing : BOOLEAN, heavy : 0..3, only_why : BOOLEAN,
     structure : BOOLEAN, condition : BOOLEAN, visual : BOOLEAN, sequencing : 0..2,
     deliverable : BOOLEAN, open_analysis : BOOLEAN, social : BOOLEAN,
     addresses_you : BOOLEAN, plan_requested : BOOLEAN, confirms_plan : BOOLEAN,
     imperative : BOOLEAN]

One(b) == IF b THEN 1 ELSE 0

Computes(sig) == sig.computing /\ sig.families > 0

\* Something is asked for, beyond naming the data.
Asks(sig) ==
    \/ sig.families > 0 \/ sig.heavy > 0 \/ sig.structure
    \/ sig.visual \/ sig.deliverable \/ sig.open_analysis

TaskEvidence(sig) == sig.names_data \/ Asks(sig)

\* Open-ended: analysis of nothing in particular.
OpenEnded(sig) ==
    /\ sig.open_analysis /\ ~sig.names_data /\ sig.families = 0
    /\ sig.heavy = 0 \/ (sig.heavy = 1 /\ sig.only_why)

\* complexity_score, in halves: steps and not words.
Score(sig) ==
    LET others == sig.families + One(sig.visual) + One(sig.deliverable) + One(sig.open_analysis)
    IN  4 * sig.heavy
        + (IF others > 0 THEN 3 * (others - 1) ELSE 0)
        + 4 * One(sig.open_analysis)
        + 3 * One(OpenEnded(sig))
        + 2 * sig.sequencing
        + (sig.clauses - 1)
        + 2 * One(sig.tokens > 30)

Steps(sig) == sig.families + One(sig.visual) + One(sig.deliverable) + One(sig.open_analysis) + sig.heavy

Complexity(sig) ==
    CASE Score(sig) >= 6 -> "complex"
      [] Score(sig) \in 3..5 -> "moderate"
      [] OTHER -> IF TaskEvidence(sig) THEN "simple" ELSE "trivial"

-----------------------------------------------------------------------------
(* The route.                                                               *)

Plain(workflow, complexity) ==
    [workflow |-> workflow, complexity |-> complexity, plan |-> "none", verify |-> FALSE,
     escalate |-> FALSE, deep |-> FALSE, needs_data |-> FALSE, source |-> "rules"]

Converse(decided) == [Plain("converse", "trivial") EXCEPT !.escalate = ~decided]

\* A data workflow without data is a conversation about what is missing.
NeedsDataset(route, has_dataset) ==
    IF has_dataset \/ route.workflow = "converse"
    THEN route
    ELSE [Plain("converse", route.complexity) EXCEPT !.needs_data = TRUE, !.source = route.source]

\* _route_intent up to the task itself: what settles a message before its
\* complexity is looked at.
Settled(sig) ==
    \/ sig.plan_requested
    \/ sig.addresses_you /\ ~Computes(sig)
    \/ ~TaskEvidence(sig)
    \/ sig.social /\ ~sig.question /\ sig.tokens = 5 /\ ~sig.names_data /\ ~sig.structure
    \/ sig.names_data /\ ~Asks(sig) /\ ~sig.imperative

Chatter(sig) ==
    IF sig.plan_requested
    THEN [Plain("plan_only", "complex") EXCEPT !.plan = "only"]
    ELSE Converse(/\ ~(sig.addresses_you /\ ~Computes(sig))
                  /\ ~TaskEvidence(sig) /\ sig.social /\ sig.tokens <= 8)

\* A fact of the frame: nothing to compute, no filter.
AsksStructure(sig) ==
    /\ sig.structure /\ ~sig.condition /\ ~Computes(sig) /\ sig.heavy = 0
    /\ ~sig.visual /\ ~sig.deliverable /\ ~sig.open_analysis

MultiStep(sig) ==
    sig.clauses >= 3 \/ Steps(sig) >= 4 \/ (sig.sequencing >= 1 /\ sig.clauses >= 2)

Task(sig) ==
    CASE AsksStructure(sig) -> Plain("inspect", "trivial")
      [] ~AsksStructure(sig) /\ Complexity(sig) = "complex" ->
            [Plain("agentic", "complex") EXCEPT
                !.plan = "self", !.verify = TRUE, !.deep = MultiStep(sig)]
      [] ~AsksStructure(sig) /\ Complexity(sig) = "moderate" ->
            [Plain("agentic", "moderate") EXCEPT !.verify = TRUE]
      [] OTHER -> Plain("direct", "simple")

RouteIntent(sig, has_dataset) ==
    IF sig.confirms_plan
    THEN [Plain("execute_plan", "moderate") EXCEPT !.source = "approval"]
    ELSE NeedsDataset(IF Settled(sig) THEN Chatter(sig) ELSE Task(sig), has_dataset)

-----------------------------------------------------------------------------
(* Policy over an intent.                                                   *)

\* apply_mode: conversation, inspection and an explicit plan are left alone.
ApplyMode(route, mode) ==
    IF route.workflow \in {"converse", "inspect", "plan_only", "execute_plan"} THEN route
    ELSE CASE mode = "fast" ->
                IF route.plan = "none" /\ ~route.verify /\ ~route.deep THEN route
                ELSE [route EXCEPT !.plan = "none", !.verify = FALSE, !.deep = FALSE, !.source = "mode"]
           [] mode = "deep" ->
                [route EXCEPT !.workflow = "agentic", !.verify = TRUE, !.deep = TRUE, !.source = "mode",
                    !.plan = IF route.plan = "none" /\ route.complexity # "simple" THEN "self" ELSE @]
           [] mode = "planning" ->
                [route EXCEPT !.workflow = "agentic", !.plan = "gated", !.source = "mode"]
           [] OTHER -> route

RouteTurn(sig, has_dataset, mode) == ApplyMode(RouteIntent(sig, has_dataset), mode)

\* AGENT_REQUIRE_APPROVAL is the planning mode, over every route nobody has
\* approved.
DeploymentPolicy(route, require_approval) ==
    IF require_approval /\ route.source # "approval" THEN ApplyMode(route, "planning") ELSE route

\* The conversational reply asked for the data.
Escalate(route, has_dataset, mode) ==
    IF has_dataset
    THEN ApplyMode([Plain("agentic", "moderate") EXCEPT !.verify = TRUE, !.source = "escalation"], mode)
    ELSE [route EXCEPT !.needs_data = TRUE, !.escalate = FALSE]

\* The route of a turn that continues an approved plan or search.
Approved == [Plain("agentic", "moderate") EXCEPT !.verify = TRUE, !.source = "approval"]

-----------------------------------------------------------------------------
(* Budgets.                                                                 *)

BudgetMode(route, mode) ==
    CASE route.workflow = "inspect" -> "fast"
      [] route.workflow # "inspect" /\ (route.deep \/ mode = "deep") -> "deep"
      [] route.workflow # "inspect" /\ ~route.deep /\ mode # "deep"
            /\ (mode = "fast" \/ route.workflow = "direct") -> "fast"
      [] OTHER -> "auto"

\* settings.budget_for, with the iterations a model of this size has in
\* Iterations[tier][mode].
BudgetFor(mode, tier, Iterations) ==
    [iterations |-> Iterations[tier][mode],
     reflection |-> tier # "compact" /\ mode # "fast",
     verification |-> tier # "compact" /\ mode # "fast",
     decisions |-> tier # "compact" \/ mode = "deep",
     subagents |-> CASE tier = "compact" -> 0 [] tier = "balanced" -> 2 [] tier = "full" -> 3]

-----------------------------------------------------------------------------
(* What a run can begin with.                                               *)

Reachable == [has_dataset \in BOOLEAN |-> {RouteIntent(sig, has_dataset) : sig \in Signals}]

\* Faulty variant: what a reply hands over is not held to the deployment's
\* approval policy.
EscalateUnchecked(route, has_dataset, mode, require_approval) ==
    Escalate(route, has_dataset, mode)

\* The escalation of a turn, under the deployment's policy.
EscalateUnder(route, has_dataset, mode, require_approval) ==
    DeploymentPolicy(Escalate(route, has_dataset, mode), require_approval)

-----------------------------------------------------------------------------
(***************************************************************************)
(* How sure a turn is of its result, and whether to go on: the rubric of   *)
(* core/analysis/confidence.py and the policy of core/analysis/stopping.py *)
(* over it.  Pure as well.                                                 *)
(***************************************************************************)
Levels == {"low", "medium", "high", "unknown"}
Statuses == {"verified", "mismatch", "inconclusive"}

\* A measure against the two bounds of its scale; None was not measured.
Grade(value, none, low, high) ==
    CASE value = none -> "unknown"
      [] value # none /\ value < low -> "low"
      [] value # none /\ value \in low..(high - 1) -> "medium"
      [] OTHER -> "high"

\* The components of an evidence record: the frame's completeness in percent
\* and its rows, what the critic and the validators flagged, the status of the
\* recomputation, the verdict on competing routes, what is still open, and
\* whether a decision was a fallback.
Components(e) ==
    [data_completeness |-> Grade(e.completeness, -1, 80, 95),
     sample_size |-> Grade(e.rows, -1, 30, 200),
     method_robustness |-> IF e.wrong_test THEN "low" ELSE "unknown",
     verification |-> CASE e.status = "verified" -> "high"
                        [] e.status = "mismatch" -> "low"
                        [] e.status = "inconclusive" -> "medium"
                        [] OTHER -> "unknown",
     method_agreement |-> CASE e.routes = "agree" -> "high"
                            [] e.routes = "disagree" -> "low"
                            [] e.routes = "incomparable" -> "medium"
                            [] OTHER -> "unknown",
     sensitivity |-> IF e.sensitive THEN "low" ELSE "unknown",
     unresolved_assumptions |-> CASE e.unresolved = 0 -> "high"
                                  [] e.unresolved \in {1, 2} -> "medium"
                                  [] OTHER -> "low",
     model_uncertainty |-> IF e.inferred THEN "medium" ELSE "high"]

At(components, level) == {name \in DOMAIN components : components[name] = level}

\* _verdict: three weak links are a gap, one is a caveat, and too little that
\* is known is not enough.
Verdict(components) ==
    LET low == Cardinality(At(components, "low"))
        known == Cardinality(DOMAIN components) - Cardinality(At(components, "unknown"))
    IN  CASE known = 0 -> "insufficient_evidence"
          [] known > 0 /\ low >= 3 -> "cannot_answer"
          [] known > 0 /\ low \in {1, 2} -> "answerable_with_caveats"
          [] known \in {1, 2} /\ low = 0 -> "insufficient_evidence"
          [] OTHER -> "answerable"

\* decide: the reason to stop, "continue" when there is none.
StopReason(components, used, budget, validated) ==
    LET verdict == Verdict(components)
        remaining == budget - used
    IN  CASE verdict = "answerable" /\ validated -> "evidence_threshold_met"
          [] ~(verdict = "answerable" /\ validated) /\ remaining <= 0 -> "budget_exhausted"
          [] verdict \notin {"answerable", "cannot_answer"} /\ validated /\ remaining > 0 ->
                "validation_complete"
          [] ~(validated /\ verdict # "cannot_answer") /\ remaining = 1
                /\ Cardinality(At(components, "unknown")) <= 2 -> "low_expected_value"
          [] OTHER -> "continue"
=============================================================================
