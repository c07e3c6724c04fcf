------------------------------ MODULE Residency -----------------------------
(***************************************************************************)
(* Which models the server on this machine holds in memory, and for how    *)
(* long: the plan of core/llm/provider.py over core/llm/resources.py, the  *)
(* keep-alive that each call states, the warm-up, and what a turn of       *)
(* core/agent/orchestrator.py lets go of between its calls.                *)
(*                                                                         *)
(* The plan is for the models that settings and discovery name, and is     *)
(* kept for that list of names; a session may have chosen others, and a    *)
(* light turn takes a small one.  A release is posted by a thread of its   *)
(* own and arrives at some time.                                           *)
(***************************************************************************)
EXTENDS Naturals, FiniteSets, FiniteSetsExt

CONSTANTS
    Weights,    \* per model: what it takes in memory
    Allowance,  \* memory_budget_bytes
    MaxRuns,    \* bound: turns
    MaxShifts   \* bound: changes of what is installed, chosen or listed

ASSUME ResidencyAssumption ==
    /\ "none" \notin DOMAIN Weights /\ \A n \in DOMAIN Weights : Weights[n] \in Nat
    /\ Allowance \in Nat /\ {MaxRuns, MaxShifts} \subseteq Nat

Named == DOMAIN Weights
NoModel == "none"
Selections == [manager : Named, worker : Named, vision : Named \cup {NoModel}, embedding : Named \cup {NoModel}]

VARIABLES
    shelf,   \* the models that are installed
    chosen,  \* default_model_for each role; the embedding model once its encoder is resolved
    small,   \* FAST_MODEL_NAME
    plans,   \* _plans
    held,    \* external: what the server holds in memory, and for how long
    step,    \* where the turn is
    bound,   \* what the turn has: its manager, that of its session, few decisions, a chart
    posted,  \* releases on their way
    runs, shifts,
    plain,   \* history: all that was called is what is chosen, nothing was changed and no listing failed
    misfired \* history: a release that named what the turn calls next

residencyVars == <<shelf, chosen, small, plans, held, step, bound, posted, runs, shifts, plain, misfired>>
settingVars == <<shelf, chosen, small>>

ResidencyTypeOK ==
    /\ shelf \subseteq Named /\ chosen \in Selections /\ small \in Named \cup {NoModel}
    /\ \A p \in plans : p.for \in Selections /\ p.together \in BOOLEAN
    /\ held \in [Named -> {"out", "long", "short"}]
    /\ step \in {"off", "idle", "plan", "release", "work", "review", "release vision", "answer"}
    /\ posted \subseteq Named
    /\ runs \in 0..MaxRuns /\ shifts \in 0..MaxShifts
    /\ plain \in BOOLEAN /\ misfired \subseteq {"own", "other"}

NoBinding == [manager |-> NoModel, session |-> NoModel, compact |-> FALSE, chart |-> FALSE]

ResidencyInit ==
    /\ shelf = Named
    /\ chosen \in {c \in Selections : c.embedding = NoModel}
    /\ small \in Named \cup {NoModel}
    /\ plans = {} /\ held = [n \in Named |-> "out"]
    /\ step = "off" /\ bound = NoBinding /\ posted = {}
    /\ runs = 0 /\ shifts = 0
    /\ plain = TRUE /\ misfired = {}

-----------------------------------------------------------------------------
(* The plan. *)

\* resident_plan: the manager, the worker, vision and the embedding model where there are any.
Competing(c) == {c.manager, c.worker, c.vision, c.embedding} \ {NoModel}

\* plan_resident_set: one model has nothing to alternate with.
FitTogether(names) == Cardinality(names) <= 1 \/ SumFunctionOnSet(Weights, names) <= Allowance

\* plan_for_models: what is not listed is not measured, and where no list is to be had nothing is.
Planned(listed) == [for |-> chosen, together |-> FitTogether(IF listed THEN Competing(chosen) \cap shelf ELSE {})]

\* A plan is made once for a choice of models, and says with each call how long to hold its model.
Known == {p \in plans : p.for = chosen}
Calls(names) ==
    \E listed \in IF Known = {} /\ shifts < MaxShifts THEN BOOLEAN ELSE {TRUE} :
    \E p \in IF Known = {} THEN {Planned(listed)} ELSE Known :
        /\ plans' = plans \cup {p}
        /\ held' = [n \in Named |-> IF n \in names \cap shelf THEN IF p.together THEN "long" ELSE "short" ELSE held[n]]
        /\ shifts' = IF listed THEN shifts ELSE shifts + 1
        /\ plain' = (plain /\ listed /\ names \subseteq {chosen[role] : role \in DOMAIN chosen})

-----------------------------------------------------------------------------
(* The warm-up and a turn. *)

Warm ==
    /\ step = "off" /\ step' = "idle"
    /\ Calls({chosen.manager, chosen.worker})
    /\ UNCHANGED <<settingVars, bound, posted, runs, misfired>>

\* model_for_task: the session's choice, a small model for a light turn, or the default.
BeginRun ==
    /\ step = "idle" /\ runs < MaxRuns /\ runs' = runs + 1
    /\ \E session \in Named \cup {NoModel}, light, compact, chart \in BOOLEAN :
        bound' = [manager |-> IF session # NoModel THEN session
                              ELSE IF light /\ small \in shelf THEN small ELSE chosen.manager,
                  session |-> session, compact |-> compact, chart |-> chart]
    /\ step' = "plan"
    /\ UNCHANGED <<settingVars, plans, held, posted, shifts, plain, misfired>>

Plan ==
    /\ step = "plan" /\ step' = "release"
    /\ Calls({bound.manager})
    /\ UNCHANGED <<settingVars, bound, posted, runs, misfired>>

SessionManager == IF bound.session # NoModel THEN bound.session ELSE chosen.manager

\* release: not where the other role, as it is named now, has the same model.
PostRelease(n, other, next) ==
    /\ posted' = IF n \in {NoModel, other} THEN posted ELSE posted \cup {n}
    /\ misfired' = IF posted' = posted \/ n # next THEN misfired
                   ELSE misfired \cup {IF bound.manager = SessionManager THEN "own" ELSE "other"}

\* Below the balanced tier nothing is decided, and the manager is idle until the answer.
LetGo ==
    /\ step = "release" /\ step' = "work"
    /\ IF bound.compact THEN PostRelease(bound.manager, chosen.worker, chosen.worker) ELSE UNCHANGED <<posted, misfired>>
    /\ UNCHANGED <<settingVars, plans, held, bound, runs, shifts, plain>>

Work ==
    /\ step = "work" /\ step' \in {"work", "review"}
    /\ Calls({chosen.worker})
    /\ UNCHANGED <<settingVars, bound, posted, runs, misfired>>

\* The chart is described, and the council may ask the session's manager.
ReviewCall ==
    /\ step = "review" /\ step' = "release vision"
    /\ \E asked \in SUBSET {SessionManager} :
        Calls(asked \cup IF bound.chart THEN {chosen.vision} \ {NoModel} ELSE {})
    /\ UNCHANGED <<settingVars, bound, posted, runs, misfired>>

LetGoOfVision ==
    /\ step = "release vision" /\ step' = "answer"
    /\ IF bound.chart THEN PostRelease(chosen.vision, SessionManager, bound.manager) ELSE UNCHANGED <<posted, misfired>>
    /\ UNCHANGED <<settingVars, plans, held, bound, runs, shifts, plain>>

AnswerCall ==
    /\ step = "answer" /\ step' = "idle"
    /\ Calls({bound.manager})
    /\ bound' = NoBinding
    /\ UNCHANGED <<settingVars, posted, runs, misfired>>

-----------------------------------------------------------------------------
(* Beside them. *)

\* The thread of a release, whenever it gets to it.
Arrives ==
    /\ \E n \in posted : posted' = posted \ {n} /\ held' = [held EXCEPT ![n] = "out"]
    /\ UNCHANGED <<settingVars, plans, step, bound, runs, shifts, plain, misfired>>

\* The encoder is resolved to a model of this provider.
EncoderResolves ==
    /\ chosen.embedding = NoModel
    /\ \E n \in shelf : chosen' = [chosen EXCEPT !.embedding = n]
    /\ UNCHANGED <<shelf, small, plans, held, step, bound, posted, runs, shifts, plain, misfired>>

\* Retrieval embeds, and says how long to hold that model by the same plan.
Embeds ==
    /\ chosen.embedding # NoModel /\ Calls({chosen.embedding})
    /\ UNCHANGED <<settingVars, step, bound, posted, runs, misfired>>

\* A model comes or goes, or a setting names another.
Shift ==
    /\ shifts < MaxShifts /\ shifts' = shifts + 1
    /\ \/ \E n \in Named :
            /\ shelf' = IF n \in shelf THEN shelf \ {n} ELSE shelf \cup {n}
            /\ held' = IF n \in shelf THEN [held EXCEPT ![n] = "out"] ELSE held
            /\ UNCHANGED chosen
       \/ \E n \in shelf \ {chosen.manager} : chosen' = [chosen EXCEPT !.manager = n] /\ UNCHANGED <<shelf, held>>
    /\ plain' = FALSE
    /\ UNCHANGED <<small, plans, step, bound, posted, runs, misfired>>

ResidencyNext ==
    \/ Warm \/ BeginRun \/ Plan \/ LetGo \/ Work \/ ReviewCall \/ LetGoOfVision \/ AnswerCall
    \/ Arrives \/ EncoderResolves \/ Embeds \/ Shift

-----------------------------------------------------------------------------
(* Properties. *)

\* What is held for long fits the memory that models may have: one call never keeps its model at the
\* cost of the others.  The plan is for the defaults as they were first listed, so this holds as long
\* as no other model was called and nothing has changed since.
LongFits ==
    LET long == {n \in Named : held[n] = "long"} IN
    plain /\ Cardinality(long) > 1 => SumFunctionOnSet(Weights, long) <= Allowance

\* A release never names the model that the turn itself calls next, where the turn's manager is the
\* one its session names.
ReleaseSparesTheNext == "own" \notin misfired

ResidencyHolds == LongFits /\ ReleaseSparesTheNext
-----------------------------------------------------------------------------
(***************************************************************************)
(* The sizes a server gives itself and its calls: how the memory of the    *)
(* machine is shared between sessions (Settings._size_to_the_host,         *)
(* config.py), and how many tokens a call may produce (resolve_generation, *)
(* core/llm/generation.py).  Pure: an input is drawn, and its size         *)
(* computed in the order of the code.  Memory is counted in 64 MB.         *)
(***************************************************************************)

CONSTANTS
    Machines,  \* memory of the machine, 0 where it is not known
    Limits,    \* SANDBOX_MEM_LIMIT as it was set
    Sessions,  \* SESSION_MAX_ACTIVE as it was set
    Ceilings,  \* MAX_TOKENS
    Budgets,   \* the budget of a purpose, and what a request overrides it with
    Scaled     \* _DEEP_SCALED

ASSUME SizingAssumption ==
    /\ \A sizes \in {Machines, Limits, Sessions, Ceilings, Budgets} : sizes \subseteq Nat
    /\ 0 \notin Sessions \cup Limits

NotSet == 0
Purposes == {"plan", "decision", "code", "answer", "review", "converse"}

VARIABLES
    host, \* the machine, and what its operator has set
    call, \* a call of a model, and what its settings say
    size  \* what comes of them

sizingVars == <<host, call, size>>

Lesser(a, b) == IF a <= b THEN a ELSE b
Greater(a, b) == IF a >= b THEN a ELSE b

-----------------------------------------------------------------------------
(* Memory: 8 is 512 MB, 16 one GB, 64 four. *)

\* format_memory, and parse_memory of it: whole gigabytes, or quarters of one below.
Typed(memory) == IF memory >= 16 THEN memory - (memory % 16) ELSE memory - (memory % 4)

\* An eighth of the memory per sandbox; a blank setting counts as none.
SandboxLimit(h) ==
    CASE h.limit # NotSet -> h.limit
      [] h.limit = NotSet /\ h.ram = NotSet -> 32
      [] OTHER -> Typed(Greater(8, Lesser(64, h.ram \div 8)))

\* No more sandboxes than fit in half of the memory; one in any case.
SessionMaxActive(h) ==
    CASE h.sessions # NotSet -> h.sessions
      [] h.sessions = NotSet /\ h.ram = NotSet -> 32
      [] OTHER -> Greater(1, Lesser(32, (h.ram \div 2) \div SandboxLimit(h)))

-----------------------------------------------------------------------------
(* Tokens. *)

MinOutput == 64          \* _MIN_OUTPUT_TOKENS
DirectAnswerCap == 1536  \* _DIRECT_ANSWER_CAP

\* output_budget.
OutputBudget(c) == Greater(MinOutput, Lesser(c.ceiling, c.budget))

ScaledForMode(c, tokens) == IF c.deep /\ c.purpose \in Scaled THEN (tokens * 3) \div 2 ELSE tokens

CappedForWorkflow(c, tokens) == IF c.direct /\ c.purpose = "answer" THEN Lesser(tokens, DirectAnswerCap) ELSE tokens

Overridden(c, tokens) == IF c.override # NotSet THEN c.override ELSE tokens

\* The ceiling is the last word.
Clamped(c, tokens) == Greater(MinOutput, Lesser(tokens, c.ceiling))

OutputTokens(c) == Clamped(c, Overridden(c, CappedForWorkflow(c, ScaledForMode(c, OutputBudget(c)))))

-----------------------------------------------------------------------------

Unsized == [limit |-> 0, sessions |-> 0, tokens |-> 0]

SizingTypeOK == size \in [limit : Nat, sessions : Nat, tokens : Nat]

SizingInit ==
    /\ host \in [ram : Machines, limit : Limits \cup {NotSet}, sessions : Sessions \cup {NotSet}]
    /\ call \in [purpose : Purposes, budget : Budgets, ceiling : Ceilings,
                 deep : BOOLEAN, direct : BOOLEAN, override : Budgets \cup {NotSet}]
    /\ size = Unsized

Size ==
    /\ size = Unsized
    /\ size' = [limit |-> SandboxLimit(host), sessions |-> SessionMaxActive(host), tokens |-> OutputTokens(call)]
    /\ UNCHANGED <<host, call>>

SizingNext == Size

-----------------------------------------------------------------------------
(* Properties. *)

\* Where the number of sessions is derived, all of them together claim no more than half of the
\* memory, or there is one: as their limit is counted, rounded, and not as it was computed.
SessionsShareTheMachine ==
    size # Unsized /\ host.ram # NotSet /\ host.sessions = NotSet =>
        size.sessions = 1 \/ (size.sessions > 1 /\ 2 * size.sessions * size.limit <= host.ram)

\* A derived limit is between 512 MB and 4 GB, and more than an eighth of the memory only at 512 MB.
SandboxesAreModest ==
    size # Unsized /\ host.ram # NotSet /\ host.limit = NotSet =>
        size.limit \in 8..64 /\ (size.limit = 8 \/ 8 * size.limit <= host.ram)

\* No mode, workflow or request raises a call above the ceiling, as far as one can be set below the
\* smallest output; depth never shortens a call, and does not lengthen a direct answer past its cap.
TokensAreBounded ==
    size # Unsized =>
        /\ size.tokens \in MinOutput..Greater(MinOutput, call.ceiling)
        /\ OutputTokens([call EXCEPT !.deep = FALSE]) <= OutputTokens([call EXCEPT !.deep = TRUE])
        /\ call.direct /\ call.purpose = "answer" /\ call.override = NotSet => size.tokens <= DirectAnswerCap

SizesHold == SessionsShareTheMachine /\ SandboxesAreModest /\ TokensAreBounded
=============================================================================
