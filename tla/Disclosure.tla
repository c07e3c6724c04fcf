----------------------------- MODULE Disclosure -----------------------------
(***************************************************************************)
(* What each prompt of a turn may contain (core/prompts.py and the places  *)
(* of core/agent/orchestrator.py that build one).  A table may be marked   *)
(* schema-only; whether a prompt is stripped of its values is decided for  *)
(* the role it goes to, when it is built.  Text then travels: what the     *)
(* manager was shown is in the transcript the worker reads, in the plan,   *)
(* in the code that is kept and in the next turn.                          *)
(*                                                                         *)
(* A content is the set of what a text MAY contain: values of a table that *)
(* a prompt was built with, and passages that read like instructions.  A   *)
(* reply may repeat all that was in its prompt.  What executed code prints *)
(* is never withheld and is not followed.                                  *)
(***************************************************************************)
EXTENDS Naturals, Sequences, FiniteSets

CONSTANTS
    Tables,       \* the tables of the session
    RecentInFull, \* Investigation.RECENT_IN_FULL: the steps a transcript shows in full
    MaxSteps,     \* bound: steps of a turn
    MaxSwitches,  \* bound: changes of policy, provider and active table
    MaxAsks       \* bound: messages and uploads

\* A passage of a document, and of a skill, that reads like instructions.
Passages == {"document", "skill"}

ASSUME DisclosureAssumption ==
    {RecentInFull, MaxSteps, MaxSwitches, MaxAsks} \subseteq Nat /\ Tables # {} /\ Tables \cap Passages = {}

Roles == {"manager", "worker", "vision"}
Contents == SUBSET (Tables \cup Passages)

VARIABLES
    activeTable,  \* session.active_dataset
    markedTables,   \* the tables whose values DataPolicy keeps from a cloud model
    clouded,      \* the roles whose provider is a cloud one
    draft,        \* the RunState of the turn
    kept,         \* what outlives a turn: history, working memory, examples, cached solutions
    prompt,       \* the prompt that was sent last
    switches, asks,
    released,     \* history: the tables some model was rightly given values of
    consulted     \* history: a skill was read in the middle of a turn

disclosureVars == <<activeTable, markedTables, clouded, draft, kept, prompt, switches, asks, released, consulted>>
ruleVars == <<activeTable, markedTables, clouded, switches>>

NoDraft == [at |-> "idle", flow |-> "agentic", cached |-> FALSE, ok |-> FALSE, chart |-> FALSE, goal |-> {}, steps |-> <<>>,
            plan |-> {}, code |-> {}, output |-> {}, error |-> {}]
Scopes == Tables \X BOOLEAN

DisclosureTypeOK ==
    /\ activeTable \in Tables /\ markedTables \subseteq Tables /\ clouded \subseteq Roles
    /\ {draft.goal, draft.plan, draft.code, draft.output, draft.error} \subseteq Contents
    /\ Len(draft.steps) <= MaxSteps
    /\ {kept.history, kept.memory, kept.examples} \subseteq Contents
    /\ kept.solutions \in [Scopes -> SUBSET Contents]
    /\ prompt.role \in Roles /\ prompt.values \subseteq Tables /\ prompt.text \in Contents

DisclosureInit ==
    /\ activeTable \in Tables /\ markedTables \in SUBSET Tables
    /\ clouded \in {{}, {"manager"}, {"worker"}, Roles}
    /\ draft = NoDraft
    /\ kept = [history |-> {}, memory |-> {}, examples |-> {}, solutions |-> [s \in Scopes |-> {}]]
    /\ prompt = [role |-> "manager", values |-> {}, text |-> {}, trusted |-> TRUE]
    /\ switches = 0 /\ asks = 0
    /\ released = {} /\ consulted = FALSE

-----------------------------------------------------------------------------
(* Building a prompt. *)

\* _redact_for and should_redact.
Withholds(role) == role \in clouded /\ activeTable \in markedTables

\* The policy as it is stated: a model may be given values of t.
Trusts(role, t) == role \notin clouded \/ t \notin markedTables

\* What a description of columns shows: examples and distinct values, or types and counts only.
Described(role) == IF Withholds(role) THEN {} ELSE {activeTable}

\* generate_system_context: with sample rows and distributions, or without.
SystemContext(role) == Described(role)

\* session.inspect, as it is made for the manager to read.
Inspection == Described("manager")

\* render_untrusted_context: a passage that reads like instructions is quarantined.
Rendered(text) == text \ Passages

SkillsBlock == Rendered({"skill"})
HistoryBlock == Rendered(kept.history)

Sends(role, values, text) ==
    /\ prompt' = [role |-> role, values |-> values, text |-> text,
                  trusted |-> \A t \in values : Trusts(role, t)]
    /\ released' = released \cup {t \in values : Trusts(role, t)}

Reply(values, text) == values \cup text

\* Investigation.render: the last steps in full, of the older ones the goal and a first line.
Transcript ==
    UNION {IF i + RecentInFull > Len(draft.steps) THEN draft.steps[i].full ELSE draft.steps[i].brief :
            i \in DOMAIN draft.steps}

\* A first line (a table's shape, a label, a traceback's head) shows no value.
Record(observation) == Append(draft.steps, [full |-> draft.goal \cup observation, brief |-> draft.goal])

HasRoom == Len(draft.steps) < MaxSteps

-----------------------------------------------------------------------------
(* The opening of a turn. *)

NewAsk == draft.at = "idle" /\ asks < MaxAsks /\ asks' = asks + 1

\* One reply of a conversation, from the history and a digest of the last analysis.
TalkOnly ==
    /\ NewAsk
    /\ Sends("manager", {}, HistoryBlock)
    /\ kept' = [kept EXCEPT !.history = @ \cup Reply({}, HistoryBlock)]
    /\ UNCHANGED <<ruleVars, draft, consulted>>

Route(flow) ==
    /\ NewAsk
    /\ draft' = [NoDraft EXCEPT !.at = "opening", !.flow = flow]
    /\ UNCHANGED <<ruleVars, kept, prompt, released, consulted>>

\* _cache_scope: solutions are kept apart by table and by policy.
Scope == <<activeTable, activeTable \in markedTables>>

ReuseSolution ==
    /\ draft.at = "opening"
    /\ \E solution \in kept.solutions[Scope] :
          draft' = [draft EXCEPT !.at = "loop", !.cached = TRUE, !.code = solution]
    /\ UNCHANGED <<ruleVars, kept, prompt, asks, released, consulted>>

SkipPlanner ==
    /\ draft.at = "opening" /\ draft.flow # "agentic"
    /\ draft' = [draft EXCEPT !.at = "loop"]
    /\ UNCHANGED <<ruleVars, kept, prompt, asks, released, consulted>>

\* create_planning_prompt: the skills block and the history are rendered as untrusted, the
\* working memory is not.  A visual revision shows the code of the last turn.
DrawPlan ==
    /\ draft.at = "opening"
    /\ LET text == SkillsBlock \cup HistoryBlock \cup kept.memory IN
       /\ Sends("manager", SystemContext("manager"), text)
       /\ draft' = [draft EXCEPT !.at = "loop", !.plan = Reply(SystemContext("manager"), text)]
    /\ UNCHANGED <<ruleVars, kept, asks, consulted>>

-----------------------------------------------------------------------------
(* The loop. *)

\* The goal of the next step is the manager's, or the request itself.
Decide ==
    /\ draft.at = "loop" /\ HasRoom
    /\ \/ LET text == draft.plan \cup Transcript IN
          /\ Sends("manager", {}, text)
          /\ draft' = [draft EXCEPT !.at = "acting", !.goal = Reply({}, text)]
       \/ /\ draft' = [draft EXCEPT !.at = "acting", !.goal = {}]
          /\ UNCHANGED <<prompt, released>>
    /\ UNCHANGED <<ruleVars, kept, asks, consulted>>

\* No model is asked; for a question of structure it is the material of the answer.
InspectData ==
    /\ draft.at = "acting"
    /\ draft' = [draft EXCEPT !.at = "loop", !.goal = {}, !.steps = Record(Inspection),
                              !.output = IF draft.flow = "inspect" THEN Inspection ELSE @]
    /\ released' = released \cup {t \in Inspection : Trusts("manager", t)}
    /\ UNCHANGED <<ruleVars, kept, prompt, asks, consulted>>

\* Passages of documents are rendered as untrusted; what the skills say is taken as it is.
Consult ==
    /\ draft.at = "acting" /\ draft.flow = "agentic"
    /\ \E found \in SUBSET Passages :
          draft' = [draft EXCEPT !.at = "loop", !.goal = {},
                                 !.steps = Record(Rendered(found \cap {"document"}) \cup (found \cap {"skill"}))]
    /\ consulted' = TRUE
    /\ UNCHANGED <<ruleVars, kept, prompt, asks, released>>

ReplayCode ==
    /\ draft.at = "acting" /\ draft.cached
    /\ draft' = [draft EXCEPT !.at = "running"]
    /\ UNCHANGED <<ruleVars, kept, prompt, asks, released, consulted>>

\* create_prompt: the goal with the work so far, the plan, examples of other turns, and after a
\* failure the code that failed and its error.
WriteCode ==
    /\ draft.at = "acting" /\ ~draft.cached
    /\ LET text == draft.goal \cup Transcript \cup draft.plan \cup kept.examples \cup draft.error IN
       /\ Sends("worker", SystemContext("worker"), text)
       /\ draft' = [draft EXCEPT !.at = "running", !.code = Reply(SystemContext("worker"), text)]
    /\ UNCHANGED <<ruleVars, kept, asks, consulted>>

CodeRuns ==
    /\ draft.at = "running"
    /\ \E chart \in BOOLEAN :
          draft' = [draft EXCEPT !.at = "loop", !.goal = {}, !.steps = Record({}), !.output = {}, !.error = {}, !.ok = TRUE, !.chart = chart \/ @]
    /\ UNCHANGED <<ruleVars, kept, prompt, asks, released, consulted>>

\* A traceback quotes the code.  The worker is asked again, or the step is recorded as failed.
CodeFails ==
    /\ draft.at = "running"
    /\ \/ draft' = [draft EXCEPT !.at = "acting", !.error = draft.code, !.ok = FALSE, !.cached = FALSE]
       \/ draft' = [draft EXCEPT !.at = "loop", !.goal = {}, !.error = draft.code, !.ok = FALSE, !.cached = FALSE,
                                 !.output = draft.code, !.steps = Record(draft.code)]
    /\ UNCHANGED <<ruleVars, kept, prompt, asks, released, consulted>>

Reflect ==
    /\ draft.at = "acting" /\ draft.flow = "agentic"
    /\ LET text == draft.plan \cup Transcript IN
       /\ Sends("manager", {}, text)
       /\ draft' = [draft EXCEPT !.at = "loop", !.goal = {}, !.plan = Reply({}, text), !.steps = Record(Reply({}, text))]
    /\ UNCHANGED <<ruleVars, kept, asks, consulted>>

-----------------------------------------------------------------------------
(* Checks, the answer, and what is kept of a turn. *)

LeavesLoop == draft.at = "loop" /\ draft.steps # <<>>

Verify ==
    /\ LeavesLoop /\ draft.flow = "agentic"
    /\ Sends("worker", {}, draft.code \cup draft.output)
    /\ draft' = [draft EXCEPT !.at = "checked"]
    /\ UNCHANGED <<ruleVars, kept, asks, consulted>>

\* ReviewGuard: a reviewer the policy does not trust with values is not asked.
Review ==
    /\ draft.at = "checked"
    /\ IF Withholds("manager") THEN UNCHANGED <<prompt, released>>
                             ELSE Sends("manager", {}, draft.plan \cup draft.code \cup draft.output)
    /\ draft' = [draft EXCEPT !.at = "reviewed"]
    /\ UNCHANGED <<ruleVars, kept, asks, consulted>>

\* A chart is the data drawn.
DescribeChart ==
    /\ draft.at = "reviewed" /\ draft.chart
    /\ IF Withholds("vision") THEN UNCHANGED <<prompt, released>> ELSE Sends("vision", {activeTable}, {})
    /\ draft' = [draft EXCEPT !.chart = FALSE]
    /\ UNCHANGED <<ruleVars, kept, asks, consulted>>

WriteAnswer ==
    /\ (LeavesLoop /\ draft.flow # "agentic") \/ (draft.at = "reviewed" /\ ~draft.chart)
    /\ LET text == draft.code \cup draft.output \cup draft.plan IN
       /\ Sends("manager", {}, text)
       /\ kept' = [kept EXCEPT !.history = @ \cup Reply({}, text)]
    /\ draft' = [draft EXCEPT !.at = "ended"]
    /\ UNCHANGED <<ruleVars, asks, consulted>>

\* _finalize; and the thumbs up of the user makes the code an example for every session.
KeepTurn ==
    /\ draft.at = "ended"
    /\ \E liked \in BOOLEAN :
          kept' = [kept EXCEPT !.memory = @ \cup draft.plan \cup draft.code \cup kept.history,
                               !.solutions[Scope] = IF draft.ok THEN {draft.code} ELSE @,
                               !.examples = IF liked THEN @ \cup draft.code ELSE @]
    /\ draft' = NoDraft
    /\ UNCHANGED <<ruleVars, prompt, asks, released, consulted>>

\* An upload asks the worker for a cleaning script, under the policy of that file.
CleanUpload ==
    /\ NewAsk
    /\ Sends("worker", SystemContext("worker"), {})
    /\ UNCHANGED <<ruleVars, draft, kept, consulted>>

-----------------------------------------------------------------------------
(* What a user changes beside a turn; the active table only between turns. *)

Switch ==
    /\ switches < MaxSwitches /\ switches' = switches + 1
    /\ \/ \E t \in Tables : markedTables' \in {markedTables \cup {t}, markedTables \ {t}} /\ UNCHANGED <<activeTable, clouded>>
       \/ \E r \in Roles : clouded' \in {clouded \cup {r}, clouded \ {r}} /\ UNCHANGED <<activeTable, markedTables>>
       \/ draft.at = "idle" /\ activeTable' \in Tables /\ UNCHANGED <<markedTables, clouded>>
    /\ UNCHANGED <<draft, kept, prompt, asks, released, consulted>>

DisclosureNext ==
    \/ TalkOnly \/ (\E flow \in {"inspect", "direct", "agentic"} : Route(flow)) \/ CleanUpload
    \/ ReuseSolution \/ SkipPlanner \/ DrawPlan
    \/ Decide \/ InspectData \/ Consult \/ ReplayCode \/ WriteCode \/ CodeRuns \/ CodeFails \/ Reflect
    \/ Verify \/ Review \/ DescribeChart \/ WriteAnswer \/ KeepTurn
    \/ Switch

-----------------------------------------------------------------------------
(* Properties. *)

\* A prompt is built with values of a table only for a model the policy trusts with them
\* (data_mode.py:162-180, meta.py:630-637).
BuiltAsThePolicySays == prompt.trusted

\* Values reach a prompt in any other way (a plan, a transcript, code, an example, a memory) only
\* where some model was rightly given values of that table before: with every role behind a cloud
\* provider, and the table marked from the start, none of its values ever leaves.
NothingLeaksUnseen == prompt.text \cap Tables \subseteq released

\* A passage of a document that reads like instructions is in no prompt, by no way round, and one
\* of a skill only after a turn has read the skill in its middle (untrusted_context.py:3-8,
\* orchestrator.py:1613-1620).
QuarantineHolds == "document" \notin prompt.text /\ ("skill" \in prompt.text => consulted)

DisclosureHolds == BuiltAsThePolicySays /\ NothingLeaksUnseen /\ QuarantineHolds
=============================================================================
