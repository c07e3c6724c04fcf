----------------------------- MODULE ModelAccess ----------------------------
(***************************************************************************)
(* Which model a prompt goes to, with what in it and with which key        *)
(* (core/llm/provider.py, core/data_mode.py, api/routes/meta.py).  A role  *)
(* of the session has a provider and a model of its own or the default.    *)
(* Selections, the data mode, the policy and the keys change on the event  *)
(* loop while a turn runs there too, with waits in between, and while a    *)
(* cleaning runs on a thread of its own, to be interrupted anywhere.       *)
(* One role stands for the three, one session for all of them.             *)
(***************************************************************************)
EXTENDS Integers, FiniteSetsExt

CONSTANTS
    MaxMoves  \* bound: changes of settings, selections and keys

ASSUME ModelAccessAssumption == MaxMoves \in Nat

Places == {"here", "cloud"}  \* a provider on this machine and one in the cloud
Plans == {"local-only", "cloud-only", "hybrid"}  \* the data modes
Unset == "unset"
Callers == {"turn", "cleaning"}
NoKey == 0
KeyVersions == 0..2  \* none, and two to change between

VARIABLES
    dataMode, schemaOnly,  \* the session's mode and policy
    fallback,   \* settings.API_PROVIDER
    assigned,   \* session.models, for one role
    selecting,  \* a POST /api/models that waits for a suggestion, and what it still sets
    keys,       \* the cloud's key: in the settings, and in the credential store
    forgetting, \* a PUT or DELETE of the stored key has written, and not yet cleared the clients
    clients,    \* _clients: the key a client of the cloud was built with, by its model
    caller,     \* where each caller is, and what it has already read
    since,      \* history: what has changed since each caller began to read
    strayed,    \* history: a selection overlapped a switch or another selection
    staleKey,   \* history: a key changed with no clients cleared after it
    issued,       \* the call that has just left, if one has
    moves

accessVars == <<dataMode, schemaOnly, fallback, assigned, selecting, keys, forgetting, clients, caller, since, strayed, staleKey, issued, moves>>

policyVars == <<dataMode, schemaOnly, fallback>>
choiceVars == <<assigned, selecting, strayed>>
keyVars == <<keys, forgetting, staleKey>>

Idle == [at |-> "idle", redact |-> FALSE, provider |-> Unset, model |-> Unset, mode |-> "hybrid", key |-> NoKey]
NoneSent == [at |-> "none"]
NoSelection == [provider |-> Unset, checked |-> FALSE]

AccessTypeOK ==
    /\ dataMode \in Plans
    /\ fallback \in Places
    /\ {schemaOnly, forgetting, strayed, staleKey} \subseteq BOOLEAN
    /\ assigned \in [provider : Places \cup {Unset}, model : Places \cup {Unset}]
    /\ selecting \in [provider : Places \cup {Unset}, checked : BOOLEAN]
    /\ keys \in [settings : KeyVersions, stored : KeyVersions]
    /\ DOMAIN clients \subseteq Places
    /\ \A c \in Callers :
        /\ caller[c].at \in {"idle", "prompted", "captured", "redacted", "asking", "resolved"}
        /\ caller[c].key \in KeyVersions
    /\ since \in [Callers -> SUBSET {"mode", "policy", "choice", "key"}]
    /\ moves \in 0..MaxMoves

-----------------------------------------------------------------------------
(* Resolution.  A model is named after the provider that has it. *)

Resolved(p) == IF p = Unset THEN fallback ELSE p

\* check_provider.
Permits(mode, p) == (mode = "local-only" => p = "here") /\ (mode = "cloud-only" => p = "cloud")

\* should_redact.
Redacts(p) == p = "cloud" /\ (dataMode = "local-only" \/ schemaOnly)

\* provider_api_key: the environment first, then the local store.
KeyOf(p) == IF p = "here" THEN NoKey ELSE IF keys.settings # NoKey THEN keys.settings ELSE keys.stored

\* model_registry.suggest: a model of the provider, or none when nothing is found.
Suggested(p) == {p, Unset}

AccessInit ==
    /\ dataMode \in Plans /\ schemaOnly = TRUE
    /\ fallback \in {p \in Places : Permits(dataMode, p)}
    /\ assigned = [provider |-> Unset, model |-> Unset]
    /\ selecting = NoSelection
    /\ keys = [settings |-> NoKey, stored |-> 1]
    /\ forgetting = FALSE /\ strayed = FALSE /\ staleKey = FALSE
    /\ clients = << >>
    /\ caller = [c \in Callers |-> Idle]
    /\ since = [c \in Callers |-> {}]
    /\ issued = NoneSent
    /\ moves = 0

Unsent == issued' = NoneSent

\* A change of a kind: those that are in the midst of a call have read what was before.
Touch(kind) == since' = [c \in Callers |-> IF caller[c].at = "idle" THEN {} ELSE since[c] \cup {kind}]

Move(kind) ==
    /\ moves < MaxMoves
    /\ moves' = moves + 1
    /\ Touch(kind)
    /\ Unsent

-----------------------------------------------------------------------------
(* Changes of the settings, each a handler of the event loop. *)

\* Faulty: the provider is dropped, and its model is kept.
SwitchPlanHalf(mode) ==
    LET dropped == assigned.provider # Unset /\ ~Permits(mode, assigned.provider)
    IN  /\ Move("mode")
        /\ dataMode' = mode
        /\ assigned' = IF dropped THEN [assigned EXCEPT !.provider = Unset] ELSE assigned
        /\ strayed' = (strayed \/ selecting # NoSelection)
        /\ UNCHANGED <<schemaOnly, fallback, selecting, keyVars, clients, caller>>

\* A switch of the mode drops an assignment the new mode forbids.
SwitchPlan(mode) ==
    LET dropped == assigned.provider # Unset /\ ~Permits(mode, assigned.provider)
    IN  /\ Move("mode")
        /\ dataMode' = mode
        /\ assigned' = IF dropped THEN [provider |-> Unset, model |-> Unset] ELSE assigned
        /\ strayed' = (strayed \/ selecting # NoSelection)
        /\ UNCHANGED <<schemaOnly, fallback, selecting, keyVars, clients, caller>>

SetSchemaOnly ==
    /\ Move("policy")
    /\ schemaOnly' = ~schemaOnly
    /\ UNCHANGED <<dataMode, fallback, choiceVars, keyVars, clients, caller>>

\* PATCH /api/config of the default provider.
SetFallback(p) ==
    /\ p # fallback
    /\ Move("choice")
    /\ fallback' = p
    /\ UNCHANGED <<dataMode, schemaOnly, choiceVars, keyVars, clients, caller>>

\* A key that is not in force.
NewKeys == (1..2) \ {KeyOf("cloud")}

\* PATCH /api/config of the key: it goes to the settings and to the store, and the
\* clients built with the old one stay.
PatchKey ==
    /\ Move("key")
    /\ \E k \in NewKeys : keys' = [settings |-> k, stored |-> k]
    /\ staleKey' = TRUE
    /\ UNCHANGED <<policyVars, choiceVars, forgetting, clients, caller>>

\* PUT or DELETE of the stored key: written on a thread, and then the clients go.
StoreKey(removed) ==
    /\ ~forgetting
    /\ Move("key")
    /\ \E k \in IF removed THEN {NoKey} ELSE NewKeys : keys' = [keys EXCEPT !.stored = k]
    /\ forgetting' = TRUE
    /\ UNCHANGED <<policyVars, choiceVars, staleKey, clients, caller>>

\* clear_cache, unless a thread has resolved with the old key and builds its client after it.
Cleared ==
    /\ clients' = << >>
    /\ staleKey' = (caller["cleaning"].at = "resolved" /\ caller["cleaning"].key # KeyOf(caller["cleaning"].provider))

KeyStored ==
    /\ forgetting
    /\ forgetting' = FALSE
    /\ Cleared /\ Unsent
    /\ UNCHANGED <<policyVars, choiceVars, keys, caller, since, moves>>

\* POST /api/models: refused when the mode forbids the provider.  With a model it is set
\* at once; without one, or behind another role that came without one, it waits.
Select(p) ==
    /\ Permits(dataMode, p) /\ selecting = NoSelection
    /\ Move("choice")
    /\ \/ /\ assigned' = [provider |-> p, model |-> p]
          /\ strayed' = FALSE
          /\ Cleared
          /\ UNCHANGED selecting
       \/ /\ assigned' = [assigned EXCEPT !.provider = p]
          /\ selecting' = [provider |-> p, checked |-> FALSE]
          /\ UNCHANGED <<strayed, clients, staleKey>>
       \/ /\ selecting' = [provider |-> p, checked |-> TRUE]
          /\ UNCHANGED <<assigned, strayed, clients, staleKey>>
    /\ UNCHANGED <<policyVars, keys, forgetting, caller>>

\* Another request that comes in between.
SelectBeside(p) ==
    /\ Permits(dataMode, p) /\ selecting # NoSelection
    /\ Move("choice")
    /\ assigned' = [provider |-> p, model |-> p]
    /\ strayed' = TRUE
    /\ Cleared
    /\ UNCHANGED <<policyVars, selecting, keys, forgetting, caller>>

\* The wait is over: what is left is set with no further check.
Selected ==
    /\ selecting # NoSelection
    /\ \E m \in Suggested(selecting.provider) :
        assigned' = IF selecting.checked
                    THEN [provider |-> selecting.provider, model |-> selecting.provider]
                    ELSE [assigned EXCEPT !.model = m]
    /\ selecting' = NoSelection
    /\ Touch("choice")
    /\ Cleared /\ Unsent
    /\ UNCHANGED <<policyVars, strayed, keys, forgetting, caller, moves>>

-----------------------------------------------------------------------------
(* Calls. *)

\* The rest of a call, from the arguments it is made with: refused by the mode, refused
\* for want of a model, or sent through the client of its key, which is built when there
\* is none yet.
SendWith(c, redact, p, model, key) ==
    LET used == IF p = "cloud" /\ model \in DOMAIN clients THEN clients[model] ELSE key
    IN  /\ clients' = IF p = "cloud" THEN [m \in DOMAIN clients \cup {model} |-> IF m = model THEN used ELSE clients[m]]
                       ELSE clients
        /\ issued' = [at |-> "sent", redacted |-> redact, provider |-> p, model |-> model, key |-> used, moved |-> since[c],
                    permitted |-> Permits(dataMode, p), secret |-> Redacts(p), current |-> KeyOf(p),
                    straying |-> strayed \/ selecting # NoSelection, stale |-> staleKey \/ forgetting]

GivesUp == UNCHANGED clients /\ Unsent

\* resolve and get_client with nothing in between.
Call(c, redact, provider, model, mode) ==
    LET p == Resolved(provider)
    IN  \E m \in IF model = Unset THEN Suggested(p) ELSE {model} :
            IF Permits(mode, p) /\ m # Unset THEN SendWith(c, redact, p, m, KeyOf(p)) ELSE GivesUp

\* What a turn captures at its beginning, state.manager_model: what is configured, or what
\* the provider of that moment has.
Captures == IF assigned.model = Unset THEN Suggested(Resolved(assigned.provider)) ELSE {assigned.model}

\* A turn of conversation decides what to leave out, and then waits for its model's name.
Converse ==
    /\ caller["turn"].at = "idle" /\ Unsent
    /\ \E m \in Captures : caller' = [caller EXCEPT !["turn"] = [Idle EXCEPT
            !.at = "prompted", !.redact = Redacts(Resolved(assigned.provider)), !.model = m]]
    /\ since' = [since EXCEPT !["turn"] = {}]
    /\ UNCHANGED <<policyVars, choiceVars, keyVars, clients, moves>>

\* A turn of analysis takes its model first; each of its prompts is made and sent at once.
Analyse ==
    /\ caller["turn"].at = "idle" /\ Unsent
    /\ \E m \in Captures : caller' = [caller EXCEPT !["turn"] = [Idle EXCEPT !.at = "captured", !.model = m]]
    /\ since' = [since EXCEPT !["turn"] = {}]
    /\ UNCHANGED <<policyVars, choiceVars, keyVars, clients, moves>>

\* Its name is captured, its provider is not.
ModelOfTurn == IF caller["turn"].model = Unset THEN assigned.model ELSE caller["turn"].model

TurnCalls ==
    /\ \/ /\ caller["turn"].at = "prompted"
          /\ Call("turn", caller["turn"].redact, assigned.provider, ModelOfTurn, dataMode)
          /\ caller' = [caller EXCEPT !["turn"] = Idle]
       \/ /\ caller["turn"].at = "captured"
          /\ Call("turn", Redacts(Resolved(assigned.provider)), assigned.provider, ModelOfTurn, dataMode)
          /\ UNCHANGED caller
    /\ UNCHANGED <<policyVars, choiceVars, keyVars, since, moves>>

TurnLeaves ==
    /\ caller["turn"].at = "captured" /\ Unsent
    /\ caller' = [caller EXCEPT !["turn"] = Idle]
    /\ UNCHANGED <<policyVars, choiceVars, keyVars, clients, since, moves>>

\* The cleaning thread reads the provider, decides what to leave out, reads the arguments
\* of the call, resolves them and gets its client, each at its own time.
CleaningReads ==
    /\ caller["cleaning"].at = "idle" /\ Unsent
    /\ caller' = [caller EXCEPT !["cleaning"] = [Idle EXCEPT !.at = "prompted", !.provider = Resolved(assigned.provider)]]
    /\ since' = [since EXCEPT !["cleaning"] = {}]
    /\ UNCHANGED <<policyVars, choiceVars, keyVars, clients, moves>>

CleaningRedacts ==
    /\ caller["cleaning"].at = "prompted" /\ Unsent
    /\ caller' = [caller EXCEPT !["cleaning"].at = "redacted",
                                !["cleaning"].redact = Redacts(caller["cleaning"].provider)]
    /\ UNCHANGED <<policyVars, choiceVars, keyVars, clients, since, moves>>

CleaningAsks ==
    /\ caller["cleaning"].at = "redacted" /\ Unsent
    /\ caller' = [caller EXCEPT !["cleaning"] =
                      [@ EXCEPT !.at = "asking", !.provider = assigned.provider, !.model = assigned.model, !.mode = dataMode]]
    /\ UNCHANGED <<policyVars, choiceVars, keyVars, clients, since, moves>>

CleaningResolves ==
    /\ caller["cleaning"].at = "asking" /\ Unsent
    /\ LET p == Resolved(caller["cleaning"].provider)
           model == caller["cleaning"].model
       IN  \E m \in IF model = Unset THEN Suggested(p) ELSE {model} :
               caller' = [caller EXCEPT !["cleaning"] =
                   IF Permits(caller["cleaning"].mode, p) /\ m # Unset
                   THEN [@ EXCEPT !.at = "resolved", !.provider = p, !.model = m, !.key = KeyOf(p)]
                   ELSE Idle]
    /\ UNCHANGED <<policyVars, choiceVars, keyVars, clients, since, moves>>

CleaningCalls ==
    /\ caller["cleaning"].at = "resolved"
    /\ LET me == caller["cleaning"] IN SendWith("cleaning", me.redact, me.provider, me.model, me.key)
    /\ caller' = [caller EXCEPT !["cleaning"] = Idle]
    /\ UNCHANGED <<policyVars, choiceVars, keyVars, since, moves>>

AccessNext ==
    \/ \E mode \in Plans : SwitchPlan(mode)
    \/ SetSchemaOnly \/ PatchKey \/ KeyStored \/ Selected
    \/ \E removed \in BOOLEAN : StoreKey(removed)
    \/ \E p \in Places : SetFallback(p) \/ Select(p) \/ SelectBeside(p)
    \/ Converse \/ Analyse \/ TurnCalls \/ TurnLeaves
    \/ CleaningReads \/ CleaningRedacts \/ CleaningAsks \/ CleaningResolves \/ CleaningCalls

AccessSpec == AccessInit /\ [][AccessNext]_accessVars

-----------------------------------------------------------------------------
(* What should hold. *)

\* The session's own choice never names a provider the mode forbids, nor a model of
\* another provider, unless a selection overlapped a switch or another selection
\* (meta.py 660-678, 925-956).
ChoiceFits ==
    selecting = NoSelection /\ ~strayed =>
        /\ assigned.provider # Unset => Permits(dataMode, assigned.provider)
        /\ assigned.model # Unset => assigned.model = assigned.provider

\* A call that leaves goes where the mode allows, without the values the policy withholds,
\* to a model its provider has, with the key in force, as far as none of these changed
\* while the call was being made.
CallFits ==
    issued # NoneSent =>
        /\ issued.permitted \/ "mode" \in issued.moved
        /\ issued.secret => issued.redacted \/ issued.moved \cap {"mode", "policy", "choice"} # {}
        /\ issued.model = issued.provider \/ issued.straying \/ issued.moved \cap {"mode", "choice"} # {}
        /\ issued.key = issued.current \/ issued.stale \/ "key" \in issued.moved

AccessHolds == ChoiceFits /\ CallFits
-----------------------------------------------------------------------------
(***************************************************************************)
(* What the turns of a session cost (core/llm/usage.py).  Every call of a  *)
(* model that ends well is booked under an id, the session's own or that   *)
(* of a parallel branch.  A turn takes a snapshot of the session's bucket  *)
(* as it begins, and bills at its end what has come in since.  Beside it   *)
(* runs the cleaning of an upload, which books under the same id, and the  *)
(* session may be evicted at any time.  The amounts are counted in calls.  *)
(***************************************************************************)

CONSTANTS
    MaxSpent,       \* bound: calls of models in a behaviour
    MaxIterations,  \* bound: iterations of a turn
    MaxBills        \* bound: turns of the session

ASSUME SpendingAssumption == {MaxSpent, MaxIterations, MaxBills} \subseteq Nat

Main == <<0, 0>>  \* the id of the session
BranchId(i, b) == <<i, b>>  \* {session}::sub:parallel-{i}-sub{b}
Kids == (1..MaxIterations) \X (1..2)
Buckets == {Main} \cup Kids

VARIABLES
    ledger,    \* UsageLedger._sessions: the buckets there are, with what is in them
    spender,   \* the turn: its phase, iteration, snapshot, branches (at work, done) and subagent_ids
    known,     \* session._subagent_ids
    evicted,   \* the session was disposed of
    scrubbing, \* a cleaning waits for its model
    bill,      \* state.usage of the turn
    really,    \* history of the turn: its calls, a cleaning's, what its branches' buckets held before
    lost,      \* history: a turn or a cleaning ran as the session was evicted
    calls, turns

spendVars == <<ledger, spender, known, evicted, scrubbing, bill, really, lost, calls, turns>>

NoBill == -1

SpendTypeOK ==
    /\ DOMAIN ledger \subseteq Buckets
    /\ \A id \in DOMAIN ledger : ledger[id] \in 1..MaxSpent
    /\ spender.phase \in {"idle", "working", "fanned out"}
    /\ spender.iteration \in 0..MaxIterations
    /\ spender.snapshot \in 0..MaxSpent
    /\ spender.working \cup spender.done \subseteq Kids
    /\ spender.ids \subseteq Kids
    /\ known \subseteq Kids
    /\ {evicted, scrubbing, lost} \subseteq BOOLEAN
    /\ bill \in {NoBill} \cup 0..MaxSpent
    /\ really \in [own : 0..MaxSpent, cleaning : 0..MaxSpent, before : 0..MaxSpent]
    /\ calls \in 0..MaxSpent
    /\ turns \in 0..MaxBills

NoTurn == [phase |-> "idle", iteration |-> 0, snapshot |-> 0, working |-> {}, done |-> {}, ids |-> {}]
Nothing == [own |-> 0, cleaning |-> 0, before |-> 0]

SpendInit ==
    /\ ledger = << >>
    /\ spender = NoTurn
    /\ known = {}
    /\ evicted = FALSE /\ scrubbing = FALSE /\ lost = FALSE
    /\ bill = NoBill
    /\ really = Nothing
    /\ calls = 0 /\ turns = 0

Held(id) == IF id \in DOMAIN ledger THEN ledger[id] ELSE 0
Combined(ids) == SumFunctionOnSet([id \in Buckets |-> Held(id)], ids)

\* Faulty: a bucket that shrank below its snapshot counts against the bill.
SinceUnbounded(ids) == Combined(ids) - spender.snapshot

\* totals_since: what some ids hold beyond the snapshot.
Since(ids) == LET more == Combined(ids) - spender.snapshot IN IF more > 0 THEN more ELSE 0

\* record: one call more under an id, whose bucket appears when it is the first.
Book(id) ==
    /\ calls < MaxSpent
    /\ calls' = calls + 1
    /\ ledger' = [b \in DOMAIN ledger \cup {id} |-> IF b = id THEN Held(id) + 1 ELSE ledger[b]]

BeginBill ==
    /\ spender.phase = "idle" /\ ~evicted /\ turns < MaxBills
    /\ turns' = turns + 1
    /\ spender' = [NoTurn EXCEPT !.phase = "working", !.snapshot = Combined({Main})]
    /\ bill' = NoBill
    /\ really' = Nothing
    /\ UNCHANGED <<ledger, known, evicted, scrubbing, lost, calls>>

\* A call of the turn itself that the model answered to its end.  One that fails, or
\* a stream that is cut, books nothing.
MainCall ==
    /\ spender.phase = "working"
    /\ Book(Main)
    /\ really' = [really EXCEPT !.own = @ + 1]
    /\ UNCHANGED <<spender, known, evicted, scrubbing, bill, lost, turns>>

Iterate ==
    /\ spender.phase = "working" /\ spender.iteration < MaxIterations
    /\ spender' = [spender EXCEPT !.iteration = @ + 1]
    /\ UNCHANGED <<ledger, known, evicted, scrubbing, bill, really, lost, calls, turns>>

Branches == {BranchId(spender.iteration, b) : b \in 1..2}

\* The parallel action of an iteration: the ids of its branches are minted and kept by
\* the session, and the branches begin.  An iteration has one action.
FanOut ==
    /\ spender.phase = "working" /\ spender.iteration > 0
    /\ Branches \cap spender.ids = {}
    /\ known' = known \cup Branches
    /\ spender' = [spender EXCEPT !.phase = "fanned out", !.working = Branches, !.done = {}]
    /\ really' = [really EXCEPT !.before = @ + Combined(Branches)]
    /\ UNCHANGED <<ledger, evicted, scrubbing, bill, lost, calls, turns>>

BranchCall(id) ==
    /\ id \in spender.working
    /\ Book(id)
    /\ really' = [really EXCEPT !.own = @ + 1]
    /\ UNCHANGED <<spender, known, evicted, scrubbing, bill, lost, turns>>

BranchEnds(id) ==
    /\ id \in spender.working
    /\ spender' = [spender EXCEPT !.working = @ \ {id}, !.done = @ \cup {id}]
    /\ UNCHANGED <<ledger, known, evicted, scrubbing, bill, really, lost, calls, turns>>

\* Faulty: a branch that failed or was cut off is folded back without its id.
FoldBackFinished ==
    /\ spender.phase = "fanned out"
    /\ spender' = [spender EXCEPT !.phase = "working", !.working = {}, !.done = {}, !.ids = @ \cup spender.done]
    /\ UNCHANGED <<ledger, known, evicted, scrubbing, bill, really, lost, calls, turns>>

\* The branches are folded back: all are done, or those that are not were cancelled at
\* the deadline.
FoldBack ==
    /\ spender.phase = "fanned out"
    /\ spender' = [spender EXCEPT !.phase = "working", !.working = {}, !.done = {},
                                  !.ids = @ \cup spender.working \cup spender.done]
    /\ UNCHANGED <<ledger, known, evicted, scrubbing, bill, really, lost, calls, turns>>

\* The turn answers and is billed.
Bill ==
    /\ spender.phase = "working"
    /\ bill' = Since({Main} \cup spender.ids)
    /\ spender' = NoTurn
    /\ UNCHANGED <<ledger, known, evicted, scrubbing, really, lost, calls, turns>>

\* It is cancelled, fails or stops at a question: no bill.
CutOff ==
    /\ spender.phase # "idle"
    /\ spender' = NoTurn
    /\ UNCHANGED <<ledger, known, evicted, scrubbing, bill, really, lost, calls, turns>>

BeginScrub ==
    /\ ~scrubbing /\ ~evicted
    /\ scrubbing' = TRUE
    /\ UNCHANGED <<ledger, spender, known, evicted, bill, really, lost, calls, turns>>

\* The cleaning's model has answered, or has not.
Scrubbed ==
    /\ scrubbing
    /\ scrubbing' = FALSE
    /\ \/ /\ Book(Main)
          /\ really' = [really EXCEPT !.cleaning = @ + (IF spender.phase = "idle" THEN 0 ELSE 1)]
       \/ UNCHANGED <<ledger, calls, really>>
    /\ UNCHANGED <<spender, known, evicted, bill, lost, turns>>

\* dispose: each branch the session knows is disposed of, then the session itself.
Evict ==
    /\ ~evicted
    /\ evicted' = TRUE
    /\ known' = {}
    /\ ledger' = [id \in DOMAIN ledger \ ({Main} \cup known) |-> ledger[id]]
    /\ lost' = (spender.phase # "idle" \/ scrubbing)
    /\ UNCHANGED <<spender, scrubbing, bill, really, calls, turns>>

SpendNext ==
    \/ BeginBill \/ MainCall \/ Iterate \/ FanOut \/ FoldBack \/ Bill \/ CutOff
    \/ \E id \in Kids : BranchCall(id) \/ BranchEnds(id)
    \/ BeginScrub \/ Scrubbed \/ Evict

SpendSpec == SpendInit /\ [][SpendNext]_spendVars

-----------------------------------------------------------------------------
(* What should hold. *)

\* A bill is what the turn spent, in all its branches, finished or not, and nothing
\* twice.  Two amounts come on top: what a cleaning spent meanwhile, and what
\* earlier turns spent in branches of the same ids, since a later turn that
\* fans out at the same iteration uses their buckets again (usage.py 289-292).
BillIsExact ==
    bill # NoBill /\ ~lost => bill = really.own + really.cleaning + really.before

\* Once the session is gone, nothing of it stays in the ledger, branches of turns
\* that were cut off included, unless something of it was still running.
LedgerIsEmptied == evicted /\ ~lost => ledger = << >>

\* A branch that may spend is known to the session, so that disposal finds it.
BranchesAreKnown == ~evicted => spender.working \cup spender.ids \subseteq known

SpendingHolds == BillIsExact /\ LedgerIsEmptied /\ BranchesAreKnown
=============================================================================
