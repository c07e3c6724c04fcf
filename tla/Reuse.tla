-------------------------------- MODULE Reuse -------------------------------
(***************************************************************************)
(* Code that is replayed for a question asked before: SemanticCache        *)
(* (core/semantic_cache.py) over the rows of the database and the cache of *)
(* the process (core/infra/cache.py), and what the agent asks of it when a *)
(* turn begins and gives it when the turn ends.                            *)
(*                                                                         *)
(* A lookup and an addition are each one step of the event loop; a turn    *)
(* lies between them, and the data and the mode of its session may change  *)
(* in it.  Two questions are near when their vectors score above the       *)
(* threshold.  An entry of the cache may expire at any time.               *)
(***************************************************************************)
EXTENDS Naturals, Sequences, FiniteSets, SequencesExt

CONSTANTS
    Tabs,       \* sessions, one turn at a time in each
    Wordings,   \* questions
    Near,       \* pairs of them: reflexive and symmetric, not transitive
    Worlds,     \* what a scope tells apart: data, mode, policy; the flow goes with the question
    HotRoom,    \* InProcessCache.capacity
    RowRoom,    \* rows of the database
    MaxTurns,   \* bound: turns
    MaxSwaps,   \* bound: changes of the data or the mode of a session
    MaxUnsaved  \* bound: writes of the database that fail

ASSUME CodeCacheAssumption ==
    /\ {HotRoom, RowRoom} \subseteq Nat \ {0} /\ {MaxTurns, MaxSwaps, MaxUnsaved} \subseteq Nat
    /\ Wordings # {} /\ Worlds # {} /\ Near \subseteq Wordings \X Wordings
    /\ \A q \in Wordings : <<q, q>> \in Near
    /\ \A p \in Near : <<p[2], p[1]>> \in Near

VARIABLES
    rows,     \* semantic_cache, by rowid
    hot,      \* the cache of the process, least recently used first
    turn,     \* per session: where its turn is, its question and its code
    world,    \* per session: its data, mode and policy
    turns, swaps,
    finished, \* history: with which code a turn ended well, for what and where
    unsaved   \* history: the keys whose last row was not written

cacheVars == <<rows, hot, turn, world, turns, swaps, finished, unsaved>>

\* _exact_key, and the primary key of a row: the question and the columns with the scope.
Key(q, scope) == <<q, scope>>
Keys == Wordings \X Worlds
Solution == [by : 0..MaxTurns, written : Worlds]  \* code, by the turn that wrote it
NoCode == [by |-> 0, written |-> CHOOSE w \in Worlds : TRUE]
Entry == [key : Keys, code : Solution]

CacheTypeOK ==
    /\ rows \in Seq(Entry) /\ hot \in Seq(Entry)
    /\ \A s \in Tabs :
        /\ turn[s].at \in {"idle", "writing", "running"} /\ turn[s].replays \in BOOLEAN
        /\ turn[s].asked \in Wordings /\ turn[s].code \in Solution /\ turn[s].in \in Worlds
    /\ world \in [Tabs -> Worlds]
    /\ turns \in 0..MaxTurns /\ swaps \in 0..MaxSwaps
    /\ unsaved \subseteq Keys

NoTurn ==
    [at |-> "idle", n |-> 0, asked |-> CHOOSE q \in Wordings : TRUE, code |-> NoCode,
     replays |-> FALSE, in |-> CHOOSE w \in Worlds : TRUE]

CacheInit ==
    /\ rows = <<>> /\ hot = <<>>
    /\ turn = [s \in Tabs |-> NoTurn]
    /\ world \in [Tabs -> Worlds]
    /\ turns = 0 /\ swaps = 0 /\ finished = {} /\ unsaved = {}

-----------------------------------------------------------------------------
(* The two tiers. *)

With(tier, key) == {e \in Range(tier) : e.key = key}
Positions(tier, key) == {i \in DOMAIN tier : tier[i].key = key}  \* one at most (TiersAreBounded)
Without(tier, key) ==
    IF Positions(tier, key) = {} THEN tier ELSE RemoveAt(tier, CHOOSE i \in Positions(tier, key) : TRUE)
Newest(tier, room) == IF Len(tier) <= room THEN tier ELSE SubSeq(tier, Len(tier) - room + 1, Len(tier))

\* InProcessCache.get and set: what is read or written is the most recent.
Put(tier, key, code, room) == Newest(Append(Without(tier, key), [key |-> key, code |-> code]), room)

\* The rows whose question scores best: the question itself, or what is near it.
Best(q, scope) ==
    LET same == With(rows, Key(q, scope)) IN
    IF same # {} THEN same
    ELSE {e \in Range(rows) : e.key[2] = scope /\ <<e.key[1], q>> \in Near}

-----------------------------------------------------------------------------
(* Turns. *)

Begins(s, q, code) ==
    turn' = [turn EXCEPT ![s] =
        [at |-> IF code = NoCode THEN "writing" ELSE "running", n |-> turns + 1,
         asked |-> q, code |-> code, replays |-> code # NoCode, in |-> world[s]]]

\* _orient: the cache of the process, then the rows, of which what is found is copied.
\* A turn whose plan must be seen first does not look.
BeginTurn(s, q) ==
    LET key == Key(q, world[s]) IN
    /\ turn[s].at = "idle" /\ turns < MaxTurns /\ turns' = turns + 1
    /\ \/ Begins(s, q, NoCode) /\ UNCHANGED hot  \* a gated plan
       \/ \E e \in With(hot, key) : Begins(s, q, e.code) /\ hot' = Put(hot, key, e.code, HotRoom)
       \/ /\ With(hot, key) = {}
          /\ \/ Best(q, world[s]) = {} /\ Begins(s, q, NoCode) /\ UNCHANGED hot
             \/ \E e \in Best(q, world[s]) : Begins(s, q, e.code) /\ hot' = Put(hot, key, e.code, HotRoom)
    /\ UNCHANGED <<rows, world, swaps, finished, unsaved>>

Write(s) ==
    /\ turn[s].at = "writing"
    /\ turn' = [turn EXCEPT ![s].at = "running", ![s].code = [by |-> turn[s].n, written |-> world[s]], ![s].replays = FALSE]
    /\ UNCHANGED <<rows, hot, world, turns, swaps, finished, unsaved>>

\* Code that fails is written again, that of the cache too.
CodeFails(s) ==
    /\ turn[s].at = "running"
    /\ turn' = [turn EXCEPT ![s].at = "writing", ![s].replays = FALSE]
    /\ UNCHANGED <<rows, hot, world, turns, swaps, finished, unsaved>>

\* _finalize, after code that ran: the solution is added under what the session is in by now.
\* A row that is not written is not noticed.
EndWell(s) ==
    LET key == Key(turn[s].asked, world[s])
        code == turn[s].code
    IN
    /\ turn[s].at = "running"
    /\ turn' = [turn EXCEPT ![s] = NoTurn]
    /\ \/ /\ rows' = Put(rows, key, code, RowRoom) /\ unsaved' = unsaved \ {key}
       \/ /\ Cardinality(unsaved) < MaxUnsaved /\ unsaved' = unsaved \cup {key} /\ UNCHANGED rows
    /\ hot' = Put(hot, key, code, HotRoom)
    /\ finished' = finished \cup {[code |-> code, asked |-> turn[s].asked, in |-> world[s]]}
    /\ UNCHANGED <<world, turns, swaps>>

\* A turn that is blocked, fails or is cancelled keeps nothing.
EndWithout(s) ==
    /\ turn[s].at # "idle" /\ turn' = [turn EXCEPT ![s] = NoTurn]
    /\ UNCHANGED <<rows, hot, world, turns, swaps, finished, unsaved>>

\* The data is replaced, or the mode or a policy changed.
Change(s) ==
    /\ swaps < MaxSwaps /\ swaps' = swaps + 1
    /\ \E w \in Worlds \ {world[s]} : world' = [world EXCEPT ![s] = w]
    /\ UNCHANGED <<rows, hot, turn, turns, finished, unsaved>>

Expire ==
    /\ \E e \in Range(hot) : hot' = Without(hot, e.key)
    /\ UNCHANGED <<rows, turn, world, turns, swaps, finished, unsaved>>

\* What is in the process is gone.
ProcessRestarts ==
    /\ hot # <<>> /\ hot' = <<>> /\ turn' = [s \in Tabs |-> NoTurn]
    /\ UNCHANGED <<rows, world, turns, swaps, finished, unsaved>>

CacheNext ==
    \/ \E s \in Tabs :
        \/ \E q \in Wordings : BeginTurn(s, q)
        \/ Write(s) \/ CodeFails(s) \/ EndWell(s) \/ EndWithout(s) \/ Change(s)
    \/ Expire \/ ProcessRestarts

CacheSpec == CacheInit /\ [][CacheNext]_cacheVars

-----------------------------------------------------------------------------
(* Properties. *)

\* Code that a turn replays is that with which a turn ended well, in the data, mode and policy that
\* this one began in and for a question near to its own: what the session came to between the two,
\* what another session keeps and what a copy of a copy was made from never reach it.
ReplaysItsOwn ==
    \A s \in Tabs : turn[s].replays =>
        \E f \in finished :
            f.code = turn[s].code /\ f.in = turn[s].in /\ <<f.asked, turn[s].asked>> \in Near

\* Where both tiers have a solution of one question in one scope it is the same one, unless the
\* database has missed the last.
TiersAgree ==
    \A e \in Range(hot), r \in Range(rows) : e.key = r.key /\ e.key \notin unsaved => e.code = r.code

\* A question has one solution in a scope and a tier, and neither tier outgrows its room.
TiersAreBounded ==
    /\ Len(hot) <= HotRoom /\ Len(rows) <= RowRoom
    /\ \A tier \in {hot, rows} : \A i, j \in DOMAIN tier : tier[i].key = tier[j].key => i = j

SolutionsHold == ReplaysItsOwn /\ TiersAgree /\ TiersAreBounded
-----------------------------------------------------------------------------
(***************************************************************************)
(* What a session keeps of one turn for the next: the understanding of its *)
(* tables, the verdicts of recomputations and the findings of validators,  *)
(* in the three _BoundedCache of core/session.py, as                       *)
(* core/agent/orchestrator.py fills and reads them.                        *)
(*                                                                         *)
(* A turn looks at the tables at several moments, and one cleaning may     *)
(* land between two of them.  A value is what it was computed from.        *)
(***************************************************************************)

CONSTANTS
    Sheets,    \* tables that may be loaded
    Contents,  \* what a table may contain; its content_hash
    HasColumn, \* per table: the targets that a question may name and it has
    TimeOf,    \* per table: resolve_time_column of its catalog
    Programs,  \* per program: the tables it reads by name, besides the active one
    CacheRoom, \* _BoundedCache.limit
    MaxLookTurns, MaxWorked, MaxReplaced  \* bounds: turns, their programs, changes of the tables

ASSUME ReuseAssumption ==
    /\ CacheRoom \in Nat \ {0} /\ {MaxLookTurns, MaxWorked, MaxReplaced} \subseteq Nat
    /\ \A p \in DOMAIN Programs : Programs[p] \subseteq Sheets
    /\ "missing" \notin Contents

Missing == "missing"
Nothing == "none"
Targets == (UNION {HasColumn[t] : t \in Sheets}) \cup {Nothing}

VARIABLES
    sheet,    \* per table: what it contains, or that it is not loaded
    front,    \* active_dataset
    profiles, \* _understanding_cache, oldest first
    verdicts, \* _verification_cache
    reviews,  \* _validation_cache
    now,      \* the turn
    looks, worked, replaced

reuseVars == <<sheet, front, profiles, verdicts, reviews, now, looks, worked, replaced>>
keptVars == <<profiles, verdicts, reviews>>

Loaded == {t \in Sheets : sheet[t] # Missing}

ReuseTypeOK ==
    /\ sheet \in [Sheets -> Contents \cup {Missing}]
    /\ front \in Loaded
    /\ now.at \in {"idle", "coding", "ran", "recomputing", "judged"}
    /\ now.ask \in Targets /\ {now.code, now.best} \subseteq DOMAIN Programs \cup {Nothing}
    /\ now.status \in {Nothing, "verified", "mismatch", "inconclusive"} /\ now.moved \in BOOLEAN
    /\ looks \in 0..MaxLookTurns /\ worked \in 0..MaxWorked /\ replaced \in 0..MaxReplaced

\* What a turn has: its question, the understanding, its code with the key and the verdict of the
\* recomputation, the code it would go back to, and, as history, whether a cleaning came and what was taken from a cache.
AtRest ==
    [at |-> "idle", ask |-> Nothing, profile |-> <<>>, code |-> Nothing, best |-> Nothing, key |-> <<>>,
     status |-> Nothing, moved |-> FALSE, verdict |-> <<>>, review |-> <<>>]

ReuseInit ==
    /\ sheet \in [Sheets -> Contents \cup {Missing}] /\ front \in Loaded
    /\ profiles = <<>> /\ verdicts = <<>> /\ reviews = <<>>
    /\ now = AtRest /\ looks = 0 /\ worked = 0 /\ replaced = 0

-----------------------------------------------------------------------------
(* The caches and their keys. *)

\* What is kept under a key, as the turn holds it: of one value at most (CachesAreBounded).
Found(cache, key) == {<<cache[i].value>> : i \in {j \in DOMAIN cache : cache[j].key = key}}

\* What is new displaces the oldest; what is known stays where it is.
Keep(cache, key, value) ==
    LET fresh == [key |-> key, value |-> value] IN
    IF Found(cache, key) # {} THEN [i \in DOMAIN cache |-> IF cache[i].key = key THEN fresh ELSE cache[i]]
    ELSE Append(IF Len(cache) >= CacheRoom THEN Tail(cache) ELSE cache, fresh)

\* The target the question names, if the active table has it.
TargetOf(ask) == IF ask \in HasColumn[front] THEN ask ELSE Nothing

\* All tables with their contents, the target and the time column; not which table is active.
ProfileKey(ask) == <<sheet, TargetOf(ask), TimeOf[front]>>
Profile(ask) == [of |-> front, sheets |-> sheet, target |-> TargetOf(ask)]

\* The code and what the active table contains; not the other tables that the code may read.
VerdictKey(code) == <<code, sheet[front]>>
Seen(code) == [code |-> code, front |-> sheet[front], others |-> [t \in Programs[code] |-> sheet[t]]]

ReviewKey(code, status) == <<code, sheet[front], status>>

-----------------------------------------------------------------------------
(* A turn. *)

\* _ensure_understanding, once in a turn and before anything waits.
BeginLook(ask) ==
    LET hit == Found(profiles, ProfileKey(ask)) IN
    /\ now.at = "idle" /\ looks < MaxLookTurns /\ looks' = looks + 1
    /\ \E p \in IF hit # {} THEN hit ELSE {<<Profile(ask)>>} :
           now' = [AtRest EXCEPT !.at = "coding", !.ask = ask, !.profile = p]
    /\ profiles' = IF hit # {} THEN profiles ELSE Keep(profiles, ProfileKey(ask), Profile(ask))
    /\ UNCHANGED <<sheet, front, verdicts, reviews, worked, replaced>>

RunProgram(code) ==
    /\ now.at = "coding" /\ Programs[code] \subseteq Loaded
    /\ worked < MaxWorked /\ worked' = worked + 1
    /\ now' = [now EXCEPT !.at = "ran", !.code = code, !.review = <<>>]
    /\ UNCHANGED <<sheet, front, keptVars, looks, replaced>>

\* _verify: a known verdict is free; else a model is asked for a recomputation.
AskVerdict ==
    LET hit == Found(verdicts, VerdictKey(now.code)) IN
    /\ now.at = "ran"
    /\ \/ \E v \in hit : now' = [now EXCEPT !.at = "judged", !.status = v[1].status, !.verdict = v]
       \/ hit = {} /\ now' = [now EXCEPT !.at = "recomputing", !.key = VerdictKey(now.code)]
    /\ UNCHANGED <<sheet, front, keptVars, looks, worked, replaced>>

\* It runs on the tables as they are by now, and is kept under the key made before, if it says
\* something definite.  What is lost in a file that is gone is inconclusive.  After a mismatch
\* the turn goes back to the code that was verified last.
Recompute ==
    /\ now.at = "recomputing"
    /\ \E status \in {"inconclusive"} \cup IF Programs[now.code] \subseteq Loaded THEN {"verified", "mismatch"} ELSE {} :
        /\ now' = [now EXCEPT !.at = "judged", !.status = status,
                                !.best = IF status = "verified" THEN now.code ELSE @,
                                !.code = IF status = "mismatch" /\ now.best # Nothing THEN now.best ELSE @]
        /\ verdicts' = IF status = "inconclusive" THEN verdicts
                       ELSE Keep(verdicts, now.key, [status |-> status, on |-> Seen(now.code), moved |-> now.moved])
    /\ UNCHANGED <<sheet, front, profiles, reviews, looks, worked, replaced>>

\* _run_validators, and the confidence that asks for more work or is satisfied.
Validate ==
    LET key == ReviewKey(now.code, now.status)
        hit == Found(reviews, key)
        made == [on |-> Seen(now.code), status |-> now.status]
    IN
    /\ now.at = "judged"
    /\ reviews' = IF hit # {} THEN reviews ELSE Keep(reviews, key, made)
    /\ \/ \E v \in IF hit # {} THEN hit ELSE {<<>>} :
              now' = [now EXCEPT !.at = "coding", !.key = <<>>, !.verdict = <<>>, !.status = Nothing, !.review = v]
       \/ now' = AtRest
    /\ UNCHANGED <<sheet, front, profiles, verdicts, looks, worked, replaced>>

\* Not verified, blocked, failed or cancelled.
LeaveTurn ==
    /\ now.at \in {"coding", "ran", "recomputing"} /\ now' = AtRest
    /\ UNCHANGED <<sheet, front, keptVars, looks, worked, replaced>>

-----------------------------------------------------------------------------
(* The tables: changed between turns, but for a cleaning. *)

Altered == replaced < MaxReplaced /\ replaced' = replaced + 1 /\ UNCHANGED <<keptVars, looks, worked>>

\* add_dataset: what is loaded becomes active.  Only a cleaning that was begun before the turn
\* does so under it.
LoadSheet(t) ==
    /\ Altered
    /\ \E c \in Contents : sheet' = [sheet EXCEPT ![t] = c]
    /\ front' = t /\ now' = [now EXCEPT !.moved = @ \/ now.at # "idle"]

ActivateSheet(t) == now.at = "idle" /\ t \in Loaded \ {front} /\ Altered /\ front' = t /\ UNCHANGED <<sheet, now>>

RemoveSheet(t) ==
    /\ now.at = "idle" /\ t \in Loaded /\ Loaded # {t} /\ Altered
    /\ sheet' = [sheet EXCEPT ![t] = Missing]
    /\ IF front = t THEN front' \in Loaded \ {t} ELSE UNCHANGED front
    /\ UNCHANGED now

ReuseNext ==
    \/ \E ask \in Targets : BeginLook(ask)
    \/ \E code \in DOMAIN Programs : RunProgram(code)
    \/ AskVerdict \/ Recompute \/ Validate \/ LeaveTurn
    \/ \E t \in Sheets : LoadSheet(t) \/ ActivateSheet(t) \/ RemoveSheet(t)

ReuseSpec == ReuseInit /\ [][ReuseNext]_reuseVars

-----------------------------------------------------------------------------
(* Properties. *)

\* The understanding a turn works with is that of the tables as they are and of the target it asks
\* for, whatever was loaded, replaced, removed and restored since it was made; and, where one table
\* is loaded, of that one.  A cleaning that lands under the turn is left out.
ProfileIsCurrent ==
    now.profile # <<>> /\ ~now.moved =>
        /\ now.profile[1].sheets = sheet /\ now.profile[1].target = TargetOf(now.ask)
        /\ now.profile[1].of = front \/ Loaded # {front}

\* With several tables it is also that of the one which is active.  Not so: see the README.
ProfileIsOfTheActive == now.profile # <<>> /\ ~now.moved => now.profile[1].of = front

\* A verdict that a turn takes over was made of the same code, by a run on the active table as it
\* is; so of the same data, if the code reads no other.  A verdict is left out that a cleaning came
\* between its key and its run, or has come since.
VerdictIsCurrent ==
    now.verdict # <<>> /\ ~now.moved /\ ~now.verdict[1].moved =>
        now.verdict[1].on.code = now.code /\ now.verdict[1].on.front = sheet[front]

\* The same of the tables that the code reads by name.  Not so: see the README.
VerdictIsOfTheseTables ==
    now.verdict # <<>> /\ ~now.moved /\ ~now.verdict[1].moved => now.verdict[1].on = Seen(now.code)

\* Findings that are taken over were made of the same code over the same active table.
ReviewIsCurrent ==
    now.review # <<>> /\ ~now.moved /\ now.at = "coding" =>
        now.review[1].on.code = now.code /\ now.review[1].on.front = sheet[front]

\* No cache outgrows its room or has two values of one key.
WellKept(cache) == Len(cache) <= CacheRoom /\ \A i, j \in DOMAIN cache : cache[i].key = cache[j].key => i = j
CachesAreBounded == WellKept(profiles) /\ WellKept(verdicts) /\ WellKept(reviews)

ReuseHolds == ProfileIsCurrent /\ VerdictIsCurrent /\ ReviewIsCurrent /\ CachesAreBounded
=============================================================================
